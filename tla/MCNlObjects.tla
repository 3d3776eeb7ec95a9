---------------------------- MODULE MCNlObjects ----------------------------
(***************************************************************************)
(* An instance of NlObjects for TLC.  Objects and keys are                 *)
(* interchangeable; one cache has a hash table and one has none.           *)
(***************************************************************************)
EXTENDS NlObjects, TLC

Symmetry == Permutations(Objects) \cup Permutations(Keys)
=============================================================================

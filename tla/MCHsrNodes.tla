----------------------------- MODULE MCHsrNodes -----------------------------
(***************************************************************************)
(* An instance of HsrNodes for TLC.  Names and addresses are               *)
(* interchangeable; indexes are not.                                       *)
(***************************************************************************)
EXTENDS HsrNodes, TLC

Symmetry == Permutations(Names) \cup Permutations(Macs)
=============================================================================

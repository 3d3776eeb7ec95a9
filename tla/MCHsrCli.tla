------------------------------ MODULE MCHsrCli ------------------------------
(***************************************************************************)
(* Two sessions, which have nothing of their own but what they are doing.  *)
(***************************************************************************)
EXTENDS HsrCli, TLC

Symmetry ==
  Permutations(Sessions) \cup Permutations(Names) \cup Permutations(Links)
=============================================================================

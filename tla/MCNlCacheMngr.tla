--------------------------- MODULE MCNlCacheMngr ---------------------------
(***************************************************************************)
(* An instance of NlCacheMngr for TLC: all objects are in the first group, *)
(* as links are when no bridge has ports, and the dumps of the other       *)
(* groups are empty.                                                       *)
(***************************************************************************)
EXTENDS NlCacheMngrInv

MCGroupOf == [k \in Keys |-> 1]
=============================================================================

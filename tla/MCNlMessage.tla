---------------------------- MODULE MCNlMessage ----------------------------
(***************************************************************************)
(* Two types, of which the second is that of containers that begin with a  *)
(* structure whose end is not aligned.                                     *)
(***************************************************************************)
EXTENDS NlMessageRead, TLC

MCTypes == {"plain", "options"}
MCRawLen == [t \in MCTypes |-> IF t = "options" THEN 3 ELSE 0]
=============================================================================

---------------------------- MODULE MCHsrDaemon ----------------------------
(***************************************************************************)
(* Instances of HsrDaemon for TLC.  Requests from confdb and the steps of  *)
(* the others (the kernel and its other users) are limited apart; the      *)
(* daemon is not limited.                                                  *)
(***************************************************************************)
EXTENDS HsrOutside, HsrDaemonService

CONSTANTS
  MaxRequests,   \* bound: requests from confdb in one behaviour
  MaxOthers      \* bound: steps of the others

VARIABLES
  requests,      \* requests from confdb so far
  others         \* steps of the others so far

MCInit == OutsideInit /\ requests = 0 /\ others = 0

Asks ==
  /\ ConfdbAsks
  /\ requests < MaxRequests
  /\ requests' = requests + 1
  /\ UNCHANGED others

Act ==
  /\ OthersAct
  /\ others < MaxOthers
  /\ others' = others + 1
  /\ UNCHANGED requests

React == Reacts /\ UNCHANGED <<requests, others>>

MCNext == Asks \/ Act \/ React

MCSpec == MCInit /\ [][MCNext]_<<vars, outside, requests, others>>

Symmetry == Permutations(Links \ Kindless) \cup Permutations(Names)
=============================================================================

------------------------------ MODULE MCHsrOne ------------------------------
(***************************************************************************)
(* A single interface, without a limit on the steps of the outside.        *)
(***************************************************************************)
EXTENDS HsrRaces

(* HsrDaemon's fairness, with the history variable.                        *)
FairRacesSpec == RacesSpec /\ WF_<<vars, raced>>(Daemon /\ raced' = FALSE)
=============================================================================

------------------------------ MODULE HsrRaces ------------------------------
(***************************************************************************)
(* HsrDaemon with a history variable: whether links were changed between   *)
(* the dump main_check makes and the request it decides on from that dump. *)
(***************************************************************************)
EXTENDS HsrDaemonInv

VARIABLE raced   \* the outside has acted since the dump of the request of
                 \* main_check that is under way

MainCheckRequests == pc \in {"cfgCreate", "cfgReplace"}

RacesInit == Init /\ raced = FALSE

RacesNext ==
  \/ Environment /\ raced' = MainCheckRequests
  \/ Configuration /\ raced' = FALSE
  \/ Notification /\ raced' = FALSE
  \/ (WaitListCreate \/ WaitListRecreate) /\ raced' = FALSE
  \/ (CfgCheck \/ CfgCreate \/ CfgReplace) /\ raced' = FALSE
  \/ (CfgRemove \/ CfgUnlist) /\ raced' = FALSE

RacesSpec == RacesInit /\ [][RacesNext]_<<vars, raced>>

(* When main_check forgets an interface that was just configured (neither  *)
(* created nor waiting), then because links were changed between its dump  *)
(* and its request, or because a slave belongs to a bridge, which it takes *)
(* for free.                                                               *)
Forgets(h) ==
  /\ MainCheckRequests /\ job = h
  /\ ~ MainCheckRequests'
  /\ ~ Waits(waiting', h)
  /\ SlavesOf(master', h) # {conf[h][1], conf[h][2]}

ForgottenOnlyByRace ==
  [][\A h \in Names :
       Forgets(h) =>
         raced \/ \E l \in {conf[h][1], conf[h][2]} : master[l] \in Bridges
    ]_<<vars, raced>>

(* What main_check found holds until its request is made: an interface it  *)
(* is about to create is not there and has no slave in another one, and    *)
(* one it is about to replace is there.                                    *)
MainCheckHolds ==
  ~ raced =>
    /\ pc = "cfgCreate" =>
         /\ ~ Exists(master, job)
         /\ conf[job][1] # conf[job][2]
         /\ \A l \in {conf[job][1], conf[job][2]} : master[l] \in Bridges \cup {None}
    /\ pc = "cfgReplace" => Exists(master, job)
=============================================================================

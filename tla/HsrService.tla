----------------------------- MODULE HsrService -----------------------------
(***************************************************************************)
(* What confdb-hsr promises to those who configure HSR interfaces, without *)
(* notifications, caches, status bits or a wait list.                      *)
(*                                                                         *)
(* For every name there is the configuration, the slaves of the HSR link   *)
(* that is up, and the slaves the daemon still wants to set it up with.    *)
(* An interface is set up with the slaves wanted and no others, on links   *)
(* that are there and that no other HSR link has.  It is taken down to     *)
(* answer the removal of its configuration, or because other slaves are    *)
(* wanted.  What is wanted is given up to answer a configuration of the    *)
(* same name, and otherwise stays wanted until it is up: no link that      *)
(* comes or goes and nothing that happens to another interface makes the   *)
(* daemon forget it.                                                       *)
(*                                                                         *)
(* Deleting a configuration whose interface is up may leave the slaves     *)
(* wanted; DeletedStaysDeleted of HsrDaemon is about that.                 *)
(***************************************************************************)
CONSTANTS
  Links, Names,
  None,          \* not configured; nobody
  Incomplete,    \* a configuration with a slave missing
  OtherTools     \* whether other tools create and delete HSR links

VARIABLES
  conf,      \* conf[h]: what confdb last said about h
  present,   \* the links that exist
  up,        \* up[h]: the slaves of the HSR link h, {} if there is none
  wanted,    \* wanted[h]: the slaves h is still to be set up with
  asking     \* the interface whose configuration is being answered

vars == <<conf, present, up, wanted, asking>>

Pair == {<<a, b>> : a, b \in Links}

Init ==
  /\ conf = [h \in Names |-> None]
  /\ present \in SUBSET Links
  /\ up \in [Names -> SUBSET present]
  /\ wanted = [h \in Names |-> {}]
  /\ asking = None

-----------------------------------------------------------------------------
(* Configuration.                                                          *)

Want(h, slaves) == wanted' = [wanted EXCEPT ![h] = slaves]

Ask(h, value) ==
  /\ asking = None
  /\ conf' = [conf EXCEPT ![h] = value]
  /\ asking' \in {None, h}
  /\ UNCHANGED <<present, up>>

Configure(h, a, b) ==
  /\ Ask(h, <<a, b>>)
  /\ Want(h, {a, b})

Misconfigure(h) ==
  /\ Ask(h, Incomplete)
  /\ UNCHANGED wanted

Deconfigure(h) ==
  /\ Ask(h, None)
  /\ \/ Want(h, {})
     \/ asking' = h /\ UNCHANGED wanted

-----------------------------------------------------------------------------
(* The daemon.                                                             *)

Answer(h) ==
  /\ asking \in {None, h}
  /\ asking' = None
  /\ UNCHANGED <<conf, present>>

SetUp(h) ==
  /\ Answer(h)
  /\ wanted[h] # {}
  /\ wanted[h] \subseteq present
  /\ \A g \in Names \ {h} : up[g] \cap wanted[h] = {}
  /\ up' = [up EXCEPT ![h] = wanted[h]]
  /\ Want(h, {})

TakeDown(h) ==
  /\ Answer(h)
  /\ wanted[h] # {} \/ (asking = h /\ conf[h] = None)
  /\ up' = [up EXCEPT ![h] = {}]
  /\ UNCHANGED wanted

(* The answer is that the interface is to wait.                            *)
Postpone(h) ==
  /\ Answer(h)
  /\ asking = h
  /\ wanted[h] # {}
  /\ UNCHANGED <<up, wanted>>

GiveUp(h) ==
  /\ Answer(h)
  /\ asking = h
  /\ Want(h, {})
  /\ UNCHANGED up

-----------------------------------------------------------------------------
(* Everything else.                                                        *)

LinkAppears(l) ==
  /\ present' = present \cup {l}
  /\ UNCHANGED <<conf, up, wanted, asking>>

LinkVanishes(l) ==
  /\ present' = present \ {l}
  /\ up' = [h \in Names |-> up[h] \ {l}]
  /\ UNCHANGED <<conf, wanted, asking>>

OtherToolActs(h) ==
  /\ OtherTools
  /\ \E slaves \in SUBSET present : up' = [up EXCEPT ![h] = slaves]
  /\ UNCHANGED <<conf, present, wanted, asking>>

Next ==
  \/ \E h \in Names :
       \/ \E a, b \in Links : Configure(h, a, b)
       \/ Misconfigure(h) \/ Deconfigure(h)
       \/ SetUp(h) \/ TakeDown(h) \/ Postpone(h) \/ GiveUp(h)
       \/ OtherToolActs(h)
  \/ \E l \in Links : LinkAppears(l) \/ LinkVanishes(l)

Spec == Init /\ [][Next]_vars
=============================================================================

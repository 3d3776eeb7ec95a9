------------------------------- MODULE HsrCli -------------------------------
(***************************************************************************)
(* The command line sessions that configure HSR interfaces (hsr_cmds.lua). *)
(* 'hsr interface' reads the list of interfaces, then the slaves of each   *)
(* HSR interface in it, one request to confdb for each, and sets its own   *)
(* slaves in a last request.  Other sessions may do the same in between.   *)
(* What confdb does with a request is external.                            *)
(***************************************************************************)
EXTENDS Naturals, FiniteSets

CONSTANTS
  Sessions,  \* command line sessions
  Names,     \* names of HSR interfaces
  Links,     \* interfaces that may be slaves
  None       \* not configured, or no command

ASSUME HsrCliAssumption ==
  /\ None \notin Links \X Links
  /\ None \notin [name : Names, pair : Links \X Links]
  /\ Names \cap Links = {}

VARIABLES
  slaves,   \* slaves[h]: the slaves of h in confdb; None if there is no h
  command,  \* command[s]: the 'hsr interface' s is executing
  todo,     \* todo[s]: interfaces whose slaves it has still to read
  failed,   \* failed[s]: the last command of s ended with an error in Lua
  rivals,   \* history: interfaces set by others since s began to read
  removed,  \* history: interfaces deleted by others since s began to read
  raced     \* history: <<h, g>> such that g was set by another session while
            \* the session that set h was checking

vars == <<slaves, command, todo, failed, rivals, removed, raced>>

Pair == Links \X Links
Command == [name : Names, pair : Pair]

TypeOK ==
  /\ slaves \in [Names -> Pair \cup {None}]
  /\ command \in [Sessions -> Command \cup {None}]
  /\ todo \in [Sessions -> SUBSET (Names \cup Links)]
  /\ failed \in [Sessions -> BOOLEAN]
  /\ rivals \in [Sessions -> SUBSET Names]
  /\ removed \in [Sessions -> SUBSET Names]
  /\ raced \in SUBSET (Names \X Names)

Init ==
  /\ slaves = [h \in Names |-> None]
  /\ command = [s \in Sessions |-> None]
  /\ todo = [s \in Sessions |-> {}]
  /\ failed = [s \in Sessions |-> FALSE]
  /\ rivals = [s \in Sessions |-> {}]
  /\ removed = [s \in Sessions |-> {}]
  /\ raced = {}

-----------------------------------------------------------------------------
Configured == {h \in Names : slaves[h] # None}
Ends(p) == {p[1], p[2]}

(* What confdb answers for the hsr container of an interface.              *)
SlavesOf(g) == IF g \in Names THEN slaves[g] ELSE None

Idle(s) == command[s] = None

(* The command is over.                                                    *)
Return(s, error) ==
  /\ command' = [command EXCEPT ![s] = None]
  /\ todo' = [todo EXCEPT ![s] = {}]
  /\ failed' = [failed EXCEPT ![s] = error]

(* Other sessions that are checking will not all see this.                 *)
Tell(s, history, h) ==
  [t \in Sessions |->
     IF t = s \/ Idle(t) THEN history[t] ELSE history[t] \cup {h}]

(* Mutant: interfaces of every type are looked into.                       *)
check_interfaces_begin_AnyType(s, h, p) ==
  /\ Idle(s)
  /\ command' = [command EXCEPT ![s] = [name |-> h, pair |-> p]]
  /\ todo' = [todo EXCEPT ![s] = Configured \cup Links]
  /\ failed' = [failed EXCEPT ![s] = FALSE]
  /\ rivals' = [rivals EXCEPT ![s] = {}]
  /\ removed' = [removed EXCEPT ![s] = {}]
  /\ UNCHANGED <<slaves, raced>>

(* check_interfaces: the list of interfaces, of which only those of type   *)
(* hsr are looked into.                                                    *)
check_interfaces_begin(s, h, p) ==
  /\ Idle(s)
  /\ command' = [command EXCEPT ![s] = [name |-> h, pair |-> p]]
  /\ todo' = [todo EXCEPT ![s] = Configured]
  /\ failed' = [failed EXCEPT ![s] = FALSE]
  /\ rivals' = [rivals EXCEPT ![s] = {}]
  /\ removed' = [removed EXCEPT ![s] = {}]
  /\ UNCHANGED <<slaves, raced>>

(* Mutant: a is compared with a, b with b.                                 *)
AlreadyUsed_SameSide(p, q) == p[1] = q[1] \/ p[2] = q[2]

AlreadyUsed(p, q) == Ends(p) \cap Ends(q) # {}

(* The slaves of one of them, in the order of pairs(), which is any.  An   *)
(* interface that is gone has none, and indexing them is an error.  One    *)
(* that has a slave of the command, be it the same interface, ends the     *)
(* command.                                                                *)
check_interfaces_one(s, g) ==
  /\ g \in todo[s]
  /\ IF SlavesOf(g) = None
       THEN Return(s, TRUE)
     ELSE IF AlreadyUsed(SlavesOf(g), command[s].pair)
       THEN Return(s, FALSE)
     ELSE /\ todo' = [todo EXCEPT ![s] = @ \ {g}]
          /\ UNCHANGED <<command, failed>>
  /\ UNCHANGED <<slaves, rivals, removed, raced>>

(* set_hsr: confdb merges the slaves, unless they are one interface.       *)
set_hsr(s) ==
  /\ ~ Idle(s)
  /\ todo[s] = {}
  /\ Return(s, FALSE)
  /\ LET h == command[s].name
         p == command[s].pair
     IN IF p[1] = p[2]
          THEN UNCHANGED <<slaves, rivals, raced>>
          ELSE /\ slaves' = [slaves EXCEPT ![h] = p]
               /\ rivals' = Tell(s, rivals, h)
               /\ raced' = {r \in raced : h \notin Ends(r)} \cup ({h} \X rivals[s])
  /\ UNCHANGED removed

(* 'hsr interface delete': one request.                                    *)
delete_hsr(s, h) ==
  /\ Idle(s)
  /\ slaves' = [slaves EXCEPT ![h] = None]
  /\ failed' = [failed EXCEPT ![s] = FALSE]
  /\ removed' = Tell(s, removed, h)
  /\ UNCHANGED <<command, todo, rivals, raced>>

Next ==
  \E s \in Sessions :
    \/ \E h \in Names, p \in Pair : check_interfaces_begin(s, h, p)
    \/ \E g \in Names \cup Links : check_interfaces_one(s, g)
    \/ set_hsr(s)
    \/ \E h \in Names : delete_hsr(s, h)

Spec == Init /\ [][Next]_vars

-----------------------------------------------------------------------------
(* Properties.                                                             *)

(* Two HSR interfaces have a slave in common only if one was set while the *)
(* session that set the other was checking: with one session at a time the *)
(* check is as good as a constraint of the schema would be.                *)
SharedOnlyByRace ==
  \A h, g \in Configured :
    h # g /\ Ends(slaves[h]) \cap Ends(slaves[g]) # {} =>
      <<h, g>> \in raced \/ <<g, h>> \in raced

(* A command ends with an error in Lua only if another session deleted an  *)
(* interface after it had read the list.                                   *)
ErrorsNeedRemoval == \A s \in Sessions : failed[s] => removed[s] # {}
=============================================================================

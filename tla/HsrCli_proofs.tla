--------------------------- MODULE HsrCli_proofs ---------------------------
(***************************************************************************)
(* Theorems about HsrCli, for every number of sessions and interfaces.     *)
(***************************************************************************)
EXTENDS HsrCli, TLAPS

-----------------------------------------------------------------------------
(* The inductive invariant.                                                *)

(* What a session has read and nobody has set since leaves its slaves      *)
(* alone.                                                                  *)
ReadIsDisjoint ==
  \A s \in Sessions, g \in Configured :
    ~ Idle(s) /\ g \notin todo[s] =>
      \/ g \in rivals[s]
      \/ Ends(slaves[g]) \cap Ends(command[s].pair) = {}

(* What a session has still to read is there, or was deleted by another.   *)
UnreadIsThere ==
  \A s \in Sessions : \A g \in todo[s] :
    /\ ~ Idle(s)
    /\ g \in Names
    /\ g \in Configured \/ g \in removed[s]

CliInv ==
  /\ TypeOK
  /\ ReadIsDisjoint
  /\ UnreadIsThere
  /\ SharedOnlyByRace
  /\ ErrorsNeedRemoval

-----------------------------------------------------------------------------
LEMMA CliInit == Init => CliInv
<1> SUFFICES ASSUME Init PROVE CliInv
  OBVIOUS
<1>1. Configured = {}
  BY DEF Init, Configured
<1>2. TypeOK
  BY DEF Init, TypeOK
<1> QED
  BY <1>1, <1>2 DEF Init, CliInv, ReadIsDisjoint, UnreadIsThere,
     SharedOnlyByRace, ErrorsNeedRemoval

(* What a step that only ends a command does.                              *)
LEMMA ReturnEnds ==
  ASSUME TypeOK, NEW s \in Sessions, NEW error \in BOOLEAN, Return(s, error)
  PROVE  /\ command' \in [Sessions -> Command \cup {None}]
         /\ todo' \in [Sessions -> SUBSET (Names \cup Links)]
         /\ failed' \in [Sessions -> BOOLEAN]
         /\ command'[s] = None /\ todo'[s] = {} /\ failed'[s] = error
         /\ \A t \in Sessions \ {s} :
              /\ command'[t] = command[t]
              /\ todo'[t] = todo[t]
              /\ failed'[t] = failed[t]
  BY DEF TypeOK, Return

(* What other sessions are told.                                           *)
LEMMA Told ==
  ASSUME NEW history \in [Sessions -> SUBSET Names],
         NEW s \in Sessions, NEW h \in Names
  PROVE  /\ Tell(s, history, h) \in [Sessions -> SUBSET Names]
         /\ \A t \in Sessions :
              /\ history[t] \subseteq Tell(s, history, h)[t]
              /\ t # s /\ ~ Idle(t) => h \in Tell(s, history, h)[t]
              /\ Idle(t) \/ t = s => Tell(s, history, h)[t] = history[t]
  BY DEF Tell

LEMMA BeginKeeps ==
  ASSUME CliInv, NEW s \in Sessions, NEW h \in Names, NEW p \in Pair,
         check_interfaces_begin(s, h, p)
  PROVE  CliInv'
<1> USE DEF CliInv, check_interfaces_begin
<1>1. TypeOK'
  BY DEF TypeOK, Command, Configured
<1>2. /\ Configured' = Configured
      /\ \A t \in Sessions \ {s} :
           /\ command'[t] = command[t] /\ todo'[t] = todo[t]
           /\ failed'[t] = failed[t] /\ rivals'[t] = rivals[t]
           /\ removed'[t] = removed[t]
      /\ command'[s] = [name |-> h, pair |-> p] /\ todo'[s] = Configured
      /\ failed'[s] = FALSE /\ slaves' = slaves /\ raced' = raced
  BY DEF TypeOK, Configured
<1>3. ReadIsDisjoint'
  BY <1>2 DEF ReadIsDisjoint, Idle
<1>4. UnreadIsThere'
  <2>1. [name |-> h, pair |-> p] # None
    BY HsrCliAssumption DEF Pair
  <2> QED BY <1>2, <2>1 DEF UnreadIsThere, Idle, Configured
<1>5. SharedOnlyByRace'
  BY <1>2 DEF SharedOnlyByRace
<1>6. ErrorsNeedRemoval'
  BY <1>2 DEF ErrorsNeedRemoval
<1> QED BY <1>1, <1>3, <1>4, <1>5, <1>6

(* A session reads on, and knows more, or its command ends.                *)
LEMMA OneKeeps ==
  ASSUME CliInv, NEW s \in Sessions, NEW g \in Names \cup Links,
         check_interfaces_one(s, g)
  PROVE  CliInv'
<1>1. /\ UNCHANGED <<slaves, rivals, removed, raced>>
      /\ Configured' = Configured /\ g \in todo[s]
  BY DEF check_interfaces_one, Configured
<1>2. ~ Idle(s) /\ g \in Names /\ (g \in Configured \/ g \in removed[s])
  BY <1>1 DEF CliInv, UnreadIsThere
<1>3. SharedOnlyByRace'
  BY <1>1 DEF CliInv, SharedOnlyByRace
<1>4. ASSUME NEW error \in BOOLEAN, Return(s, error),
             error => removed[s] # {}
      PROVE  CliInv'
  <2>1. /\ command' \in [Sessions -> Command \cup {None}]
        /\ todo' \in [Sessions -> SUBSET (Names \cup Links)]
        /\ failed' \in [Sessions -> BOOLEAN]
        /\ command'[s] = None /\ todo'[s] = {} /\ failed'[s] = error
        /\ \A t \in Sessions \ {s} :
             /\ command'[t] = command[t]
             /\ todo'[t] = todo[t]
             /\ failed'[t] = failed[t]
    BY <1>4, ReturnEnds DEF CliInv
  <2>2. TypeOK'
    BY <1>1, <2>1 DEF CliInv, TypeOK
  <2>3. ReadIsDisjoint'
    BY <1>1, <2>1 DEF CliInv, ReadIsDisjoint, Idle
  <2>4. UnreadIsThere'
    BY <1>1, <2>1 DEF CliInv, UnreadIsThere, Idle
  <2>5. ErrorsNeedRemoval'
    BY <1>1, <1>4, <2>1 DEF CliInv, ErrorsNeedRemoval
  <2> QED BY <1>3, <2>2, <2>3, <2>4, <2>5 DEF CliInv
<1>5. CASE SlavesOf(g) = None
  <2>1. g \in removed[s]
    BY <1>2, <1>5 DEF SlavesOf, Configured
  <2> QED BY <1>4, <1>5, <2>1 DEF check_interfaces_one
<1>6. CASE SlavesOf(g) # None /\ AlreadyUsed(SlavesOf(g), command[s].pair)
  BY <1>4, <1>6 DEF check_interfaces_one
<1>7. CASE SlavesOf(g) # None /\ ~ AlreadyUsed(SlavesOf(g), command[s].pair)
  <2>1. /\ todo' = [todo EXCEPT ![s] = @ \ {g}]
        /\ UNCHANGED <<command, failed>>
    BY <1>7 DEF check_interfaces_one
  <2>2. TypeOK'
    BY <1>1, <2>1 DEF CliInv, TypeOK
  <2>3. Ends(slaves[g]) \cap Ends(command[s].pair) = {}
    BY <1>2, <1>7 DEF SlavesOf, AlreadyUsed
  <2>4. \A t \in Sessions : todo'[t] = IF t = s THEN todo[t] \ {g} ELSE todo[t]
    BY <2>1 DEF CliInv, TypeOK
  <2>5. ReadIsDisjoint'
    BY <1>1, <2>1, <2>3, <2>4 DEF CliInv, ReadIsDisjoint, Idle
  <2>6. UnreadIsThere'
    BY <1>1, <2>1, <2>4 DEF CliInv, UnreadIsThere, Idle
  <2>7. ErrorsNeedRemoval'
    BY <1>1, <2>1 DEF CliInv, ErrorsNeedRemoval
  <2> QED BY <1>3, <2>2, <2>5, <2>6, <2>7 DEF CliInv
<1> QED BY <1>5, <1>6, <1>7

(* The slaves that are set are disjoint from those of every interface that *)
(* nobody has set meanwhile; all other sessions are told.                  *)
LEMMA SetKeeps ==
  ASSUME CliInv, NEW s \in Sessions, set_hsr(s)
  PROVE  CliInv'
<1> DEFINE h == command[s].name
           p == command[s].pair
<1>1. ~ Idle(s) /\ todo[s] = {} /\ Return(s, FALSE) /\ removed' = removed
  BY DEF set_hsr
<1>2. h \in Names /\ p \in Pair
  BY <1>1 DEF CliInv, TypeOK, Command, Idle
<1>3. /\ command' \in [Sessions -> Command \cup {None}]
      /\ todo' \in [Sessions -> SUBSET (Names \cup Links)]
      /\ failed' \in [Sessions -> BOOLEAN]
      /\ command'[s] = None /\ todo'[s] = {} /\ failed'[s] = FALSE
      /\ \A t \in Sessions \ {s} :
           /\ command'[t] = command[t]
           /\ todo'[t] = todo[t]
           /\ failed'[t] = failed[t]
  BY <1>1, ReturnEnds DEF CliInv
<1>4. ErrorsNeedRemoval'
  BY <1>1, <1>3 DEF CliInv, ErrorsNeedRemoval
<1>5. CASE p[1] = p[2]
  <2>1. UNCHANGED <<slaves, rivals, raced>> /\ Configured' = Configured
    BY <1>5 DEF set_hsr, Configured
  <2>2. TypeOK'
    BY <1>1, <1>3, <2>1 DEF CliInv, TypeOK
  <2>3. ReadIsDisjoint'
    BY <1>1, <1>3, <2>1 DEF CliInv, ReadIsDisjoint, Idle
  <2>4. UnreadIsThere'
    BY <1>1, <1>3, <2>1 DEF CliInv, UnreadIsThere, Idle
  <2>5. SharedOnlyByRace'
    BY <2>1 DEF CliInv, SharedOnlyByRace
  <2> QED BY <1>4, <2>2, <2>3, <2>4, <2>5 DEF CliInv
<1>6. CASE p[1] # p[2]
  <2>1. /\ slaves' = [slaves EXCEPT ![h] = p]
        /\ rivals' = Tell(s, rivals, h)
        /\ raced' = {r \in raced : h \notin Ends(r)} \cup ({h} \X rivals[s])
    BY <1>6 DEF set_hsr
  <2>2. /\ rivals' \in [Sessions -> SUBSET Names]
        /\ \A t \in Sessions :
             /\ rivals[t] \subseteq rivals'[t]
             /\ t # s /\ ~ Idle(t) => h \in rivals'[t]
    <3>1. rivals \in [Sessions -> SUBSET Names]
      BY DEF CliInv, TypeOK
    <3> QED BY <1>2, <2>1, <3>1, Told
  <2> HIDE DEF h, p
  <2>3. /\ slaves'[h] = p /\ p # None
        /\ \A g \in Names \ {h} : slaves'[g] = slaves[g]
        /\ Configured' = Configured \cup {h}
    <3>1. slaves'[h] = p /\ \A g \in Names \ {h} : slaves'[g] = slaves[g]
      BY <1>2, <2>1 DEF CliInv, TypeOK
    <3>2. p # None
      BY <1>2, HsrCliAssumption DEF Pair
    <3> QED BY <1>2, <3>1, <3>2 DEF Configured
  <2>4. TypeOK'
    <3>1. slaves' \in [Names -> Pair \cup {None}]
      BY <1>2, <2>1 DEF CliInv, TypeOK
    <3>2. raced' \in SUBSET (Names \X Names)
      BY <1>2, <2>1 DEF CliInv, TypeOK
    <3> QED BY <1>1, <1>3, <2>2, <3>1, <3>2 DEF CliInv, TypeOK
  <2>5. ReadIsDisjoint'
    <3> SUFFICES ASSUME NEW t \in Sessions, NEW g \in Configured',
                        ~ Idle(t)', g \notin todo'[t], g \notin rivals'[t]
                 PROVE  Ends(slaves'[g]) \cap Ends(command'[t].pair) = {}
      BY DEF ReadIsDisjoint
    <3>1. t # s /\ ~ Idle(t) /\ command'[t] = command[t] /\ todo'[t] = todo[t]
      BY <1>3 DEF Idle
    <3>2. g # h /\ g \notin rivals[t] /\ g \in Configured
      BY <2>2, <2>3, <3>1
    <3>3. slaves'[g] = slaves[g]
      BY <2>3, <3>2 DEF Configured
    <3> QED BY <3>1, <3>2, <3>3 DEF CliInv, ReadIsDisjoint
  <2>6. UnreadIsThere'
    BY <1>1, <1>3, <2>3 DEF CliInv, UnreadIsThere, Idle
  <2>7. \A g \in Configured :
          g \in rivals[s] \/ Ends(slaves[g]) \cap Ends(p) = {}
    BY <1>1 DEF CliInv, ReadIsDisjoint, p
  <2>8. SharedOnlyByRace'
    <3> SUFFICES ASSUME NEW i \in Configured', NEW g \in Configured', i # g,
                        Ends(slaves'[i]) \cap Ends(slaves'[g]) # {}
                 PROVE  <<i, g>> \in raced' \/ <<g, i>> \in raced'
      BY DEF SharedOnlyByRace
    <3>1. CASE i = h
      BY <1>2, <2>1, <2>3, <2>7, <3>1 DEF Configured
    <3>2. CASE g = h
      BY <1>2, <2>1, <2>3, <2>7, <3>2 DEF Configured
    <3>3. CASE i # h /\ g # h
      <4>1. /\ i \in Configured /\ g \in Configured
            /\ slaves'[i] = slaves[i] /\ slaves'[g] = slaves[g]
        BY <2>3, <3>3 DEF Configured
      <4>2. <<i, g>> \in raced \/ <<g, i>> \in raced
        BY <4>1 DEF CliInv, SharedOnlyByRace
      <4> QED BY <2>1, <3>3, <4>2 DEF Ends
    <3> QED BY <3>1, <3>2, <3>3
  <2> QED BY <1>4, <2>4, <2>5, <2>6, <2>8 DEF CliInv
<1> QED BY <1>5, <1>6

(* Who has still to read the interface that is deleted is told.            *)
LEMMA DeleteKeeps ==
  ASSUME CliInv, NEW s \in Sessions, NEW h \in Names, delete_hsr(s, h)
  PROVE  CliInv'
<1>1. /\ Idle(s) /\ slaves' = [slaves EXCEPT ![h] = None]
      /\ failed' = [failed EXCEPT ![s] = FALSE]
      /\ removed' = Tell(s, removed, h)
      /\ UNCHANGED <<command, todo, rivals, raced>>
  BY DEF delete_hsr
<1>2. /\ removed' \in [Sessions -> SUBSET Names]
      /\ \A t \in Sessions :
           /\ removed[t] \subseteq removed'[t]
           /\ t # s /\ ~ Idle(t) => h \in removed'[t]
  <2>1. removed \in [Sessions -> SUBSET Names]
    BY DEF CliInv, TypeOK
  <2> QED BY <1>1, <2>1, Told
<1>3. /\ Configured' = Configured \ {h}
      /\ \A g \in Names \ {h} : slaves'[g] = slaves[g]
  BY <1>1 DEF CliInv, TypeOK, Configured
<1>4. TypeOK'
  BY <1>1, <1>2 DEF CliInv, TypeOK
<1>5. ReadIsDisjoint'
  BY <1>1, <1>3 DEF CliInv, ReadIsDisjoint, Idle, Configured
<1>6. UnreadIsThere'
  BY <1>1, <1>2, <1>3 DEF CliInv, UnreadIsThere, Idle
<1>7. SharedOnlyByRace'
  BY <1>1, <1>3 DEF CliInv, SharedOnlyByRace, Configured
<1>8. ErrorsNeedRemoval'
  BY <1>1, <1>2 DEF CliInv, TypeOK, ErrorsNeedRemoval
<1> QED BY <1>4, <1>5, <1>6, <1>7, <1>8 DEF CliInv

LEMMA CliStep == CliInv /\ [Next]_vars => CliInv'
<1> SUFFICES ASSUME CliInv, [Next]_vars PROVE CliInv'
  OBVIOUS
<1>1. CASE Next
  <2> SUFFICES ASSUME NEW s \in Sessions,
                      \/ \E h \in Names, p \in Pair :
                           check_interfaces_begin(s, h, p)
                      \/ \E g \in Names \cup Links : check_interfaces_one(s, g)
                      \/ set_hsr(s)
                      \/ \E h \in Names : delete_hsr(s, h)
               PROVE  CliInv'
    BY <1>1 DEF Next
  <2> QED BY BeginKeeps, OneKeeps, SetKeeps, DeleteKeeps
<1>2. CASE UNCHANGED vars
  BY <1>2 DEF vars, CliInv, TypeOK, ReadIsDisjoint, UnreadIsThere,
     SharedOnlyByRace, ErrorsNeedRemoval, Configured, Idle
<1> QED BY <1>1, <1>2

(* In every state of every number of sessions: what a session has read     *)
(* leaves its slaves alone unless another has set it since, and what it    *)
(* has still to read is there unless another has deleted it.               *)
THEOREM SessionsInvariant == Spec => []CliInv
BY CliInit, CliStep, PTL DEF Spec

(* The state has its type, however the sessions interleave: confdb never   *)
(* holds an interface with part of what set_hsr writes.                    *)
THEOREM TypeCorrect == Spec => []TypeOK
<1>1. CliInv => TypeOK
  BY DEF CliInv
<1> QED BY <1>1, SessionsInvariant, PTL

(* check_interfaces is as good as a constraint for one session at a time:  *)
(* a slave is shared only between interfaces of which one was set while    *)
(* the session that set the other was checking.                            *)
THEOREM SharingNeedsARace == Spec => []SharedOnlyByRace
<1>1. CliInv => SharedOnlyByRace
  BY DEF CliInv
<1> QED BY <1>1, SessionsInvariant, PTL

(* slaves_data[1] is nil only for an interface that another session has    *)
(* deleted since the list was read.                                        *)
THEOREM ErrorsNeedARemoval == Spec => []ErrorsNeedRemoval
<1>1. CliInv => ErrorsNeedRemoval
  BY DEF CliInv
<1> QED BY <1>1, SessionsInvariant, PTL
=============================================================================

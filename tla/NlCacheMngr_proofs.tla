------------------------- MODULE NlCacheMngr_proofs -------------------------
(***************************************************************************)
(* A managed cache with nothing left to read is the kernel's table, for    *)
(* any objects, groups, socket sizes and sequence numbers.                 *)
(*                                                                         *)
(* The invariant is CacheInv.  Its heart is Heard: as long as no message   *)
(* was dropped, what the dumps have shown of an object is true unless a    *)
(* message about the object is queued, and the last such message is true.  *)
(* A dump that is repeated, or that shows a table that no longer is, does  *)
(* not disturb that.                                                       *)
(***************************************************************************)
EXTENDS NlCacheMngrInv, TLAPS

USE SizesAssumption, NoneAssumption

(* A number reduced to the size of sequence numbers is one.                *)
LEMMA SeqNumber == \A n \in Nat : n % SeqSize \in SeqNumbers
<1>1. \A n \in Nat, d \in Nat \ {0} : n % d \in 0 .. d - 1
  OBVIOUS
<1> QED BY <1>1 DEF SeqNumbers

(* What a message of a dump is made of.                                    *)
LEMMA SyncMsgParts ==
  ASSUME NEW m \in SyncMsg
  PROVE  /\ m.seq \in SeqNumbers /\ m.intr \in BOOLEAN
         /\ m.type \in {"object", "done"}
         /\ m.type = "object" => m.key \in Keys /\ m.val \in Values
BY DEF SyncMsg

LEMMA EventParts ==
  \A e \in Event : e.key \in Keys /\ e.val \in Values \cup {None}
BY DEF Event

LEMMA InitInv == Init => CacheInv
<1> SUFFICES ASSUME Init PROVE CacheInv
  OBVIOUS
<1>1. Empty \in Content /\ NoDump \in Dump
  BY DEF Empty, Content, NoDump, Dump, SeqNumbers
<1>2. TypeOK
  <2>1. <<>> \in Seq(Event) /\ <<>> \in Seq(SyncMsg) /\ 1 \in 1 .. NumGroups
    OBVIOUS
  <2> QED BY <1>1, <2>1 DEF Init, TypeOK, Phases, Errors
<1>3. OneDump
  BY DEF Init, OneDump, NoDump
<1> QED BY <1>2, <1>3 DEF Init, CacheInv, Unjoined, Heard

-----------------------------------------------------------------------------
(* The kernel.                                                             *)

LEMMA ChangeKeeps == ASSUME CacheInv, Change PROVE CacheInv'
<1> USE DEF CacheInv
<1>1. PICK k \in Keys, v \in Values \cup {None} :
        /\ v # table[k]
        /\ table' = [table EXCEPT ![k] = v]
        /\ IF joined /\ ~ overrun /\ Len(events) < BufSize
             THEN events' = Append(events, [key |-> k, val |-> v])
             ELSE UNCHANGED events
        /\ overrun' = (overrun \/ (joined /\ Len(events) >= BufSize))
        /\ dump' = IF dump.state = "same" /\ None \in {v, table[k]}
                     THEN [dump EXCEPT !.state = "changed"] ELSE dump
        /\ UNCHANGED <<joined, syncVars, phase, error, group, cache>>
  BY DEF Change
<1>2. dump' \in Dump /\ dump'.todo = dump.todo /\ dump'.seq = dump.seq
      /\ (dump'.state = "off" <=> dump.state = "off")
  BY <1>1 DEF TypeOK, Dump
<1>3. TypeOK'
  <2>1. [key |-> k, val |-> v] \in Event
    BY DEF Event
  <2>2. table' \in Content
    BY <1>1 DEF TypeOK, Content
  <2>3. events' \in Seq(Event)
    <3>1. events' = events \/ events' = Append(events, [key |-> k, val |-> v])
      BY <1>1
    <3>2. events \in Seq(Event)
      BY DEF TypeOK
    <3> HIDE DEF CacheInv
    <3> QED BY <2>1, <3>1, <3>2
  <2>4. overrun' \in BOOLEAN
    BY <1>1
  <2> QED BY <1>1, <1>2, <2>2, <2>3, <2>4 DEF TypeOK, syncVars
<1>4. OneDump'
  BY <1>1, <1>2 DEF OneDump, syncVars
<1>5. Unjoined'
  BY <1>1 DEF Unjoined
<1>6. Heard'
  <2> SUFFICES ASSUME Heard, phase \in {"request", "receive", "managed"},
                      ~ overrun'
               PROVE  (joined /\ LastWord /\ \A l \in Keys : Silent(l) => Believed(l))'
    BY <1>1 DEF Heard
  <2>1. joined /\ ~ overrun /\ LastWord
        /\ \A l \in Keys : Silent(l) => Believed(l)
    BY <1>1 DEF Heard
  <2>2. events' = Append(events, [key |-> k, val |-> v]) /\ joined'
    <3>1. ~ (Len(events) >= BufSize)
      BY <1>1, <2>1, Zenon
    <3>2. Len(events) \in Nat /\ BufSize \in Nat
      BY DEF TypeOK
    <3>3. Len(events) < BufSize
      BY <3>1, <3>2
    <3> QED BY <1>1, <2>1, <3>3
  <2>3. /\ DOMAIN events' = 1 .. Len(events) + 1 /\ DOMAIN events = 1 .. Len(events)
        /\ Len(events) \in Nat
        /\ \A j \in DOMAIN events : events'[j] = events[j]
        /\ events'[Len(events) + 1] = [key |-> k, val |-> v]
    BY <2>2 DEF TypeOK
  <2>4. /\ table'[k] = v
        /\ \A l \in Keys : l # k => table'[l] = table[l]
    BY <1>1 DEF TypeOK, Content
  <2>5. \A j \in DOMAIN events : events[j].key \in Keys
    <3>1. events \in Seq(Event)
      BY DEF TypeOK
    <3>2. \A j \in DOMAIN events : events[j] \in Event
      BY <3>1
    <3> QED BY <3>2, EventParts
  <2>6. LastWord'
    BY <2>1, <2>3, <2>4, <2>5 DEF LastWord
  <2>7. ASSUME NEW l \in Keys, Silent(l)' PROVE Believed(l)'
    <3>1. l # k /\ Silent(l)
      BY <2>3, <2>7 DEF Silent
    <3> QED BY <1>1, <1>2, <2>1, <2>4, <3>1 DEF Believed, Shown, syncVars
  <2> QED BY <2>2, <2>6, <2>7
<1> QED BY <1>3, <1>4, <1>5, <1>6

(* A dump goes on for the request under way only, or for nobody.           *)
LEMMA DumpPhase ==
  ASSUME CacheInv, dump.state # "off"
  PROVE  phase \in {"receive", "failed"}
BY DEF CacheInv, OneDump, TypeOK, Phases

LEMMA DumpObjectKeeps == ASSUME CacheInv, DumpObject PROVE CacheInv'
<1>1. PICK k \in dump.todo :
        /\ dump.state # "off"
        /\ IF table[k] = None
             THEN /\ dump' = [dump EXCEPT !.todo = @ \ {k}]
                  /\ UNCHANGED sync
             ELSE /\ dump' = [dump EXCEPT !.todo = @ \ {k}, !.state = "same"]
                  /\ sync' = Append(sync,
                       [type |-> "object", seq |-> dump.seq, key |-> k,
                        val |-> table[k], intr |-> dump.state = "changed"])
        /\ UNCHANGED <<table, joined, events, overrun, phase, error, group,
                       interrupted, seqNext, seqExpect, cache>>
  BY DEF DumpObject
<1> DEFINE m == [type |-> "object", seq |-> dump.seq, key |-> k,
                 val |-> table[k], intr |-> dump.state = "changed"]
<1>2. /\ dump \in Dump /\ k \in Keys /\ table \in Content
      /\ sync \in Seq(SyncMsg)
  BY <1>1 DEF CacheInv, TypeOK, Dump
<1>3. /\ dump' \in Dump /\ dump'.todo = dump.todo \ {k}
      /\ dump'.seq = dump.seq /\ dump'.state # "off"
  <2>1. /\ [dump EXCEPT !.todo = @ \ {k}] \in Dump
        /\ [dump EXCEPT !.todo = @ \ {k}, !.state = "same"] \in Dump
    BY <1>2 DEF Dump
  <2>2. CASE table[k] = None
    BY <1>1, <1>2, <2>1, <2>2 DEF Dump
  <2>3. CASE table[k] # None
    BY <1>1, <1>2, <2>1, <2>3 DEF Dump
  <2> QED BY <2>2, <2>3
<1>4. CASE table[k] = None /\ sync' = sync
  <2>1. TypeOK'
    BY <1>1, <1>3, <1>4 DEF CacheInv, TypeOK
  <2>2. OneDump'
    BY <1>1, <1>3, <1>4 DEF CacheInv, OneDump
  <2>3. Unjoined'
    BY <1>1 DEF CacheInv, Unjoined
  <2>4. Heard'
    <3>1. ASSUME NEW l \in Keys, Believed(l) PROVE Believed(l)'
      BY <1>1, <1>2, <1>3, <1>4, <3>1 DEF Believed, Shown, Content
    <3> QED BY <1>1, <3>1 DEF CacheInv, Heard, LastWord, Silent
  <2> QED BY <2>1, <2>2, <2>3, <2>4 DEF CacheInv
<1>5. CASE table[k] # None /\ sync' = Append(sync, m)
  <2>1. m \in SyncMsg
    BY <1>2, <1>5 DEF SyncMsg, Dump, Content
  <2>2. /\ sync' \in Seq(SyncMsg)
        /\ DOMAIN sync' = 1 .. Len(sync) + 1 /\ DOMAIN sync = 1 .. Len(sync)
        /\ Len(sync) \in Nat
        /\ \A j \in DOMAIN sync : sync'[j] = sync[j]
        /\ sync'[Len(sync) + 1] = m
    <3> HIDE DEF m
    <3> QED BY <1>2, <1>5, <2>1
  <2>3. TypeOK'
    BY <1>1, <1>3, <2>2 DEF CacheInv, TypeOK
  <2>4. OneDump'
    <3>1. phase \in {"receive", "failed"}
      BY <1>1, DumpPhase
    <3>2. m.seq = dump.seq /\ m.type = "object"
      OBVIOUS
    <3> HIDE DEF m
    <3> QED BY <1>1, <1>3, <2>2, <3>1, <3>2 DEF CacheInv, OneDump
  <2>5. Unjoined'
    BY <1>1 DEF CacheInv, Unjoined
  <2>6. Heard'
    <3>1. m.key = k /\ m.type = "object" /\ m.val = table[k]
      OBVIOUS
    <3> HIDE DEF m
    <3>2. ASSUME NEW l \in Keys, Believed(l) PROVE Believed(l)'
      BY <1>1, <1>3, <2>2, <3>1, <3>2 DEF Believed, Shown
    <3> QED BY <1>1, <3>2 DEF CacheInv, Heard, LastWord, Silent
  <2> QED BY <2>3, <2>4, <2>5, <2>6 DEF CacheInv
<1> QED BY <1>1, <1>4, <1>5

LEMMA DumpDoneKeeps == ASSUME CacheInv, DumpDone PROVE CacheInv'
<1> DEFINE m == [type |-> "done", seq |-> dump.seq,
                 intr |-> dump.state = "changed"]
<1>1. /\ dump.state # "off" /\ dump.todo = {}
      /\ dump' = NoDump
      /\ sync' = Append(sync, m)
      /\ UNCHANGED <<table, joined, events, overrun, phase, error, group,
                     interrupted, seqNext, seqExpect, cache>>
  BY DEF DumpDone
<1>2. m.type = "done" /\ m.seq = dump.seq
  OBVIOUS
<1>3. m \in SyncMsg /\ sync \in Seq(SyncMsg)
  BY DEF CacheInv, TypeOK, Dump, SyncMsg
<1>4. NoDump \in Dump /\ NoDump.state = "off" /\ NoDump.todo = {}
  BY DEF NoDump, Dump, SeqNumbers
<1> HIDE DEF m
<1>5. /\ sync' \in Seq(SyncMsg)
      /\ DOMAIN sync' = 1 .. Len(sync) + 1 /\ DOMAIN sync = 1 .. Len(sync)
      /\ Len(sync) \in Nat /\ Len(sync') = Len(sync) + 1
      /\ \A j \in DOMAIN sync : sync'[j] = sync[j]
      /\ sync'[Len(sync) + 1] = m
  BY <1>1, <1>3
<1>6. TypeOK'
  BY <1>1, <1>4, <1>5 DEF CacheInv, TypeOK
<1>7. OneDump'
  <2>1. phase \in {"receive", "failed"}
    BY <1>1, DumpPhase
  <2>2. sync' # <<>>
    BY <1>5
  <2> QED BY <1>1, <1>2, <1>4, <1>5, <2>1, <2>2 DEF CacheInv, OneDump
<1>8. Unjoined'
  BY <1>1 DEF CacheInv, Unjoined
<1>9. Heard'
  <2>1. ASSUME NEW l \in Keys, Believed(l) PROVE Believed(l)'
    BY <1>1, <1>2, <1>4, <1>5, <2>1 DEF Believed, Shown
  <2> QED BY <1>1, <2>1 DEF CacheInv, Heard, LastWord, Silent
<1> QED BY <1>6, <1>7, <1>8, <1>9 DEF CacheInv

-----------------------------------------------------------------------------
(* The daemon.                                                             *)

LEMMA AddCacheKeeps == ASSUME CacheInv, AddCache PROVE CacheInv'
<1>1. /\ phase = "start" /\ joined' = TRUE /\ phase' = "request" /\ group' = 1
      /\ cache' = Empty
      /\ UNCHANGED <<kernelVars, syncVars, error>>
  BY DEF AddCache
<1>2. Empty \in Content /\ 1 \in 1 .. NumGroups
  BY DEF Empty, Content
<1>3. TypeOK'
  BY <1>1, <1>2 DEF CacheInv, TypeOK, kernelVars, syncVars, Phases
<1>4. sync = <<>> /\ events = <<>> /\ ~ overrun
  BY <1>1 DEF CacheInv, OneDump, Unjoined
<1>5. OneDump'
  BY <1>1 DEF CacheInv, OneDump, kernelVars, syncVars
<1>6. Heard'
  <2>1. ASSUME NEW l \in Keys PROVE Believed(l)'
    BY <1>1, <1>4 DEF Believed, kernelVars, syncVars, Empty
  <2> QED BY <1>1, <1>4, <2>1 DEF Heard, LastWord, kernelVars
<1> QED BY <1>1, <1>3, <1>5, <1>6 DEF CacheInv, Unjoined

LEMMA RequestDumpKeeps == ASSUME CacheInv, RequestDump PROVE CacheInv'
<1> DEFINE d == [state |-> "fresh", seq |-> seqNext,
                 todo |-> {k \in Keys : GroupOf[k] = group}]
<1>1. /\ phase = "request" /\ phase' = "receive"
      /\ dump' = d
      /\ seqNext' = (seqNext + 1) % SeqSize
      /\ UNCHANGED <<table, joined, events, overrun, sync, error, group,
                     interrupted, seqExpect, cache>>
  BY DEF RequestDump
<1>2. d.state # "off" /\ d.seq = seqNext
      /\ d.todo = {k \in Keys : GroupOf[k] = group}
  OBVIOUS
<1>3. d \in Dump
  BY DEF CacheInv, TypeOK, Dump
<1> HIDE DEF d
<1>4. TypeOK'
  <2>1. seqNext \in Nat
    BY DEF CacheInv, TypeOK, SeqNumbers
  <2>2. seqNext' \in SeqNumbers
    BY <1>1, <2>1, SeqNumber
  <2> QED BY <1>1, <1>3, <2>2 DEF CacheInv, TypeOK, Phases
<1>5. sync = <<>> /\ seqNext = seqExpect
  BY <1>1 DEF CacheInv, OneDump
<1>6. OneDump'
  BY <1>1, <1>2, <1>5 DEF CacheInv, OneDump
<1>7. Heard'
  <2>1. ASSUME NEW l \in Keys, Believed(l) PROVE Believed(l)'
    BY <1>1, <1>2, <1>5, <2>1 DEF Believed, Shown
  <2> QED BY <1>1, <2>1 DEF CacheInv, Heard, LastWord, Silent
<1> QED BY <1>1, <1>4, <1>6, <1>7 DEF CacheInv, Unjoined

(* The first message of a sequence is taken away.                          *)
LEMMA TailParts ==
  ASSUME NEW S, NEW s \in Seq(S), s # <<>>
  PROVE  /\ Tail(s) \in Seq(S) /\ Head(s) = s[1] /\ s[1] \in S
         /\ Len(s) \in Nat \ {0} /\ Len(Tail(s)) = Len(s) - 1
         /\ DOMAIN s = 1 .. Len(s) /\ DOMAIN Tail(s) = 1 .. Len(s) - 1
         /\ \A j \in 1 .. Len(s) - 1 : Tail(s)[j] = s[j + 1]
OBVIOUS

LEMMA RequestUnsentKeeps == ASSUME CacheInv, RequestUnsent PROVE CacheInv'
<1>1. /\ phase = "request" /\ phase' = "receive" /\ error' = "unsent"
      /\ seqNext' = (seqNext + 1) % SeqSize
      /\ UNCHANGED <<table, events, overrun, dump, joined, sync, group,
                     interrupted, seqExpect, cache>>
  BY DEF RequestUnsent, kernelVars
<1>2. TypeOK'
  <2>1. seqNext \in Nat
    BY DEF CacheInv, TypeOK, SeqNumbers
  <2>2. seqNext' \in SeqNumbers
    BY <1>1, <2>1, SeqNumber
  <2> QED BY <1>1, <2>2 DEF CacheInv, TypeOK, Phases, Errors
<1>3. sync = <<>> /\ dump.state = "off" /\ seqNext = seqExpect
  BY <1>1 DEF CacheInv, OneDump
<1>4. OneDump'
  BY <1>1, <1>3 DEF CacheInv, OneDump
<1>5. Heard'
  <2>1. ASSUME NEW l \in Keys, Believed(l) PROVE Believed(l)'
    BY <1>1, <2>1 DEF Believed, Shown
  <2> QED BY <1>1, <2>1 DEF CacheInv, Heard, LastWord, Silent
<1> QED BY <1>1, <1>2, <1>4, <1>5 DEF CacheInv, Unjoined

(* What holds while the answer to a request is being read.                 *)
LEMMA Reading ==
  ASSUME CacheInv, phase = "receive", sync # <<>>
  PROVE  /\ error # "unsent"
         /\ Tail(sync) \in Seq(SyncMsg) /\ Head(sync) = sync[1]
         /\ sync[1] \in SyncMsg /\ sync[1].seq = seqExpect
         /\ Len(sync) \in Nat \ {0} /\ Len(Tail(sync)) = Len(sync) - 1
         /\ DOMAIN sync = 1 .. Len(sync) /\ DOMAIN Tail(sync) = 1 .. Len(sync) - 1
         /\ \A j \in 1 .. Len(sync) - 1 : Tail(sync)[j] = sync[j + 1]
<1>1. sync \in Seq(SyncMsg)
  BY DEF CacheInv, TypeOK
<1>2. /\ Len(sync) \in Nat \ {0} /\ DOMAIN sync = 1 .. Len(sync)
  BY <1>1
<1>3. 1 \in DOMAIN sync
  BY <1>2
<1>4. sync[1].seq = seqExpect /\ error # "unsent"
  BY <1>3 DEF CacheInv, OneDump
<1> HIDE DEF CacheInv
<1> QED BY <1>1, <1>4, TailParts

LEMMA ReceiveObjectKeeps == ASSUME CacheInv, ReceiveObject PROVE CacheInv'
<1> DEFINE m == Head(sync)
<1>1. /\ phase = "receive" /\ sync # <<>> /\ m.type = "object"
      /\ sync' = Tail(sync)
      /\ UNCHANGED <<kernelVars, seqNext>>
      /\ IF m.seq # seqExpect
           THEN Mismatch
           ELSE /\ cache' = Filled(m)
                /\ interrupted' = (interrupted \/ m.intr)
                /\ UNCHANGED <<joined, phase, error, group, seqExpect>>
  BY DEF ReceiveObject, Receive
<1>2. /\ Tail(sync) \in Seq(SyncMsg) /\ m = sync[1]
      /\ m \in SyncMsg /\ m.seq = seqExpect
      /\ Len(sync) \in Nat \ {0} /\ Len(Tail(sync)) = Len(sync) - 1
      /\ DOMAIN sync = 1 .. Len(sync) /\ DOMAIN Tail(sync) = 1 .. Len(sync) - 1
      /\ \A j \in 1 .. Len(sync) - 1 : Tail(sync)[j] = sync[j + 1]
  BY <1>1, Reading
<1>3. /\ cache' = Filled(m) /\ interrupted' = (interrupted \/ m.intr)
      /\ UNCHANGED <<joined, phase, error, group, seqExpect>>
      /\ error # "unsent"
  BY <1>1, <1>2, Reading
<1>4. m.key \in Keys /\ m.val \in Values /\ m.intr \in BOOLEAN
  BY <1>1, <1>2, SyncMsgParts
<1> HIDE DEF m
<1>5. cache \in Content /\ table \in Content
  BY DEF CacheInv, TypeOK
<1>6. cache' \in Content
  BY <1>3, <1>4, <1>5 DEF Filled, Content
<1>7. TypeOK'
  <2>1. interrupted' \in BOOLEAN
    BY <1>3
  <2> QED BY <1>1, <1>2, <1>3, <1>6, <2>1 DEF CacheInv, TypeOK, kernelVars
<1>8. OneDump'
  <2>1. /\ dump' = dump /\ seqNext' = seqNext /\ phase = "receive"
        /\ phase' = phase /\ error' = error /\ seqExpect' = seqExpect
        /\ error # "unsent"
    BY <1>1, <1>3 DEF kernelVars
  <2>2. /\ DOMAIN sync' = 1 .. Len(sync) - 1 /\ Len(sync') = Len(sync) - 1
        /\ \A j \in 1 .. Len(sync) - 1 : sync'[j] = sync[j + 1]
    BY <1>1, <1>2
  <2>3. \A j \in 1 .. Len(sync) - 1 : j + 1 \in DOMAIN sync
    BY <1>2
  <2>4. ASSUME NEW j \in DOMAIN sync' PROVE sync'[j].seq = seqExpect
    <3>1. j + 1 \in DOMAIN sync /\ sync'[j] = sync[j + 1]
      BY <2>2, <2>3
    <3>2. \A i \in DOMAIN sync : sync[i].seq = seqExpect
      BY <1>1 DEF CacheInv, OneDump
    <3> QED BY <3>1, <3>2
  <2>5. \A j \in DOMAIN sync' :
          sync'[j].type = "done" => j = Len(sync') /\ dump.state = "off"
    <3>1. ASSUME NEW j \in DOMAIN sync', sync'[j].type = "done"
          PROVE  j = Len(sync') /\ dump.state = "off"
      <4>1. j \in 1 .. Len(sync) - 1
        BY <2>2
      <4>2. sync[j + 1].type = "done" /\ j + 1 \in DOMAIN sync
        BY <2>2, <2>3, <3>1, <4>1
      <4>3. j + 1 = Len(sync) /\ dump.state = "off"
        BY <1>1, <4>2 DEF CacheInv, OneDump
      <4> QED BY <1>2, <2>2, <4>1, <4>3
    <3> QED BY <3>1
  <2>6. dump.state = "off" => sync' # <<>> /\ sync'[Len(sync')].type = "done"
    <3> SUFFICES ASSUME dump.state = "off"
                 PROVE  sync' # <<>> /\ sync'[Len(sync')].type = "done"
      OBVIOUS
    <3>1. sync[Len(sync)].type = "done"
      BY <1>1, <1>3 DEF CacheInv, OneDump
    <3>2. Len(sync) # 1
      BY <1>1, <1>2, <3>1
    <3>3. Len(sync) - 1 \in 1 .. Len(sync) - 1
      BY <1>2, <3>2
    <3>4. sync'[Len(sync')] = sync[Len(sync)]
      BY <1>2, <2>2, <3>3
    <3>5. sync' # <<>>
      BY <2>2, <3>3
    <3> QED BY <3>1, <3>4, <3>5
  <2> QED BY <2>1, <2>4, <2>5, <2>6 DEF CacheInv, OneDump
<1>9. Heard'
  <2>1. ASSUME NEW l \in Keys, Believed(l) PROVE Believed(l)'
    <3>1. /\ \A j \in 1 .. Len(sync) - 1 :
               j + 1 \in DOMAIN sync /\ sync'[j] = sync[j + 1]
          /\ DOMAIN sync' = 1 .. Len(sync) - 1
          /\ 1 \in DOMAIN sync
      BY <1>1, <1>2
    <3>2. \A j \in DOMAIN sync' :
            sync'[j].type = "object" /\ sync'[j].key = l
              => sync'[j].val = table[l]
      BY <2>1, <3>1 DEF Believed
    <3>3. Shown(l) => Shown(l)' \/ m.key = l
      <4> SUFFICES ASSUME NEW j \in DOMAIN sync,
                          sync[j].type = "object", sync[j].key = l, j # 1
                   PROVE  Shown(l)'
        BY <1>2 DEF Shown
      <4>1. j - 1 \in DOMAIN sync' /\ sync'[j - 1] = sync[j]
        <5>1. j - 1 \in 1 .. Len(sync) - 1 /\ (j - 1) + 1 = j
          BY <1>2
        <5> QED BY <3>1, <5>1
      <4> QED BY <4>1 DEF Shown
    <3>4. /\ cache'[l] \in {None, table[l]}
          /\ cache[l] = table[l] => cache'[l] = table[l]
          /\ m.key = l => cache'[l] = table[l]
      <4>1. m.key = l => m.val = table[l]
        BY <1>1, <1>2, <2>1, <3>1 DEF Believed, m
      <4>2. cache[l] \in {None, table[l]}
        BY <2>1 DEF Believed
      <4>3. CASE cache[m.key] = None
        <5>1. cache' = [cache EXCEPT ![m.key] = m.val]
          BY <1>3, <4>3 DEF Filled
        <5>2. cache'[l] = IF l = m.key THEN m.val ELSE cache[l]
          BY <1>4, <1>5, <5>1 DEF Content
        <5> QED BY <4>1, <4>2, <5>2
      <4>4. CASE cache[m.key] # None
        <5>1. cache' = cache
          BY <1>3, <4>4 DEF Filled
        <5> QED BY <4>2, <4>4, <5>1
      <4> QED BY <4>3, <4>4
    <3>5. UNCHANGED <<table, dump, phase, error, group>>
      BY <1>1, <1>3 DEF kernelVars
    <3> QED BY <2>1, <3>2, <3>3, <3>4, <3>5 DEF Believed
  <2> QED BY <1>1, <1>3, <2>1 DEF CacheInv, Heard, LastWord, Silent, kernelVars
<1> QED BY <1>1, <1>3, <1>7, <1>8, <1>9 DEF CacheInv, Unjoined, kernelVars

LEMMA ReceiveDoneKeeps == ASSUME CacheInv, ReceiveDone PROVE CacheInv'
<1> DEFINE m == Head(sync)
           again == interrupted \/ m.intr
<1>1. /\ phase = "receive" /\ sync # <<>> /\ m.type = "done"
      /\ sync' = Tail(sync)
      /\ UNCHANGED <<kernelVars, seqNext>>
      /\ IF m.seq # seqExpect
           THEN Mismatch
           ELSE /\ seqExpect' = (seqExpect + 1) % SeqSize
                /\ interrupted' = FALSE
                /\ NextDump(again)
                /\ UNCHANGED <<joined, error, cache>>
  BY DEF ReceiveDone, Receive
<1>2. /\ Tail(sync) \in Seq(SyncMsg) /\ m = sync[1] /\ m.seq = seqExpect
      /\ Len(sync) \in Nat \ {0} /\ Len(Tail(sync)) = Len(sync) - 1
      /\ DOMAIN sync = 1 .. Len(sync) /\ DOMAIN Tail(sync) = 1 .. Len(sync) - 1
  BY <1>1, Reading
<1>3. /\ seqExpect' = (seqExpect + 1) % SeqSize /\ interrupted' = FALSE
      /\ group' = IF again \/ group = NumGroups THEN group ELSE group + 1
      /\ phase' = IF ~ again /\ group = NumGroups THEN "managed" ELSE "request"
      /\ UNCHANGED <<joined, error, cache>>
      /\ error # "unsent"
  BY <1>1, <1>2, Reading DEF NextDump
<1>4. UNCHANGED <<table, joined, events, overrun, dump, seqNext>>
  BY <1>1, <1>3 DEF kernelVars
<1>5. Len(sync) = 1 /\ dump.state = "off" /\ dump.todo = {}
  BY <1>1, <1>2 DEF CacheInv, OneDump
<1>6. DOMAIN sync' = {} /\ sync' = <<>> /\ sync' \in Seq(SyncMsg)
  BY <1>1, <1>2, <1>5
<1> HIDE DEF m, again
<1>7. group \in 1 .. NumGroups /\ group' \in 1 .. NumGroups
  BY <1>3 DEF CacheInv, TypeOK
<1>8. TypeOK'
  <2>1. seqExpect \in Nat
    BY DEF CacheInv, TypeOK, SeqNumbers
  <2>2. seqExpect' \in SeqNumbers
    BY <1>3, <2>1, SeqNumber
  <2>3. phase' \in Phases /\ interrupted' \in BOOLEAN
    BY <1>3 DEF Phases
  <2> QED BY <1>3, <1>4, <1>6, <1>7, <2>2, <2>3 DEF CacheInv, TypeOK
<1>9. seqNext = (seqExpect + 1) % SeqSize
  BY <1>1 DEF CacheInv, OneDump
<1>10. phase' \in {"request", "managed"}
  BY <1>3
<1>11. OneDump'
  BY <1>3, <1>4, <1>5, <1>6, <1>9, <1>10 DEF CacheInv, OneDump
<1>12. Unjoined'
  BY <1>10 DEF Unjoined
<1>13. Heard'
  <2>1. ASSUME NEW l \in Keys, Believed(l) PROVE Believed(l)'
    <3>1. ~ Shown(l)
      BY <1>1, <1>2, <1>5 DEF Shown
    <3>2. GroupOf[l] = group => cache[l] = table[l]
      BY <1>1, <1>3, <1>5, <2>1, <3>1 DEF Believed
    <3>3. GroupOf[l] \in 1 .. NumGroups
      OBVIOUS
    <3>4. phase' = "managed" \/ GroupOf[l] < group' => GroupOf[l] <= group
      BY <1>3, <1>7, <3>3
    <3>5. GroupOf[l] <= group => GroupOf[l] < group \/ GroupOf[l] = group
      BY <1>7, <3>3
    <3>6. phase' = "managed" \/ GroupOf[l] < group' => cache[l] = table[l]
      BY <2>1, <3>2, <3>4, <3>5 DEF Believed
    <3> QED BY <1>3, <1>4, <1>6, <1>10, <2>1, <3>6 DEF Believed
  <2> QED BY <1>1, <1>4, <2>1 DEF CacheInv, Heard, LastWord, Silent
<1> QED BY <1>8, <1>11, <1>12, <1>13 DEF CacheInv

LEMMA DataReadyKeeps == ASSUME CacheInv, DataReady PROVE CacheInv'
<1> DEFINE e == Head(events)
<1>1. /\ phase = "managed" /\ ~ overrun /\ events # <<>>
      /\ cache' = [cache EXCEPT ![e.key] = e.val]
      /\ events' = Tail(events)
      /\ UNCHANGED <<table, joined, overrun, dump, syncVars, phase, error, group>>
  BY DEF DataReady, cache_include
<1>2. events \in Seq(Event) /\ cache \in Content /\ table \in Content
  BY DEF CacheInv, TypeOK
<1>3. /\ Tail(events) \in Seq(Event) /\ e = events[1] /\ events[1] \in Event
      /\ Len(events) \in Nat \ {0}
      /\ DOMAIN events = 1 .. Len(events)
      /\ DOMAIN Tail(events) = 1 .. Len(events) - 1
      /\ \A j \in 1 .. Len(events) - 1 : Tail(events)[j] = events[j + 1]
  <2> HIDE DEF CacheInv
  <2> QED BY <1>1, <1>2, TailParts
<1>4. e.key \in Keys /\ e.val \in Values \cup {None}
  BY <1>3, EventParts
<1> HIDE DEF e
<1>5. /\ DOMAIN events' = 1 .. Len(events) - 1 /\ 1 \in DOMAIN events
      /\ \A j \in 1 .. Len(events) - 1 :
           j + 1 \in DOMAIN events /\ events'[j] = events[j + 1]
      /\ \A j \in DOMAIN events :
           j # 1 => j - 1 \in DOMAIN events' /\ events'[j - 1] = events[j]
  <2>1. ASSUME NEW j \in 1 .. Len(events), j # 1
        PROVE  j - 1 \in 1 .. Len(events) - 1 /\ (j - 1) + 1 = j
    <3>1. \A n \in Nat : \A i \in 1 .. n :
            i # 1 => i - 1 \in 1 .. n - 1 /\ (i - 1) + 1 = i
      OBVIOUS
    <3>2. Len(events) \in Nat
      BY <1>3
    <3> QED BY <2>1, <3>1, <3>2
  <2> QED BY <1>1, <1>3, <2>1
<1>6. cache' \in Content /\ \A l \in Keys : cache'[l] = IF l = e.key THEN e.val ELSE cache[l]
  BY <1>1, <1>2, <1>4 DEF Content
<1>7. TypeOK'
  BY <1>1, <1>3, <1>6 DEF CacheInv, TypeOK, syncVars
<1>8. OneDump'
  BY <1>1 DEF CacheInv, OneDump, syncVars
<1>9. joined /\ LastWord /\ \A l \in Keys : Silent(l) => Believed(l)
  BY <1>1 DEF CacheInv, Heard
<1>10. LastWord'
  <2> SUFFICES ASSUME NEW j \in DOMAIN events',
                      \A i \in DOMAIN events' : i > j => events'[i].key # events'[j].key
               PROVE  events'[j].val = table[events'[j].key]
    BY <1>1 DEF LastWord
  <2>1. j \in 1 .. Len(events) - 1 /\ j + 1 \in DOMAIN events
        /\ events'[j] = events[j + 1]
    BY <1>5
  <2>2. ASSUME NEW i \in DOMAIN events, i > j + 1
        PROVE  events[i].key # events[j + 1].key
    <3>1. i # 1 /\ i - 1 > j
      BY <1>3, <2>1, <2>2
    <3>2. i - 1 \in DOMAIN events' /\ events'[i - 1] = events[i]
      BY <1>5, <3>1
    <3> QED BY <2>1, <3>1, <3>2
  <2> QED BY <1>9, <2>1, <2>2 DEF LastWord
<1>11. ASSUME NEW l \in Keys, Silent(l)' PROVE Believed(l)'
  <2>1. sync = <<>> /\ dump.state = "off" /\ sync' = sync /\ dump' = dump
        /\ table' = table /\ group' = group /\ phase' = phase
    BY <1>1 DEF CacheInv, OneDump, syncVars
  <2>2. cache'[l] = table[l]
    <3>1. CASE l = e.key
      <4>1. \A i \in DOMAIN events : i > 1 => events[i].key # events[1].key
        <5> SUFFICES ASSUME NEW i \in DOMAIN events, i > 1
                     PROVE  events[i].key # l
          BY <1>3, <3>1
        <5>1. i # 1
          BY <1>3
        <5> QED BY <1>5, <1>11, <5>1 DEF Silent
      <4> QED BY <1>3, <1>5, <1>6, <1>9, <3>1, <4>1 DEF LastWord
    <3>2. CASE l # e.key
      <4>1. Silent(l)
        <5> SUFFICES ASSUME NEW i \in DOMAIN events PROVE events[i].key # l
          BY DEF Silent
        <5>1. CASE i = 1
          BY <1>3, <3>2, <5>1
        <5>2. CASE i # 1
          BY <1>5, <1>11, <5>2 DEF Silent
        <5> QED BY <5>1, <5>2
      <4> QED BY <1>1, <1>6, <1>9, <3>2, <4>1 DEF Believed
    <3> QED BY <3>1, <3>2
  <2>3. DOMAIN sync' = {}
    BY <2>1
  <2> QED BY <1>1, <2>1, <2>2, <2>3 DEF Believed
<1>12. Heard'
  BY <1>1, <1>9, <1>10, <1>11 DEF Heard
<1> QED BY <1>1, <1>7, <1>8, <1>12 DEF CacheInv, Unjoined

LEMMA FailKeeps ==
  ASSUME CacheInv, Overrun \/ OtherFailure PROVE CacheInv'
<1>1. /\ phase' = "failed" /\ error' \in {"overrun", "other"}
      /\ joined' \in {FALSE, joined}
      /\ UNCHANGED <<kernelVars, syncVars, group, cache>>
  <2>1. joined \in BOOLEAN
    BY DEF CacheInv, TypeOK
  <2> QED BY <2>1 DEF Overrun, OtherFailure, Fail, FailWith
<1>2. TypeOK'
  BY <1>1 DEF CacheInv, TypeOK, kernelVars, syncVars, Phases, Errors
<1>3. OneDump'
  BY <1>1 DEF CacheInv, OneDump, kernelVars, syncVars
<1> QED BY <1>1, <1>2, <1>3 DEF CacheInv, Unjoined, Heard

LEMMA RestartKeeps == ASSUME CacheInv, Restart PROVE CacheInv'
<1>1. /\ joined' = FALSE /\ events' = <<>> /\ overrun' = FALSE
      /\ dump' = NoDump /\ sync' = <<>>
      /\ seqNext' \in SeqNumbers /\ seqExpect' = seqNext'
      /\ phase' = "start" /\ error' = "none" /\ group' = 1
      /\ interrupted' = FALSE /\ cache' = Empty /\ table' = table
  BY DEF Restart, FreshSockets
<1>2. Empty \in Content /\ NoDump \in Dump /\ 1 \in 1 .. NumGroups
  BY DEF Empty, Content, NoDump, Dump, SeqNumbers
<1>3. <<>> \in Seq(Event) /\ <<>> \in Seq(SyncMsg)
  OBVIOUS
<1>4. TypeOK'
  BY <1>1, <1>2, <1>3 DEF CacheInv, TypeOK, Phases, Errors
<1>5. OneDump'
  BY <1>1 DEF OneDump, NoDump
<1> QED BY <1>1, <1>4, <1>5 DEF CacheInv, Unjoined, Heard

LEMMA StepKeeps == ASSUME CacheInv, [Next]_vars PROVE CacheInv'
<1>1. CASE Change
  BY <1>1, ChangeKeeps
<1>2. CASE DumpObject
  BY <1>2, DumpObjectKeeps
<1>3. CASE DumpDone
  BY <1>3, DumpDoneKeeps
<1>4. CASE AddCache
  BY <1>4, AddCacheKeeps
<1>5. CASE RequestDump
  BY <1>5, RequestDumpKeeps
<1>6. CASE ReceiveObject
  BY <1>6, ReceiveObjectKeeps
<1>7. CASE ReceiveDone
  BY <1>7, ReceiveDoneKeeps
<1>8. CASE DataReady
  BY <1>8, DataReadyKeeps
<1>9. CASE Overrun \/ OtherFailure
  BY <1>9, FailKeeps
<1>10. CASE Restart
  BY <1>10, RestartKeeps
<1>11. CASE RequestUnsent
  BY <1>11, RequestUnsentKeeps
<1>12. CASE UNCHANGED vars
  BY <1>12 DEF vars, CacheInv, TypeOK, OneDump, Unjoined, Heard, LastWord,
               Silent, Believed, Shown
<1> QED BY <1>1, <1>2, <1>3, <1>4, <1>5, <1>6, <1>7, <1>8, <1>9, <1>10, <1>11,
           <1>12 DEF Next, KernelDump, Daemon, Failure

-----------------------------------------------------------------------------
(* Whatever changes while dumps are written, repeated and read: what the   *)
(* cache holds of an object is true unless a message about it is queued or *)
(* was dropped, and sockets, kernel and daemon agree on the dump under way *)
(* (nl_cache_mngr_add_cache, nl_cache_refill, recvmsgs, event_input).      *)
THEOREM CacheInvariant == Spec => []CacheInv
<1>1. Init => CacheInv
  BY InitInv
<1>2. CacheInv /\ [Next]_vars => CacheInv'
  BY StepKeeps
<1> QED BY <1>1, <1>2, PTL DEF Spec

(* A managed cache with nothing left to read, and no loss to be reported,  *)
(* is the kernel's table, although nl_cache_refill does not clear it when  *)
(* it asks for an interrupted dump again.                                  *)
THEOREM FilledCacheIsTable == Spec => []CacheIsTable
<1>1. ASSUME CacheInv, phase = "managed", events = <<>>, ~ overrun
      PROVE  cache = table
  <2>1. DOMAIN events = {}
    BY <1>1
  <2>2. \A k \in Keys : Silent(k)
    BY <2>1 DEF Silent
  <2>3. \A k \in Keys : cache[k] = table[k]
    BY <1>1, <2>2 DEF CacheInv, Heard, Believed
  <2>4. cache \in Content /\ table \in Content
    BY <1>1 DEF CacheInv, TypeOK
  <2> QED BY <2>3, <2>4 DEF Content
<1>2. CacheInv => CacheIsTable
  BY <1>1 DEF CacheIsTable
<1> QED BY <1>2, CacheInvariant, PTL

(* recvmsgs takes an answer to its end, and never a message of another one *)
(* for part of it.                                                         *)
THEOREM AnswersAreRead == Spec => []AnswersMatch
<1>1. CacheInv => AnswersMatch
  BY DEF CacheInv, OneDump, AnswersMatch
<1> QED BY <1>1, CacheInvariant, PTL

-----------------------------------------------------------------------------
(* The cache as its user sees it.                                          *)

(* A managed cache lags behind the table by the messages not read yet.     *)
LEMMA ManagedLags ==
  CacheInv /\ phase = "managed" /\ ~ overrun => Service!Lags
<1> SUFFICES ASSUME CacheInv, phase = "managed", ~ overrun
             PROVE  Service!Lags
  OBVIOUS
<1>1. LastWord /\ \A k \in Keys : Silent(k) => Believed(k)
  BY DEF CacheInv, Heard
<1>2. \A k \in Keys : Silent(k) => cache[k] = table[k]
  BY <1>1 DEF Believed
<1> QED BY <1>1, <1>2 DEF Service!Lags, Service!Leads, Silent, LastWord

LEMMA ServiceTypes == TypeOK => Service!Typed
BY DEF TypeOK, Content, Event, Service!Typed, Service!Message

LEMMA ServiceInit == ASSUME Init PROVE Service!Init
<1>1. CacheInv
  BY InitInv
<1> QED BY <1>1, ServiceTypes DEF Service!Init, Init, CacheInv

(* A change reaches the queue of a managed cache, or is the one that is    *)
(* lost.                                                                   *)
LEMMA ChangeServes ==
  ASSUME CacheInv, Change, phase = "managed", ~ overrun, ~ overrun',
         Service!Typed'
  PROVE  Service!Change
<1>1. PICK k \in Keys, v \in Values \cup {None} :
        /\ table' = [table EXCEPT ![k] = v]
        /\ IF joined /\ ~ overrun /\ Len(events) < BufSize
             THEN events' = Append(events, [key |-> k, val |-> v])
             ELSE UNCHANGED events
        /\ overrun' = (overrun \/ (joined /\ Len(events) >= BufSize))
        /\ UNCHANGED <<phase, cache>>
  BY DEF Change
<1>2. joined /\ events \in Seq(Event) /\ BufSize \in Nat /\ table \in Content
  BY DEF CacheInv, Heard, TypeOK
<1>3. events' = Append(events, [key |-> k, val |-> v])
  <2>1. ~ (Len(events) >= BufSize)
    BY <1>1, <1>2, Zenon
  <2>2. Len(events) < BufSize
    BY <1>2, <2>1
  <2> QED BY <1>1, <1>2, <2>2
<1>4. /\ Len(events) \in Nat
      /\ DOMAIN events = 1 .. Len(events)
      /\ DOMAIN events' = 1 .. Len(events) + 1
      /\ \A j \in DOMAIN events : events'[j] = events[j]
      /\ events'[Len(events) + 1].key = k
      /\ events'[Len(events) + 1].val = v
  BY <1>2, <1>3
<1>5. DOMAIN events' \ DOMAIN events = {Len(events) + 1}
  BY <1>4
<1>6. table'[k] = v /\ \A l \in Keys : l # k => table'[l] = table[l]
  BY <1>1, <1>2 DEF Content
<1>7. Service!Leads(table, events', DOMAIN events' \ DOMAIN events, table')
  BY <1>4, <1>5, <1>6 DEF Service!Leads
<1>8. \A j \in DOMAIN events : j \in DOMAIN events' /\ events'[j] = events[j]
  BY <1>4
<1> QED BY <1>1, <1>7, <1>8 DEF Service!Change

LEMMA ServiceStep ==
  ASSUME CacheInv, CacheInv', [Next]_vars
  PROVE  [Service!Next]_(Service!vars)
<1>1. Service!Typed'
  <2>1. TypeOK' => Service!Typed'
    BY ServiceTypes, PTL
  <2> QED BY <2>1 DEF CacheInv
<1>2. CASE ~ (phase' = "managed" /\ ~ overrun')
  BY <1>1, <1>2 DEF Service!Next, Service!GiveUp
<1>3. CASE ~ (phase = "managed" /\ ~ overrun) /\ phase' = "managed" /\ ~ overrun'
  <2>1. Service!Lags'
    <3>1. (CacheInv /\ phase = "managed" /\ ~ overrun)' => Service!Lags'
      BY ManagedLags, PTL
    <3> QED BY <1>3, <3>1
  <2> QED BY <1>1, <1>3, <2>1 DEF Service!Next, Service!Fill
<1>4. CASE phase = "managed" /\ ~ overrun /\ phase' = "managed" /\ ~ overrun'
  <2>1. CASE Change
    BY <1>1, <1>4, <2>1, ChangeServes DEF Service!Next
  <2>2. CASE DataReady
    BY <1>4, <2>2 DEF DataReady, cache_include, Service!Next, Service!Read
  <2>3. CASE KernelDump
    BY <1>4, <2>3 DEF KernelDump, DumpObject, DumpDone, Service!vars
  <2>4. CASE UNCHANGED vars
    BY <2>4 DEF vars, Service!vars
  <2>5. ~ (AddCache \/ RequestDump \/ ReceiveObject \/ ReceiveDone \/ Overrun
           \/ Restart \/ Failure)
    BY <1>4 DEF AddCache, RequestDump, ReceiveObject, ReceiveDone, Receive,
       Overrun, Restart, Failure, RequestUnsent, OtherFailure, Fail, FailWith
  <2> QED BY <2>1, <2>2, <2>3, <2>4, <2>5 DEF Next, Daemon
<1> QED BY <1>2, <1>3, <1>4

(* From the fill to the first loss a cache under a manager is a lagging    *)
(* copy of the kernel's table: whatever the dumps have shown, and however  *)
(* often they were repeated, every later change is one message, and the    *)
(* cache changes by the oldest message and by nothing else                 *)
(* (nl_cache_mngr_add_cache, nl_cache_mngr_data_ready, cache_include).     *)
THEOREM ManagerImplementsService == Spec => CacheServiceKept
<1>1. Init => Service!Init
  BY ServiceInit
<1>2. CacheInv /\ CacheInv' /\ [Next]_vars => [Service!Next]_(Service!vars)
  BY ServiceStep
<1> QED
  BY <1>1, <1>2, CacheInvariant, PTL DEF Spec, CacheServiceKept, Service!Spec

-----------------------------------------------------------------------------
(* What the service promises is enough.                                    *)

LEMMA ServiceChangeLags ==
  ASSUME Service!Typed, Service!Lags, Service!Change
  PROVE  Service!Lags'
<1>1. /\ cache' = cache
      /\ events \in Seq(Service!Message) /\ events' \in Seq(Service!Message)
      /\ \A j \in DOMAIN events : j \in DOMAIN events' /\ events'[j] = events[j]
      /\ Service!Leads(cache, events, DOMAIN events, table)
      /\ Service!Leads(table, events', DOMAIN events' \ DOMAIN events, table')
  BY DEF Service!Typed, Service!Change, Service!Lags
<1>2. ASSUME NEW j \in DOMAIN events, NEW i \in DOMAIN events' \ DOMAIN events
      PROVE  i > j
  BY <1>1, <1>2
<1>3. \A j \in DOMAIN events' : events'[j].key \in Keys
  <2>1. \A j \in DOMAIN events' : events'[j] \in Service!Message
    BY <1>1
  <2> QED BY <2>1 DEF Service!Message
<1>4. ASSUME NEW k \in Keys, \A j \in DOMAIN events' : events'[j].key # k
      PROVE  table'[k] = cache[k]
  <2>1. \A j \in DOMAIN events : events[j].key # k
    BY <1>1, <1>4
  <2> QED BY <1>1, <1>4, <2>1 DEF Service!Leads
<1>5. ASSUME NEW j \in DOMAIN events',
             \A i \in DOMAIN events' : i > j => events'[i].key # events'[j].key
      PROVE  table'[events'[j].key] = events'[j].val
  <2>1. CASE j \notin DOMAIN events
    BY <1>1, <1>5, <2>1 DEF Service!Leads
  <2>2. CASE j \in DOMAIN events
    <3>1. table'[events'[j].key] = table[events'[j].key]
      <4>1. \A i \in DOMAIN events' \ DOMAIN events :
              events'[i].key # events'[j].key
        BY <1>2, <1>5, <2>2
      <4> QED BY <1>1, <1>3, <4>1 DEF Service!Leads
    <3>2. table[events[j].key] = events[j].val
      BY <1>1, <1>5, <2>2 DEF Service!Leads
    <3> QED BY <1>1, <2>2, <3>1, <3>2
  <2> QED BY <2>1, <2>2
<1> QED BY <1>1, <1>4, <1>5 DEF Service!Lags, Service!Leads

LEMMA ServiceReadLags ==
  ASSUME Service!Typed, Service!Lags, Service!Read
  PROVE  Service!Lags' /\ Service!Typed'
<1>1. /\ events # <<>> /\ events \in Seq(Service!Message)
      /\ events' = Tail(events) /\ table' = table
      /\ UNCHANGED (phase = "managed" /\ ~ overrun)
      /\ cache' = [cache EXCEPT ![Head(events).key] = Head(events).val]
      /\ cache \in [Keys -> Values \cup {None}]
      /\ Service!Leads(cache, events, DOMAIN events, table)
  BY DEF Service!Typed, Service!Read, Service!Lags
<1> DEFINE n == Len(events)
           e == Head(events)
<1>2. /\ events' \in Seq(Service!Message) /\ e = events[1]
      /\ e \in Service!Message /\ n \in Nat \ {0}
      /\ DOMAIN events = 1 .. n /\ DOMAIN events' = 1 .. n - 1
      /\ \A j \in 1 .. n - 1 : events'[j] = events[j + 1]
  BY <1>1, TailParts
<1>3. e.key \in Keys /\ e.val \in Values \cup {None}
  BY <1>2 DEF Service!Message
<1>4. /\ \A k \in Keys : cache'[k] = IF k = e.key THEN e.val ELSE cache[k]
      /\ cache' \in [Keys -> Values \cup {None}]
  BY <1>1, <1>3
<1> HIDE DEF e, n
<1>5. \A i \in 1 .. n :
        i = 1 \/ (i - 1 \in 1 .. n - 1 /\ events'[i - 1] = events[i])
  <2>1. \A i \in 1 .. n : i = 1 \/ (i - 1 \in 1 .. n - 1 /\ (i - 1) + 1 = i)
    BY <1>2
  <2> QED BY <1>2, <2>1
<1>6. ASSUME NEW k \in Keys, \A j \in DOMAIN events' : events'[j].key # k
      PROVE  table[k] = cache'[k]
  <2>1. \A i \in 1 .. n : i # 1 => events[i].key # k
    BY <1>2, <1>5, <1>6
  <2>2. CASE k = e.key
    <3>1. 1 \in DOMAIN events /\ \A i \in DOMAIN events : i > 1 => events[i].key # e.key
      BY <1>2, <2>1, <2>2
    <3> QED BY <1>1, <1>2, <1>4, <2>2, <3>1 DEF Service!Leads
  <2>3. CASE k # e.key
    <3>1. \A i \in DOMAIN events : events[i].key # k
      BY <1>2, <2>1, <2>3
    <3> QED BY <1>1, <1>4, <2>3, <3>1 DEF Service!Leads
  <2> QED BY <2>2, <2>3
<1>7. ASSUME NEW j \in DOMAIN events',
             \A i \in DOMAIN events' : i > j => events'[i].key # events'[j].key
      PROVE  table[events'[j].key] = events'[j].val
  <2>1. j + 1 \in DOMAIN events /\ events'[j] = events[j + 1]
    BY <1>2
  <2>2. ASSUME NEW i \in DOMAIN events, i > j + 1
        PROVE  events[i].key # events[j + 1].key
    <3>1. i # 1 /\ i - 1 > j
      BY <1>2, <2>2
    <3>2. i - 1 \in DOMAIN events' /\ events'[i - 1] = events[i]
      BY <1>2, <1>5, <3>1
    <3> QED BY <1>7, <2>1, <3>1, <3>2
  <2> QED BY <1>1, <2>1, <2>2 DEF Service!Leads
<1>8. Service!Lags'
  BY <1>1, <1>6, <1>7 DEF Service!Lags, Service!Leads
<1> QED BY <1>1, <1>2, <1>4, <1>8 DEF Service!Typed

(* The service is all there is to know: whoever keeps it has a cache that  *)
(* is the table when all messages are read, whatever a manager does inside *)
(* (nl_cache_mngr_data_ready).                                             *)
THEOREM ServiceSuffices == CacheServiceKept => []CacheIsTable
<1> DEFINE Sound == Service!Typed
                    /\ (phase = "managed" /\ ~ overrun => Service!Lags)
<1>1. Service!Init => Sound
  BY DEF Service!Init
<1>2. Sound /\ [Service!Next]_(Service!vars) => Sound'
  <2> SUFFICES ASSUME Sound, [Service!Next]_(Service!vars) PROVE Sound'
    OBVIOUS
  <2>1. CASE Service!Change
    BY <2>1, ServiceChangeLags DEF Service!Change
  <2>2. CASE Service!Read
    BY <2>2, ServiceReadLags DEF Service!Read
  <2>3. CASE Service!Fill
    BY <2>3 DEF Service!Fill
  <2>4. CASE Service!GiveUp
    BY <2>4 DEF Service!GiveUp
  <2>5. CASE UNCHANGED Service!vars
    BY <2>5 DEF Service!vars, Service!Typed, Service!Lags, Service!Leads
  <2> QED BY <2>1, <2>2, <2>3, <2>4, <2>5 DEF Service!Next
<1>3. Sound => CacheIsTable
  <2> SUFFICES ASSUME Sound, phase = "managed", events = <<>>, ~ overrun
               PROVE  cache = table
    BY DEF CacheIsTable
  <2>1. DOMAIN events = {}
    OBVIOUS
  <2>2. \A k \in Keys : table[k] = cache[k]
    BY <2>1 DEF Service!Lags, Service!Leads
  <2> QED BY <2>2 DEF Service!Typed
<1> HIDE DEF Sound
<1> QED BY <1>1, <1>2, <1>3, PTL DEF CacheServiceKept, Service!Spec
=============================================================================

-------------------------- MODULE HsrDaemon_proofs --------------------------
(***************************************************************************)
(* Proofs about HsrDaemon: it is type-correct, no interface waits twice,   *)
(* no waiting interface is lost, and once the daemon has heard everything  *)
(* its SLAVEn_NOT_EXISTS bits are right, for any links, names, messages    *)
(* and bounds.                                                             *)
(*                                                                         *)
(* First, what the operations of the wait list return, for lists of any    *)
(* length, and how a message sent, or a message read, changes what the     *)
(* cache and the wait list owe to the kernel and to the messages still     *)
(* queued.  Then one lemma per action.                                     *)
(***************************************************************************)
EXTENDS HsrDaemonInv, TLAPS, WellFoundedInduction, SequenceTheorems,
        FiniteSetTheorems

(* No two nodes of w have one name.                                      *)
Unique(w) ==
  \A i, j \in DOMAIN w : w[i].hsr_name = w[j].hsr_name => i = j

(* The position the code takes from a non-empty set of positions is one of *)
(* them.                                                                 *)
LEMMA MinIn ==
  ASSUME NEW K \in SUBSET Nat, K # {}
  PROVE  Min(K) \in K
<1>1. PICK x \in K : \A y \in K : ~ (<<y, x>> \in OpToRel(<, Nat))
  BY NatLessThanWellFounded, WFMin
<1>2. ASSUME NEW y \in K
      PROVE  x =< y
  <2>1. \A ss \in Nat \X Nat : ss[1] < ss[2] => ss \in OpToRel(<, Nat)
    BY DEF OpToRel
  <2>2. <<y, x>> \in Nat \X Nat
    OBVIOUS
  <2>3. ~ (y < x)
    BY <1>1, <2>1, <2>2
  <2> QED BY <2>3
<1> QED
  BY <1>2 DEF Min

(* Taking a node off shifts the ones behind it and changes nothing else. *)
LEMMA RemoveAtProperties ==
  ASSUME NEW S, NEW w \in Seq(S), NEW i \in DOMAIN w
  PROVE  /\ RemoveAt(w, i) \in Seq(S)
         /\ DOMAIN RemoveAt(w, i) = 1 .. (Len(w) - 1)
         /\ \A k \in 1 .. (Len(w) - 1) :
              RemoveAt(w, i)[k] = IF k < i THEN w[k] ELSE w[k + 1]
<1> DEFINE front == SubSeq(w, 1, i - 1)
           back == SubSeq(w, i + 1, Len(w))
<1>0. Len(w) \in Nat /\ i \in 1 .. Len(w)
  OBVIOUS
<1>1. front \in Seq(S) /\ Len(front) = i - 1
  OBVIOUS
<1>2. back \in Seq(S) /\ Len(back) = Len(w) - i
  OBVIOUS
<1>3. \A k \in 1 .. (i - 1) : front[k] = w[k]
  OBVIOUS
<1>4. \A k \in 1 .. (Len(w) - i) : back[k] = w[k + i]
  OBVIOUS
<1> HIDE DEF front, back
<1>5. RemoveAt(w, i) = front \o back
  BY DEF RemoveAt, front, back
<1>6. /\ Len(front \o back) = Len(w) - 1
      /\ \A k \in 1 .. (Len(w) - 1) :
           (front \o back)[k] = IF k =< i - 1 THEN front[k]
                                ELSE back[k - (i - 1)]
  <2>1. /\ Len(front \o back) = Len(front) + Len(back)
        /\ \A k \in 1 .. Len(front) + Len(back) :
             (front \o back)[k] = IF k <= Len(front) THEN front[k]
                                  ELSE back[k - Len(front)]
    BY <1>1, <1>2, ConcatProperties
  <2>2. Len(front) + Len(back) = Len(w) - 1
    BY <1>0, <1>1, <1>2
  <2> QED BY <1>1, <2>1, <2>2
<1>7. ASSUME NEW k \in 1 .. (Len(w) - 1)
      PROVE  (front \o back)[k] = IF k < i THEN w[k] ELSE w[k + 1]
  <2>1. CASE k < i
    BY <2>1, <1>6, <1>3
  <2>2. CASE ~ (k < i)
    <3>1. (front \o back)[k] = back[k - (i - 1)]
      BY <1>0, <2>2, <1>6
    <3>2. k - (i - 1) \in 1 .. (Len(w) - i)
      BY <1>0, <2>2
    <3>3. (k - (i - 1)) + i = k + 1
      BY <1>0
    <3>4. back[k - (i - 1)] = w[k + 1]
      BY <1>4, <3>2, <3>3
    <3> QED BY <2>2, <3>1, <3>4
  <2> QED BY <2>1, <2>2
<1> QED
  BY <1>1, <1>2, <1>5, <1>6, <1>7

-----------------------------------------------------------------------------
(* Names and nodes of a list that lost the node named h.                 *)
LEMMA DeleteProperties ==
  ASSUME NEW S, NEW w \in Seq(S), NEW h
  PROVE  /\ delete_wait_list_node(w, h) \in Seq(S)
         /\ \A k \in DOMAIN delete_wait_list_node(w, h) :
              \E j \in DOMAIN w : delete_wait_list_node(w, h)[k] = w[j]
         /\ Unique(w) => /\ Unique(delete_wait_list_node(w, h))
                         /\ ~ Waits(delete_wait_list_node(w, h), h)
<1> DEFINE d == delete_wait_list_node(w, h)
           K == {k \in DOMAIN w : w[k].hsr_name = h}
           i == Min(K)
<1>1. CASE ~ Waits(w, h)
  BY <1>1 DEF delete_wait_list_node
<1>2. CASE Waits(w, h)
  <2>1. K \in SUBSET Nat /\ K # {}
    BY <1>2 DEF Waits
  <2>2. i \in DOMAIN w /\ w[i].hsr_name = h
    BY <2>1, MinIn
  <2>3. d = RemoveAt(w, i)
    BY <1>2 DEF delete_wait_list_node
  <2> HIDE DEF d, K, i
  <2>4. Len(w) \in Nat /\ DOMAIN w = 1 .. Len(w) /\ i \in 1 .. Len(w)
    BY <2>2
  <2>5. /\ d \in Seq(S)
        /\ DOMAIN d = 1 .. (Len(w) - 1)
        /\ \A k \in 1 .. (Len(w) - 1) : d[k] = IF k < i THEN w[k] ELSE w[k + 1]
    BY <2>2, <2>3, RemoveAtProperties
  <2>6. ASSUME NEW k \in DOMAIN d
        PROVE  \E j \in DOMAIN w : j # i /\ (j < i => j = k)
                                  /\ (j > i => j = k + 1) /\ d[k] = w[j]
    <3>1. CASE k < i
      BY <3>1, <2>4, <2>5
    <3>2. CASE ~ (k < i)
      <4>1. k \in 1 .. (Len(w) - 1)
        BY <2>5
      <4>2. k + 1 \in DOMAIN w /\ k + 1 > i
        BY <4>1, <3>2, <2>4
      <4>3. d[k] = w[k + 1]
        BY <4>1, <3>2, <2>5
      <4> QED BY <4>1, <4>2, <4>3, <2>4
    <3> QED BY <3>1, <3>2
  <2>7. ASSUME Unique(w)
        PROVE  Unique(d) /\ ~ Waits(d, h)
    <3>1. ASSUME NEW k \in DOMAIN d, NEW m \in DOMAIN d,
                 d[k].hsr_name = d[m].hsr_name
          PROVE  k = m
      <4>1. PICK j \in DOMAIN w : j # i /\ (j < i => j = k)
                                  /\ (j > i => j = k + 1) /\ d[k] = w[j]
        BY <2>6
      <4>2. PICK n \in DOMAIN w : n # i /\ (n < i => n = m)
                                  /\ (n > i => n = m + 1) /\ d[m] = w[n]
        BY <2>6
      <4>3. j = n
        BY <2>7, <3>1, <4>1, <4>2 DEF Unique
      <4> QED BY <2>4, <2>5, <4>1, <4>2, <4>3
    <3>2. ASSUME NEW k \in DOMAIN d, d[k].hsr_name = h
          PROVE  FALSE
      BY <2>2, <2>6, <2>7, <3>2 DEF Unique
    <3> QED BY <3>1, <3>2 DEF Unique, Waits
  <2> QED BY <2>5, <2>6, <2>7 DEF d
<1> QED BY <1>1, <1>2

(* The same of create_hif, which deletes or does nothing.                *)
LEMMA CreateProperties ==
  ASSUME NEW S, NEW w \in Seq(S), NEW h, NEW created
  PROVE  /\ create_hif(w, h, created) \in Seq(S)
         /\ \A k \in DOMAIN create_hif(w, h, created) :
              \E j \in DOMAIN w : create_hif(w, h, created)[k] = w[j]
         /\ Unique(w) => Unique(create_hif(w, h, created))
BY DeleteProperties DEF create_hif

(* A node that joins a list without one of its name.                     *)
LEMMA AppendProperties2 ==
  ASSUME NEW S, NEW w \in Seq(S), NEW n \in S
  PROVE  /\ Append(w, n) \in Seq(S)
         /\ \A k \in DOMAIN Append(w, n) :
              Append(w, n)[k] = n \/ \E j \in DOMAIN w : Append(w, n)[k] = w[j]
         /\ Unique(w) /\ ~ Waits(w, n.hsr_name) => Unique(Append(w, n))
<1> DEFINE a == Append(w, n)
<1>1. /\ Len(w) \in Nat /\ DOMAIN w = 1 .. Len(w)
      /\ a \in Seq(S) /\ DOMAIN a = 1 .. (Len(w) + 1)
      /\ a[Len(w) + 1] = n
      /\ \A k \in 1 .. Len(w) : a[k] = w[k]
  OBVIOUS
<1> HIDE DEF a
<1>2. \A k \in DOMAIN a : k \in DOMAIN w \/ k = Len(w) + 1
  BY <1>1
<1>3. \A k \in DOMAIN a : a[k] = n \/ \E j \in DOMAIN w : a[k] = w[j]
  BY <1>1, <1>2
<1>4. ASSUME Unique(w), ~ Waits(w, n.hsr_name)
      PROVE  Unique(a)
  BY <1>1, <1>2, <1>4 DEF Unique, Waits
<1> QED BY <1>1, <1>3, <1>4 DEF a

-----------------------------------------------------------------------------
(* What the handlers of notifications keep: the type, the names, the     *)
(* slaves; and what they make of the NOT_EXISTS bits.                    *)
SameNodes(v, w) ==
  /\ DOMAIN v = DOMAIN w
  /\ \A k \in DOMAIN w : /\ v[k].hsr_name = w[k].hsr_name
                         /\ v[k].slave1 = w[k].slave1
                         /\ v[k].slave2 = w[k].slave2

SameMissing(v, w) == \A k \in DOMAIN w : v[k].missing = w[k].missing

(* Handlers that keep names and slaves keep uniqueness and slaves.       *)
LEMMA SameNodesUnique ==
  ASSUME NEW v, NEW w, SameNodes(v, w)
  PROVE  /\ Unique(w) => Unique(v)
         /\ \A h : Waits(w, h) <=> Waits(v, h)
         /\ \A k \in DOMAIN w : Slaves(v[k]) = Slaves(w[k])
BY DEF SameNodes, Unique, Waits, Slaves

(* A function of the positions of a sequence is a sequence.              *)
LEMMA MapIsSeq ==
  ASSUME NEW S, NEW T, NEW w \in Seq(S), NEW f \in [DOMAIN w -> T]
  PROVE  f \in Seq(T) /\ DOMAIN f = DOMAIN w
<1>1. Len(w) \in Nat /\ DOMAIN w = 1 .. Len(w)
  OBVIOUS
<1> QED BY <1>1, SeqDef

(* A handler that changes each node's bits without losing their type.    *)
LEMMA HandlersKeepNodes ==
  ASSUME NEW links, NEW names, NEW w \in Seq(WaitListNode(links, names)),
         NEW l, NEW m
  PROVE  \A v \in {link_changed_got_busy(w, l), link_deleted(w, l),
                   LinkAppeared(w, l), LinkReleased(w, l),
                   link_released_hsr_not(w, l, m), HsrGone(w, m)} :
           v \in Seq(WaitListNode(links, names)) /\ SameNodes(v, w)
<1> DEFINE N == WaitListNode(links, names)
<1>1. ASSUME NEW k \in DOMAIN w
      PROVE  w[k] \in N
  OBVIOUS
<1>2. /\ link_changed_got_busy(w, l) \in [DOMAIN w -> N]
      /\ SameNodes(link_changed_got_busy(w, l), w)
  BY <1>1 DEF link_changed_got_busy, SameNodes, WaitListNode, Slaves
<1>3. /\ link_deleted(w, l) \in [DOMAIN w -> N]
      /\ SameNodes(link_deleted(w, l), w)
  <2>1. ASSUME NEW k \in DOMAIN w
        PROVE  {l} \cap Slaves(w[k]) \in SUBSET links
    BY <1>1 DEF WaitListNode, Slaves
  <2> QED BY <1>1, <2>1 DEF link_deleted, SameNodes, WaitListNode
<1>4. /\ LinkAppeared(w, l) \in [DOMAIN w -> N]
      /\ SameNodes(LinkAppeared(w, l), w)
  BY <1>1 DEF LinkAppeared, SameNodes, WaitListNode
<1>5. /\ LinkReleased(w, l) \in [DOMAIN w -> N]
      /\ SameNodes(LinkReleased(w, l), w)
  BY <1>1 DEF LinkReleased, SameNodes, WaitListNode
<1>6. /\ link_released_hsr_not(w, l, m) \in [DOMAIN w -> N]
      /\ SameNodes(link_released_hsr_not(w, l, m), w)
  BY <1>1 DEF link_released_hsr_not, SameNodes, WaitListNode
<1>7. /\ HsrGone(w, m) \in [DOMAIN w -> N]
      /\ SameNodes(HsrGone(w, m), w)
  BY <1>1 DEF HsrGone, SameNodes, WaitListNode
<1> QED BY <1>2, <1>3, <1>4, <1>5, <1>6, <1>7, MapIsSeq

(* Only new_link and link_deleted touch the NOT_EXISTS bits ...          *)
LEMMA HandlersOnMissing ==
  ASSUME NEW links, NEW names, NEW w \in Seq(WaitListNode(links, names)),
         NEW l, NEW m
  PROVE  /\ SameMissing(link_changed_got_busy(w, l), w)
         /\ SameMissing(LinkReleased(w, l), w)
         /\ SameMissing(link_released_hsr_not(w, l, m), w)
         /\ SameMissing(HsrGone(w, m), w)
<1>1. ASSUME NEW k \in DOMAIN w
      PROVE  w[k] \in WaitListNode(links, names)
  OBVIOUS
<1> QED
  BY <1>1 DEF SameMissing, link_changed_got_busy, LinkReleased, HsrGone,
              link_released_hsr_not, WaitListNode

(* ... and they make those of their own link right in every node.        *)
LEMMA HandlersOnOwnMissing ==
  ASSUME NEW links, NEW names, NEW w \in Seq(WaitListNode(links, names)),
         NEW l, NEW k \in DOMAIN w
  PROVE  /\ LinkAppeared(w, l)[k].missing = w[k].missing \ {l}
         /\ link_deleted(w, l)[k].missing =
              w[k].missing \cup ({l} \cap Slaves(w[k]))
<1>1. w[k] \in WaitListNode(links, names)
  OBVIOUS
<1> QED
  BY <1>1 DEF LinkAppeared, link_deleted, WaitListNode

-----------------------------------------------------------------------------
(* Messages about links, and what a message more or less does to them.   *)

(* The positions of two reports one after the other ...                  *)
Joined(c, q, s) ==
  /\ \A k \in DOMAIN q :
       /\ k \in DOMAIN c /\ c[k] = q[k]
       /\ \A i \in DOMAIN s : Len(q) + i > k
  /\ \A k \in DOMAIN s :
       /\ Len(q) + k \in DOMAIN c /\ c[Len(q) + k] = s[k]
       /\ \A i \in DOMAIN s : Len(q) + i > Len(q) + k <=> i > k
       /\ \A i \in DOMAIN q : ~ (i > Len(q) + k)
  /\ \A k \in DOMAIN c :
       \/ k \in DOMAIN q /\ c[k] = q[k]
       \/ \E i \in DOMAIN s : k = Len(q) + i /\ c[k] = s[i]

LEMMA ConcatParts ==
  ASSUME NEW q \in Seq(Event), NEW s \in Seq(Event)
  PROVE  Joined(q \o s, q, s)
<1> DEFINE c == q \o s
<1>1. /\ Len(q) \in Nat /\ DOMAIN q = 1 .. Len(q)
      /\ Len(s) \in Nat /\ DOMAIN s = 1 .. Len(s)
      /\ DOMAIN c = 1 .. Len(q) + Len(s)
      /\ \A k \in 1 .. Len(q) + Len(s) :
           c[k] = IF k <= Len(q) THEN q[k] ELSE s[k - Len(q)]
  BY ConcatProperties
<1> HIDE DEF c
<1>2. \A k \in DOMAIN q :
        /\ k \in DOMAIN c /\ c[k] = q[k]
        /\ \A i \in DOMAIN s : Len(q) + i > k
  BY <1>1
<1>3. ASSUME NEW k \in DOMAIN s
      PROVE  /\ Len(q) + k \in DOMAIN c /\ c[Len(q) + k] = s[k]
             /\ \A i \in DOMAIN s : Len(q) + i > Len(q) + k <=> i > k
             /\ \A i \in DOMAIN q : ~ (i > Len(q) + k)
  <2>1. Len(q) + k \in 1 .. Len(q) + Len(s) /\ ~ (Len(q) + k <= Len(q))
    BY <1>1
  <2>2. (Len(q) + k) - Len(q) = k
    BY <1>1
  <2> QED BY <1>1, <2>1, <2>2
<1>4. ASSUME NEW k \in DOMAIN c
      PROVE  \/ k \in DOMAIN q /\ c[k] = q[k]
             \/ \E i \in DOMAIN s : k = Len(q) + i /\ c[k] = s[i]
  <2>1. CASE k <= Len(q)
    BY <1>1, <2>1
  <2>2. CASE ~ (k <= Len(q))
    <3>1. k - Len(q) \in DOMAIN s /\ k = Len(q) + (k - Len(q))
      BY <1>1, <2>2
    <3> QED BY <1>1, <2>2, <3>1
  <2> QED BY <2>1, <2>2
<1> QED BY <1>2, <1>3, <1>4 DEF Joined, c

(* ... and of what is left when the oldest message is read.              *)
Remains(t, q) ==
  /\ 1 \in DOMAIN q /\ DOMAIN q \subseteq Nat \ {0}
  /\ \A k \in DOMAIN t :
       k \in Nat \ {0} /\ k + 1 \in DOMAIN q /\ t[k] = q[k + 1]
  /\ \A k \in DOMAIN q :
       k = 1 \/ (k - 1 \in DOMAIN t /\ q[k] = t[k - 1])

LEMMA TailParts ==
  ASSUME NEW q \in Seq(Event), q # <<>>
  PROVE  Head(q) = q[1] /\ Remains(Tail(q), q)
<1> DEFINE t == Tail(q)
<1>1. /\ Len(q) \in Nat /\ Len(q) # 0 /\ DOMAIN q = 1 .. Len(q)
      /\ DOMAIN t = 1 .. (Len(q) - 1)
      /\ \A k \in 1 .. (Len(q) - 1) : t[k] = q[k + 1]
      /\ Head(q) = q[1] /\ 1 \in DOMAIN q
  OBVIOUS
<1> HIDE DEF t
<1>2. \A k \in DOMAIN t : k + 1 \in DOMAIN q /\ t[k] = q[k + 1] /\ k \in Nat \ {0}
  BY <1>1
<1>3. ASSUME NEW k \in DOMAIN q
      PROVE  k = 1 \/ (k - 1 \in DOMAIN t /\ q[k] = t[k - 1])
  <2>1. k = 1 \/ k - 1 \in 1 .. (Len(q) - 1)
    BY <1>1
  <2>2. (k - 1) + 1 = k
    BY <1>1
  <2> QED BY <1>1, <2>1, <2>2
<1>4. \A k \in DOMAIN q : k \in Nat \ {0}
  BY <1>1
<1> QED BY <1>1, <1>2, <1>3, <1>4 DEF Remains, t

(* What is on its way after more messages were sent.                     *)
LEMMA QueueConcat ==
  ASSUME NEW q \in Seq(Event), NEW s \in Seq(Event), NEW l
  PROVE  /\ Coming(q \o s, l) <=> Coming(q, l) \/ Coming(s, l)
         /\ Leaving(q \o s, l) <=> Leaving(q, l) \/ Leaving(s, l)
<1> DEFINE c == q \o s
<1>1. Joined(c, q, s)
  BY ConcatParts
<1> HIDE DEF c
<1>2. /\ Coming(c, l) <=> Coming(q, l) \/ Coming(s, l)
      /\ Leaving(c, l) <=> Leaving(q, l) \/ Leaving(s, l)
  BY <1>1 DEF Joined, Coming, Leaving
<1> QED BY <1>2 DEF c

(* What was on its way before the oldest message was read.               *)
LEMMA QueueTail ==
  ASSUME NEW q \in Seq(Event), q # <<>>, NEW l
  PROVE  /\ Tail(q) \in Seq(Event) /\ Head(q) \in Event
         /\ Coming(q, l) <=> Announces(Head(q), l) \/ Coming(Tail(q), l)
         /\ Leaving(q, l) <=> Withdraws(Head(q), l) \/ Leaving(Tail(q), l)
<1>1. Tail(q) \in Seq(Event) /\ Head(q) \in Event
  OBVIOUS
<1> DEFINE t == Tail(q)
<1>2. Head(q) = q[1] /\ Remains(t, q)
  BY TailParts
<1> HIDE DEF t
<1>3. /\ Coming(q, l) <=> Announces(Head(q), l) \/ Coming(t, l)
      /\ Leaving(q, l) <=> Withdraws(Head(q), l) \/ Leaving(t, l)
  BY <1>2 DEF Remains, Coming, Leaving
<1> QED BY <1>1, <1>3 DEF t

(* Taking the oldest message off leaves the last words as they are, and a *)
(* message that is not contradicted by a later one is true.              *)
LEMMA LastWordTail ==
  ASSUME NEW q \in Seq(Event), q # <<>>, NEW m, LastWordTrue(q, m)
  PROVE  /\ LastWordTrue(Tail(q), m)
         /\ \A l \in Links :
              /\ Announces(Head(q), l) /\ ~ Leaving(Tail(q), l) => m[l] # Absent
              /\ Withdraws(Head(q), l) /\ ~ Coming(Tail(q), l) => m[l] = Absent
<1> DEFINE t == Tail(q)
<1>1. Head(q) = q[1] /\ Remains(t, q)
  BY TailParts
<1> HIDE DEF t
<1>2. \A k \in DOMAIN t, j \in DOMAIN q : j > k + 1 => j # 1 /\ j - 1 > k
  BY <1>1 DEF Remains
<1>3. ASSUME NEW l \in Links, NEW k \in DOMAIN t, Announces(t[k], l),
             \A j \in DOMAIN t : j > k => ~ Withdraws(t[j], l)
      PROVE  m[l] # Absent
  <2>1. Announces(q[k + 1], l) /\ k + 1 \in DOMAIN q
    BY <1>1, <1>3 DEF Remains
  <2>2. \A j \in DOMAIN q : j > k + 1 => ~ Withdraws(q[j], l)
    BY <1>1, <1>2, <1>3 DEF Remains
  <2> QED BY <2>1, <2>2 DEF LastWordTrue
<1>4. ASSUME NEW l \in Links, NEW k \in DOMAIN t, Withdraws(t[k], l),
             \A j \in DOMAIN t : j > k => ~ Announces(t[j], l)
      PROVE  m[l] = Absent
  <2>1. Withdraws(q[k + 1], l) /\ k + 1 \in DOMAIN q
    BY <1>1, <1>4 DEF Remains
  <2>2. \A j \in DOMAIN q : j > k + 1 => ~ Announces(q[j], l)
    BY <1>1, <1>2, <1>4 DEF Remains
  <2> QED BY <2>1, <2>2 DEF LastWordTrue
<1>5. 1 \in DOMAIN q /\ \A j \in DOMAIN q : j > 1 => \E k \in DOMAIN t : q[j] = t[k]
  BY <1>1 DEF Remains
<1>6. ASSUME NEW l \in Links
      PROVE  /\ Announces(q[1], l) /\ ~ Leaving(t, l) => m[l] # Absent
             /\ Withdraws(q[1], l) /\ ~ Coming(t, l) => m[l] = Absent
  BY <1>5 DEF LastWordTrue, Coming, Leaving
<1> QED BY <1>1, <1>3, <1>4, <1>6 DEF LastWordTrue, t

(* Messages after q that tell of every link whose existence changed.     *)
LEMMA LastWordAppend ==
  ASSUME NEW q \in Seq(Event), NEW s \in Seq(Event), NEW m, NEW m2,
         LastWordTrue(q, m), LastWordTrue(s, m2),
         \A l \in Links : \/ (m[l] = Absent) <=> (m2[l] = Absent)
                          \/ Coming(s, l) \/ Leaving(s, l)
  PROVE  LastWordTrue(q \o s, m2)
<1> DEFINE c == q \o s
<1>1. Joined(c, q, s)
  BY ConcatParts
<1> HIDE DEF c
<1>2. ASSUME NEW l \in Links, NEW k \in DOMAIN c, Announces(c[k], l),
             \A j \in DOMAIN c : j > k => ~ Withdraws(c[j], l)
      PROVE  m2[l] # Absent
  <2>1. ASSUME NEW i \in DOMAIN s, Announces(s[i], l),
               \A j \in DOMAIN s : j > i => ~ Withdraws(s[j], l)
        PROVE  m2[l] # Absent
    BY <2>1 DEF LastWordTrue
  <2>2. CASE k \in DOMAIN q /\ c[k] = q[k]
    <3>1. ~ Leaving(s, l)
      BY <1>1, <1>2, <2>2 DEF Joined, Leaving
    <3>2. CASE Coming(s, l)
      BY <3>1, <3>2, <2>1 DEF Coming, Leaving
    <3>3. CASE ~ Coming(s, l)
      <4>1. \A j \in DOMAIN q : j > k => ~ Withdraws(q[j], l)
        BY <1>1, <1>2, <2>2 DEF Joined
      <4>2. m[l] # Absent
        BY <1>2, <2>2, <4>1 DEF LastWordTrue
      <4> QED BY <3>1, <3>3, <4>2
    <3> QED BY <3>2, <3>3
  <2>3. ASSUME NEW i \in DOMAIN s, k = Len(q) + i, c[k] = s[i]
        PROVE  m2[l] # Absent
    <3>1. \A j \in DOMAIN s : j > i => ~ Withdraws(s[j], l)
      BY <1>1, <1>2, <2>3 DEF Joined
    <3> QED BY <1>2, <2>1, <2>3, <3>1
  <2> QED BY <1>1, <2>2, <2>3 DEF Joined
<1>3. ASSUME NEW l \in Links, NEW k \in DOMAIN c, Withdraws(c[k], l),
             \A j \in DOMAIN c : j > k => ~ Announces(c[j], l)
      PROVE  m2[l] = Absent
  <2>1. ASSUME NEW i \in DOMAIN s, Withdraws(s[i], l),
               \A j \in DOMAIN s : j > i => ~ Announces(s[j], l)
        PROVE  m2[l] = Absent
    BY <2>1 DEF LastWordTrue
  <2>2. CASE k \in DOMAIN q /\ c[k] = q[k]
    <3>1. ~ Coming(s, l)
      BY <1>1, <1>3, <2>2 DEF Joined, Coming
    <3>2. CASE Leaving(s, l)
      BY <3>1, <3>2, <2>1 DEF Coming, Leaving
    <3>3. CASE ~ Leaving(s, l)
      <4>1. \A j \in DOMAIN q : j > k => ~ Announces(q[j], l)
        BY <1>1, <1>3, <2>2 DEF Joined
      <4>2. m[l] = Absent
        BY <1>3, <2>2, <4>1 DEF LastWordTrue
      <4> QED BY <3>1, <3>3, <4>2
    <3> QED BY <3>2, <3>3
  <2>3. ASSUME NEW i \in DOMAIN s, k = Len(q) + i, c[k] = s[i]
        PROVE  m2[l] = Absent
    <3>1. \A j \in DOMAIN s : j > i => ~ Announces(s[j], l)
      BY <1>1, <1>3, <2>3 DEF Joined
    <3> QED BY <1>3, <2>1, <2>3, <3>1
  <2> QED BY <1>1, <2>2, <2>3 DEF Joined
<1> QED
  BY <1>2, <1>3 DEF LastWordTrue, c

-----------------------------------------------------------------------------
(* The kernel went from m to m2 and said so with the messages s.         *)
Reports(m, m2, s) ==
  /\ s \in Seq(Event)
  /\ m2 \in [Links -> LinkState]
  /\ LastWordTrue(s, m2)
  /\ \A l \in Links : \/ (m[l] = Absent) <=> (m2[l] = Absent)
                      \/ Coming(s, l) \/ Leaving(s, l)

(* A kernel that does not change has nothing to report.                  *)
LEMMA ReportsNothing ==
  ASSUME NEW m \in [Links -> LinkState]
  PROVE  Reports(m, m, <<>>)
BY DEF Reports, LastWordTrue

(* Two reports in a row are a report.                                    *)
LEMMA ReportsTwice ==
  ASSUME NEW m, NEW m1, NEW m2, NEW s1, NEW s2,
         Reports(m, m1, s1), Reports(m1, m2, s2)
  PROVE  Reports(m, m2, s1 \o s2)
<1>1. s1 \in Seq(Event) /\ s2 \in Seq(Event) /\ s1 \o s2 \in Seq(Event)
  BY DEF Reports
<1>2. LastWordTrue(s1 \o s2, m2)
  BY <1>1, LastWordAppend DEF Reports
<1>3. \A l \in Links : \/ (m[l] = Absent) <=> (m2[l] = Absent)
                       \/ Coming(s1 \o s2, l) \/ Leaving(s1 \o s2, l)
  BY <1>1, QueueConcat DEF Reports
<1> QED BY <1>1, <1>2, <1>3 DEF Reports

(* The queue went from q to q2 by a report.                                *)
Sent(m, m2, q, q2) == \E s : Reports(m, m2, s) /\ q2 = q \o s

(* Reports sent one after the other are one, too.                          *)
LEMMA SentTwice ==
  ASSUME NEW q \in Seq(Event), NEW q1, NEW q2, NEW m, NEW m1, NEW m2,
         Sent(m, m1, q, q1), Sent(m1, m2, q1, q2)
  PROVE  Sent(m, m2, q, q2)
<1>1. PICK x : Reports(m, m1, x) /\ q1 = q \o x
  BY DEF Sent
<1>2. PICK y : Reports(m1, m2, y) /\ q2 = q1 \o y
  BY DEF Sent
<1>3. x \in Seq(Event) /\ y \in Seq(Event)
  BY <1>1, <1>2 DEF Reports
<1>4. q2 = q \o (x \o y)
  BY <1>1, <1>2, <1>3
<1>5. Reports(m, m2, x \o y)
  BY <1>1, <1>2, ReportsTwice
<1> QED BY <1>4, <1>5 DEF Sent

(* Messages about HSR links, and about ordinary links that all exist.    *)
LEMMA ReportsOfExisting ==
  ASSUME NEW m, NEW m2 \in [Links -> LinkState], NEW s \in Seq(Event),
         \A l \in Links : (m[l] = Absent) <=> (m2[l] = Absent),
         \A k \in DOMAIN s : \/ s[k].type = "hsr"
                             \/ s[k].up # Absent /\ m2[s[k].dev] # Absent
  PROVE  Reports(m, m2, s)
BY DEF Reports, LastWordTrue, Announces, Withdraws

(* A report keeps what the cache and the nodes owe to the queue.         *)
LEMMA ReportsKeep ==
  ASSUME NEW m, NEW m2, NEW q \in Seq(Event), NEW s, Reports(m, m2, s),
         NEW cm, NEW w, LastWordTrue(q, m), CacheTrue(cm, q, m)
  PROVE  /\ q \o s \in Seq(Event)
         /\ LastWordTrue(q \o s, m2)
         /\ CacheTrue(cm, q \o s, m2)
         /\ NodesFollow(w, cm, q) => NodesFollow(w, cm, q \o s)
         /\ \A l \in Links : Coming(q, l) => Coming(q \o s, l)
<1> DEFINE c == q \o s
<1>1. s \in Seq(Event) /\ c \in Seq(Event)
  BY DEF Reports
<1>2. \A l : /\ Coming(c, l) <=> Coming(q, l) \/ Coming(s, l)
             /\ Leaving(c, l) <=> Leaving(q, l) \/ Leaving(s, l)
  BY <1>1, QueueConcat
<1>3. LastWordTrue(c, m2)
  BY <1>1, LastWordAppend DEF Reports
<1>4. ASSUME NEW l \in Links
      PROVE  /\ Coming(s, l) /\ ~ Leaving(s, l) => m2[l] # Absent
             /\ Leaving(s, l) /\ ~ Coming(s, l) => m2[l] = Absent
  BY DEF Reports, LastWordTrue, Coming, Leaving
<1> HIDE DEF c
<1>5. CacheTrue(cm, c, m2)
  BY <1>2, <1>4 DEF CacheTrue, Reports
<1>6. NodesFollow(w, cm, q) => NodesFollow(w, cm, c)
  BY <1>2 DEF NodesFollow
<1>7. \A l \in Links : Coming(q, l) => Coming(c, l)
  BY <1>2
<1> QED BY <1>1, <1>3, <1>5, <1>6, <1>7 DEF c

-----------------------------------------------------------------------------
(* The kernel's own steps are reports.                                   *)

(* The messages the kernel sends are messages of the declared type.      *)
LEMMA EventTypes ==
  /\ \A l \in Links, m \in LinkState : LinkEvent(l, m) \in Event
  /\ \A h \in Names, s \in Links \cup {Absent} : HsrEvent(h, s) \in Event
BY DEF LinkEvent, HsrEvent, Event

(* A link without master is not an absent one, and no master is either.  *)
LEMMA StateTypes ==
  /\ None \in LinkState /\ Absent \in LinkState
  /\ Names \subseteq LinkState /\ Bridges \subseteq LinkState
  /\ None # Absent /\ Absent \notin Names \cup Bridges
BY DistinctAssumption DEF LinkState, Masters

(* A create request, refused or not, is a report.                        *)
LEMMA CreateReports ==
  ASSUME NEW m \in [Links -> LinkState], NEW h \in Names,
         NEW a \in Links, NEW b \in Links
  PROVE  Reports(m, CreateRequest(m, h, a, b), CreateReport(m, h, a, b))
<1>1. CASE ~ CanCreate(m, h, a, b)
  BY <1>1, ReportsNothing DEF CreateRequest, CreateReport
<1>2. CASE CanCreate(m, h, a, b)
  <2>1. m[a] = None /\ m[b] = None
    BY <1>2 DEF CanCreate
  <2>2. /\ Enslaved(m, h, a, b) \in [Links -> LinkState]
        /\ \A l \in Links : (m[l] = Absent) <=> (Enslaved(m, h, a, b)[l] = Absent)
        /\ Enslaved(m, h, a, b)[a] # Absent /\ Enslaved(m, h, a, b)[b] # Absent
    BY <2>1, StateTypes DEF Enslaved
  <2>3. /\ CreateEvents(h, a, b) \in Seq(Event)
        /\ \A k \in DOMAIN CreateEvents(h, a, b) :
             CreateEvents(h, a, b)[k] \in
               {HsrEvent(h, a), LinkEvent(a, h), LinkEvent(b, h)}
    <3>1. /\ HsrEvent(h, a) \in Event
          /\ LinkEvent(a, h) \in Event /\ LinkEvent(b, h) \in Event
      BY EventTypes, StateTypes
    <3> QED BY <3>1 DEF CreateEvents
  <2>4. \A k \in DOMAIN CreateEvents(h, a, b) :
          LET e == CreateEvents(h, a, b)[k]
          IN  e.type = "hsr" \/ (e.up # Absent /\
                                Enslaved(m, h, a, b)[e.dev] # Absent)
    BY <2>2, <2>3, StateTypes DEF HsrEvent, LinkEvent
  <2>5. Reports(m, Enslaved(m, h, a, b), CreateEvents(h, a, b))
    BY <2>2, <2>3, <2>4, ReportsOfExisting
  <2> QED BY <1>2, <2>5 DEF CreateRequest, CreateReport
<1> QED BY <1>1, <1>2

(* So is the deletion of an HSR link.                                    *)
LEMMA DeleteReports ==
  ASSUME NEW m \in [Links -> LinkState], NEW h \in Names,
         NEW events \in DeleteEvents(m, h)
  PROVE  Reports(m, Released(m, h), events)
<1> DEFINE S == SlavesOf(m, h)
           m2 == Released(m, h)
<1>1. PICK order \in SetToSeqs(S) :
        events = [k \in DOMAIN order |-> LinkEvent(order[k], None)]
                   \o <<HsrEvent(h, Absent)>>
  BY DEF DeleteEvents
<1>2. Cardinality(S) \in Nat
  BY LinksAssumption, FS_Subset, FS_CardinalityType DEF SlavesOf
<1>3. order \in [1 .. Cardinality(S) -> S]
  BY DEF SetToSeqs
<1> DEFINE links == [k \in DOMAIN order |-> LinkEvent(order[k], None)]
           hsr == <<HsrEvent(h, Absent)>>
<1>4. \A l \in S : LinkEvent(l, None) \in Event
  BY EventTypes, StateTypes DEF SlavesOf
<1>5. links \in [1 .. Cardinality(S) -> Event]
  BY <1>3, <1>4
<1>6. /\ links \in Seq(Event) /\ DOMAIN links = 1 .. Cardinality(S)
      /\ Len(links) = Cardinality(S)
  BY <1>2, <1>5, SeqDef
<1>7. hsr \in Seq(Event) /\ Len(hsr) = 1 /\ hsr[1] = HsrEvent(h, Absent)
  BY EventTypes
<1>8. /\ m2 \in [Links -> LinkState]
      /\ \A l \in Links : (m[l] = Absent) <=> (m2[l] = Absent)
  BY StateTypes DEF Released
<1>9. ASSUME NEW k \in DOMAIN links
      PROVE  links[k].up # Absent /\ m2[links[k].dev] # Absent
  <2>1. order[k] \in S /\ links[k] = LinkEvent(order[k], None)
    BY <1>3
  <2> QED BY <2>1, StateTypes DEF LinkEvent, SlavesOf, Released
<1> HIDE DEF links, hsr, m2
<1>10. Reports(m, m2, links)
  BY <1>6, <1>8, <1>9, ReportsOfExisting
<1>11. Reports(m2, m2, hsr)
  <2>1. \A k \in DOMAIN hsr : hsr[k].type = "hsr"
    BY <1>7 DEF HsrEvent
  <2>2. \A l \in Links : (m2[l] = Absent) <=> (m2[l] = Absent)
    OBVIOUS
  <2> QED BY <1>7, <1>8, <2>1, <2>2, ReportsOfExisting
<1> QED
  BY <1>1, <1>10, <1>11, ReportsTwice DEF links, hsr, m2

(* So is a link that appears ...                                         *)
LEMMA AddReports ==
  ASSUME NEW m \in [Links -> LinkState], NEW l \in Links
  PROVE  Reports(m, [m EXCEPT ![l] = None], <<LinkEvent(l, None)>>)
<1> DEFINE m2 == [m EXCEPT ![l] = None]
           s == <<LinkEvent(l, None)>>
<1>1. m2 \in [Links -> LinkState] /\ m2[l] = None
  BY StateTypes
<1>2. s \in Seq(Event) /\ DOMAIN s = {1}
      /\ s[1].type = "link" /\ s[1].dev = l /\ s[1].up = None
  BY EventTypes, StateTypes DEF LinkEvent
<1>3. \A k \in Links : k # l => m2[k] = m[k]
  OBVIOUS
<1> HIDE DEF m2, s
<1>4. Coming(s, l)
  BY <1>2, StateTypes DEF Coming, Announces
<1>5. LastWordTrue(s, m2)
  BY <1>1, <1>2, StateTypes DEF LastWordTrue, Announces, Withdraws
<1> QED
  BY <1>1, <1>2, <1>3, <1>4, <1>5 DEF Reports, m2, s

(* ... and one that disappears.                                          *)
LEMMA WithdrawReports ==
  ASSUME NEW m \in [Links -> LinkState], NEW l \in Links
  PROVE  Reports(m, [m EXCEPT ![l] = Absent], <<LinkEvent(l, Absent)>>)
<1> DEFINE m2 == [m EXCEPT ![l] = Absent]
           s == <<LinkEvent(l, Absent)>>
<1>1. m2 \in [Links -> LinkState] /\ m2[l] = Absent
  BY StateTypes
<1>2. s \in Seq(Event) /\ DOMAIN s = {1}
      /\ s[1].type = "link" /\ s[1].dev = l /\ s[1].up = Absent
  BY EventTypes, StateTypes DEF LinkEvent
<1>3. \A k \in Links : k # l => m2[k] = m[k]
  OBVIOUS
<1> HIDE DEF m2, s
<1>4. Leaving(s, l)
  BY <1>2, StateTypes DEF Leaving, Withdraws
<1>5. LastWordTrue(s, m2)
  BY <1>1, <1>2, StateTypes DEF LastWordTrue, Announces, Withdraws
<1> QED
  BY <1>1, <1>2, <1>3, <1>4, <1>5 DEF Reports, m2, s

(* A message about an HSR link, or that an existing link has a new master. *)
LEMMA ChangeReports ==
  ASSUME NEW m \in [Links -> LinkState],
         NEW l \in Links, NEW up \in LinkState \ {Absent}, m[l] # Absent
  PROVE  Reports(m, [m EXCEPT ![l] = up], <<LinkEvent(l, up)>>)
<1> DEFINE m2 == [m EXCEPT ![l] = up]
           s == <<LinkEvent(l, up)>>
<1>1. m2 \in [Links -> LinkState] /\ m2[l] # Absent
  OBVIOUS
<1>2. s \in Seq(Event) /\ DOMAIN s = {1} /\ s[1].up # Absent /\ s[1].dev = l
  BY EventTypes DEF LinkEvent
<1>3. \A k \in Links : (m[k] = Absent) <=> (m2[k] = Absent)
  OBVIOUS
<1> HIDE DEF m2, s
<1>4. \A k \in DOMAIN s : s[k].type = "hsr"
                          \/ (s[k].up # Absent /\ m2[s[k].dev] # Absent)
  BY <1>1, <1>2
<1> QED
  BY <1>1, <1>2, <1>3, <1>4, ReportsOfExisting DEF m2, s

(* And so is the message that an HSR link went with its last slave.      *)
LEMMA HsrReports ==
  ASSUME NEW m \in [Links -> LinkState], NEW h \in Names
  PROVE  Reports(m, m, <<HsrEvent(h, Absent)>>)
<1> DEFINE s == <<HsrEvent(h, Absent)>>
<1>1. s \in Seq(Event) /\ \A k \in DOMAIN s : s[k].type = "hsr"
  BY EventTypes DEF HsrEvent
<1>2. \A k \in Links : (m[k] = Absent) <=> (m[k] = Absent)
  OBVIOUS
<1> HIDE DEF s
<1> QED BY <1>1, <1>2, ReportsOfExisting DEF s

(* Everything that happens outside the daemon is a report.               *)
LEMMA KernelReports ==
  ASSUME KernelTypeOK, KernelStep
  PROVE  \E s : Reports(master, master', s) /\ queue' = queue \o s
<1>0. master \in [Links -> LinkState] /\ queue \in Seq(Event)
  BY DEF KernelTypeOK
<1>1. ASSUME NEW l \in Links, AddLink(l)
      PROVE  \E s : Reports(master, master', s) /\ queue' = queue \o s
  <2>1. LinkEvent(l, None) \in Event
    BY EventTypes, StateTypes
  <2>2. queue' = queue \o <<LinkEvent(l, None)>>
    BY <1>0, <1>1, <2>1, AppendIsConcat DEF AddLink
  <2> QED BY <1>0, <1>1, <2>2, AddReports DEF AddLink
<1>2. ASSUME NEW l \in Links, DelLink(l)
      PROVE  \E s : Reports(master, master', s) /\ queue' = queue \o s
  <2> DEFINE s1 == IF master[l] = None THEN <<>> ELSE <<LinkEvent(l, None)>>
             m1 == IF master[l] = None THEN master
                   ELSE [master EXCEPT ![l] = None]
             s2 == <<LinkEvent(l, Absent)>>
             s3 == IF master[l] \in Names /\ ~ Exists(master', master[l])
                     THEN <<HsrEvent(master[l], Absent)>> ELSE <<>>
  <2>1. master' = [master EXCEPT ![l] = Absent] /\ master[l] # Absent
        /\ queue' = queue \o s1 \o s2 \o s3
    BY <1>2 DEF DelLink
  <2>2. Reports(master, m1, s1)
    BY <1>0, <2>1, ReportsNothing, ChangeReports, StateTypes
  <2>3. m1 \in [Links -> LinkState] /\ master' = [m1 EXCEPT ![l] = Absent]
    BY <1>0, <2>1, StateTypes
  <2>4. Reports(m1, master', s2)
    <3> HIDE DEF m1
    <3> QED BY <2>3, WithdrawReports
  <2>5. Reports(master', master', s3)
    <3>1. master' \in [Links -> LinkState]
      BY <2>4 DEF Reports
    <3> QED BY <3>1, ReportsNothing, HsrReports
  <2> HIDE DEF s1, s2, s3, m1
  <2> DEFINE q1 == queue \o s1
             q2 == q1 \o s2
  <2>6. Sent(master, m1, queue, q1)
    BY <2>2 DEF Sent
  <2>7. Sent(m1, master', q1, q2)
    BY <2>4 DEF Sent
  <2>8. Sent(master', master', q2, queue')
    BY <2>1, <2>5 DEF Sent
  <2> HIDE DEF q1, q2
  <2>9. Sent(master, master', queue, q2)
    BY <1>0, <2>6, <2>7, SentTwice
  <2>10. Sent(master, master', queue, queue')
    BY <1>0, <2>8, <2>9, SentTwice
  <2> QED BY <2>10 DEF Sent
<1>3. ASSUME NEW l \in Links, Release(l)
      PROVE  \E s : Reports(master, master', s) /\ queue' = queue \o s
  <2>1. LinkEvent(l, None) \in Event
    BY EventTypes, StateTypes
  <2>2. queue' = queue \o <<LinkEvent(l, None)>>
    BY <1>0, <1>3, <2>1, AppendIsConcat DEF Release
  <2>3. master[l] # Absent /\ master' = [master EXCEPT ![l] = None]
    BY <1>3, StateTypes DEF Release
  <2> QED BY <1>0, <2>2, <2>3, ChangeReports, StateTypes
<1>4. ASSUME NEW l \in Links, NEW b \in Bridges, Enslave(l, b)
      PROVE  \E s : Reports(master, master', s) /\ queue' = queue \o s
  <2>1. LinkEvent(l, b) \in Event /\ b \in LinkState \ {Absent}
    BY EventTypes, StateTypes
  <2>2. queue' = queue \o <<LinkEvent(l, b)>>
    BY <1>0, <1>4, <2>1, AppendIsConcat DEF Enslave
  <2>3. master[l] # Absent /\ master' = [master EXCEPT ![l] = b]
    BY <1>4, StateTypes DEF Enslave
  <2> QED BY <1>0, <2>1, <2>2, <2>3, ChangeReports
<1>5. ASSUME NEW h \in Names, NEW a \in Links, NEW b \in Links, AdminAdd(h, a, b)
      PROVE  \E s : Reports(master, master', s) /\ queue' = queue \o s
  BY <1>0, <1>5, CreateReports DEF AdminAdd, CreateRequest, CreateReport
<1>6. ASSUME NEW h \in Names, AdminDel(h)
      PROVE  \E s : Reports(master, master', s) /\ queue' = queue \o s
  BY <1>0, <1>6, DeleteReports DEF AdminDel
<1> QED
  BY <1>1, <1>2, <1>3, <1>4, <1>5, <1>6 DEF KernelStep

-----------------------------------------------------------------------------
(* Reading the oldest message.                                           *)

(* A message about a link: the cache takes what it says.                 *)
LEMMA CacheFollows ==
  ASSUME NEW q \in Seq(Event), q # <<>>, NEW m,
         NEW cm \in [Links -> LinkState], NEW l \in Links,
         NEW up \in LinkState, Head(q) = LinkEvent(l, up),
         LastWordTrue(q, m), CacheTrue(cm, q, m)
  PROVE  /\ LastWordTrue(Tail(q), m)
         /\ CacheTrue([cm EXCEPT ![l] = up], Tail(q), m)
<1> DEFINE t == Tail(q)
           c2 == [cm EXCEPT ![l] = up]
<1>1. /\ LastWordTrue(t, m)
      /\ \A k \in Links :
           /\ Announces(Head(q), k) /\ ~ Leaving(t, k) => m[k] # Absent
           /\ Withdraws(Head(q), k) /\ ~ Coming(t, k) => m[k] = Absent
  BY LastWordTail
<1>2. \A k : /\ Coming(q, k) <=> Announces(Head(q), k) \/ Coming(t, k)
             /\ Leaving(q, k) <=> Withdraws(Head(q), k) \/ Leaving(t, k)
  BY QueueTail
<1>3. \A k : /\ Announces(Head(q), k) <=> k = l /\ up # Absent
             /\ Withdraws(Head(q), k) <=> k = l /\ up = Absent
  BY DEF Announces, Withdraws, LinkEvent
<1>4. c2[l] = up /\ \A k \in Links \ {l} : c2[k] = cm[k]
  OBVIOUS
<1> HIDE DEF t, c2
<1>5. CacheTrue(c2, t, m)
  BY <1>1, <1>2, <1>3, <1>4 DEF CacheTrue
<1> QED BY <1>1, <1>5 DEF t, c2

(* A message about an HSR link says nothing of the others.               *)
LEMMA HsrSaysNothing ==
  ASSUME NEW q \in Seq(Event), q # <<>>, NEW m, NEW cm, NEW w,
         Head(q).type = "hsr", LastWordTrue(q, m), CacheTrue(cm, q, m),
         NodesFollow(w, cm, q)
  PROVE  /\ LastWordTrue(Tail(q), m)
         /\ CacheTrue(cm, Tail(q), m)
         /\ NodesFollow(w, cm, Tail(q))
<1> DEFINE t == Tail(q)
<1>1. LastWordTrue(t, m)
  BY LastWordTail
<1>2. \A k : /\ Coming(q, k) <=> Coming(t, k)
             /\ Leaving(q, k) <=> Leaving(t, k)
  BY QueueTail DEF Announces, Withdraws
<1> HIDE DEF t
<1>3. CacheTrue(cm, t, m) /\ NodesFollow(w, cm, t)
  BY <1>2 DEF CacheTrue, NodesFollow
<1> QED BY <1>1, <1>3 DEF t

(* What a handler of a message about l has to do with the bits of l.     *)
LEMMA NodesFollowLink ==
  ASSUME NEW q \in Seq(Event), q # <<>>,
         NEW cm \in [Links -> LinkState], NEW l \in Links,
         NEW up \in LinkState, Head(q) = LinkEvent(l, up),
         NEW w, NEW v, SameNodes(v, w), NodesFollow(w, cm, q),
         \A k \in DOMAIN w : Slaves(w[k]) \subseteq Links,
         \A k \in DOMAIN w : \A s \in Slaves(w[k]) \ {l} :
           s \in v[k].missing <=> s \in w[k].missing,
         \A k \in DOMAIN w : l \in Slaves(w[k]) =>
           /\ up # Absent /\ ~ Leaving(Tail(q), l) => l \notin v[k].missing
           /\ up = Absent => l \in v[k].missing
  PROVE  NodesFollow(v, [cm EXCEPT ![l] = up], Tail(q))
<1> DEFINE t == Tail(q)
           c2 == [cm EXCEPT ![l] = up]
<1>1. \A k : /\ Coming(q, k) <=> Announces(Head(q), k) \/ Coming(t, k)
             /\ Leaving(q, k) <=> Withdraws(Head(q), k) \/ Leaving(t, k)
  BY QueueTail
<1>2. \A k : k # l => ~ Announces(Head(q), k) /\ ~ Withdraws(Head(q), k)
  BY DEF Announces, Withdraws, LinkEvent
<1>3. c2[l] = up /\ \A k \in Links \ {l} : c2[k] = cm[k]
  OBVIOUS
<1>4. DOMAIN v = DOMAIN w /\ \A k \in DOMAIN w : Slaves(v[k]) = Slaves(w[k])
  BY SameNodesUnique DEF SameNodes
<1> HIDE DEF t, c2
<1>5. NodesFollow(v, c2, t)
  BY <1>1, <1>2, <1>3, <1>4 DEF NodesFollow, t
<1> QED BY <1>5 DEF t, c2

(* Nodes that leave the list, and a node that joins it.                  *)
LEMMA NodesFollowSome ==
  ASSUME NEW w, NEW v, NEW cm, NEW q, NodesFollow(w, cm, q),
         \A k \in DOMAIN v : \E j \in DOMAIN w : v[k] = w[j]
  PROVE  NodesFollow(v, cm, q)
BY DEF NodesFollow

(* A node that joins the list.                                           *)
LEMMA NodesFollowAppend ==
  ASSUME NEW S, NEW w \in Seq(S), NEW n \in S, NEW cm, NEW q,
         NodesFollow(w, cm, q),
         \A l \in Slaves(n) :
           /\ cm[l] # Absent /\ ~ Leaving(q, l) => l \notin n.missing
           /\ cm[l] = Absent /\ ~ Coming(q, l) => l \in n.missing
  PROVE  NodesFollow(Append(w, n), cm, q)
<1>1. \A k \in DOMAIN Append(w, n) :
        Append(w, n)[k] = n \/ \E j \in DOMAIN w : Append(w, n)[k] = w[j]
  BY AppendProperties2
<1> DEFINE v == Append(w, n)
<1>2. \A k \in DOMAIN v : v[k] = n \/ \E j \in DOMAIN w : v[k] = w[j]
  BY <1>1
<1> HIDE DEF v
<1>3. NodesFollow(v, cm, q)
  BY <1>2 DEF NodesFollow
<1> QED BY <1>3 DEF v

-----------------------------------------------------------------------------
(* The interface list keeps its type, whatever is added or dropped.      *)
LEMMA RetireType ==
  ASSUME NEW list \in Seq(Names \cup {NoIndex, Stale}), NEW m
  PROVE  RetireIndexes(list, m) \in Seq(Names \cup {NoIndex, Stale})
<1>1. RetireIndexes(list, m) \in [DOMAIN list -> Names \cup {NoIndex, Stale}]
  BY DEF RetireIndexes
<1> QED BY <1>1, MapIsSeq

(* change_interface_list keeps the type of the interface list.           *)
LEMMA ChangeListType ==
  ASSUME interfaces \in Seq(Names \cup {NoIndex, Stale}), overdrawn \in Nat,
         NEW h \in Names, NEW isAdd \in BOOLEAN, change_interface_list(h, isAdd)
  PROVE  /\ interfaces' \in Seq(Names \cup {NoIndex, Stale})
         /\ overdrawn' \in Nat
<1> DEFINE T == Names \cup {NoIndex, Stale}
           id == IndexIn(master, h)
<1>1. id \in T
  BY DEF IndexIn
<1>2. \/ UNCHANGED <<interfaces, overdrawn>>
      \/ interfaces' = Append(interfaces, id) /\ UNCHANGED overdrawn
      \/ overdrawn # 0 /\ overdrawn' = overdrawn - 1 /\ UNCHANGED interfaces
      \/ interfaces # <<>> /\ interfaces' = Front(interfaces) /\ UNCHANGED overdrawn
      \/ overdrawn' = overdrawn + 1 /\ UNCHANGED interfaces
  BY DEF change_interface_list, add_interface, delete_interface, listVars
<1> HIDE DEF T, id
<1>3. interfaces \in Seq(T)
  BY DEF T
<1>4. Append(interfaces, id) \in Seq(T)
  BY <1>1, <1>3
<1>5. interfaces # <<>> => Front(interfaces) \in Seq(T)
  BY <1>3 DEF Front
<1>6. interfaces' \in Seq(T)
  BY <1>2, <1>3, <1>4, <1>5
<1> QED BY <1>2, <1>6 DEF T

(* The node create_hif is called for is a node of the list.              *)
LEMMA NodeNamedIn ==
  ASSUME NEW w \in Seq(WaitListNode(Links, Names)), NEW h, Waits(w, h)
  PROVE  \E k \in DOMAIN w : NodeNamed(w, h) = w[k] /\ w[k].hsr_name = h
<1> DEFINE K == {k \in DOMAIN w : w[k].hsr_name = h}
<1>1. K \in SUBSET Nat /\ K # {}
  BY DEF Waits
<1>2. Min(K) \in K
  BY <1>1, MinIn
<1> QED BY <1>2 DEF NodeNamed

(* The slaves of a node are links.                                       *)
LEMMA SlavesType ==
  ASSUME NEW n \in WaitListNode(Links, Names)
  PROVE  Slaves(n) \subseteq Links /\ n.hsr_name \in Names
BY DEF WaitListNode, Slaves

-----------------------------------------------------------------------------
(* The daemon starts with a cache that is the kernel's state.            *)
LEMMA InitInv == ASSUME Init PROVE IInv
<1>1. KernelTypeOK
  <2>1. {None, Absent} \cup Leftover \subseteq LinkState
    BY DaemonAssumption, StateTypes DEF LinkState
  <2>2. master \in [Links -> LinkState]
    BY <2>1 DEF Init
  <2> QED BY <2>2 DEF Init, KernelTypeOK
<1>2. TypeOK
  BY <1>1 DEF Init, TypeOK, KernelTypeOK, PC
<1>3. NamesUnique /\ JobFits /\ ReplacedSlavesHeardOf
  BY DEF Init, NamesUnique, JobFits, ReplacedSlavesHeardOf
<1>4. NothingStaleForGood
  BY DEF Init, NothingStaleForGood, LastWordTrue, CacheTrue, NodesFollow
<1> QED BY <1>2, <1>3, <1>4 DEF IInv

-----------------------------------------------------------------------------
(* How a notification leaves the daemon that did not crash: waiting is w, *)
(* and the interface it is about to create, if any, waits in w.          *)
Landed(w) ==
  /\ waiting' = w
  /\ pc' \in {"poll", "drain", "create", "recreate"}
  /\ pc' \in {"create", "recreate"} => job' \in Names /\ Waits(w, job')
  /\ job' \in Names \cup {None}
  /\ seen' \in SUBSET Links

(* A notification that asks the kernel for nothing.                      *)
LEMMA SettleLands ==
  ASSUME TypeOK, NEW w, Settle(w)
  PROVE  Landed(w)
BY DEF TypeOK, Settle, Resume, Landed

(* A notification that starts a node it met.                             *)
LEMMA WakeLands ==
  ASSUME NEW v, NEW w \in Seq(WaitListNode(Links, Names)), SameNodes(w, v),
         NEW met \in SUBSET DOMAIN v, met # {}, Wake(met, w)
  PROVE  Landed(w)
<1>1. met \in SUBSET Nat /\ met \subseteq DOMAIN w
  BY DEF SameNodes
<1>2. Min(met) \in met
  BY <1>1, MinIn
<1>3. Min(met) \in DOMAIN w /\ w[Min(met)] \in WaitListNode(Links, Names)
  BY <1>1, <1>2
<1>4. /\ w[Min(met)].hsr_name \in Names
      /\ Waits(w, w[Min(met)].hsr_name)
  BY <1>3, SlavesType DEF Waits
<1> QED BY <1>4 DEF Wake, Landed

(* Either of the two.                                                    *)
LEMMA WakeOrSettleLands ==
  ASSUME TypeOK,
         NEW v, NEW w \in Seq(WaitListNode(Links, Names)), SameNodes(w, v),
         NEW met \in SUBSET DOMAIN v, WakeOrSettle(met, w)
  PROVE  Landed(w)
BY SettleLands, WakeLands DEF WakeOrSettle

(* What is left to show of a notification: the cache is right after it,  *)
(* and the nodes are unless the daemon crashed.                          *)
LEMMA NotificationKeeps ==
  ASSUME IInv, NEW e, Receive(e),
         cachedMaster' \in [Links -> LinkState],
         cachedHsr' \in SUBSET Names,
         LastWordTrue(queue', master'),
         CacheTrue(cachedMaster', queue', master'),
         \/ Crash
         \/ \E w \in Seq(WaitListNode(Links, Names)) :
              /\ SameNodes(w, waiting)
              /\ Landed(w)
              /\ NodesFollow(w, cachedMaster', queue')
  PROVE  IInv'
<1>1. queue' \in Seq(Event)
  BY QueueTail DEF Receive, IInv, TypeOK, KernelTypeOK
<1>2. CASE Crash
  <2>1. TypeOK'
    BY <1>1, <1>2 DEF IInv, TypeOK, KernelTypeOK, Receive, Crash, PC, listVars
  <2>2. NamesUnique' /\ JobFits' /\ ReplacedSlavesHeardOf'
    BY <1>2 DEF IInv, NamesUnique, JobFits, ReplacedSlavesHeardOf, Crash
  <2>3. NothingStaleForGood'
    BY <1>2 DEF NothingStaleForGood, Crash
  <2> QED BY <2>1, <2>2, <2>3 DEF IInv
<1>3. ASSUME NEW w \in Seq(WaitListNode(Links, Names)),
             SameNodes(w, waiting), Landed(w),
             NodesFollow(w, cachedMaster', queue')
      PROVE  IInv'
  <2>1. TypeOK'
    BY <1>1, <1>3 DEF IInv, TypeOK, KernelTypeOK, Receive, Landed, PC, listVars
  <2>2. NamesUnique'
    BY <1>3, SameNodesUnique DEF IInv, NamesUnique, Unique, Landed
  <2>3. JobFits' /\ ReplacedSlavesHeardOf'
    BY <1>3 DEF JobFits, ReplacedSlavesHeardOf, Landed
  <2>4. NothingStaleForGood'
    BY <1>3 DEF NothingStaleForGood, Landed
  <2> QED BY <2>1, <2>2, <2>3, <2>4 DEF IInv
<1> QED BY <1>2, <1>3

-----------------------------------------------------------------------------
(* Notifications about links.                                            *)
LEMMA LinkMessage ==
  ASSUME IInv, NEW l \in Links, NEW old, NEW new \in LinkState,
         ReceiveLink(l, old, new)
  PROVE  /\ Receive(LinkEvent(l, new))
         /\ cachedMaster' \in [Links -> LinkState]
         /\ cachedHsr' \in SUBSET Names
         /\ LastWordTrue(queue', master')
         /\ CacheTrue(cachedMaster', queue', master')
<1>1. /\ queue \in Seq(Event) /\ queue # <<>>
      /\ Head(queue) = LinkEvent(l, new) /\ queue' = Tail(queue)
      /\ master' = master
      /\ cachedMaster \in [Links -> LinkState] /\ cachedHsr \in SUBSET Names
      /\ cachedMaster' = [cachedMaster EXCEPT ![l] = new]
      /\ cachedHsr' = cachedHsr
  BY DEF IInv, TypeOK, KernelTypeOK, ReceiveLink, Receive
<1>2. LastWordTrue(queue, master) /\ CacheTrue(cachedMaster, queue, master)
  BY DEF IInv, NothingStaleForGood
<1>3. /\ LastWordTrue(Tail(queue), master)
      /\ CacheTrue([cachedMaster EXCEPT ![l] = new], Tail(queue), master)
  BY <1>1, <1>2, CacheFollows
<1> QED BY <1>1, <1>3 DEF ReceiveLink

(* A handler that leaves the NOT_EXISTS bits of the other links alone and *)
(* those of l as the message has it.                                     *)
LEMMA LinkHandled ==
  ASSUME IInv, NEW l \in Links, NEW old, NEW new \in LinkState,
         ReceiveLink(l, old, new),
         NEW w \in Seq(WaitListNode(Links, Names)), SameNodes(w, waiting),
         Landed(w),
         \A k \in DOMAIN waiting : \A s \in Slaves(waiting[k]) \ {l} :
           s \in w[k].missing <=> s \in waiting[k].missing,
         \A k \in DOMAIN waiting : l \in Slaves(waiting[k]) =>
           /\ new # Absent /\ ~ Leaving(Tail(queue), l) =>
                l \notin w[k].missing
           /\ new = Absent => l \in w[k].missing
  PROVE  IInv'
<1>1. /\ queue \in Seq(Event) /\ queue # <<>>
      /\ Head(queue) = LinkEvent(l, new) /\ queue' = Tail(queue)
      /\ cachedMaster \in [Links -> LinkState]
      /\ cachedMaster' = [cachedMaster EXCEPT ![l] = new]
      /\ NodesFollow(waiting, cachedMaster, queue)
  BY DEF IInv, TypeOK, KernelTypeOK, ReceiveLink, Receive,
         NothingStaleForGood
<1>2. \A k \in DOMAIN waiting : Slaves(waiting[k]) \subseteq Links
  <2>1. \A k \in DOMAIN waiting : waiting[k] \in WaitListNode(Links, Names)
    BY DEF IInv, TypeOK
  <2> QED BY <2>1, SlavesType
<1>3. NodesFollow(w, [cachedMaster EXCEPT ![l] = new], Tail(queue))
  BY <1>1, <1>2, NodesFollowLink
<1> QED BY <1>1, <1>3, LinkMessage, NotificationKeeps

(* A change of master: the link was there and still is.                  *)
LEMMA ChangeHandled ==
  ASSUME IInv, NEW l \in Links,
         NEW old \in LinkState \ {Absent}, NEW new \in LinkState \ {Absent},
         ReceiveLink(l, old, new),
         NEW w \in Seq(WaitListNode(Links, Names)), SameNodes(w, waiting),
         SameMissing(w, waiting), Landed(w)
  PROVE  IInv'
<1>1. /\ queue \in Seq(Event) /\ queue # <<>>
      /\ Head(queue) = LinkEvent(l, new) /\ cachedMaster[l] = old
      /\ NodesFollow(waiting, cachedMaster, queue)
  BY DEF IInv, TypeOK, KernelTypeOK, ReceiveLink, Receive,
         NothingStaleForGood
<1>2. Leaving(queue, l) <=> Leaving(Tail(queue), l)
  BY <1>1, QueueTail DEF Withdraws, LinkEvent
<1>3. \A k \in DOMAIN waiting : l \in Slaves(waiting[k]) =>
        (~ Leaving(Tail(queue), l) => l \notin waiting[k].missing)
  BY <1>1, <1>2 DEF NodesFollow
<1> QED BY <1>3, LinkHandled DEF SameMissing

(* What every handler of a notification starts from.                     *)
LEMMA WaitingType ==
  ASSUME IInv
  PROVE  /\ TypeOK
         /\ waiting \in Seq(WaitListNode(Links, Names))
         /\ SameNodes(waiting, waiting) /\ SameMissing(waiting, waiting)
BY DEF IInv, TypeOK, SameNodes, SameMissing

(* HandlersOnOwnMissing for the nodes that wait.                         *)
LEMMA AppearedMissing ==
  ASSUME IInv, NEW l, NEW k \in DOMAIN waiting
  PROVE  /\ LinkAppeared(waiting, l)[k].missing = waiting[k].missing \ {l}
         /\ link_deleted(waiting, l)[k].missing =
              waiting[k].missing \cup ({l} \cap Slaves(waiting[k]))
<1>1. waiting \in Seq(WaitListNode(Links, Names))
  BY WaitingType
<1> QED BY <1>1, HandlersOnOwnMissing

(* A link appears: its bit is reset in every node.                       *)
LEMMA LinkNewKeeps == ASSUME IInv, LinkNew PROVE IInv'
<1>1. PICK l \in Links, new \in LinkState \ {Absent} :
        /\ ReceiveLink(l, Absent, new)
        /\ \/ Crash
           \/ WakeOrSettle(NewLinkMet(waiting, l), LinkAppeared(waiting, l))
  BY DEF LinkNew
<1>2. CASE Crash
  BY <1>1, <1>2, LinkMessage, NotificationKeeps
<1>3. CASE WakeOrSettle(NewLinkMet(waiting, l), LinkAppeared(waiting, l))
  <2> DEFINE w == LinkAppeared(waiting, l)
  <2>1. w \in Seq(WaitListNode(Links, Names)) /\ SameNodes(w, waiting)
    BY WaitingType, HandlersKeepNodes
  <2>2. \A k \in DOMAIN waiting : w[k].missing = waiting[k].missing \ {l}
    BY AppearedMissing
  <2>3. NewLinkMet(waiting, l) \in SUBSET DOMAIN waiting
    BY DEF NewLinkMet
  <2>4. WakeOrSettle(NewLinkMet(waiting, l), w)
    BY <1>3
  <2> HIDE DEF w
  <2>5. Landed(w)
    BY <2>1, <2>3, <2>4, WaitingType, WakeOrSettleLands
  <2> QED BY <1>1, <2>1, <2>2, <2>5, LinkHandled
<1> QED BY <1>1, <1>2, <1>3

(* A link disappears: its bit is set in every node that needs it.        *)
LEMMA LinkDelKeeps == ASSUME IInv, LinkDel PROVE IInv'
<1>1. PICK l \in Links, old \in LinkState \ {Absent} :
        /\ ReceiveLink(l, old, Absent)
        /\ Crash \/ Settle(link_deleted(waiting, l))
  BY DEF LinkDel
<1>2. CASE Crash
  BY <1>1, <1>2, StateTypes, LinkMessage, NotificationKeeps
<1>3. CASE Settle(link_deleted(waiting, l))
  <2> DEFINE w == link_deleted(waiting, l)
  <2>1. w \in Seq(WaitListNode(Links, Names)) /\ SameNodes(w, waiting)
    BY WaitingType, HandlersKeepNodes
  <2>2. \A k \in DOMAIN waiting :
          w[k].missing = waiting[k].missing \cup ({l} \cap Slaves(waiting[k]))
    BY AppearedMissing
  <2>3. Settle(w)
    BY <1>3
  <2> HIDE DEF w
  <2>4. Landed(w)
    BY <2>3, WaitingType, SettleLands
  <2> QED BY <1>1, <2>1, <2>2, <2>4, StateTypes, LinkHandled
<1> QED BY <1>1, <1>2, <1>3

(* A link is taken by a bridge or an HSR link.                           *)
LEMMA LinkGotBusyKeeps == ASSUME IInv, LinkGotBusy PROVE IInv'
<1>1. PICK l \in Links, old, new \in LinkState \ {Absent} :
        /\ ReceiveLink(l, old, new)
        /\ Settle(link_changed_got_busy(waiting, l))
  BY DEF LinkGotBusy
<1> DEFINE w == link_changed_got_busy(waiting, l)
<1>2. w \in Seq(WaitListNode(Links, Names)) /\ SameNodes(w, waiting)
  BY WaitingType, HandlersKeepNodes
<1>3. SameMissing(w, waiting)
  BY WaitingType, HandlersOnMissing
<1>4. Landed(w)
  BY <1>1, WaitingType, SettleLands
<1> HIDE DEF w
<1> QED BY <1>1, <1>2, <1>3, <1>4, ChangeHandled

(* A link is released by a bridge.                                       *)
LEMMA LinkReleasedByBridgeKeeps ==
  ASSUME IInv, LinkReleasedByBridge PROVE IInv'
<1>1. PICK l \in Links, old \in Bridges, new \in LinkState \ {Absent} :
        /\ ReceiveLink(l, old, new)
        /\ \/ Settle(LinkReleased(waiting, l))
           \/ Settle(waiting)
           \/ /\ ReleasedMet(waiting, l) # {}
              /\ Wake(ReleasedMet(waiting, l), waiting)
  BY DEF LinkReleasedByBridge
<1>2. old \in LinkState \ {Absent}
  BY StateTypes
<1>3. CASE Settle(LinkReleased(waiting, l))
  <2> DEFINE w == LinkReleased(waiting, l)
  <2>1. w \in Seq(WaitListNode(Links, Names)) /\ SameNodes(w, waiting)
    BY WaitingType, HandlersKeepNodes
  <2>2. SameMissing(w, waiting)
    BY WaitingType, HandlersOnMissing
  <2>3. Landed(w)
    BY <1>3, WaitingType, SettleLands
  <2> HIDE DEF w
  <2> QED BY <1>1, <1>2, <2>1, <2>2, <2>3, ChangeHandled
<1>4. CASE Settle(waiting)
  BY <1>1, <1>2, <1>4, WaitingType, SettleLands, ChangeHandled
<1>5. CASE /\ ReleasedMet(waiting, l) # {}
           /\ Wake(ReleasedMet(waiting, l), waiting)
  <2>1. ReleasedMet(waiting, l) \in SUBSET DOMAIN waiting
    BY DEF ReleasedMet
  <2>2. Landed(waiting)
    BY <1>5, <2>1, WaitingType, WakeLands
  <2> QED BY <1>1, <1>2, <2>2, WaitingType, ChangeHandled
<1> QED BY <1>1, <1>3, <1>4, <1>5

(* A link is released by an HSR link.                                    *)
LEMMA LinkReleasedByHsrKeeps == ASSUME IInv, LinkReleasedByHsr PROVE IInv'
<1>1. PICK l \in Links, old \in cachedHsr, new \in LinkState \ {Absent} :
        /\ ReceiveLink(l, old, new)
        /\ Settle(link_released_hsr_not(waiting, l, old))
  BY DEF LinkReleasedByHsr
<1>2. old \in LinkState \ {Absent}
  BY StateTypes DEF IInv, TypeOK
<1> DEFINE w == link_released_hsr_not(waiting, l, old)
<1>3. w \in Seq(WaitListNode(Links, Names)) /\ SameNodes(w, waiting)
  BY WaitingType, HandlersKeepNodes
<1>4. SameMissing(w, waiting)
  BY WaitingType, HandlersOnMissing
<1>5. Landed(w)
  BY <1>1, WaitingType, SettleLands
<1> HIDE DEF w
<1> QED BY <1>1, <1>2, <1>3, <1>4, <1>5, ChangeHandled

(* A change that is none for the wait list.                              *)
LEMMA LinkUnaffectedKeeps == ASSUME IInv, LinkUnaffected PROVE IInv'
<1>1. PICK l \in Links, old, new \in LinkState \ {Absent} :
        ReceiveLink(l, old, new) /\ Settle(waiting)
  BY DEF LinkUnaffected
<1>2. Landed(waiting)
  BY <1>1, WaitingType, SettleLands
<1> QED BY <1>1, <1>2, WaitingType, ChangeHandled

(* Notifications about HSR links.                                        *)
LEMMA HsrMessage ==
  ASSUME IInv, NEW h \in Names, NEW s, Receive(HsrEvent(h, s)),
         UNCHANGED cachedMaster
  PROVE  /\ cachedMaster' \in [Links -> LinkState]
         /\ LastWordTrue(queue', master')
         /\ CacheTrue(cachedMaster', queue', master')
         /\ NodesFollow(waiting, cachedMaster', queue')
<1>1. /\ queue \in Seq(Event) /\ queue # <<>>
      /\ Head(queue).type = "hsr" /\ queue' = Tail(queue)
      /\ master' = master
      /\ cachedMaster \in [Links -> LinkState]
      /\ LastWordTrue(queue, master) /\ CacheTrue(cachedMaster, queue, master)
      /\ NodesFollow(waiting, cachedMaster, queue)
  BY DEF IInv, TypeOK, KernelTypeOK, Receive, NothingStaleForGood, HsrEvent
<1>2. /\ LastWordTrue(Tail(queue), master)
      /\ CacheTrue(cachedMaster, Tail(queue), master)
      /\ NodesFollow(waiting, cachedMaster, Tail(queue))
  BY <1>1, HsrSaysNothing
<1> QED BY <1>1, <1>2

(* A handler of a message about an HSR link.                             *)
LEMMA HsrHandled ==
  ASSUME IInv, NEW h \in Names, NEW s, Receive(HsrEvent(h, s)),
         UNCHANGED cachedMaster, cachedHsr' \in SUBSET Names,
         NEW w \in Seq(WaitListNode(Links, Names)), SameNodes(w, waiting),
         SameMissing(w, waiting), Landed(w)
  PROVE  IInv'
<1>1. /\ DOMAIN w = DOMAIN waiting
      /\ \A k \in DOMAIN waiting : Slaves(w[k]) = Slaves(waiting[k])
  BY SameNodesUnique DEF SameNodes
<1>2. NodesFollow(w, cachedMaster', queue')
  BY <1>1, HsrMessage DEF NodesFollow, SameMissing
<1> QED BY <1>2, HsrMessage, NotificationKeeps

(* An HSR link appears.                                                  *)
LEMMA HsrNewKeeps == ASSUME IInv, HsrNew PROVE IInv'
<1>1. PICK h \in Names, s \in Links :
        /\ Receive(HsrEvent(h, s))
        /\ cachedHsr' = cachedHsr \cup {h}
        /\ UNCHANGED cachedMaster
        /\ Crash \/ Settle(link_changed_got_busy(waiting, s))
  BY DEF HsrNew
<1>2. cachedHsr' \in SUBSET Names
  BY <1>1 DEF IInv, TypeOK
<1>3. CASE Crash
  BY <1>1, <1>2, <1>3, HsrMessage, NotificationKeeps
<1>4. CASE Settle(link_changed_got_busy(waiting, s))
  <2> DEFINE w == link_changed_got_busy(waiting, s)
  <2>1. w \in Seq(WaitListNode(Links, Names)) /\ SameNodes(w, waiting)
    BY WaitingType, HandlersKeepNodes
  <2>2. SameMissing(w, waiting)
    BY WaitingType, HandlersOnMissing
  <2>3. Landed(w)
    BY <1>4, WaitingType, SettleLands
  <2> HIDE DEF w
  <2> QED BY <1>1, <1>2, <2>1, <2>2, <2>3, HsrHandled
<1> QED BY <1>1, <1>3, <1>4

(* An HSR link disappears.                                               *)
LEMMA HsrDelKeeps == ASSUME IInv, HsrDel PROVE IInv'
<1>1. PICK h \in cachedHsr :
        /\ Receive(HsrEvent(h, Absent))
        /\ cachedHsr' = cachedHsr \ {h}
        /\ UNCHANGED cachedMaster
        /\ WakeOrSettle(HsrDeletedMet(HsrGone(waiting, h), h),
                        HsrGone(waiting, h))
  BY DEF HsrDel
<1> DEFINE w == HsrGone(waiting, h)
<1>2. h \in Names /\ cachedHsr' \in SUBSET Names
  BY <1>1 DEF IInv, TypeOK
<1>3. w \in Seq(WaitListNode(Links, Names)) /\ SameNodes(w, waiting)
  BY WaitingType, HandlersKeepNodes
<1>4. SameMissing(w, waiting)
  BY WaitingType, HandlersOnMissing
<1>5. WakeOrSettle(HsrDeletedMet(w, h), w)
  BY <1>1
<1> HIDE DEF w
<1>6. HsrDeletedMet(w, h) \in SUBSET DOMAIN waiting
  BY <1>3 DEF HsrDeletedMet, SameNodes
<1>7. Landed(w)
  BY <1>3, <1>5, <1>6, WaitingType, WakeOrSettleLands
<1> QED BY <1>1, <1>2, <1>3, <1>4, <1>7, HsrHandled

-----------------------------------------------------------------------------
(* What happens outside the daemon.                                      *)
LEMMA EnvironmentKeeps == ASSUME IInv, Environment PROVE IInv'
<1>1. PICK s : Reports(master, master', s) /\ queue' = queue \o s
  BY KernelReports DEF IInv, TypeOK, Environment
<1>2. /\ queue \in Seq(Event)
      /\ LastWordTrue(queue, master) /\ CacheTrue(cachedMaster, queue, master)
  BY DEF IInv, TypeOK, KernelTypeOK, NothingStaleForGood
<1>3. /\ queue' \in Seq(Event)
      /\ LastWordTrue(queue', master')
      /\ CacheTrue(cachedMaster, queue', master')
      /\ NodesFollow(waiting, cachedMaster, queue) =>
           NodesFollow(waiting, cachedMaster, queue')
      /\ \A l \in Links : Coming(queue, l) => Coming(queue', l)
  BY <1>1, <1>2, ReportsKeep
<1>4. interfaces' \in Seq(Names \cup {NoIndex, Stale}) /\ overdrawn' \in Nat
  BY RetireType DEF IInv, TypeOK, Environment
<1>5. TypeOK'
  BY <1>1, <1>3, <1>4 DEF IInv, TypeOK, KernelTypeOK, Environment, Reports
<1>6. NamesUnique' /\ JobFits'
  BY DEF IInv, NamesUnique, JobFits, Environment
<1>7. NothingStaleForGood'
  BY <1>3 DEF IInv, NothingStaleForGood, Environment
<1>8. ReplacedSlavesHeardOf'
  <2>1. ASSUME pc = "cfgReplace"
        PROVE  {conf[job][1], conf[job][2]} \subseteq Links
    BY <2>1 DEF IInv, JobFits, Pair
  <2> QED
    BY <1>3, <2>1 DEF IInv, ReplacedSlavesHeardOf, Environment
<1> QED BY <1>5, <1>6, <1>7, <1>8 DEF IInv

-----------------------------------------------------------------------------
(* Requests to the kernel, once their messages are known to be a report. *)
LEMMA RequestKeeps ==
  ASSUME IInv, NEW s, Reports(master, master', s), queue' = queue \o s,
         UNCHANGED <<conf, cachedMaster, cachedHsr>>,
         interfaces' \in Seq(Names \cup {NoIndex, Stale}), overdrawn' \in Nat,
         \/ pc' \in {"poll", "drain", "crashed"} /\ job' = None
         \/ pc' = "cfgUnlist" /\ job' \in Names /\ conf[job'] = None,
         seen' \in SUBSET Links,
         waiting' \in Seq(WaitListNode(Links, Names)), Unique(waiting'),
         NodesFollow(waiting', cachedMaster, queue')
  PROVE  IInv'
<1>1. /\ queue \in Seq(Event)
      /\ LastWordTrue(queue, master) /\ CacheTrue(cachedMaster, queue, master)
  BY DEF IInv, TypeOK, KernelTypeOK, NothingStaleForGood
<1>2. /\ queue' \in Seq(Event)
      /\ LastWordTrue(queue', master')
      /\ CacheTrue(cachedMaster, queue', master')
  BY <1>1, ReportsKeep
<1>3. TypeOK'
  BY <1>2 DEF IInv, TypeOK, KernelTypeOK, Reports, PC
<1>4. NamesUnique' /\ JobFits' /\ ReplacedSlavesHeardOf'
  BY DEF NamesUnique, Unique, JobFits, ReplacedSlavesHeardOf
<1>5. NothingStaleForGood'
  BY <1>2 DEF NothingStaleForGood
<1> QED BY <1>3, <1>4, <1>5 DEF IInv

(* The list a request leaves is a part of the old one.                   *)
LEMMA RequestKeepsPart ==
  ASSUME IInv, pc # "crashed",
         NEW s, Reports(master, master', s), queue' = queue \o s,
         UNCHANGED <<conf, cachedMaster, cachedHsr>>,
         interfaces' \in Seq(Names \cup {NoIndex, Stale}), overdrawn' \in Nat,
         \/ pc' \in {"poll", "drain", "crashed"} /\ job' = None
         \/ pc' = "cfgUnlist" /\ job' \in Names /\ conf[job'] = None,
         seen' \in SUBSET Links,
         waiting' \in Seq(WaitListNode(Links, Names)), Unique(waiting'),
         \A k \in DOMAIN waiting' :
           \E j \in DOMAIN waiting : waiting'[k] = waiting[j]
  PROVE  IInv'
<1>1. /\ queue \in Seq(Event)
      /\ LastWordTrue(queue, master) /\ CacheTrue(cachedMaster, queue, master)
      /\ NodesFollow(waiting, cachedMaster, queue)
  BY DEF IInv, TypeOK, KernelTypeOK, NothingStaleForGood
<1>2. NodesFollow(waiting, cachedMaster, queue')
  BY <1>1, ReportsKeep
<1>3. NodesFollow(waiting', cachedMaster, queue')
  BY <1>2, NodesFollowSome
<1> QED BY <1>3, RequestKeeps

(* What the requests start from.                                         *)
LEMMA RequestStart ==
  ASSUME IInv
  PROVE  /\ master \in [Links -> LinkState] /\ queue \in Seq(Event)
         /\ waiting \in Seq(WaitListNode(Links, Names)) /\ Unique(waiting)
         /\ interfaces \in Seq(Names \cup {NoIndex, Stale}) /\ overdrawn \in Nat
         /\ queue = queue \o <<>> /\ Reports(master, master, <<>>)
         /\ \A m : RetireIndexes(interfaces, m)
                     \in Seq(Names \cup {NoIndex, Stale})
         /\ \A q : Resume(q) \in {"poll", "drain", "crashed"}
<1>1. master \in [Links -> LinkState] /\ queue \in Seq(Event)
  BY DEF IInv, TypeOK, KernelTypeOK
<1>2. queue = queue \o <<>>
  BY <1>1, ConcatEmptySeq
<1> QED
  BY <1>1, <1>2, ReportsNothing, RetireType
     DEF IInv, TypeOK, NamesUnique, Unique, Resume

(* A node is created, or stays.                                          *)
LEMMA WaitListCreateKeeps == ASSUME IInv, WaitListCreate PROVE IInv'
<1> DEFINE n == NodeNamed(waiting, job)
           created == CanCreate(master, job, n.slave1, n.slave2)
<1>1. /\ pc = "create" /\ job' = None /\ seen' = {}
      /\ UNCHANGED <<conf, cachedMaster, cachedHsr>>
      /\ interfaces' \in Seq(Names \cup {NoIndex, Stale}) /\ overdrawn' \in Nat
      /\ pc' \in {"poll", "drain", "crashed"}
      /\ \/ /\ master' = CreateRequest(master, job, n.slave1, n.slave2)
            /\ queue' = queue \o CreateReport(master, job, n.slave1, n.slave2)
            /\ waiting' = create_hif(waiting, job, created)
         \/ UNCHANGED <<master, queue, waiting>>
  BY RequestStart DEF WaitListCreate, Finish
<1>2. job \in Names /\ n.slave1 \in Links /\ n.slave2 \in Links
  <2>1. job \in Names /\ Waits(waiting, job)
    BY <1>1 DEF IInv, JobFits
  <2>2. n \in WaitListNode(Links, Names)
    BY <2>1, RequestStart, NodeNamedIn
  <2> QED BY <2>1, <2>2 DEF WaitListNode
<1> HIDE DEF n, created
<1>3. CASE /\ master' = CreateRequest(master, job, n.slave1, n.slave2)
           /\ queue' = queue \o CreateReport(master, job, n.slave1, n.slave2)
           /\ waiting' = create_hif(waiting, job, created)
  <2>1. Reports(master, master',
                CreateReport(master, job, n.slave1, n.slave2))
    BY <1>2, <1>3, RequestStart, CreateReports
  <2>2. /\ waiting' \in Seq(WaitListNode(Links, Names)) /\ Unique(waiting')
        /\ \A k \in DOMAIN waiting' :
             \E j \in DOMAIN waiting : waiting'[k] = waiting[j]
    BY <1>3, RequestStart, CreateProperties
  <2> QED BY <1>1, <1>3, <2>1, <2>2, RequestKeepsPart
<1>4. CASE UNCHANGED <<master, queue, waiting>>
  BY <1>1, <1>4, RequestStart, RequestKeepsPart
<1> QED BY <1>1, <1>3, <1>4

(* A node is recreated, or stays.                                        *)
LEMMA WaitListRecreateKeeps == ASSUME IInv, WaitListRecreate PROVE IInv'
<1> DEFINE n == NodeNamed(waiting, job)
           a == RecreateSlaves(n)[1]
           b == RecreateSlaves(n)[2]
           m == Released(master, job)
           created == CanCreate(m, job, a, b)
<1>1. /\ pc = "recreate" /\ job' = None /\ seen' = {}
      /\ UNCHANGED <<conf, cachedMaster, cachedHsr>>
      /\ interfaces' \in Seq(Names \cup {NoIndex, Stale}) /\ overdrawn' \in Nat
      /\ pc' \in {"poll", "drain", "crashed"}
      /\ \/ UNCHANGED <<master, queue, waiting>>
         \/ /\ master' = m
            /\ \E events \in DeleteEvents(master, job) :
                 queue' = queue \o events
            /\ UNCHANGED waiting
         \/ /\ master' = CreateRequest(m, job, a, b)
            /\ \E events \in DeleteEvents(master, job) :
                 queue' = queue \o events \o CreateReport(m, job, a, b)
            /\ waiting' = create_hif(waiting, job, created)
  BY RequestStart DEF WaitListRecreate, Finish
<1>2. job \in Names /\ a \in Links /\ b \in Links
  <2>1. job \in Names /\ Waits(waiting, job)
    BY <1>1 DEF IInv, JobFits
  <2>2. n \in WaitListNode(Links, Names)
    BY <2>1, RequestStart, NodeNamedIn
  <2> QED BY <2>1, <2>2 DEF WaitListNode, RecreateSlaves
<1>3. \A events \in DeleteEvents(master, job) : Reports(master, m, events)
  BY <1>2, RequestStart, DeleteReports
<1> HIDE DEF n, a, b, m, created
<1>4. CASE UNCHANGED <<master, queue, waiting>>
  BY <1>1, <1>4, RequestStart, RequestKeepsPart
<1>5. ASSUME master' = m, UNCHANGED waiting,
             NEW events \in DeleteEvents(master, job),
             queue' = queue \o events
      PROVE  IInv'
  <2>1. Reports(master, master', events)
    BY <1>3, <1>5
  <2> QED BY <1>1, <1>5, <2>1, RequestStart, RequestKeepsPart
<1>6. ASSUME master' = CreateRequest(m, job, a, b),
             waiting' = create_hif(waiting, job, created),
             NEW events \in DeleteEvents(master, job),
             queue' = queue \o events \o CreateReport(m, job, a, b)
      PROVE  IInv'
  <2> DEFINE report == CreateReport(m, job, a, b)
  <2>1. Reports(master, m, events) /\ m \in [Links -> LinkState]
    BY <1>3 DEF Reports
  <2>2. Reports(m, master', report)
    BY <1>2, <1>6, <2>1, CreateReports
  <2>3. queue' = (queue \o events) \o report
    BY <1>6
  <2> HIDE DEF report
  <2>4. Reports(master, master', events \o report)
    BY <2>1, <2>2, ReportsTwice
  <2>5. queue' = queue \o (events \o report)
    <3>1. events \in Seq(Event) /\ report \in Seq(Event)
      BY <2>1, <2>2 DEF Reports
    <3>2. (queue \o events) \o report = queue \o (events \o report)
      <4>1. queue \in Seq(Event)
        BY RequestStart
      <4> QED BY <3>1, <4>1
    <3> QED BY <2>3, <3>2
  <2>6. /\ waiting' \in Seq(WaitListNode(Links, Names)) /\ Unique(waiting')
        /\ \A k \in DOMAIN waiting' :
             \E j \in DOMAIN waiting : waiting'[k] = waiting[j]
    BY <1>6, RequestStart, CreateProperties
  <2> QED BY <1>1, <2>4, <2>5, <2>6, RequestKeepsPart
<1> QED BY <1>1, <1>4, <1>5, <1>6

(* A new configuration is created at once.                               *)
LEMMA CfgCreateKeeps == ASSUME IInv, CfgCreate PROVE IInv'
<1> DEFINE a == conf[job][1]
           b == conf[job][2]
<1>1. /\ pc = "cfgCreate" /\ job' = None /\ seen' = {} /\ pc' = "poll"
      /\ UNCHANGED <<conf, cachedMaster, cachedHsr, waiting>>
      /\ interfaces' \in Seq(Names \cup {NoIndex, Stale}) /\ overdrawn' \in Nat
      /\ master' = CreateRequest(master, job, a, b)
      /\ queue' = queue \o CreateReport(master, job, a, b)
  BY RequestStart DEF CfgCreate, Finish
<1>2. job \in Names /\ a \in Links /\ b \in Links
  BY <1>1 DEF IInv, JobFits, Pair
<1> HIDE DEF a, b
<1>3. Reports(master, master', CreateReport(master, job, a, b))
  BY <1>1, <1>2, RequestStart, CreateReports
<1> QED BY <1>1, <1>3, RequestStart, RequestKeepsPart

(* The node of the new configuration gets no bit; main_check had found   *)
(* both slaves.                                                          *)
LEMMA CfgReplaceKeeps == ASSUME IInv, CfgReplace PROVE IInv'
<1> DEFINE a == conf[job][1]
           b == conf[job][2]
           n == wait_list_node_alloc(job, a, b)
<1>1. /\ pc = "cfgReplace" /\ job' = None /\ seen' = {} /\ pc' = "poll"
      /\ UNCHANGED <<conf, cachedMaster, cachedHsr>>
      /\ interfaces' \in Seq(Names \cup {NoIndex, Stale}) /\ overdrawn' \in Nat
      /\ \/ UNCHANGED <<master, queue, waiting>>
         \/ /\ master' = Released(master, job)
            /\ \E events \in DeleteEvents(master, job) :
                 queue' = queue \o events
            /\ waiting' = Append(waiting, n)
  BY RequestStart DEF CfgReplace, Requeue, Finish
<1>2. /\ job \in Names /\ a \in Links /\ b \in Links
      /\ ~ Waits(waiting, job)
  BY <1>1 DEF IInv, JobFits, Pair
<1>3. /\ n \in WaitListNode(Links, Names) /\ n.hsr_name = job
      /\ Slaves(n) = {a, b} /\ n.missing = {}
  BY <1>2 DEF wait_list_node_alloc, WaitListNode, Slaves
<1>4. \A l \in {a, b} : cachedMaster[l] # Absent \/ Coming(queue, l)
  BY <1>1 DEF IInv, ReplacedSlavesHeardOf
<1> HIDE DEF a, b, n
<1>5. CASE UNCHANGED <<master, queue, waiting>>
  BY <1>1, <1>5, RequestStart, RequestKeepsPart
<1>6. ASSUME master' = Released(master, job), waiting' = Append(waiting, n),
             NEW events \in DeleteEvents(master, job),
             queue' = queue \o events
      PROVE  IInv'
  <2>1. Reports(master, master', events)
    BY <1>2, <1>6, RequestStart, DeleteReports
  <2>2. waiting' \in Seq(WaitListNode(Links, Names)) /\ Unique(waiting')
    BY <1>2, <1>3, <1>6, RequestStart, AppendProperties2
  <2>3. /\ queue \in Seq(Event)
        /\ LastWordTrue(queue, master)
        /\ CacheTrue(cachedMaster, queue, master)
        /\ NodesFollow(waiting, cachedMaster, queue)
    BY <1>1 DEF IInv, TypeOK, KernelTypeOK, NothingStaleForGood
  <2>4. /\ NodesFollow(waiting, cachedMaster, queue')
        /\ \A l \in Links : Coming(queue, l) => Coming(queue', l)
    BY <1>6, <2>1, <2>3, ReportsKeep
  <2>5. NodesFollow(Append(waiting, n), cachedMaster, queue')
    BY <1>2, <1>3, <1>4, <2>4, RequestStart, NodesFollowAppend
  <2> QED BY <1>1, <1>6, <2>1, <2>2, <2>5, RequestKeeps
<1> QED BY <1>1, <1>5, <1>6

(* A configuration was removed: so is its link, or its node.             *)
LEMMA CfgRemoveKeeps == ASSUME IInv, CfgRemove PROVE IInv'
<1>1. /\ pc = "cfgRemove" /\ job \in Names /\ conf[job] = None
      /\ seen \in SUBSET Links
      /\ UNCHANGED <<conf, cachedMaster, cachedHsr, overdrawn>>
      /\ interfaces' = RetireIndexes(interfaces, master')
  BY DEF CfgRemove, IInv, TypeOK, JobFits
<1>2. CASE Exists(master, job)
  <2>1. /\ master' = Released(master, job) /\ UNCHANGED waiting
        /\ pc' = "cfgUnlist" /\ job' = job /\ UNCHANGED seen
    BY <1>2 DEF CfgRemove, Due
  <2>2. PICK events \in DeleteEvents(master, job) : queue' = queue \o events
    BY <1>2 DEF CfgRemove
  <2>3. Reports(master, master', events)
    BY <1>1, <2>1, RequestStart, DeleteReports
  <2> QED BY <1>1, <2>1, <2>2, <2>3, RequestStart, RequestKeepsPart
<1>3. CASE ~ Exists(master, job)
  <2>1. /\ waiting' = delete_wait_list_node(waiting, job)
        /\ UNCHANGED <<master, queue>>
        /\ pc' = "poll" /\ job' = None /\ seen' = {}
    BY <1>3 DEF CfgRemove, Finish
  <2>2. /\ waiting' \in Seq(WaitListNode(Links, Names)) /\ Unique(waiting')
        /\ \A k \in DOMAIN waiting' :
             \E j \in DOMAIN waiting : waiting'[k] = waiting[j]
    BY <2>1, RequestStart, DeleteProperties
  <2> QED BY <1>1, <2>1, <2>2, RequestStart, RequestKeepsPart
<1> QED BY <1>2, <1>3

(* The interface list after that.                                        *)
LEMMA CfgUnlistKeeps == ASSUME IInv, CfgUnlist PROVE IInv'
<1>1. /\ pc = "cfgUnlist" /\ job \in Names
      /\ pc' = "poll" /\ job' = None /\ seen' = {}
      /\ UNCHANGED <<master, queue, conf, cachedMaster, cachedHsr, waiting>>
      /\ change_interface_list(job, FALSE)
  BY DEF CfgUnlist, Finish, IInv, JobFits
<1>2. interfaces' \in Seq(Names \cup {NoIndex, Stale}) /\ overdrawn' \in Nat
  BY <1>1, RequestStart, ChangeListType
<1> QED BY <1>1, <1>2, RequestStart, RequestKeepsPart

-----------------------------------------------------------------------------
(* Requests from confdb.                                                 *)
LEMMA DeliverKeeps ==
  ASSUME IInv, NEW h \in Names, NEW value \in Pair \cup {None, Incomplete},
         Deliver(h, value),
         interfaces' \in Seq(Names \cup {NoIndex, Stale}), overdrawn' \in Nat,
         waiting' \in Seq(WaitListNode(Links, Names)), Unique(waiting'),
         NodesFollow(waiting', cachedMaster, queue),
         pc' \in PC, job' \in Names \cup {None}, seen' \in SUBSET Links,
         JobFits', pc' # "cfgReplace"
  PROVE  IInv'
<1>1. conf' \in [Names -> Pair \cup {None, Incomplete}]
  BY DEF IInv, TypeOK, Deliver
<1>2. TypeOK'
  BY <1>1 DEF IInv, TypeOK, KernelTypeOK, Deliver
<1>3. NamesUnique'
  BY DEF NamesUnique, Unique
<1>4. NothingStaleForGood'
  BY DEF IInv, NothingStaleForGood, Deliver
<1>5. ReplacedSlavesHeardOf'
  BY DEF ReplacedSlavesHeardOf
<1> QED BY <1>2, <1>3, <1>4, <1>5 DEF IInv

(* What the requests from confdb start from.                             *)
LEMMA DeliverStart ==
  ASSUME IInv, NEW h \in Names, NEW value, Deliver(h, value)
  PROVE  /\ pc = "poll" /\ conf'[h] = value /\ pc \in PC
         /\ job \in Names \cup {None} /\ seen \in SUBSET Links
         /\ UNCHANGED <<master, queue, cachedMaster, cachedHsr>>
         /\ cachedMaster \in [Links -> LinkState]
         /\ NodesFollow(waiting, cachedMaster, queue)
         /\ interfaces \in Seq(Names \cup {NoIndex, Stale}) /\ overdrawn \in Nat
         /\ None \in Pair \cup {None, Incomplete}
BY DEF Deliver, IInv, TypeOK, NothingStaleForGood

(* A configuration was set: the name has no node any more.               *)
LEMMA CfgSetKeeps ==
  ASSUME IInv, NEW h \in Names, NEW a \in Links, NEW b \in Links,
         CfgSet(h, a, b)
  PROVE  IInv'
<1> DEFINE w == delete_wait_list_node(waiting, h)
<1>1. /\ Deliver(h, <<a, b>>) /\ change_interface_list(h, TRUE)
      /\ waiting' = w /\ pc' = "cfgCheck" /\ job' = h /\ UNCHANGED seen
  BY DEF CfgSet, Enlist, Due
<1>2. interfaces' \in Seq(Names \cup {NoIndex, Stale}) /\ overdrawn' \in Nat
  BY <1>1, DeliverStart, ChangeListType
<1>3. /\ w \in Seq(WaitListNode(Links, Names))
      /\ Unique(w) /\ ~ Waits(w, h)
      /\ \A k \in DOMAIN w : \E j \in DOMAIN waiting : w[k] = waiting[j]
  BY RequestStart, DeleteProperties
<1> HIDE DEF w
<1>4. NodesFollow(w, cachedMaster, queue)
  <2>1. NodesFollow(waiting, cachedMaster, queue)
    BY <1>1, DeliverStart
  <2> QED BY <1>3, <2>1, NodesFollowSome
<1>5. <<a, b>> \in Pair \cup {None, Incomplete} /\ <<a, b>> \in Pair
  BY DEF CfgSet
<1>6. JobFits'
  <2>1. conf'[h] = <<a, b>>
    BY <1>1, DeliverStart
  <2> QED BY <1>1, <1>3, <1>5, <2>1 DEF JobFits
<1>7. pc' \in PC /\ job' \in Names \cup {None} /\ seen' \in SUBSET Links
      /\ pc' # "cfgReplace"
  BY <1>1, DeliverStart DEF PC
<1> QED BY <1>1, <1>2, <1>3, <1>4, <1>5, <1>6, <1>7, DeliverKeeps

(* Every node main_check queues has the NOT_EXISTS bits of its dump.     *)
LEMMA EnqueueKeeps ==
  ASSUME IInv, pc = "cfgCheck", NEW a \in Links, NEW b \in Links,
         UNCHANGED <<master, queue, conf, cachedMaster, cachedHsr, listVars>>,
         NEW n \in WaitListNode(Links, Names), n.hsr_name = job,
         Slaves(n) = {a, b},
         n.missing = {s \in {a, b} : master[s] = Absent},
         Enqueue(n)
  PROVE  IInv'
<1> DEFINE missing == {s \in {a, b} : master[s] = Absent}
<1>1. n.missing = missing
  OBVIOUS
<1>2. /\ waiting \in Seq(WaitListNode(Links, Names))
      /\ Unique(waiting) /\ ~ Waits(waiting, job)
  BY RequestStart DEF IInv, JobFits
<1>3. /\ waiting' = Append(waiting, n)
      /\ pc' = "poll" /\ job' = None /\ UNCHANGED seen
  BY DEF Enqueue
<1>4. waiting' \in Seq(WaitListNode(Links, Names)) /\ Unique(waiting')
  BY <1>1, <1>2, <1>3, AppendProperties2
<1>5. NodesFollow(waiting, cachedMaster, queue)
  BY DEF IInv, NothingStaleForGood
<1>6. \A l \in {a, b} :
        /\ cachedMaster[l] # Absent /\ ~ Leaving(queue, l) => l \notin missing
        /\ cachedMaster[l] = Absent /\ ~ Coming(queue, l) => l \in missing
  BY DEF IInv, NothingStaleForGood, CacheTrue
<1> HIDE DEF missing
<1>7. NodesFollow(waiting', cachedMaster, queue)
  BY <1>1, <1>2, <1>3, <1>5, <1>6, NodesFollowAppend
<1>8. /\ UNCHANGED <<master, queue, conf, cachedMaster, cachedHsr>>
      /\ interfaces' \in Seq(Names \cup {NoIndex, Stale}) /\ overdrawn' \in Nat
      /\ seen' \in SUBSET Links
  BY <1>3, RequestStart DEF IInv, TypeOK, listVars
<1> QED BY <1>3, <1>4, <1>7, <1>8, RequestStart, RequestKeeps

(* main_check: the node is queued or a request begins.                   *)
LEMMA CfgCheckKeeps ==
  ASSUME IInv, CfgCheck
  PROVE  IInv'
<1> DEFINE a == conf[job][1]
           b == conf[job][2]
           n == wait_list_node_alloc(job, a, b)
           missing == {s \in {a, b} : master[s] = Absent}
<1>1. /\ pc = "cfgCheck"
      /\ UNCHANGED <<master, queue, conf, cachedMaster, cachedHsr, listVars>>
  BY DEF CfgCheck
<1>2. /\ job \in Names /\ a \in Links /\ b \in Links
      /\ conf[job] \in Pair /\ ~ Waits(waiting, job)
  BY <1>1 DEF IInv, JobFits, Pair
<1>3. \/ /\ missing # {}
         /\ Enqueue([n EXCEPT !.missing = missing,
                              !.busy = BusySlaves(master, a, b)])
      \/ /\ missing = {}
         /\ \/ Request("cfgReplace")
            \/ Request("cfgCreate")
            \/ Enqueue([n EXCEPT !.busy = BusySlaves(master, a, b)])
            \/ Enqueue([n EXCEPT !.busy = ReplaceLaterBusy(master, job, a, b)])
  BY DEF CfgCheck
<1>4. /\ BusySlaves(master, a, b) \in SUBSET Links
      /\ ReplaceLaterBusy(master, job, a, b) \in SUBSET Links
  BY <1>2 DEF BusySlaves, ReplaceLaterBusy
<1>5. missing \in SUBSET Links
  BY <1>2
<1>6. ASSUME NEW busy \in SUBSET Links,
             \/ Enqueue([n EXCEPT !.missing = missing, !.busy = busy])
             \/ missing = {} /\ Enqueue([n EXCEPT !.busy = busy])
      PROVE  IInv'
  <2> HIDE DEF missing, a, b
  <2>1. PICK node : /\ Enqueue(node)
                    /\ node \in WaitListNode(Links, Names) /\ node.hsr_name = job
                    /\ Slaves(node) = {a, b} /\ node.missing = missing
    <3>1. CASE Enqueue([n EXCEPT !.missing = missing, !.busy = busy])
      <4> DEFINE node == [n EXCEPT !.missing = missing, !.busy = busy]
      <4>1. /\ node \in WaitListNode(Links, Names) /\ node.hsr_name = job
            /\ Slaves(node) = {a, b} /\ node.missing = missing
        BY <1>2, <1>5, <1>6 DEF wait_list_node_alloc, WaitListNode, Slaves
      <4>2. Enqueue(node)
        BY <3>1
      <4> QED BY <4>1, <4>2
    <3>2. CASE missing = {} /\ Enqueue([n EXCEPT !.busy = busy])
      <4> DEFINE node == [n EXCEPT !.busy = busy]
      <4>1. /\ node \in WaitListNode(Links, Names) /\ node.hsr_name = job
            /\ Slaves(node) = {a, b} /\ node.missing = missing
        BY <1>2, <1>6, <3>2 DEF wait_list_node_alloc, WaitListNode, Slaves
      <4>2. Enqueue(node)
        BY <3>2
      <4> QED BY <4>1, <4>2
    <3> QED BY <1>6, <3>1, <3>2
  <2> QED BY <1>1, <1>2, <2>1, EnqueueKeeps DEF missing
<1>7. ASSUME missing = {}, NEW newpc \in {"cfgCreate", "cfgReplace"},
             Request(newpc)
      PROVE  IInv'
  <2>1. pc' = newpc /\ UNCHANGED <<waiting, job, seen>>
    BY <1>7 DEF Request
  <2>2. TypeOK'
    BY <1>1, <1>7, <2>1 DEF IInv, TypeOK, KernelTypeOK, PC, listVars
  <2>3. NamesUnique' /\ NothingStaleForGood'
    BY <1>1, <1>7, <2>1 DEF IInv, NamesUnique, NothingStaleForGood
  <2>4. JobFits'
    BY <1>1, <1>2, <1>7, <2>1 DEF JobFits
  <2>5. ReplacedSlavesHeardOf'
    <3>1. \A l \in {a, b} : cachedMaster[l] # Absent \/ Coming(queue, l)
      BY <1>2, <1>7 DEF IInv, NothingStaleForGood, CacheTrue
    <3> QED BY <1>1, <2>1, <3>1 DEF ReplacedSlavesHeardOf
  <2> QED BY <2>2, <2>3, <2>4, <2>5 DEF IInv
<1> HIDE DEF a, b, n, missing
<1> QED BY <1>3, <1>4, <1>6, <1>7

(* An incomplete configuration.                                          *)
LEMMA CfgIncompleteKeeps ==
  ASSUME IInv, NEW h \in Names, CfgIncomplete(h)
  PROVE  IInv'
<1>1. /\ Deliver(h, Incomplete) /\ change_interface_list(h, TRUE)
      /\ UNCHANGED <<waiting, pc, job, seen>>
  BY DEF CfgIncomplete, Enlist
<1>2. interfaces' \in Seq(Names \cup {NoIndex, Stale}) /\ overdrawn' \in Nat
  BY <1>1, DeliverStart, ChangeListType
<1>3. JobFits' /\ pc' # "cfgReplace"
  BY <1>1, DeliverStart DEF JobFits
<1> QED BY <1>1, <1>2, <1>3, DeliverStart, RequestStart, DeliverKeeps

(* A write outside the interface list ends everything.                   *)
LEMMA CfgWritesOutsideKeeps == ASSUME IInv, CfgWritesOutside PROVE IInv'
BY DEF CfgWritesOutside, Crash, IInv, TypeOK, KernelTypeOK, NamesUnique,
       JobFits, NothingStaleForGood, ReplacedSlavesHeardOf, PC, listVars

(* A configuration was deleted.                                          *)
LEMMA CfgDeleteKeeps ==
  ASSUME IInv, NEW h \in Names, CfgDelete(h)
  PROVE  IInv'
<1>1. Deliver(h, None) /\ UNCHANGED <<interfaces, overdrawn>>
  BY DEF CfgDelete, listVars
<1>2. CASE Due("cfgRemove", h) /\ UNCHANGED waiting
  <2>1. /\ waiting' = waiting /\ job' = h /\ pc' = "cfgRemove"
        /\ UNCHANGED seen
    BY <1>2 DEF Due
  <2>2. JobFits' /\ pc' # "cfgReplace" /\ pc' \in PC
    <3>1. conf'[h] = None
      BY <1>1, DeliverStart
    <3> QED BY <2>1, <3>1 DEF JobFits, PC
  <2> QED BY <1>1, <2>1, <2>2, DeliverStart, RequestStart, DeliverKeeps
<1>3. CASE /\ waiting' = delete_wait_list_node(waiting, h)
           /\ UNCHANGED <<pc, job, seen>>
  <2>1. /\ waiting' \in Seq(WaitListNode(Links, Names)) /\ Unique(waiting')
        /\ \A k \in DOMAIN waiting' :
             \E j \in DOMAIN waiting : waiting'[k] = waiting[j]
    BY <1>3, RequestStart, DeleteProperties
  <2>2. NodesFollow(waiting', cachedMaster, queue)
    <3>1. NodesFollow(waiting, cachedMaster, queue)
      BY <1>1, DeliverStart
    <3> QED BY <2>1, <3>1, NodesFollowSome
  <2>3. JobFits' /\ pc' # "cfgReplace"
    BY <1>1, <1>3, DeliverStart DEF JobFits
  <2> QED BY <1>1, <1>3, <2>1, <2>2, <2>3, DeliverStart, DeliverKeeps
<1> QED BY <1>2, <1>3 DEF CfgDelete

-----------------------------------------------------------------------------
(* The invariant is inductive: it holds at the start and every step keeps *)
(* it.                                                                   *)
LEMMA StepKeeps == ASSUME IInv, [Next]_vars PROVE IInv'
<1>1. CASE Environment
  BY <1>1, EnvironmentKeeps
<1>2. CASE Configuration
  BY <1>2, CfgSetKeeps, CfgIncompleteKeeps, CfgDeleteKeeps,
     CfgWritesOutsideKeeps DEF Configuration
<1>3. CASE Notification
  BY <1>3, LinkNewKeeps, LinkDelKeeps, LinkGotBusyKeeps,
     LinkReleasedByBridgeKeeps, LinkReleasedByHsrKeeps, LinkUnaffectedKeeps,
     HsrNewKeeps, HsrDelKeeps DEF Notification
<1>4. CASE \/ WaitListCreate \/ WaitListRecreate
           \/ CfgCheck \/ CfgCreate \/ CfgReplace \/ CfgRemove \/ CfgUnlist
  BY <1>4, WaitListCreateKeeps, WaitListRecreateKeeps, CfgCheckKeeps,
     CfgCreateKeeps, CfgReplaceKeeps, CfgRemoveKeeps, CfgUnlistKeeps
<1>5. CASE UNCHANGED vars
  BY <1>5 DEF vars, daemonVars, listVars, IInv, TypeOK, KernelTypeOK, NamesUnique,
     JobFits, NothingStaleForGood, ReplacedSlavesHeardOf
<1> QED BY <1>1, <1>2, <1>3, <1>4, <1>5 DEF Next, Daemon

(* IInv holds in every reachable state.                                  *)
THEOREM Invariant == Spec => []IInv
<1>1. Init => IInv
  BY InitInv
<1>2. IInv /\ [Next]_vars => IInv'
  BY StepKeeps
<1> QED BY <1>1, <1>2, PTL DEF Spec

(* The state of the daemon and of the kernel has the declared types: among *)
(* them, a request is under way for a configured name only, and every slave*)
(* of a waiting node is a link.                                          *)
THEOREM TypeCorrect == Spec => []TypeOK
<1>1. IInv => TypeOK
  BY DEF IInv
<1> QED BY <1>1, Invariant, PTL

(* No interface waits twice, whatever confdb and the kernel do.          *)
THEOREM NoNameWaitsTwice == Spec => []NamesUnique
<1>1. IInv => NamesUnique
  BY DEF IInv
<1> QED BY <1>1, Invariant, PTL

(* At no moment does the cache or the wait list hold something about the *)
(* existence of a link that the kernel denies and no message still to be *)
(* read corrects.                                                        *)
THEOREM BeliefsAreCorrected == Spec => []NothingStaleForGood
<1>1. IInv => NothingStaleForGood
  BY DEF IInv
<1> QED BY <1>1, Invariant, PTL

(* When the daemon has heard everything, the SLAVEn_NOT_EXISTS bits of the *)
(* nodes that wait are exactly the links the kernel does not have.       *)
THEOREM MissingFlagsAreExact == Spec => []MissingFlagsExact
<1>1. ASSUME IInv
      PROVE  MissingFlagsExact
  <2>1. SUFFICES ASSUME pc = "poll", queue = <<>>,
                        NEW k \in DOMAIN waiting,
                        NEW l \in Slaves(waiting[k])
                 PROVE  l \in waiting[k].missing <=> master[l] = Absent
    BY DEF MissingFlagsExact, Quiescent
  <2>2. l \in Links
    <3>1. waiting[k] \in WaitListNode(Links, Names)
      BY <1>1 DEF IInv, TypeOK
    <3> QED BY <3>1, SlavesType
  <2>3. ~ Coming(queue, l) /\ ~ Leaving(queue, l)
    BY <2>1 DEF Coming, Leaving
  <2>4. cachedMaster[l] = Absent <=> master[l] = Absent
    BY <1>1, <2>2, <2>3 DEF IInv, NothingStaleForGood, CacheTrue
  <2>5. cachedMaster[l] = Absent <=> l \in waiting[k].missing
    BY <1>1, <2>1, <2>3 DEF IInv, NothingStaleForGood, NodesFollow
  <2> QED BY <2>4, <2>5
<1> QED BY <1>1, Invariant, PTL

-----------------------------------------------------------------------------
(* No waiting interface is lost: it leaves the wait list only because it   *)
(* was created with its own slaves, or because its configuration changed   *)
(* or is gone.                                                             *)

(* What WaitingNeverDropped says of one node and one step.                 *)
Spared(k) ==
  LET n == waiting[k]
  IN  ~ Waits(waiting', n.hsr_name) =>
        \/ CreatedAsConfigured(n)
        \/ conf'[n.hsr_name] # conf[n.hsr_name]
        \/ conf[n.hsr_name] = None

(* Deleting by name leaves the nodes of other names in the list.           *)
LEMMA DeleteSpares ==
  ASSUME NEW S, NEW w \in Seq(S), NEW h, NEW k \in DOMAIN w, w[k].hsr_name # h
  PROVE  Waits(delete_wait_list_node(w, h), w[k].hsr_name)
<1> DEFINE K == {j \in DOMAIN w : w[j].hsr_name = h}
           i == Min(K)
           v == RemoveAt(w, i)
<1>1. CASE ~ Waits(w, h)
  BY <1>1 DEF delete_wait_list_node, Waits
<1>2. CASE Waits(w, h)
  <2>1. K \in SUBSET Nat /\ K # {}
    BY <1>2 DEF Waits
  <2>2. i \in K
    BY <2>1, MinIn
  <2>3. i \in DOMAIN w /\ i # k
    BY <2>2
  <2>4. delete_wait_list_node(w, h) = v
    BY <1>2 DEF delete_wait_list_node
  <2> HIDE DEF K, i, v
  <2>5. /\ DOMAIN v = 1 .. (Len(w) - 1)
        /\ \A j \in 1 .. (Len(w) - 1) : v[j] = IF j < i THEN w[j] ELSE w[j + 1]
    BY <2>3, RemoveAtProperties DEF v
  <2>6. Len(w) \in Nat /\ i \in 1 .. Len(w) /\ k \in 1 .. Len(w)
    BY <2>3
  <2>7. CASE k < i
    <3>1. k \in DOMAIN v /\ v[k] = w[k]
      BY <2>5, <2>6, <2>7
    <3> QED BY <2>4, <3>1 DEF Waits
  <2>8. CASE k > i
    <3>1. k - 1 \in DOMAIN v /\ v[k - 1] = w[k]
      BY <2>5, <2>6, <2>8
    <3> QED BY <2>4, <3>1 DEF Waits
  <2> QED BY <2>3, <2>6, <2>7, <2>8
<1> QED BY <1>1, <1>2

(* A new HSR link has the slaves it was created with.                      *)
LEMMA EnslavedSlaves ==
  ASSUME NEW m \in [Links -> LinkState], NEW h, NEW a \in Links, NEW b \in Links,
         ~ Exists(m, h)
  PROVE  SlavesOf(Enslaved(m, h, a, b), h) = {a, b}
BY DEF Exists, SlavesOf, Enslaved

-----------------------------------------------------------------------------
(* One lemma per kind of step.                                             *)

(* A notification changes bits of nodes and nothing else of the list.      *)
LEMMA NotificationNodes ==
  ASSUME IInv, Notification
  PROVE  waiting' = waiting \/ SameNodes(waiting', waiting)
<1>1. \/ waiting' = waiting
      \/ \E l, m : waiting' \in
           {link_changed_got_busy(waiting, l), link_deleted(waiting, l),
            LinkAppeared(waiting, l), LinkReleased(waiting, l),
            link_released_hsr_not(waiting, l, m), HsrGone(waiting, m)}
  <2>1. ASSUME NEW w, NEW met, WakeOrSettle(met, w) PROVE waiting' = w
    BY <2>1 DEF WakeOrSettle, Wake, Settle
  <2>2. CASE LinkNew
    BY <2>1, <2>2 DEF LinkNew, Crash
  <2>3. CASE LinkDel
    BY <2>3 DEF LinkDel, Crash, Settle
  <2>4. CASE LinkGotBusy
    BY <2>4 DEF LinkGotBusy, Settle
  <2>5. CASE LinkReleasedByBridge
    BY <2>5 DEF LinkReleasedByBridge, Settle, Wake
  <2>6. CASE LinkReleasedByHsr
    BY <2>6 DEF LinkReleasedByHsr, Settle
  <2>7. CASE LinkUnaffected
    BY <2>7 DEF LinkUnaffected, Settle
  <2>8. CASE HsrNew
    BY <2>8 DEF HsrNew, Crash, Settle
  <2>9. CASE HsrDel
    BY <2>1, <2>9 DEF HsrDel
  <2> QED
    BY <2>2, <2>3, <2>4, <2>5, <2>6, <2>7, <2>8, <2>9 DEF Notification
<1>2. waiting \in Seq(WaitListNode(Links, Names))
  BY DEF IInv, TypeOK
<1> QED BY <1>1, <1>2, HandlersKeepNodes

LEMMA NotificationSpares ==
  ASSUME IInv, Notification, NEW k \in DOMAIN waiting
  PROVE  Spared(k)
<1>1. waiting' = waiting \/ SameNodes(waiting', waiting)
  BY NotificationNodes
<1>2. Waits(waiting, waiting[k].hsr_name)
  BY DEF Waits
<1>3. Waits(waiting', waiting[k].hsr_name)
  BY <1>1, <1>2, SameNodesUnique
<1> QED BY <1>3 DEF Spared

(* create_hif_from_waitlist creates the interface of its node, with the    *)
(* slaves of that node, or leaves the list alone.                          *)
LEMMA WaitListCreateSpares ==
  ASSUME IInv, WaitListCreate, NEW k \in DOMAIN waiting
  PROVE  Spared(k)
<1> DEFINE n == NodeNamed(waiting, job)
           can == CanCreate(master, job, n.slave1, n.slave2)
<1>1. CASE ~ can \/ waiting' = waiting
  <2>1. waiting' = waiting
    BY <1>1 DEF WaitListCreate, create_hif
  <2> QED BY <2>1 DEF Spared, Waits
<1>2. CASE can /\ waiting' # waiting
  <2>1. /\ master' = Enslaved(master, job, n.slave1, n.slave2)
        /\ waiting' = delete_wait_list_node(waiting, job)
    BY <1>2 DEF WaitListCreate, CreateRequest, create_hif
  <2>2. waiting \in Seq(WaitListNode(Links, Names)) /\ Waits(waiting, job)
    BY DEF IInv, TypeOK, JobFits, WaitListCreate
  <2>3. PICK j \in DOMAIN waiting : n = waiting[j] /\ n.hsr_name = job
    BY <2>2, NodeNamedIn
  <2>4. CASE waiting[k].hsr_name # job
    BY <2>1, <2>2, <2>4, DeleteSpares DEF Spared
  <2>5. CASE waiting[k].hsr_name = job
    <3>1. waiting[k] = n
      BY <2>3, <2>5 DEF IInv, NamesUnique
    <3>2. waiting[j] \in WaitListNode(Links, Names)
      BY <2>2
    <3>3. n.slave1 \in Links /\ n.slave2 \in Links
      BY <2>3, <3>2 DEF WaitListNode
    <3>4. master \in [Links -> LinkState] /\ ~ Exists(master, job)
      BY <1>2 DEF IInv, TypeOK, KernelTypeOK, CanCreate
    <3>5. SlavesOf(master', job) = {n.slave1, n.slave2}
      BY <2>1, <3>3, <3>4, EnslavedSlaves
    <3> HIDE DEF n
    <3> QED BY <2>3, <3>1, <3>5 DEF Spared, CreatedAsConfigured, Slaves
  <2> QED BY <2>4, <2>5
<1> QED BY <1>1, <1>2

(* Recreation asks for the same slave twice, which the kernel refuses: the *)
(* node stays.                                                             *)
LEMMA WaitListRecreateSpares ==
  ASSUME WaitListRecreate, NEW k \in DOMAIN waiting
  PROVE  Spared(k)
<1>1. waiting' = waiting
  BY DEF WaitListRecreate, RecreateSlaves, CanCreate, create_hif
<1> QED BY <1>1 DEF Spared, Waits

(* A new configuration drops the old node of its own interface only.       *)
LEMMA CfgSetSpares ==
  ASSUME IInv, NEW h \in Names, NEW a \in Links, NEW b \in Links, CfgSet(h, a, b),
         NEW k \in DOMAIN waiting
  PROVE  Spared(k)
<1> DEFINE w == delete_wait_list_node(waiting, h)
<1>1. waiting' = w
  BY DEF CfgSet
<1>2. waiting \in Seq(WaitListNode(Links, Names))
  BY DEF IInv, TypeOK
<1>3. CASE waiting[k].hsr_name = h
  <2>1. conf \in [Names -> Pair \cup {None, Incomplete}]
    BY DEF IInv, TypeOK
  <2>2. conf'[h] # conf[h]
    BY <2>1 DEF CfgSet, Enlist, Deliver
  <2> QED BY <1>3, <2>2 DEF Spared
<1>4. CASE waiting[k].hsr_name # h
  <2>1. Waits(w, waiting[k].hsr_name)
    BY <1>2, <1>4, DeleteSpares
  <2> QED BY <1>1, <2>1 DEF Spared
<1> QED BY <1>3, <1>4

(* A deleted configuration drops the node of its own interface only, now   *)
(* or when the interface turns out to be gone.                             *)
LEMMA CfgDeleteSpares ==
  ASSUME IInv, NEW h \in Names, CfgDelete(h), NEW k \in DOMAIN waiting
  PROVE  Spared(k)
<1>1. waiting' = waiting \/ waiting' = delete_wait_list_node(waiting, h)
  BY DEF CfgDelete
<1>2. waiting \in Seq(WaitListNode(Links, Names))
  BY DEF IInv, TypeOK
<1>3. CASE waiting[k].hsr_name = h
  <2>1. conf \in [Names -> Pair \cup {None, Incomplete}]
    BY DEF IInv, TypeOK
  <2>2. conf'[h] # conf[h]
    BY <2>1 DEF CfgDelete, Deliver
  <2> QED BY <1>3, <2>2 DEF Spared
<1>4. CASE waiting[k].hsr_name # h
  <2>1. Waits(waiting, waiting[k].hsr_name)
    BY DEF Waits
  <2> QED BY <1>1, <1>2, <1>4, <2>1, DeleteSpares DEF Spared
<1> QED BY <1>3, <1>4

(* The kernel request of a deletion: the interface is not configured.      *)
LEMMA CfgRemoveSpares ==
  ASSUME IInv, CfgRemove, NEW k \in DOMAIN waiting
  PROVE  Spared(k)
<1>1. waiting' = waiting \/ waiting' = delete_wait_list_node(waiting, job)
  BY DEF CfgRemove
<1>2. waiting \in Seq(WaitListNode(Links, Names)) /\ conf[job] = None
  BY DEF IInv, TypeOK, JobFits, CfgRemove
<1>3. Waits(waiting, waiting[k].hsr_name)
  BY DEF Waits
<1> QED BY <1>1, <1>2, <1>3, DeleteSpares DEF Spared

(* main_check and its request for a replacement add a node at most.        *)
LEMMA CfgReplaceSpares ==
  ASSUME IInv, CfgCheck \/ CfgReplace, NEW k \in DOMAIN waiting
  PROVE  Spared(k)
<1>1. waiting' = waiting \/ \E n : waiting' = Append(waiting, n)
  BY DEF CfgCheck, Enqueue, Request, CfgReplace, Requeue
<1>2. waiting \in Seq(WaitListNode(Links, Names))
  BY DEF IInv, TypeOK
<1>3. k \in DOMAIN waiting' /\ waiting'[k] = waiting[k]
  BY <1>1, <1>2
<1> QED BY <1>3 DEF Spared, Waits

(* All other steps leave the list alone.                                   *)
LEMMA OthersSpare ==
  ASSUME \/ Environment \/ CfgCreate \/ CfgUnlist \/ CfgWritesOutside
         \/ UNCHANGED vars \/ \E h \in Names : CfgIncomplete(h),
         NEW k \in DOMAIN waiting
  PROVE  Spared(k)
<1>1. waiting' = waiting
  BY DEF Environment, CfgCreate, CfgUnlist, CfgWritesOutside, Crash,
         CfgIncomplete, vars, daemonVars
<1> QED BY <1>1 DEF Spared, Waits

(* So every step spares every node.                                        *)
LEMMA StepSpares ==
  ASSUME IInv, [Next]_vars, NEW k \in DOMAIN waiting
  PROVE  Spared(k)
<1>1. CASE Configuration
  BY <1>1, CfgSetSpares, CfgDeleteSpares, OthersSpare DEF Configuration
<1>2. CASE Daemon
  BY <1>2, NotificationSpares, WaitListCreateSpares, WaitListRecreateSpares,
     OthersSpare, CfgReplaceSpares, CfgRemoveSpares
  DEF Daemon
<1> QED BY <1>1, <1>2, OthersSpare DEF Next

-----------------------------------------------------------------------------
(* A waiting interface stops waiting only because it was created with its  *)
(* own slaves, because it was configured anew, or because its              *)
(* configuration is gone; whatever the kernel refuses and however late the *)
(* daemon hears of it.                                                     *)
THEOREM NoWaitingInterfaceIsLost == Spec => WaitingNeverDropped
<1>1. ASSUME IInv, [Next]_vars
      PROVE  [ \A k \in DOMAIN waiting :
                 LET n == waiting[k]
                 IN  ~ Waits(waiting', n.hsr_name) =>
                       \/ CreatedAsConfigured(n)
                       \/ conf'[n.hsr_name] # conf[n.hsr_name]
                       \/ conf[n.hsr_name] = None ]_vars
  BY <1>1, StepSpares DEF Spared
<1> QED BY <1>1, Invariant, PTL DEF Spec, WaitingNeverDropped
=============================================================================

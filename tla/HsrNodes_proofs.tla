-------------------------- MODULE HsrNodes_proofs --------------------------
(***************************************************************************)
(* The node cache and the published node lists follow the kernel, for any  *)
(* names, addresses and bounds; and the daemon crashes for the known       *)
(* reasons only.                                                           *)
(***************************************************************************)
EXTENDS HsrNodes, SequenceTheorems, TLAPS

(* A message about p is queued; the last one queued has this act.          *)
Mentions(q, p) == \E k \in DOMAIN q : q[k].node = p

LastWord(q, act, p) ==
  \E k \in DOMAIN q :
    /\ q[k] = [act |-> act, node |-> p]
    /\ \A j \in DOMAIN q : j > k => q[j].node # p

(* Indexes are given out once: an index belongs to one link, and nothing   *)
(* is known of one that has not been given out.                            *)
IndexesOnce ==
  /\ \A h \in Names : index[h] <= lastIndex
  /\ \A h, g \in Names : index[h] # 0 /\ index[h] = index[g] => h = g
  /\ \A p \in nodes \cup cache : p[1] <= lastIndex
  /\ \A p \in Indexes \X Macs : Mentions(queue, p) => p[1] <= lastIndex
  /\ \A i \in toFill : i <= lastIndex

(* What is published for a name without a link is excused.                 *)
LeftOversExcused ==
  Alive => \A h \in Names, m \in Macs :
             index[h] = 0 /\ m \in published[h] => <<h, m>> \in excused

(* What is held at which point.                                            *)
PartsInOrder ==
  /\ pc \in {"create", "fill", "route"} => "route_manager" \notin held
  /\ pc \notin {"create", "ended", "crashed"} => "gen_manager" \in held
  /\ Joined => "hsr_node" \in held
  /\ Joined /\ pc # "route" => "route_manager" \in held

(* Before the group is joined: what has been asked for is known.           *)
FillingTrue ==
  /\ pc = "create" => cache = {}
  /\ pc \in {"create", "fill"} => queue = <<>>
  /\ pc = "fill" =>
       /\ \A p \in cache : p[1] \notin toFill
       /\ \A h \in Names, m \in Macs :
            /\ index[h] # 0
            /\ index[h] \notin toFill
            /\ <<index[h], m>> \notin unheard
            => (<<index[h], m>> \in cache <=> <<index[h], m>> \in nodes)

(* Once it is: the last message about a node is true; where there is none, *)
(* the cache is.                                                           *)
QueueTrue ==
  Joined =>
    \A h \in Names, m \in Macs :
      index[h] # 0 =>
        /\ \A act \in {"SET_NODE_LIST", "NODE_DOWN"} :
             LastWord(queue, act, <<index[h], m>>) =>
               (act = "SET_NODE_LIST" <=> <<index[h], m>> \in nodes)
        /\ ~ Mentions(queue, <<index[h], m>>) /\ <<index[h], m>> \notin unheard =>
             (<<index[h], m>> \in cache <=> <<index[h], m>> \in nodes)

(* The change an edit is due for is in the cache.                          *)
EditTrue ==
  \A h \in Names, i \in Indexes, m \in Macs :
    edit = <<h, i, m>> =>
      /\ pc = "publish" => <<i, m>> \in cache
      /\ pc = "withdraw" => <<i, m>> \notin cache

(* The inductive invariant.                                                *)
NodesInv ==
  /\ TypeOK
  /\ IndexesOnce
  /\ LeftOversExcused
  /\ PartsInOrder
  /\ FillingTrue
  /\ QueueTrue
  /\ EditTrue
  /\ NodeListMatchesCache
  /\ CrashExplained

-----------------------------------------------------------------------------
(* Queues of messages.                                                     *)

LEMMA NoWords == \A p : ~ Mentions(<<>>, p) /\ \A act : ~ LastWord(<<>>, act, p)
BY DEF Mentions, LastWord

(* A message put at the end is the last word about its node.               *)
LEMMA AppendWords ==
  ASSUME NEW q \in Seq(Message), NEW x \in Message, NEW p
  PROVE  /\ Mentions(Append(q, x), p) <=> (Mentions(q, p) \/ x.node = p)
         /\ \A act : LastWord(Append(q, x), act, p) =>
              \/ x.node = p /\ x.act = act
              \/ x.node # p /\ LastWord(q, act, p)
<1> DEFINE r == Append(q, x)
<1>1. /\ Len(q) \in Nat /\ DOMAIN q = 1..Len(q) /\ DOMAIN r = 1..(Len(q) + 1)
      /\ r[Len(q) + 1] = x
      /\ \A k \in 1..Len(q) : r[k] = q[k]
  OBVIOUS
<1> HIDE DEF r
<1>2. /\ DOMAIN q \subseteq DOMAIN r /\ Len(q) + 1 \in DOMAIN r
      /\ \A k \in DOMAIN r : k \in DOMAIN q \/ k = Len(q) + 1
      /\ \A k \in DOMAIN q : r[k] = q[k] /\ Len(q) + 1 > k
  BY <1>1
<1>3. Mentions(r, p) <=> (Mentions(q, p) \/ x.node = p)
  BY <1>1, <1>2 DEF Mentions
<1>4. ASSUME NEW act, LastWord(r, act, p)
      PROVE  \/ x.node = p /\ x.act = act
             \/ x.node # p /\ LastWord(q, act, p)
  <2> PICK k \in DOMAIN r :
        /\ r[k] = [act |-> act, node |-> p]
        /\ \A j \in DOMAIN r : j > k => r[j].node # p
    BY <1>4 DEF LastWord
  <2>1. CASE k = Len(q) + 1
    BY <1>1, <2>1
  <2>2. CASE k \in DOMAIN q
    <3>1. x.node # p
      BY <1>1, <1>2, <2>2
    <3>2. /\ q[k] = [act |-> act, node |-> p]
          /\ \A j \in DOMAIN q : j > k => q[j].node # p
      BY <1>2, <2>2
    <3> QED BY <2>2, <3>1, <3>2 DEF LastWord
  <2> QED BY <1>2, <2>1, <2>2
<1> QED BY <1>3, <1>4 DEF r

(* Reading the first message.                                              *)
LEMMA TailWords ==
  ASSUME NEW q \in Seq(Message), q # <<>>, NEW p
  PROVE  /\ Mentions(Tail(q), p) => Mentions(q, p)
         /\ \A act : LastWord(Tail(q), act, p) => LastWord(q, act, p)
         /\ Mentions(q, p) /\ ~ Mentions(Tail(q), p) =>
              Head(q).node = p /\ LastWord(q, Head(q).act, p)
<1> DEFINE r == Tail(q)
<1>1. /\ Len(q) \in Nat /\ Len(q) > 0 /\ DOMAIN q = 1..Len(q)
      /\ DOMAIN r = 1..(Len(q) - 1) /\ Head(q) = q[1]
      /\ \A k \in 1..(Len(q) - 1) : r[k] = q[k + 1]
  OBVIOUS
<1> HIDE DEF r
<1>2. /\ \A k \in DOMAIN r : k \in Nat /\ k + 1 \in DOMAIN q /\ r[k] = q[k + 1]
      /\ \A k \in DOMAIN q : k = 1 \/ (k - 1 \in DOMAIN r /\ r[k - 1] = q[k])
      /\ 1 \in DOMAIN q /\ DOMAIN q \subseteq Nat
  BY <1>1
<1>3. Mentions(r, p) => Mentions(q, p)
  BY <1>2 DEF Mentions
<1>4. ASSUME NEW act, LastWord(r, act, p) PROVE LastWord(q, act, p)
  <2> PICK k \in DOMAIN r :
        /\ r[k] = [act |-> act, node |-> p]
        /\ \A j \in DOMAIN r : j > k => r[j].node # p
    BY <1>4 DEF LastWord
  <2>1. k + 1 \in DOMAIN q /\ q[k + 1] = [act |-> act, node |-> p]
    BY <1>2
  <2>2. ASSUME NEW j \in DOMAIN q, j > k + 1 PROVE q[j].node # p
    <3>1. j - 1 \in DOMAIN r /\ r[j - 1] = q[j] /\ j - 1 > k
      BY <1>2, <2>2
    <3> QED BY <3>1
  <2> QED BY <2>1, <2>2 DEF LastWord
<1>5. ASSUME Mentions(q, p), ~ Mentions(r, p)
      PROVE  Head(q).node = p /\ LastWord(q, Head(q).act, p)
  <2>1. \A k \in DOMAIN q : k # 1 => q[k].node # p
    BY <1>2, <1>5 DEF Mentions
  <2>2. q[1].node = p
    BY <2>1, <1>5 DEF Mentions
  <2>3. q[1] \in Message
    BY <1>1
  <2>4. q[1] = [act |-> q[1].act, node |-> p]
    BY <2>2, <2>3 DEF Message
  <2>5. \A j \in DOMAIN q : j > 1 => q[j].node # p
    BY <2>1
  <2> QED BY <1>1, <1>2, <2>2, <2>4, <2>5 DEF LastWord
<1> QED BY <1>3, <1>4, <1>5 DEF r

(* The length of what has been read.                                       *)
LEMMA TailOfQueue ==
  ASSUME NEW q \in Seq(Message), q # <<>>
  PROVE  Tail(q) \in Seq(Message)
OBVIOUS

-----------------------------------------------------------------------------
(* Types.                                                                  *)

LEMMA TypeInit == ASSUME Init PROVE TypeOK
BY HsrNodesAssumption DEF Init, TypeOK, PC

LEMMA TypeForget ==
  ASSUME TypeOK, NEW h \in Names, Forget(h)
  PROVE  /\ index' \in [Names -> 0..MaxIndex]
         /\ lastIndex' \in 0..MaxIndex
         /\ nodes' \in SUBSET (Indexes \X Macs)
         /\ excused' \in SUBSET (Names \X Macs)
<1>1. index' \in [Names -> 0..MaxIndex] /\ lastIndex' \in 0..MaxIndex
  BY HsrNodesAssumption DEF TypeOK, Forget
<1>2. nodes' \in SUBSET (Indexes \X Macs)
  BY DEF TypeOK, Forget
<1>3. excused' \in SUBSET (Names \X Macs)
  BY DEF TypeOK, Forget
<1> QED BY <1>1, <1>2, <1>3

LEMMA TypeAnnounce ==
  ASSUME TypeOK, NEW act \in {"SET_NODE_LIST", "NODE_DOWN"},
         NEW p \in Indexes \X Macs, Announce(act, p),
         nodes' \in SUBSET (Indexes \X Macs)
  PROVE  TypeOK'
<1>1. queue' \in Seq(Message) /\ unheard' \in SUBSET (Indexes \X Macs)
  <2>1. queue \in Seq(Message) /\ unheard \in SUBSET (Indexes \X Macs)
    BY DEF TypeOK
  <2>2. [act |-> act, node |-> p] \in Message
    BY DEF Message
  <2>3. queue' = queue \/ queue' = Append(queue, [act |-> act, node |-> p])
    BY DEF Announce
  <2>4. unheard' \in {unheard, unheard \cup {p}, unheard \ {p}}
    BY DEF Announce
  <2>5. queue' \in Seq(Message)
    BY <2>1, <2>2, <2>3
  <2>6. unheard' \in SUBSET (Indexes \X Macs)
    BY <2>1, <2>4
  <2> QED BY <2>5, <2>6
<1> QED BY <1>1 DEF TypeOK, Announce, listVars

LEMMA TypeStep == ASSUME TypeOK, [Next]_vars PROVE TypeOK'
<1> USE DEF PC
<1>0. index \in [Names -> 0..MaxIndex] /\ \A i : NameOf(i) \subseteq Names
  BY DEF TypeOK, NameOf
<1>1. ASSUME NEW h \in Names, LinkAdded(h) PROVE TypeOK'
  <2>1. lastIndex' \in 0..MaxIndex /\ index' \in [Names -> 0..MaxIndex]
    BY <1>1, HsrNodesAssumption DEF TypeOK, LinkAdded
  <2> QED BY <1>1, <2>1 DEF TypeOK, LinkAdded, listVars
<1>2. ASSUME NEW h \in Names, LinkGone(h) PROVE TypeOK'
  BY <1>2, TypeForget DEF TypeOK, LinkGone, listVars
<1>3. ASSUME NEW h \in Names, NEW m \in Macs, NodeUp(h, m) \/ NodeDown(h, m)
      PROVE  TypeOK'
  <2>1. CASE NodeUp(h, m)
    <3>1. <<index[h], m>> \in Indexes \X Macs
      BY <1>0, <2>1, HsrNodesAssumption DEF NodeUp, Indexes
    <3>2. nodes' \in SUBSET (Indexes \X Macs)
      BY <2>1, <3>1 DEF TypeOK, NodeUp
    <3> QED BY <2>1, <3>1, <3>2, TypeAnnounce DEF NodeUp
  <2>2. CASE NodeDown(h, m)
    <3>1. <<index[h], m>> \in Indexes \X Macs /\ nodes' \in SUBSET (Indexes \X Macs)
      BY <2>2 DEF TypeOK, NodeDown
    <3> QED BY <2>2, <3>1, TypeAnnounce DEF NodeDown
  <2> QED BY <1>3, <2>1, <2>2
<1>4. CASE AppDestroy
  <2>1. pc' \in PC /\ held' \in SUBSET Parts /\ queue' \in Seq(Message)
        /\ cache' \in SUBSET (Indexes \X Macs)
    <3>1. <<>> \in Seq(Message)
      OBVIOUS
    <3>2. CASE pc' = "ended"
      BY <1>4, <3>1, <3>2 DEF TypeOK, AppDestroy
    <3>3. CASE pc' = "crashed"
      BY <1>4, <3>3 DEF TypeOK, AppDestroy
    <3> QED BY <1>4, <3>2, <3>3 DEF AppDestroy
  <2> QED BY <1>4, <2>1 DEF TypeOK, AppDestroy, kernelVars, listVars
<1>5. CASE CreateGenManager
  <2>1. toFill' \in SUBSET Indexes
    BY <1>0, <1>5, HsrNodesAssumption DEF CreateGenManager, Indexes
  <2>2. held' \in SUBSET Parts
    BY <1>5 DEF TypeOK, CreateGenManager, Parts
  <2> QED BY <1>5, <2>1, <2>2 DEF TypeOK, CreateGenManager, kernelVars, listVars
<1>6. ASSUME NEW i \in Indexes, FillOne(i) PROVE TypeOK'
  <2>1. /\ toFill' \in SUBSET Indexes /\ cache' \in SUBSET (Indexes \X Macs)
        /\ excused' \in SUBSET (Names \X Macs)
    BY <1>0, <1>6 DEF TypeOK, FillOne
  <2> QED BY <1>6, <2>1 DEF TypeOK, FillOne, kernelVars, listVars
<1>7. CASE AddNodeCache \/ CreateRouteManager \/ AddLinkCache
  <2>1. held' \in SUBSET Parts /\ pc' \in PC
    BY <1>7 DEF TypeOK, AddNodeCache, CreateRouteManager, AddLinkCache, Parts
  <2> QED BY <1>7, <2>1
           DEF TypeOK, AddNodeCache, CreateRouteManager, AddLinkCache, kernelVars, listVars
<1>8. ASSUME NEW i \in Indexes, NEW m \in Macs, NEW act, Receive(act, <<i, m>>),
             cache' \in SUBSET (Indexes \X Macs),
             \/ Resume /\ UNCHANGED <<edit, excused>>
             \/ \E due \in {"publish", "withdraw"} :
                  hnode_cache_change_cb(i, m, due)
      PROVE  TypeOK'
  <2>1. queue' \in Seq(Message)
    BY <1>8, TailOfQueue DEF TypeOK, Receive
  <2>2. pc' \in PC
    BY <1>8 DEF Resume, Unpublished, NoSocket, LookUp, hnode_cache_change_cb
  <2>3. excused' \in SUBSET (Names \X Macs)
    <3>1. NameOf(i) \X {m} \subseteq Names \X Macs
      BY <1>0
    <3> QED BY <1>8, <3>1
            DEF TypeOK, Unpublished, NoSocket, LookUp, hnode_cache_change_cb
  <2>4. edit' \in (Names \X Indexes \X Macs) \cup {<<>>}
    <3>1. NameOf(i) \X {i} \X {m} \subseteq Names \X Indexes \X Macs
      BY <1>0
    <3>2. edit' = edit \/ edit' \in NameOf(i) \X {i} \X {m}
      BY <1>8 DEF Unpublished, NoSocket, LookUp, hnode_cache_change_cb
    <3> QED BY <3>1, <3>2 DEF TypeOK
  <2> QED BY <1>8, <2>1, <2>2, <2>3, <2>4 DEF TypeOK, Receive, kernelVars, listVars
<1>9. ASSUME NEW i \in Indexes, NEW m \in Macs,
             HearKnown(i, m) \/ HearNew(i, m) \/ HearDown(i, m) \/ HearDownUnknown(i, m)
      PROVE  TypeOK'
  <2>1. cache' \in SUBSET (Indexes \X Macs)
    BY <1>9 DEF TypeOK, HearKnown, HearNew, HearDown, HearDownUnknown
  <2> QED BY <1>8, <1>9, <2>1 DEF HearKnown, HearNew, HearDown, HearDownUnknown
<1>10. ASSUME NEW h \in Names, NEW i \in Indexes, NEW m \in Macs,
              \/ add_node_to_list(h, i, m) \/ delete_node_from_list(h, i, m)
              \/ EditFails(h, i, m)
       PROVE  TypeOK'
  <2>1. EditEnds(h, i, m)
    BY <1>10 DEF add_node_to_list, delete_node_from_list, EditFails, cdb_edit_status
  <2>2. excused' \in SUBSET (Names \X Macs)
    BY <1>10 DEF TypeOK, add_node_to_list, delete_node_from_list, EditFails,
                 cdb_edit_status
  <2>3. published' \in [Names -> SUBSET (Macs \cup DeadStack)]
    <3>1. /\ published \in [Names -> SUBSET (Macs \cup DeadStack)]
          /\ published[h] \in SUBSET (Macs \cup DeadStack)
      BY DEF TypeOK
    <3>2. \/ published' = published
          \/ \E text \in {m} \cup DeadStack :
               \/ published' = [published EXCEPT ![h] = published[h] \cup {text}]
               \/ published' = [published EXCEPT ![h] = published[h] \ {text}]
      BY <1>10 DEF add_node_to_list, delete_node_from_list, EditFails,
                   cdb_edit_status
    <3> QED BY <3>1, <3>2
  <2>4. pc' \in PC
    BY <2>1 DEF EditEnds, Resume
  <2> QED BY <2>1, <2>2, <2>3, <2>4 DEF TypeOK, EditEnds, kernelVars, listVars
<1>11. ASSUME NEW by \in Int, change_interface_list(by)
       PROVE  fds' \in 0..FdLimit /\ interfaces_size' \in Int
  BY <1>11, HsrNodesAssumption DEF TypeOK, change_interface_list
<1>12. CASE CfgSet \/ CfgWritesOutside \/ CfgNoSocket \/ Unlist
  <2>1. fds' \in 0..FdLimit /\ interfaces_size' \in Int
    BY <1>11, <1>12
       DEF TypeOK, CfgSet, CfgWritesOutside, CfgNoSocket, Unlist, listVars
  <2> QED BY <1>12, <2>1
          DEF TypeOK, CfgSet, CfgWritesOutside, CfgNoSocket, Unlist, kernelVars
<1>14. ASSUME NEW h \in Names, CfgDelete(h) PROVE TypeOK'
  BY <1>14, TypeForget DEF TypeOK, CfgDelete, listVars
<1>13. CASE UNCHANGED vars
  BY <1>13 DEF TypeOK, vars, kernelVars, listVars
<1> QED BY <1>1, <1>2, <1>3, <1>4, <1>5, <1>6, <1>7, <1>9, <1>10, <1>12, <1>13, <1>14
        DEF Next, Kernel, Create, Hear, Edit, Configuration, FillRefused,
            CreateFails, Stop

-----------------------------------------------------------------------------
(* The invariant: one lemma per kind of step.                              *)

(* All of NodesInv but the types.                                          *)
Rest ==
  /\ IndexesOnce
  /\ LeftOversExcused
  /\ PartsInOrder
  /\ FillingTrue
  /\ QueueTrue
  /\ EditTrue
  /\ NodeListMatchesCache
  /\ CrashExplained

LEMMA InvTypes ==
  ASSUME NodesInv
  PROVE  /\ index \in [Names -> 0..MaxIndex] /\ MaxIndex \in Nat
         /\ lastIndex \in 0..MaxIndex
         /\ nodes \in SUBSET (Indexes \X Macs)
         /\ cache \in SUBSET (Indexes \X Macs)
         /\ toFill \in SUBSET Indexes
         /\ queue \in Seq(Message)
         /\ pc \in PC
         /\ published \in [Names -> SUBSET (Macs \cup DeadStack)]
BY HsrNodesAssumption DEF NodesInv, TypeOK

LEMMA LastWordMentions ==
  ASSUME NEW q, NEW act, NEW p, LastWord(q, act, p)
  PROVE  Mentions(q, p)
BY DEF LastWord, Mentions

(* A new link has a new index, about which nothing is known.               *)
LEMMA LinkAddedKeeps ==
  ASSUME NodesInv, NEW h \in Names, LinkAdded(h)
  PROVE  Rest'
<1>1. /\ index \in [Names -> 0..MaxIndex] /\ MaxIndex \in Nat
      /\ lastIndex \in 0..MaxIndex /\ lastIndex < MaxIndex
      /\ cache \in SUBSET (Indexes \X Macs) /\ toFill \in SUBSET Indexes
      /\ nodes \in SUBSET (Indexes \X Macs)
  BY InvTypes DEF LinkAdded
<1>2. /\ lastIndex' = lastIndex + 1
      /\ \A g \in Names : index'[g] = IF g = h THEN lastIndex + 1 ELSE index[g]
      /\ UNCHANGED <<nodes, queue, pc, held, toFill, cache, listVars, edit,
                     published, unheard, excused>>
  BY <1>1 DEF LinkAdded
<1>3. lastIndex + 1 \in Indexes /\ ~ lastIndex + 1 <= lastIndex
  BY <1>1 DEF Indexes
<1>4. ASSUME NEW m \in Macs
      PROVE  /\ <<lastIndex + 1, m>> \notin nodes /\ <<lastIndex + 1, m>> \notin cache
             /\ ~ Mentions(queue, <<lastIndex + 1, m>>)
             /\ lastIndex + 1 \notin toFill
  <2> DEFINE p == <<lastIndex + 1, m>>
  <2>1. p \in Indexes \X Macs /\ p[1] = lastIndex + 1
    BY <1>3
  <2> HIDE DEF p
  <2> QED BY <1>3, <2>1 DEF NodesInv, IndexesOnce, p
<1>5. IndexesOnce'
  <2>1. \A g \in Names : index[g] \in Nat /\ index[g] <= lastIndex
    BY <1>1 DEF NodesInv, IndexesOnce
  <2>2. /\ \A g \in Names : index'[g] <= lastIndex'
        /\ \A g, f \in Names : index'[g] # 0 /\ index'[g] = index'[f] => g = f
    BY <1>1, <1>2, <2>1 DEF NodesInv, IndexesOnce
  <2>3. \A i \in Indexes : i <= lastIndex => i <= lastIndex'
    BY <1>1, <1>2 DEF Indexes
  <2>4. \A p \in Indexes \X Macs : p[1] \in Indexes
    OBVIOUS
  <2> QED BY <1>1, <1>2, <2>2, <2>3, <2>4 DEF NodesInv, IndexesOnce
<1>6. LeftOversExcused'
  BY <1>1, <1>2 DEF NodesInv, LeftOversExcused, Alive
<1>7. PartsInOrder' /\ CrashExplained' /\ EditTrue'
  BY <1>2 DEF NodesInv, PartsInOrder, Joined, CrashExplained, EditTrue, listVars
<1>8. FillingTrue'
  BY <1>2, <1>4 DEF NodesInv, FillingTrue
<1>9. QueueTrue'
  BY <1>2, <1>4, LastWordMentions DEF NodesInv, QueueTrue, Joined
<1>10. NodeListMatchesCache'
  <2> SUFFICES ASSUME Alive', NEW g \in Names, NEW m \in Macs, index'[g] # 0,
                      <<g, m>> \notin excused', ~ BeingEdited(g, m)'
               PROVE  m \in published'[g] <=> <<index'[g], m>> \in cache'
    BY DEF NodeListMatchesCache
  <2>1. CASE g = h
    <3>1. m \notin published[h]
      BY <1>2, <2>1 DEF NodesInv, LeftOversExcused, Alive, LinkAdded
    <3> QED BY <1>2, <1>4, <2>1, <3>1
  <2>2. CASE g # h
    BY <1>2, <2>2 DEF NodesInv, NodeListMatchesCache, Alive, BeingEdited
  <2> QED BY <2>1, <2>2
<1> QED BY <1>5, <1>6, <1>7, <1>8, <1>9, <1>10 DEF Rest

(* A link that is gone leaves its name without an index; other names have  *)
(* other indexes, whose nodes stay.                                        *)
LEMMA ForgetKeeps ==
  ASSUME NodesInv, NEW h \in Names, index[h] # 0, Forget(h),
         UNCHANGED <<queue, held, toFill, cache, edit, published, unheard>>,
         pc' = pc \/ (pc = "serve" /\ pc' = "unlist")
  PROVE  /\ IndexesOnce' /\ LeftOversExcused' /\ PartsInOrder' /\ FillingTrue'
         /\ QueueTrue' /\ EditTrue' /\ NodeListMatchesCache'
<1>1. /\ index \in [Names -> 0..MaxIndex] /\ MaxIndex \in Nat
      /\ lastIndex \in 0..MaxIndex
      /\ published \in [Names -> SUBSET (Macs \cup DeadStack)]
  BY InvTypes
<1>2. /\ \A g \in Names : index'[g] = IF g = h THEN 0 ELSE index[g]
      /\ nodes' = {p \in nodes : p[1] # index[h]}
      /\ excused' = excused \cup ({h} \X (published[h] \cap Macs))
      /\ UNCHANGED lastIndex
  BY <1>1 DEF Forget
<1>3. \A g \in Names, m \in Macs :
        index'[g] # 0 =>
          /\ index'[g] = index[g]
          /\ <<index[g], m>> \in nodes' <=> <<index[g], m>> \in nodes
  <2> TAKE g \in Names, m \in Macs
  <2> HAVE index'[g] # 0
  <2>1. g # h /\ index'[g] = index[g]
    BY <1>2
  <2>2. index[g] # index[h]
    BY <1>2, <2>1 DEF NodesInv, IndexesOnce
  <2> QED BY <1>2, <2>1, <2>2
<1>4. IndexesOnce'
  BY <1>1, <1>2 DEF NodesInv, IndexesOnce
<1>5. LeftOversExcused'
  <2> SUFFICES ASSUME Alive', NEW g \in Names, NEW m \in Macs, index'[g] = 0,
                      m \in published'[g]
               PROVE  <<g, m>> \in excused'
    BY DEF LeftOversExcused
  <2>1. CASE g = h
    BY <1>2, <2>1
  <2>2. CASE g # h
    BY <1>2, <2>2 DEF NodesInv, LeftOversExcused, Alive
  <2> QED BY <2>1, <2>2
<1>6. PartsInOrder'
  BY DEF NodesInv, PartsInOrder, Joined
<1>7. FillingTrue'
  BY <1>3 DEF NodesInv, FillingTrue
<1>8. QueueTrue'
  BY <1>3 DEF NodesInv, QueueTrue, Joined
<1>9. NodeListMatchesCache'
  BY <1>2, <1>3 DEF NodesInv, NodeListMatchesCache, Alive, BeingEdited
<1>10. EditTrue'
  BY DEF NodesInv, EditTrue
<1> QED BY <1>4, <1>5, <1>6, <1>7, <1>8, <1>9, <1>10

(* A change in a ring is queued behind all messages about the node, or     *)
(* remembered as unheard.                                                  *)
LEMMA AnnounceKeeps ==
  ASSUME NodesInv, NEW h \in Names, NEW m \in Macs,
         NodeUp(h, m) \/ NodeDown(h, m)
  PROVE  Rest'
<1> DEFINE p == <<index[h], m>>
<1> PICK act \in {"SET_NODE_LIST", "NODE_DOWN"} :
      /\ Announce(act, p)
      /\ nodes' = IF act = "SET_NODE_LIST" THEN nodes \cup {p} ELSE nodes \ {p}
  BY DEF NodeUp, NodeDown
<1> DEFINE x == [act |-> act, node |-> p]
<1>1. /\ index \in [Names -> 0..MaxIndex] /\ MaxIndex \in Nat
      /\ nodes \in SUBSET (Indexes \X Macs) /\ queue \in Seq(Message)
  BY InvTypes
<1>2. p \in Indexes \X Macs /\ p[1] = index[h] /\ index[h] # 0
  BY <1>1 DEF NodeUp, NodeDown, Indexes
<1>3. x \in Message /\ x.node = p /\ x.act = act
  BY <1>2 DEF Message
<1>4. /\ UNCHANGED <<index, lastIndex, pc, held, toFill, cache, listVars, edit,
                     published, excused>>
      /\ Joined => queue' = Append(queue, x) /\ unheard' = unheard \ {p}
      /\ ~ Joined => queue' = queue
      /\ ~ Joined => unheard' = IF pc = "fill" /\ p[1] \notin toFill
                                 THEN unheard \cup {p} ELSE unheard
  BY DEF Announce
<1> HIDE DEF p, x
<1>5. IndexesOnce'
  <2>1. p[1] <= lastIndex
    BY <1>2 DEF NodesInv, IndexesOnce
  <2>2. \A q \in nodes' \cup cache' : q[1] <= lastIndex
    BY <1>4, <2>1 DEF NodesInv, IndexesOnce
  <2>3. \A q \in Indexes \X Macs : Mentions(queue', q) => q[1] <= lastIndex
    <3> TAKE q \in Indexes \X Macs
    <3>1. Mentions(Append(queue, x), q) <=> Mentions(queue, q) \/ x.node = q
      BY <1>1, <1>3, AppendWords
    <3>2. Mentions(queue, q) => q[1] <= lastIndex
      BY DEF NodesInv, IndexesOnce
    <3>3. Mentions(queue', q) => Mentions(queue, q) \/ q = p
      <4>1. CASE Joined
        BY <1>3, <1>4, <3>1, <4>1
      <4>2. CASE ~ Joined
        BY <1>4, <4>2
      <4> QED BY <4>1, <4>2
    <3> QED BY <1>4, <2>1, <3>2, <3>3
  <2> QED BY <1>4, <2>2, <2>3 DEF NodesInv, IndexesOnce
<1>6. /\ LeftOversExcused' /\ PartsInOrder' /\ CrashExplained' /\ EditTrue'
      /\ NodeListMatchesCache'
  BY <1>4 DEF NodesInv, LeftOversExcused, PartsInOrder, Joined, CrashExplained,
              EditTrue, NodeListMatchesCache, Alive, BeingEdited, listVars
<1>7. FillingTrue'
  <2>1. CASE pc = "fill"
    <3>1. ~ Joined
      BY <2>1 DEF Joined
    <3> SUFFICES ASSUME NEW g \in Names, NEW n \in Macs, index[g] # 0,
                        index[g] \notin toFill, <<index[g], n>> \notin unheard'
                 PROVE  <<index[g], n>> \in cache <=> <<index[g], n>> \in nodes'
      BY <1>4, <2>1, <3>1 DEF NodesInv, FillingTrue
    <3>2. <<index[g], n>> # p
      BY <1>2, <1>4, <2>1, <3>1 DEF p
    <3>3. <<index[g], n>> \notin unheard
      BY <1>4, <3>1
    <3> QED BY <2>1, <3>2, <3>3 DEF NodesInv, FillingTrue
  <2>2. CASE pc # "fill"
    BY <1>4, <2>2 DEF NodesInv, FillingTrue, Joined
  <2> QED BY <2>1, <2>2
<1>8. QueueTrue'
  <2> SUFFICES ASSUME Joined, NEW g \in Names, NEW n \in Macs, index[g] # 0
               PROVE  LET q == <<index[g], n>> IN
                      /\ \A a \in {"SET_NODE_LIST", "NODE_DOWN"} :
                           LastWord(queue', a, q) =>
                             (a = "SET_NODE_LIST" <=> q \in nodes')
                      /\ ~ Mentions(queue', q) /\ q \notin unheard' =>
                           (q \in cache <=> q \in nodes')
    BY <1>4 DEF QueueTrue, Joined
  <2> DEFINE q == <<index[g], n>>
  <2>1. /\ \A a \in {"SET_NODE_LIST", "NODE_DOWN"} :
             LastWord(queue, a, q) => (a = "SET_NODE_LIST" <=> q \in nodes)
        /\ ~ Mentions(queue, q) /\ q \notin unheard => (q \in cache <=> q \in nodes)
    BY DEF NodesInv, QueueTrue
  <2> HIDE DEF q
  <2>2. /\ Mentions(queue', q) <=> Mentions(queue, q) \/ q = p
        /\ \A a : LastWord(queue', a, q) =>
             (q = p /\ a = act) \/ (q # p /\ LastWord(queue, a, q))
    <3>1. /\ Mentions(Append(queue, x), q) <=> Mentions(queue, q) \/ x.node = q
          /\ \A a : LastWord(Append(queue, x), a, q) =>
               \/ x.node = q /\ x.act = a
               \/ x.node # q /\ LastWord(queue, a, q)
      BY <1>1, <1>3, AppendWords
    <3>2. queue' = Append(queue, x)
      BY <1>4
    <3> QED BY <1>3, <3>1, <3>2
  <2>3. CASE q = p
    BY <2>2, <2>3 DEF q
  <2>4. CASE q # p
    BY <1>4, <2>1, <2>2, <2>4 DEF q
  <2> QED BY <2>3, <2>4
<1> QED BY <1>5, <1>6, <1>7, <1>8 DEF Rest

(* app_destroy ends the daemon, or crashes it if something is missing.     *)
LEMMA AppDestroyKeeps ==
  ASSUME NodesInv, Alive, AppDestroy
  PROVE  Rest'
<1>1. pc' \in {"ended", "crashed"}
  BY DEF AppDestroy
<1>2. ~ Alive' /\ ~ Joined'
  BY <1>1 DEF Alive, Joined
<1>3. IndexesOnce'
  <2>1. UNCHANGED <<index, lastIndex, nodes, toFill>>
    BY DEF AppDestroy, kernelVars
  <2>2. cache' \subseteq cache
    BY DEF AppDestroy
  <2>3. \A p : Mentions(queue', p) => Mentions(queue, p)
    BY NoWords DEF AppDestroy
  <2> QED BY <2>1, <2>2, <2>3 DEF NodesInv, IndexesOnce
<1>4. LeftOversExcused' /\ NodeListMatchesCache' /\ QueueTrue'
  BY <1>2 DEF LeftOversExcused, NodeListMatchesCache, QueueTrue
<1>5. PartsInOrder' /\ FillingTrue' /\ EditTrue'
  BY <1>1 DEF PartsInOrder, Joined, FillingTrue, EditTrue
<1>6. CrashExplained'
  <2> SUFFICES ASSUME pc' = "crashed" PROVE "route_manager" \notin held'
    BY DEF CrashExplained
  <2>1. ~ {"gen_manager", "hsr_node", "route_manager"} \subseteq held /\ held' = held
    BY DEF AppDestroy
  <2>2. pc \in PC
    BY InvTypes
  <2>3. pc \in {"create", "fill", "route"}
    BY <2>1, <2>2 DEF NodesInv, PartsInOrder, Joined, Alive, PC
  <2> QED BY <2>1, <2>3 DEF NodesInv, PartsInOrder, Joined
<1> QED BY <1>3, <1>4, <1>5, <1>6 DEF Rest

(* The links there are when the filling begins will be asked for.          *)
LEMMA CreateGenManagerKeeps ==
  ASSUME NodesInv, CreateGenManager
  PROVE  Rest'
<1>1. index \in [Names -> 0..MaxIndex]
  BY InvTypes
<1>2. /\ UNCHANGED <<index, lastIndex, nodes, queue, cache, edit, published,
                     unheard, excused>>
      /\ pc = "create" /\ pc' = "fill" /\ held' = held \cup {"gen_manager"}
  BY DEF CreateGenManager, kernelVars
<1>3. \A i \in toFill' : \E h \in Names : i = index[h]
  BY DEF CreateGenManager
<1>4. \A h \in Names : index[h] # 0 => index[h] \in toFill'
  BY DEF CreateGenManager
<1>5. IndexesOnce'
  BY <1>2, <1>3 DEF NodesInv, IndexesOnce
<1>6. LeftOversExcused' /\ NodeListMatchesCache'
  BY <1>2 DEF NodesInv, LeftOversExcused, NodeListMatchesCache, Alive, BeingEdited
<1>7. PartsInOrder' /\ CrashExplained' /\ QueueTrue' /\ EditTrue'
  BY <1>2 DEF NodesInv, PartsInOrder, CrashExplained, QueueTrue, Joined, EditTrue
<1>8. FillingTrue'
  BY <1>2, <1>4 DEF NodesInv, FillingTrue
<1> QED BY <1>5, <1>6, <1>7, <1>8 DEF Rest

(* A link that has been asked for is in the cache as it is in the kernel.  *)
LEMMA FillOneKeeps ==
  ASSUME NodesInv, NEW i \in Indexes, FillOne(i)
  PROVE  Rest'
<1>1. /\ UNCHANGED <<index, lastIndex, nodes, queue, pc, held, listVars, edit,
                     published, unheard>>
      /\ pc = "fill" /\ i \in toFill /\ toFill' = toFill \ {i}
      /\ cache' = cache \cup {p \in nodes : p[1] = i}
      /\ excused' = excused \cup
           {p \in NameOf(i) \X Macs : <<i, p[2]>> \in nodes}
  BY DEF FillOne, kernelVars
<1>2. IndexesOnce'
  BY <1>1 DEF NodesInv, IndexesOnce
<1>3. LeftOversExcused'
  BY <1>1 DEF NodesInv, LeftOversExcused, Alive
<1>4. PartsInOrder' /\ CrashExplained' /\ QueueTrue' /\ EditTrue'
  BY <1>1 DEF NodesInv, PartsInOrder, CrashExplained, QueueTrue, Joined, EditTrue,
              listVars
<1>5. FillingTrue'
  <2>1. \A p \in cache' : p[1] \notin toFill'
    BY <1>1 DEF NodesInv, FillingTrue
  <2> SUFFICES ASSUME NEW h \in Names, NEW m \in Macs, index[h] # 0,
                      index[h] \notin toFill', <<index[h], m>> \notin unheard
               PROVE  <<index[h], m>> \in cache' <=> <<index[h], m>> \in nodes
    BY <1>1, <2>1 DEF NodesInv, FillingTrue
  <2>2. CASE index[h] = i
    BY <1>1, <2>2 DEF NodesInv, FillingTrue
  <2>3. CASE index[h] # i
    BY <1>1, <2>3 DEF NodesInv, FillingTrue
  <2> QED BY <2>2, <2>3
<1>6. NodeListMatchesCache'
  <2> SUFFICES ASSUME NEW h \in Names, NEW m \in Macs, index[h] # 0,
                      <<h, m>> \notin excused'
               PROVE  m \in published[h] <=> <<index[h], m>> \in cache'
    BY <1>1 DEF NodeListMatchesCache
  <2>1. m \in published[h] <=> <<index[h], m>> \in cache
    BY <1>1 DEF NodesInv, NodeListMatchesCache, Alive, BeingEdited
  <2>2. CASE index[h] = i
    BY <1>1, <2>1, <2>2 DEF NameOf
  <2>3. CASE index[h] # i
    BY <1>1, <2>1, <2>3
  <2> QED BY <2>2, <2>3
<1> QED BY <1>2, <1>3, <1>4, <1>5, <1>6 DEF Rest

(* The steps of app_create after the cache has been filled.                *)
LEMMA CreateRestKeeps ==
  ASSUME NodesInv, AddNodeCache \/ CreateRouteManager \/ AddLinkCache
  PROVE  Rest'
<1>1. /\ UNCHANGED <<index, lastIndex, nodes, queue, toFill, cache, edit,
                     published, unheard, excused>>
      /\ pc \in {"fill", "route", "links"}
      /\ pc' \in {"route", "links", "serve", "drain"}
      /\ pc = "fill" => toFill = {} /\ pc' = "route" /\ held' = held \cup {"hsr_node"}
      /\ pc = "route" => pc' = "links" /\ held' = held \cup {"route_manager"}
      /\ pc = "links" => pc' \in {"serve", "drain"} /\ held' = held \cup {"route/link"}
  BY DEF AddNodeCache, CreateRouteManager, AddLinkCache, kernelVars
<1>2. IndexesOnce'
  BY <1>1 DEF NodesInv, IndexesOnce
<1>3. LeftOversExcused' /\ NodeListMatchesCache'
  BY <1>1 DEF NodesInv, LeftOversExcused, NodeListMatchesCache, Alive, BeingEdited
<1>4. PartsInOrder' /\ CrashExplained' /\ FillingTrue' /\ EditTrue'
  BY <1>1 DEF NodesInv, PartsInOrder, Joined, CrashExplained, FillingTrue, EditTrue
<1>5. QueueTrue'
  <2>1. CASE pc = "fill"
    BY <1>1, <2>1, NoWords DEF NodesInv, FillingTrue, QueueTrue
  <2>2. CASE pc # "fill"
    BY <1>1, <2>2 DEF NodesInv, QueueTrue, Joined
  <2> QED BY <2>1, <2>2
<1> QED BY <1>2, <1>3, <1>4, <1>5 DEF Rest

(* Requests from confdb that leave the links alone.                        *)
LEMMA ConfigKeeps ==
  ASSUME NodesInv, CfgSet \/ CfgWritesOutside \/ CfgNoSocket \/ Unlist
  PROVE  Rest'
<1>1. /\ UNCHANGED <<index, lastIndex, nodes, queue, held, toFill, cache, edit,
                     published, unheard, excused>>
      /\ pc \in {"serve", "unlist"} /\ pc' \in {"serve", "crashed"}
      /\ pc' = "crashed" => fds' = FdLimit \/ interfaces_size' < 0
  BY DEF CfgSet, CfgWritesOutside, CfgNoSocket, Unlist, kernelVars, listVars
<1>2. IndexesOnce'
  BY <1>1 DEF NodesInv, IndexesOnce
<1>3. LeftOversExcused' /\ NodeListMatchesCache'
  BY <1>1 DEF NodesInv, LeftOversExcused, NodeListMatchesCache, Alive, BeingEdited
<1>4. PartsInOrder' /\ CrashExplained' /\ FillingTrue' /\ EditTrue'
  BY <1>1 DEF NodesInv, PartsInOrder, Joined, CrashExplained, FillingTrue, EditTrue
<1>5. QueueTrue'
  BY <1>1 DEF NodesInv, QueueTrue, Joined
<1> QED BY <1>2, <1>3, <1>4, <1>5 DEF Rest

(* A message that is read makes the cache agree with it.                   *)
LEMMA HearKeeps ==
  ASSUME NodesInv, NEW i \in Indexes, NEW m \in Macs,
         NEW act \in {"SET_NODE_LIST", "NODE_DOWN"}, Receive(act, <<i, m>>),
         cache' = IF act = "SET_NODE_LIST" THEN cache \cup {<<i, m>>}
                                           ELSE cache \ {<<i, m>>},
         pc' \in {"serve", "drain", "publish", "withdraw", "crashed"},
         pc' = "crashed" => fds = FdLimit
  PROVE  IndexesOnce' /\ PartsInOrder' /\ FillingTrue' /\ QueueTrue' /\ CrashExplained'
<1> DEFINE p == <<i, m>>
<1>1. /\ queue # <<>> /\ Head(queue).act = act /\ Head(queue).node = p
      /\ queue' = Tail(queue) /\ pc \in {"serve", "drain"}
      /\ UNCHANGED <<index, lastIndex, nodes, held, toFill, fds, unheard>>
  BY DEF Receive, kernelVars, listVars
<1>2. queue \in Seq(Message) /\ p \in Indexes \X Macs /\ p[1] = i
  BY InvTypes
<1> HIDE DEF p
<1>3. ASSUME NEW q
      PROVE  /\ Mentions(queue', q) => Mentions(queue, q)
             /\ \A a : LastWord(queue', a, q) => LastWord(queue, a, q)
             /\ Mentions(queue, q) /\ ~ Mentions(queue', q) =>
                  q = p /\ LastWord(queue, act, p)
  <2>1. /\ Mentions(Tail(queue), q) => Mentions(queue, q)
        /\ \A a : LastWord(Tail(queue), a, q) => LastWord(queue, a, q)
        /\ Mentions(queue, q) /\ ~ Mentions(Tail(queue), q) =>
             Head(queue).node = q /\ LastWord(queue, Head(queue).act, q)
    BY <1>1, <1>2, TailWords
  <2> QED BY <1>1, <2>1
<1>4. Mentions(queue, p)
  <2>1. 1 \in DOMAIN queue /\ queue[1].node = p
    BY <1>1, <1>2
  <2> QED BY <2>1 DEF Mentions
<1>5. IndexesOnce'
  <2>1. p[1] <= lastIndex
    BY <1>2, <1>4 DEF NodesInv, IndexesOnce
  <2>2. cache' \subseteq cache \cup {p}
    BY DEF p
  <2>3. \A q \in nodes' \cup cache' : q[1] <= lastIndex
    BY <1>1, <2>1, <2>2 DEF NodesInv, IndexesOnce
  <2> QED BY <1>1, <1>3, <2>3 DEF NodesInv, IndexesOnce
<1>6. PartsInOrder' /\ FillingTrue'
  BY <1>1 DEF NodesInv, PartsInOrder, Joined, FillingTrue
<1>7. CrashExplained'
  BY <1>1 DEF CrashExplained
<1>8. QueueTrue'
  <2> SUFFICES ASSUME NEW h \in Names, NEW n \in Macs, index[h] # 0
               PROVE  LET q == <<index[h], n>> IN
                      /\ \A a \in {"SET_NODE_LIST", "NODE_DOWN"} :
                           LastWord(queue', a, q) =>
                             (a = "SET_NODE_LIST" <=> q \in nodes)
                      /\ ~ Mentions(queue', q) /\ q \notin unheard =>
                           (q \in cache' <=> q \in nodes)
    BY <1>1 DEF QueueTrue
  <2> DEFINE q == <<index[h], n>>
  <2>1. /\ \A a \in {"SET_NODE_LIST", "NODE_DOWN"} :
             LastWord(queue, a, q) => (a = "SET_NODE_LIST" <=> q \in nodes)
        /\ ~ Mentions(queue, q) /\ q \notin unheard => (q \in cache <=> q \in nodes)
    BY <1>1 DEF NodesInv, QueueTrue, Joined
  <2> HIDE DEF q
  <2>2. \A a \in {"SET_NODE_LIST", "NODE_DOWN"} :
          LastWord(queue', a, q) => (a = "SET_NODE_LIST" <=> q \in nodes)
    BY <1>3, <2>1
  <2>3. ASSUME ~ Mentions(queue', q), q \notin unheard
        PROVE  q \in cache' <=> q \in nodes
    <3>1. CASE Mentions(queue, q)
      <4>1. q = p /\ LastWord(queue, act, q)
        BY <1>3, <2>3, <3>1
      <4>2. act = "SET_NODE_LIST" <=> q \in nodes
        BY <2>1, <4>1
      <4> QED BY <4>1, <4>2 DEF p
    <3>2. CASE ~ Mentions(queue, q)
      <4>1. q # p
        BY <1>4, <3>2
      <4> QED BY <2>1, <2>3, <3>2, <4>1 DEF p
    <3> QED BY <3>1, <3>2
  <2> QED BY <2>2, <2>3 DEF q
<1> QED BY <1>5, <1>6, <1>7, <1>8

(* Reading a message: a change that is not in the list is excused, or its  *)
(* edit is due, or the link is not there.                                  *)
LEMMA HearStepKeeps ==
  ASSUME NodesInv, NEW i \in Indexes, NEW m \in Macs,
         \/ HearKnown(i, m) \/ HearNew(i, m)
         \/ HearDown(i, m) \/ HearDownUnknown(i, m)
  PROVE  Rest'
<1> DEFINE act == IF HearKnown(i, m) \/ HearNew(i, m)
                    THEN "SET_NODE_LIST" ELSE "NODE_DOWN"
           due == IF act = "SET_NODE_LIST" THEN "publish" ELSE "withdraw"
<1>1. /\ act \in {"SET_NODE_LIST", "NODE_DOWN"} /\ Receive(act, <<i, m>>)
      /\ cache' = IF act = "SET_NODE_LIST" THEN cache \cup {<<i, m>>}
                                           ELSE cache \ {<<i, m>>}
  BY DEF HearKnown, HearNew, HearDown, HearDownUnknown
<1>2. \/ Resume /\ UNCHANGED <<cache, edit, excused>>
      \/ hnode_cache_change_cb(i, m, due)
  BY DEF HearKnown, HearNew, HearDown, HearDownUnknown
<1> HIDE DEF act
<1>3. \/ pc' = "crashed" /\ fds = FdLimit
      \/ pc' \in {"serve", "drain"} /\ UNCHANGED <<cache, excused>>
      \/ pc' \in {"serve", "drain"} /\ excused' = excused \cup (NameOf(i) \X {m})
      \/ /\ pc' \in {"serve", "drain"} /\ UNCHANGED excused
         /\ NameOf(i) = {}
      \/ /\ pc' = due /\ UNCHANGED excused
         /\ edit' \in NameOf(i) \X {i} \X {m}
  BY <1>2 DEF Resume, Unpublished, NoSocket, LookUp, hnode_cache_change_cb
<1>4. IndexesOnce' /\ PartsInOrder' /\ FillingTrue' /\ QueueTrue' /\ CrashExplained'
  BY <1>1, <1>3, HearKeeps
<1>5. /\ pc \in {"serve", "drain"} /\ UNCHANGED <<index, published>>
      /\ \A p : p # <<i, m>> => (p \in cache' <=> p \in cache)
      /\ <<i, m>> \in cache' <=> act = "SET_NODE_LIST"
  BY <1>1 DEF Receive, kernelVars
<1>6. EditTrue'
  <2>1. CASE pc' \notin {"publish", "withdraw"}
    BY <2>1 DEF EditTrue
  <2>2. CASE pc' = due /\ edit' \in NameOf(i) \X {i} \X {m}
    BY <1>5, <2>2 DEF EditTrue
  <2> QED BY <1>3, <2>1, <2>2
<1>7. LeftOversExcused'
  <2>1. excused \subseteq excused' \/ pc' = "crashed"
    BY <1>3
  <2> QED BY <1>5, <2>1 DEF NodesInv, LeftOversExcused, Alive
<1>8. NodeListMatchesCache'
  <2> SUFFICES ASSUME Alive', NEW h \in Names, NEW n \in Macs, index[h] # 0,
                      <<h, n>> \notin excused', ~ BeingEdited(h, n)'
               PROVE  n \in published[h] <=> <<index[h], n>> \in cache'
    BY <1>5 DEF NodeListMatchesCache
  <2>1. <<h, n>> \notin excused
    BY <1>3 DEF Alive
  <2>2. n \in published[h] <=> <<index[h], n>> \in cache
    BY <1>5, <2>1 DEF NodesInv, NodeListMatchesCache, Alive, BeingEdited
  <2>3. CASE <<index[h], n>> # <<i, m>>
    BY <1>5, <2>2, <2>3
  <2>4. CASE index[h] = i /\ n = m
    <3>1. h \in NameOf(i)
      BY <2>4 DEF NameOf
    <3>2. ~ (pc' = due /\ edit' \in NameOf(i) \X {i} \X {m})
      <4>1. \A g \in NameOf(i) : g = h
        BY <2>4 DEF NodesInv, IndexesOnce, NameOf
      <4> QED BY <1>5, <2>4, <4>1 DEF BeingEdited
    <3>3. UNCHANGED cache
      BY <1>3, <2>4, <3>1, <3>2 DEF Alive
    <3> QED BY <2>2, <3>3
  <2> QED BY <2>3, <2>4
<1> QED BY <1>4, <1>6, <1>7, <1>8 DEF Rest

(* An edit: what is read as the address of the node is added or removed,   *)
(* and another address is never touched.                                   *)
LEMMA EditKeeps ==
  ASSUME NodesInv, NEW h \in Names, NEW i \in Indexes, NEW m \in Macs,
         \/ add_node_to_list(h, i, m) \/ delete_node_from_list(h, i, m)
         \/ EditFails(h, i, m)
  PROVE  Rest'
<1>1. /\ UNCHANGED <<index, lastIndex, nodes, queue, held, toFill, cache, unheard>>
      /\ pc \in {"publish", "withdraw"} /\ pc' \in {"serve", "drain"}
      /\ edit = <<h, i, m>>
  BY DEF add_node_to_list, delete_node_from_list, EditFails, cdb_edit_status,
         EditEnds, Resume, kernelVars
<1>2. PICK text \in {m} \cup DeadStack :
        \/ /\ published' = published
           /\ excused' = excused \cup {<<h, m>>}
        \/ /\ \/ /\ pc = "publish"
                 /\ published' = [published EXCEPT ![h] = published[h] \cup {text}]
              \/ /\ pc = "withdraw"
                 /\ published' = [published EXCEPT ![h] = published[h] \ {text}]
           /\ excused' = IF text = m /\ index[h] = i
                           THEN excused \ {<<h, m>>} ELSE excused \cup {<<h, m>>}
  BY DEF add_node_to_list, delete_node_from_list, EditFails, cdb_edit_status
<1>3. published \in [Names -> SUBSET (Macs \cup DeadStack)]
  BY InvTypes
<1>4. IndexesOnce'
  BY <1>1 DEF NodesInv, IndexesOnce
<1>5. PartsInOrder' /\ FillingTrue' /\ CrashExplained' /\ EditTrue'
  BY <1>1 DEF NodesInv, PartsInOrder, Joined, FillingTrue, CrashExplained, EditTrue
<1>6. QueueTrue'
  BY <1>1 DEF NodesInv, QueueTrue, Joined
<1>7. ASSUME NEW g \in Names, NEW n \in Macs, g # h \/ n # m
      PROVE  /\ n \in published'[g] <=> n \in published[g]
             /\ <<g, n>> \in excused' <=> <<g, n>> \in excused
  <2>1. n = text => n = m
    BY HsrNodesAssumption
  <2> QED BY <1>2, <1>3, <1>7, <2>1
<1>8. ASSUME <<h, m>> \notin excused'
      PROVE  /\ index[h] = i
             /\ m \in published'[h] <=> pc = "publish"
  BY <1>2, <1>3, <1>8
<1>9. LeftOversExcused'
  <2> SUFFICES ASSUME NEW g \in Names, NEW n \in Macs, index[g] = 0,
                      n \in published'[g]
               PROVE  <<g, n>> \in excused'
    BY <1>1 DEF LeftOversExcused
  <2>1. CASE g = h /\ n = m
    <3>1. i # 0
      BY HsrNodesAssumption DEF Indexes
    <3> QED BY <1>8, <2>1, <3>1
  <2>2. CASE g # h \/ n # m
    BY <1>1, <1>7, <2>2 DEF NodesInv, LeftOversExcused, Alive
  <2> QED BY <2>1, <2>2
<1>10. NodeListMatchesCache'
  <2> SUFFICES ASSUME NEW g \in Names, NEW n \in Macs, index[g] # 0,
                      <<g, n>> \notin excused'
               PROVE  n \in published'[g] <=> <<index[g], n>> \in cache
    BY <1>1 DEF NodeListMatchesCache
  <2>1. CASE g = h /\ n = m
    <3>1. <<i, m>> \in cache <=> pc = "publish"
      BY <1>1 DEF NodesInv, EditTrue
    <3> QED BY <1>8, <2>1, <3>1
  <2>2. CASE g # h \/ n # m
    <3>1. ~ BeingEdited(g, n)
      BY <1>1, <2>2 DEF BeingEdited
    <3>2. n \in published[g] <=> <<index[g], n>> \in cache
      BY <1>1, <1>7, <2>2, <3>1 DEF NodesInv, NodeListMatchesCache, Alive
    <3> QED BY <1>7, <2>2, <3>2
  <2> QED BY <2>1, <2>2
<1> QED BY <1>4, <1>5, <1>6, <1>9, <1>10 DEF Rest

-----------------------------------------------------------------------------
(* Every step keeps the invariant.                                         *)

LEMMA InitInv == ASSUME Init PROVE NodesInv
<1>1. /\ index = [h \in Names |-> 0] /\ lastIndex = 0 /\ nodes = {} /\ queue = <<>>
      /\ pc = "create" /\ held = {} /\ toFill = {} /\ cache = {}
      /\ published = [h \in Names |-> {}]
  BY DEF Init
<1>2. IndexesOnce
  BY <1>1, NoWords DEF IndexesOnce
<1>3. LeftOversExcused /\ NodeListMatchesCache
  BY <1>1 DEF LeftOversExcused, NodeListMatchesCache
<1>4. PartsInOrder /\ FillingTrue /\ QueueTrue /\ EditTrue /\ CrashExplained
  BY <1>1 DEF PartsInOrder, Joined, FillingTrue, QueueTrue, EditTrue, CrashExplained
<1> QED BY <1>2, <1>3, <1>4, TypeInit DEF NodesInv

LEMMA StepInv == ASSUME NodesInv, [Next]_vars PROVE NodesInv'
<1>1. TypeOK'
  BY TypeStep DEF NodesInv
<1> SUFFICES Rest'
  BY <1>1 DEF NodesInv, Rest
<1>2. ASSUME NEW h \in Names, LinkGone(h) PROVE Rest'
  <2>1. CrashExplained'
    BY <1>2 DEF NodesInv, CrashExplained, LinkGone, listVars
  <2> QED BY <1>2, <2>1, ForgetKeeps DEF LinkGone, Rest
<1>3. ASSUME NEW h \in Names, CfgDelete(h) PROVE Rest'
  <2>1. CrashExplained'
    BY <1>3 DEF CrashExplained, CfgDelete
  <2> QED BY <1>3, <2>1, ForgetKeeps DEF CfgDelete, Rest
<1>4. CASE CreateFails \/ Stop \/ \E i \in Indexes : FillRefused(i)
  <2>1. Alive /\ AppDestroy
    BY <1>4 DEF CreateFails, Stop, FillRefused, Alive
  <2> QED BY <2>1, AppDestroyKeeps
<1>5. CASE UNCHANGED vars
  <2>1. /\ UNCHANGED <<index, lastIndex, nodes, queue, pc, held, toFill, cache>>
        /\ UNCHANGED <<fds, interfaces_size, edit, published, unheard, excused>>
    BY <1>5 DEF vars, kernelVars, listVars
  <2> QED BY <2>1 DEF NodesInv, Rest, IndexesOnce, LeftOversExcused, PartsInOrder,
                      FillingTrue, QueueTrue, EditTrue, NodeListMatchesCache,
                      CrashExplained, Alive, Joined, BeingEdited
<1>6. CASE Kernel
  BY <1>2, <1>6, LinkAddedKeeps, AnnounceKeeps DEF Kernel
<1>7. CASE Create
  BY <1>4, <1>7, CreateGenManagerKeeps, FillOneKeeps, CreateRestKeeps DEF Create
<1>8. CASE Hear
  BY <1>8, HearStepKeeps DEF Hear
<1>9. CASE Configuration
  BY <1>3, <1>9, ConfigKeeps DEF Configuration
<1>10. CASE Edit
  BY <1>10, EditKeeps DEF Edit
<1> QED BY <1>4, <1>5, <1>6, <1>7, <1>8, <1>9, <1>10 DEF Next

(* The inductive invariant holds in every reachable state.                 *)
THEOREM NodesInvariant == Spec => []NodesInv
<1> QED BY InitInv, StepInv, PTL DEF Spec

(* The state of kernel, daemon and confdb has the declared types.          *)
THEOREM TypeCorrect == Spec => []TypeOK
<1>1. NodesInv => TypeOK
  BY DEF NodesInv
<1> QED BY <1>1, NodesInvariant, PTL

(* The node_list of every existing link has the nodes the cache has for    *)
(* it, whatever messages about links that are gone are still queued and    *)
(* whatever happens between the dump and the edit; what is not promised is *)
(* listed with the property.                                               *)
THEOREM NodeListsMatch == Spec => []NodeListMatchesCache
<1>1. NodesInv => NodeListMatchesCache
  BY DEF NodesInv
<1> QED BY <1>1, NodesInvariant, PTL

(* When all messages have been read, the cache has the nodes of the        *)
(* existing links.                                                         *)
THEOREM CacheFollows == Spec => []CacheFollowsNodes
<1>1. NodesInv => CacheFollowsNodes
  BY NoWords DEF NodesInv, QueueTrue, CacheFollowsNodes
<1> QED BY <1>1, NodesInvariant, PTL

(* The daemon crashes only where app_destroy meets a manager that is not   *)
(* there, where no descriptor is left, or where the size of the interface  *)
(* list is below 0.                                                        *)
THEOREM CrashesExplained == Spec => []CrashExplained
<1>1. NodesInv => CrashExplained
  BY DEF NodesInv
<1> QED BY <1>1, NodesInvariant, PTL
=============================================================================

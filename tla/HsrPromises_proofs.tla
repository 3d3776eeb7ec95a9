------------------------- MODULE HsrPromises_proofs -------------------------
(***************************************************************************)
(* What the daemon promises, for any links, names, messages and bounds: it *)
(* implements HsrService, the interface list covers the configuration,     *)
(* the BUSY bits and HSR_STILL_EXISTS are reset in time, main_check forgets*)
(* an interface only by a race, no configured interface is lost and no     *)
(* handler crashes without one of the causes HsrOutside records, and the   *)
(* cache its handlers read catches up with the kernel.                     *)
(***************************************************************************)
EXTENDS HsrDaemonService, HsrRaces, HsrOutside, HsrDaemon_proofs

-----------------------------------------------------------------------------
(* What is wanted of an interface, when the wait list changes.             *)

(* Handlers of notifications change bits only.                             *)
LEMMA WantedSame ==
  ASSUME NEW v, NEW w, SameNodes(v, w), NEW h
  PROVE  Wanted(v, h) = Wanted(w, h)
<1>1. DOMAIN v = DOMAIN w
  BY DEF SameNodes
<1>2. \A k \in DOMAIN w :
        v[k].hsr_name = w[k].hsr_name /\ Slaves(v[k]) = Slaves(w[k])
  BY SameNodesUnique DEF SameNodes
<1> QED BY <1>1, <1>2 DEF Wanted

LEMMA WantedNothing ==
  ASSUME NEW w, NEW h, ~ Waits(w, h)
  PROVE  Wanted(w, h) = {}
BY DEF Wanted, Waits

LEMMA WantedNode ==
  ASSUME NEW w, Unique(w), NEW k \in DOMAIN w
  PROVE  Wanted(w, w[k].hsr_name) = Slaves(w[k])
BY DEF Wanted, Unique

LEMMA WantedAppend ==
  ASSUME NEW S, NEW w \in Seq(S), NEW n \in S, NEW h
  PROVE  Wanted(Append(w, n), h) =
           IF n.hsr_name = h THEN Wanted(w, h) \cup Slaves(n) ELSE Wanted(w, h)
<1> DEFINE a == Append(w, n)
<1>1. /\ Len(w) \in Nat /\ DOMAIN w = 1 .. Len(w)
      /\ DOMAIN a = 1 .. (Len(w) + 1)
      /\ a[Len(w) + 1] = n
      /\ \A k \in 1 .. Len(w) : a[k] = w[k]
  OBVIOUS
<1> HIDE DEF a
<1>2. /\ DOMAIN a = DOMAIN w \cup {Len(w) + 1}
      /\ \A k \in DOMAIN w : a[k] = w[k]
  BY <1>1
<1>3. Wanted(a, h) = IF n.hsr_name = h THEN Wanted(w, h) \cup Slaves(n)
                     ELSE Wanted(w, h)
  BY <1>1, <1>2 DEF Wanted
<1> QED BY <1>3 DEF a

(* A node that leaves the list takes with it what is wanted of its name,   *)
(* and nothing else.                                                       *)
LEMMA WantedDelete ==
  ASSUME NEW S, NEW w \in Seq(S), Unique(w), NEW h, NEW g
  PROVE  Wanted(delete_wait_list_node(w, h), g) =
           IF g = h THEN {} ELSE Wanted(w, g)
<1> DEFINE v == delete_wait_list_node(w, h)
<1>1. /\ v \in Seq(S) /\ Unique(v) /\ ~ Waits(v, h)
      /\ \A k \in DOMAIN v : \E j \in DOMAIN w : v[k] = w[j]
  BY DeleteProperties
<1>2. ASSUME NEW k \in DOMAIN w, w[k].hsr_name # h
      PROVE  Waits(v, w[k].hsr_name)
  BY <1>2, DeleteSpares
<1> HIDE DEF v
<1>3. CASE g = h
  BY <1>1, <1>3, WantedNothing DEF v
<1>4. CASE g # h /\ ~ Waits(w, g)
  <2>1. ~ Waits(v, g)
    BY <1>1, <1>4 DEF Waits
  <2> QED BY <1>4, <2>1, WantedNothing DEF v
<1>5. CASE g # h /\ Waits(w, g)
  <2>1. PICK k \in DOMAIN w : w[k].hsr_name = g
    BY <1>5 DEF Waits
  <2>2. PICK i \in DOMAIN v : v[i].hsr_name = g
    BY <1>2, <1>5, <2>1 DEF Waits
  <2>3. PICK j \in DOMAIN w : v[i] = w[j]
    BY <1>1
  <2>4. Wanted(v, g) = Slaves(v[i]) /\ Wanted(w, g) = Slaves(w[j])
    BY <1>1, <2>2, <2>3, WantedNode
  <2> QED BY <1>5, <2>3, <2>4 DEF v
<1> QED BY <1>3, <1>4, <1>5

-----------------------------------------------------------------------------
(* What the service sees of the kernel's links.                            *)

LEMMA EnslavedMaps ==
  ASSUME master \in [Links -> LinkState],
         NEW h \in Names, NEW a \in Links, NEW b \in Links,
         CanCreate(master, h, a, b), master' = Enslaved(master, h, a, b)
  PROVE  /\ Present' = Present
         /\ Up' = [Up EXCEPT ![h] = {a, b}]
         /\ {a, b} \subseteq Present
         /\ \A g \in Names : Up[g] \cap {a, b} = {}
<1>1. /\ master[a] = None /\ master[b] = None
      /\ \A l \in Links : master'[l] = IF l \in {a, b} THEN h ELSE master[l]
      /\ ~ Exists(master, h)
  BY DEF CanCreate, Enslaved
<1>2. h # Absent /\ None # Absent /\ None \notin Names
  BY DistinctAssumption
<1>3. Present' = Present /\ {a, b} \subseteq Present
  BY <1>1, <1>2 DEF Present
<1>4. \A g \in Names : Up[g] \cap {a, b} = {}
  BY <1>1, <1>2 DEF Up, SlavesOf
<1>5. ASSUME NEW g \in Names
      PROVE  SlavesOf(master', g) =
               IF g = h THEN {a, b} ELSE SlavesOf(master, g)
  BY <1>1, <1>2 DEF SlavesOf, Exists
<1>6. Up' = [Up EXCEPT ![h] = {a, b}]
  BY <1>5 DEF Up
<1> QED BY <1>3, <1>4, <1>6

LEMMA ReleasedMaps ==
  ASSUME master \in [Links -> LinkState], NEW h \in Names,
         master' = Released(master, h)
  PROVE  Present' = Present /\ Up' = [Up EXCEPT ![h] = {}]
<1>1. \A l \in Links : master'[l] = IF master[l] = h THEN None ELSE master[l]
  BY DEF Released
<1>2. h # Absent /\ None # Absent /\ None \notin Names
  BY DistinctAssumption
<1>3. Present' = Present
  BY <1>1, <1>2 DEF Present
<1>4. ASSUME NEW g \in Names
      PROVE  SlavesOf(master', g) = IF g = h THEN {} ELSE SlavesOf(master, g)
  BY <1>1, <1>2 DEF SlavesOf
<1>5. Up' = [Up EXCEPT ![h] = {}]
  BY <1>4 DEF Up
<1> QED BY <1>3, <1>5

(* Outside a request of main_check or hsr_handler nobody is answered, and  *)
(* what is wanted is what waits.                                           *)
LEMMA NobodyAnswered ==
  /\ ~ Answering =>
       /\ Asking = None
       /\ AllWanted = [h \in Names |-> Wanted(waiting, h)]
  /\ ~ Answering' =>
       /\ Asking' = None
       /\ AllWanted' = [h \in Names |-> Wanted(waiting', h)]
BY DEF Answering, Asking, AllWanted

ServiceStep == [Service!Next]_(Service!vars)

LEMMA StutterServes ==
  ASSUME UNCHANGED <<conf, Present, Up, AllWanted, Asking>>
  PROVE  ServiceStep
BY DEF ServiceStep, Service!vars

-----------------------------------------------------------------------------
(* One lemma per kind of step.                                             *)

(* Links come and go as the service lets them; a bridge is nothing to it.  *)
LEMMA EnvironmentServes ==
  ASSUME IInv, Environment
  PROVE  ServiceStep
<1>1. UNCHANGED <<conf, AllWanted, Asking>>
  BY DEF Environment, AllWanted, Asking, Answering
<1>2. master \in [Links -> LinkState]
  BY DEF IInv, TypeOK, KernelTypeOK
<1>3. /\ Absent \notin Names /\ None \notin Names /\ None # Absent
      /\ Bridges \cap Names = {} /\ Absent \notin Bridges
  BY DistinctAssumption
<1>4. ASSUME NEW l \in Links, AddLink(l) PROVE ServiceStep
  <2>1. \A k \in Links : master'[k] = IF k = l THEN None ELSE master[k]
    BY <1>2, <1>4 DEF AddLink
  <2>2. Present' = Present \cup {l}
    BY <1>3, <2>1 DEF Present
  <2>3. \A h \in Names : SlavesOf(master', h) = SlavesOf(master, h)
    BY <1>3, <1>4, <2>1 DEF SlavesOf, AddLink
  <2>4. Up' = Up
    BY <2>3 DEF Up
  <2>5. Service!LinkAppears(l)
    BY <1>1, <2>2, <2>4 DEF Service!LinkAppears
  <2> QED BY <2>5 DEF ServiceStep, Service!Next
<1>5. ASSUME NEW l \in Links, DelLink(l) PROVE ServiceStep
  <2>1. \A k \in Links : master'[k] = IF k = l THEN Absent ELSE master[k]
    BY <1>2, <1>5 DEF DelLink
  <2>2. Present' = Present \ {l}
    BY <1>3, <2>1 DEF Present
  <2>3. \A h \in Names : SlavesOf(master', h) = SlavesOf(master, h) \ {l}
    BY <1>3, <2>1 DEF SlavesOf
  <2>4. Up' = [h \in Names |-> Up[h] \ {l}]
    BY <2>3 DEF Up
  <2>5. Service!LinkVanishes(l)
    BY <1>1, <2>2, <2>4 DEF Service!LinkVanishes
  <2> QED BY <2>5 DEF ServiceStep, Service!Next
<1>6. ASSUME NEW l \in Links, NEW b \in Bridges, Release(l) \/ Enslave(l, b)
      PROVE  ServiceStep
  <2>1. PICK m \in Bridges \cup {None} :
          /\ master[l] \in Bridges \cup {None}
          /\ \A k \in Links : master'[k] = IF k = l THEN m ELSE master[k]
    BY <1>2, <1>6 DEF Release, Enslave
  <2>2. Present' = Present
    BY <1>3, <2>1 DEF Present
  <2>3. \A h \in Names : SlavesOf(master', h) = SlavesOf(master, h)
    BY <1>3, <2>1 DEF SlavesOf
  <2>4. Up' = Up
    BY <2>3 DEF Up
  <2> QED BY <1>1, <2>2, <2>4, StutterServes
<1>7. ASSUME NEW h \in Names, NEW a \in Links, NEW b \in Links, AdminAdd(h, a, b)
      PROVE  ServiceStep
  <2>1. /\ Present' = Present /\ {a, b} \subseteq Present
        /\ Up' = [Up EXCEPT ![h] = {a, b}]
    BY <1>2, <1>7, EnslavedMaps DEF AdminAdd
  <2>2. EnvOps \cap {"adminAdd", "adminDel"} # {}
    BY <1>7 DEF AdminAdd, Outside
  <2>3. Service!OtherToolActs(h)
    BY <1>1, <2>1, <2>2 DEF Service!OtherToolActs
  <2> QED BY <2>3 DEF ServiceStep, Service!Next
<1>8. ASSUME NEW h \in Names, AdminDel(h) PROVE ServiceStep
  <2>1. Present' = Present /\ Up' = [Up EXCEPT ![h] = {}]
    BY <1>2, <1>8, ReleasedMaps DEF AdminDel
  <2>2. EnvOps \cap {"adminAdd", "adminDel"} # {}
    BY <1>8 DEF AdminDel, Outside
  <2>3. Service!OtherToolActs(h)
    BY <1>1, <2>1, <2>2 DEF Service!OtherToolActs
  <2> QED BY <2>3 DEF ServiceStep, Service!Next
<1>9. KernelStep
  BY DEF Environment
<1> QED BY <1>4, <1>5, <1>6, <1>7, <1>8, <1>9 DEF KernelStep, Release

(* Notifications change bits and start requests: nothing the service sees. *)
LEMMA NotificationServes ==
  ASSUME IInv, Notification
  PROVE  ServiceStep
<1>1. UNCHANGED <<conf, master>>
  BY DEF Notification, LinkNew, LinkDel, LinkGotBusy, LinkReleasedByBridge,
     LinkReleasedByHsr, LinkUnaffected, HsrNew, HsrDel, ReceiveLink, Receive
<1>2. Present' = Present /\ Up' = Up
  BY <1>1 DEF Present, Up
<1>3. ~ Answering
  BY DEF Answering, Notification, LinkNew, LinkDel, LinkGotBusy,
     LinkReleasedByBridge, LinkReleasedByHsr, LinkUnaffected, HsrNew, HsrDel,
     ReceiveLink, Receive
<1>4. ~ Answering'
  <2>1. ASSUME NEW w, Settle(w) PROVE ~ Answering'
    BY <2>1 DEF Settle, Resume, Answering
  <2>2. ASSUME NEW met, NEW w, Wake(met, w) PROVE ~ Answering'
    BY <2>2 DEF Wake, Answering
  <2>3. ASSUME Crash PROVE ~ Answering'
    BY <2>3 DEF Crash, Answering
  <2> QED
    BY <2>1, <2>2, <2>3 DEF Notification, LinkNew, LinkDel, LinkGotBusy,
       LinkReleasedByBridge, LinkReleasedByHsr, LinkUnaffected, HsrNew, HsrDel,
       WakeOrSettle
<1>5. waiting' = waiting \/ SameNodes(waiting', waiting)
  BY NotificationNodes
<1>6. \A h \in Names : Wanted(waiting', h) = Wanted(waiting, h)
  BY <1>5, WantedSame
<1>7. UNCHANGED <<AllWanted, Asking>>
  BY <1>3, <1>4, <1>6, NobodyAnswered
<1> QED BY <1>1, <1>2, <1>7, StutterServes

(* The node a request from the wait list is about is all that is wanted of *)
(* its interface.                                                          *)
LEMMA RequestWants ==
  ASSUME IInv, pc \in {"create", "recreate"}
  PROVE  /\ job \in Names
         /\ NodeNamed(waiting, job) \in WaitListNode(Links, Names)
         /\ Asking = None
         /\ AllWanted[job] = Slaves(NodeNamed(waiting, job))
<1> DEFINE n == NodeNamed(waiting, job)
<1>1. /\ waiting \in Seq(WaitListNode(Links, Names))
      /\ job \in Names /\ Waits(waiting, job) /\ Unique(waiting)
  BY DEF IInv, TypeOK, JobFits, NamesUnique, Unique
<1>2. PICK k \in DOMAIN waiting : n = waiting[k] /\ n.hsr_name = job
  BY <1>1, NodeNamedIn
<1>3. waiting[k] \in WaitListNode(Links, Names)
  BY <1>1
<1>4. Wanted(waiting, job) = Slaves(n)
  BY <1>1, <1>2, WantedNode
<1>5. Asking = None /\ AllWanted = [h \in Names |-> Wanted(waiting, h)]
  BY NobodyAnswered DEF Answering
<1> QED BY <1>1, <1>2, <1>3, <1>4, <1>5

(* A node that waits is set up, or its request is refused.                 *)
LEMMA WaitListCreateServes ==
  ASSUME IInv, WaitListCreate
  PROVE  ServiceStep
<1> DEFINE n == NodeNamed(waiting, job)
           can == CanCreate(master, job, n.slave1, n.slave2)
<1>1. /\ job \in Names /\ n \in WaitListNode(Links, Names)
      /\ Asking = None /\ AllWanted[job] = Slaves(n)
  BY RequestWants DEF WaitListCreate
<1>2. n.slave1 \in Links /\ n.slave2 \in Links
  BY <1>1 DEF WaitListNode
<1>3. /\ master \in [Links -> LinkState] /\ Unique(waiting)
      /\ waiting \in Seq(WaitListNode(Links, Names))
  BY DEF IInv, TypeOK, KernelTypeOK, NamesUnique, Unique
<1>4. conf' = conf /\ ~ Answering /\ ~ Answering'
  BY DEF WaitListCreate, Finish, Resume, Answering
<1>5. /\ Asking' = None
      /\ AllWanted = [h \in Names |-> Wanted(waiting, h)]
      /\ AllWanted' = [h \in Names |-> Wanted(waiting', h)]
  BY <1>4, NobodyAnswered
<1>6. CASE UNCHANGED <<master, waiting>>
  BY <1>1, <1>4, <1>5, <1>6, StutterServes DEF Present, Up
<1>7. CASE can /\ master' = Enslaved(master, job, n.slave1, n.slave2)
           /\ waiting' = delete_wait_list_node(waiting, job)
  <2>1. Slaves(n) = {n.slave1, n.slave2}
    BY DEF Slaves
  <2> HIDE DEF n
  <2>2. /\ Present' = Present /\ Up' = [Up EXCEPT ![job] = Slaves(n)]
        /\ Slaves(n) \subseteq Present
        /\ \A g \in Names : Up[g] \cap Slaves(n) = {}
    BY <1>1, <1>2, <1>3, <1>7, <2>1, EnslavedMaps
  <2>3. \A g \in Names :
          Wanted(waiting', g) = IF g = job THEN {} ELSE Wanted(waiting, g)
    BY <1>3, <1>7, WantedDelete
  <2>4. AllWanted' = [AllWanted EXCEPT ![job] = {}]
    BY <1>5, <2>3
  <2>5. AllWanted[job] # {}
    BY <1>1, <2>1
  <2>6. Service!SetUp(job)
    BY <1>1, <1>4, <1>5, <2>2, <2>4, <2>5
    DEF Service!SetUp, Service!Answer, Service!Want
  <2> QED BY <1>1, <2>6 DEF ServiceStep, Service!Next
<1> QED
  BY <1>6, <1>7 DEF WaitListCreate, CreateRequest, create_hif

(* The old interface goes; the new one, asked for with one slave twice, is *)
(* refused.                                                                *)
LEMMA WaitListRecreateServes ==
  ASSUME IInv, WaitListRecreate
  PROVE  ServiceStep
<1>1. /\ job \in Names /\ Asking = None /\ AllWanted[job] # {}
  BY RequestWants DEF WaitListRecreate, Slaves
<1>2. conf' = conf /\ ~ Answering /\ ~ Answering'
  BY DEF WaitListRecreate, Finish, Resume, Answering
<1>3. waiting' = waiting
  BY DEF WaitListRecreate, RecreateSlaves, CanCreate, create_hif
<1>4. Asking' = None /\ AllWanted' = AllWanted
  BY <1>2, <1>3, NobodyAnswered
<1>5. master' = master \/ master' = Released(master, job)
  BY DEF WaitListRecreate, RecreateSlaves, CanCreate, CreateRequest
<1>6. CASE master' = master
  BY <1>1, <1>2, <1>4, <1>6, StutterServes DEF Present, Up
<1>7. CASE master' = Released(master, job)
  <2>1. Present' = Present /\ Up' = [Up EXCEPT ![job] = {}]
    BY <1>1, <1>7, ReleasedMaps DEF IInv, TypeOK, KernelTypeOK
  <2>2. Service!TakeDown(job)
    BY <1>1, <1>2, <1>4, <2>1 DEF Service!TakeDown, Service!Answer
  <2> QED BY <1>1, <2>2 DEF ServiceStep, Service!Next
<1> QED BY <1>5, <1>6, <1>7

-----------------------------------------------------------------------------
(* A node main_check allocates, whatever bits it gives it.                 *)
NodeOf(n, h, a, b) ==
  /\ n \in WaitListNode(Links, Names)
  /\ n.hsr_name = h
  /\ Slaves(n) = {a, b}

LEMMA NewNodeFits ==
  ASSUME NEW h \in Names, NEW a \in Links, NEW b \in Links,
         NEW missing \in SUBSET Links, NEW busy \in SUBSET Links
  PROVE  /\ NodeOf(wait_list_node_alloc(h, a, b), h, a, b)
         /\ NodeOf([wait_list_node_alloc(h, a, b) EXCEPT
                      !.missing = missing, !.busy = busy], h, a, b)
         /\ NodeOf([wait_list_node_alloc(h, a, b) EXCEPT !.busy = busy],
                   h, a, b)
<1> DEFINE n == wait_list_node_alloc(h, a, b)
<1>1. NodeOf(n, h, a, b)
  BY DEF wait_list_node_alloc, WaitListNode, Slaves, NodeOf
<1>2. NodeOf([n EXCEPT !.missing = missing, !.busy = busy], h, a, b)
  BY DEF wait_list_node_alloc, WaitListNode, Slaves, NodeOf
<1>3. NodeOf([n EXCEPT !.busy = busy], h, a, b)
  BY DEF wait_list_node_alloc, WaitListNode, Slaves, NodeOf
<1> QED BY <1>1, <1>2, <1>3

(* main_check puts a node for what is configured on the list, or goes on   *)
(* to a request.                                                           *)
LEMMA CheckOutcome ==
  ASSUME CfgCheck, job \in Names, conf[job][1] \in Links, conf[job][2] \in Links
  PROVE  \/ Request("cfgReplace") /\ Exists(master, job)
         \/ /\ Request("cfgCreate") /\ ~ Exists(master, job)
            /\ \A l \in {conf[job][1], conf[job][2]} :
                 master[l] # Absent /\ master[l] \notin Names
         \/ \E n : /\ NodeOf(n, job, conf[job][1], conf[job][2])
                   /\ ~ n.hsrStillExists
                   /\ \A l \in n.busy : master[l] \in Names
                   /\ Enqueue(n)
<1> DEFINE a == conf[job][1]
           b == conf[job][2]
           n == wait_list_node_alloc(job, a, b)
           missing == {l \in {a, b} : master[l] = Absent}
           busy == BusySlaves(master, a, b)
           later == ReplaceLaterBusy(master, job, a, b)
<1>1. \/ Request("cfgReplace") /\ Exists(master, job)
      \/ /\ Request("cfgCreate") /\ ~ Exists(master, job)
         /\ missing = {} /\ busy = {}
      \/ Enqueue([n EXCEPT !.missing = missing, !.busy = busy])
      \/ Enqueue([n EXCEPT !.busy = busy])
      \/ Enqueue([n EXCEPT !.busy = later])
  BY DEF CfgCheck
<1>2. /\ missing \in SUBSET Links /\ busy \in SUBSET Links
      /\ later \in SUBSET Links
      /\ \A l \in busy \cup later : master[l] \in Names
  BY DEF BusySlaves, ReplaceLaterBusy
<1>3. /\ missing = {} /\ busy = {} =>
           \A l \in {a, b} : master[l] # Absent /\ master[l] \notin Names
      /\ a \in Links /\ b \in Links
  BY DEF BusySlaves
<1> HIDE DEF a, b, missing, busy, later
<1>4. /\ NodeOf([n EXCEPT !.missing = missing, !.busy = busy], job, a, b)
      /\ NodeOf([n EXCEPT !.busy = busy], job, a, b)
      /\ NodeOf([n EXCEPT !.busy = later], job, a, b)
  BY <1>2, <1>3, NewNodeFits, ZenonT(30)
<1>5. /\ ~ [n EXCEPT !.missing = missing, !.busy = busy].hsrStillExists
      /\ ~ [n EXCEPT !.busy = busy].hsrStillExists
      /\ ~ [n EXCEPT !.busy = later].hsrStillExists
      /\ [n EXCEPT !.missing = missing, !.busy = busy].busy = busy
      /\ [n EXCEPT !.busy = busy].busy = busy
      /\ [n EXCEPT !.busy = later].busy = later
  BY DEF wait_list_node_alloc
<1> DEFINE Fits(x) == /\ NodeOf(x, job, a, b)
                     /\ ~ x.hsrStillExists
                     /\ \A l \in x.busy : master[l] \in Names
<1>6. /\ Fits([n EXCEPT !.missing = missing, !.busy = busy])
      /\ Fits([n EXCEPT !.busy = busy])
      /\ Fits([n EXCEPT !.busy = later])
  BY <1>2, <1>4, <1>5
<1> HIDE DEF n, Fits
<1>7. \/ Request("cfgReplace") /\ Exists(master, job)
      \/ /\ Request("cfgCreate") /\ ~ Exists(master, job)
         /\ missing = {} /\ busy = {}
      \/ \E x : Fits(x) /\ Enqueue(x)
  BY <1>1, <1>6
<1> QED BY <1>3, <1>7 DEF a, b, Fits

(* A new configuration is wanted from now on.                              *)
LEMMA CfgSetServes ==
  ASSUME IInv, NEW h \in Names, NEW a \in Links, NEW b \in Links, CfgSet(h, a, b)
  PROVE  ServiceStep
<1>1. /\ waiting \in Seq(WaitListNode(Links, Names)) /\ Unique(waiting)
      /\ conf \in [Names -> Pair \cup {None, Incomplete}]
  BY DEF IInv, TypeOK, NamesUnique, Unique
<1>2. /\ pc = "poll" /\ conf' = [conf EXCEPT ![h] = <<a, b>>]
      /\ pc' = "cfgCheck" /\ job' = h /\ master' = master
      /\ waiting' = delete_wait_list_node(waiting, h)
  BY DEF CfgSet, Enlist, Deliver, Due
<1>3. Present' = Present /\ Up' = Up
  BY <1>2 DEF Present, Up
<1>4. /\ ~ Answering /\ Asking = None
      /\ AllWanted = [g \in Names |-> Wanted(waiting, g)]
  BY <1>2, NobodyAnswered DEF Answering
<1>5. \A g : Wanted(waiting', g) = IF g = h THEN {} ELSE Wanted(waiting, g)
  BY <1>1, <1>2, WantedDelete
<1>6. Asking' = h
  BY <1>2 DEF Asking, Answering
<1>7. conf'[h][1] = a /\ conf'[h][2] = b
  BY <1>1, <1>2
<1>8. AllWanted' = [g \in Names |->
                      IF g = h THEN {conf'[h][1], conf'[h][2]}
                      ELSE Wanted(waiting', g)]
  BY <1>2 DEF AllWanted
<1>9. AllWanted' = [AllWanted EXCEPT ![h] = {a, b}]
  BY <1>4, <1>5, <1>7, <1>8
<1>10. Service!Configure(h, a, b)
  BY <1>2, <1>3, <1>4, <1>6, <1>9
  DEF Service!Configure, Service!Ask, Service!Want
<1> QED BY <1>10 DEF ServiceStep, Service!Next

(* Nothing becomes of an incomplete configuration.                         *)
LEMMA CfgIncompleteServes ==
  ASSUME NEW h \in Names, CfgIncomplete(h)
  PROVE  ServiceStep
<1>1. /\ pc = "poll" /\ conf' = [conf EXCEPT ![h] = Incomplete]
      /\ UNCHANGED <<master, waiting, pc, job>>
  BY DEF CfgIncomplete, Enlist, Deliver
<1>2. ~ Answering /\ ~ Answering'
  BY <1>1 DEF Answering
<1>3. Asking = None /\ Asking' = None /\ AllWanted' = AllWanted
  BY <1>1, <1>2, NobodyAnswered
<1>4. Service!Misconfigure(h)
  BY <1>1, <1>3 DEF Service!Misconfigure, Service!Ask, Present, Up
<1> QED BY <1>4 DEF ServiceStep, Service!Next

(* The configuration of an interface that is not there is answered at      *)
(* once, that of one that is there with a request.                         *)
LEMMA CfgDeleteServes ==
  ASSUME IInv, NEW h \in Names, CfgDelete(h)
  PROVE  ServiceStep
<1>1. /\ pc = "poll" /\ conf' = [conf EXCEPT ![h] = None]
      /\ master' = master
  BY DEF CfgDelete, Deliver
<1>2. Present' = Present /\ Up' = Up
  BY <1>1 DEF Present, Up
<1>3. /\ ~ Answering /\ Asking = None
      /\ AllWanted = [g \in Names |-> Wanted(waiting, g)]
  BY <1>1, NobodyAnswered DEF Answering
<1>4. CASE Due("cfgRemove", h) /\ UNCHANGED waiting
  <2>1. Asking' = h /\ AllWanted' = AllWanted
    BY <1>3, <1>4 DEF Due, Asking, Answering, AllWanted
  <2>2. Service!Deconfigure(h)
    BY <1>1, <1>2, <1>3, <2>1 DEF Service!Deconfigure, Service!Ask
  <2> QED BY <2>2 DEF ServiceStep, Service!Next
<1>5. CASE /\ waiting' = delete_wait_list_node(waiting, h)
           /\ UNCHANGED <<pc, job, seen>>
  <2>1. ~ Answering'
    BY <1>1, <1>5 DEF Answering
  <2>2. /\ waiting \in Seq(WaitListNode(Links, Names)) /\ Unique(waiting)
    BY DEF IInv, TypeOK, NamesUnique, Unique
  <2>3. \A g \in Names :
          Wanted(waiting', g) = IF g = h THEN {} ELSE Wanted(waiting, g)
    BY <1>5, <2>2, WantedDelete
  <2>4. Asking' = None /\ AllWanted' = [AllWanted EXCEPT ![h] = {}]
    BY <1>3, <2>1, <2>3, NobodyAnswered
  <2>5. Service!Deconfigure(h)
    BY <1>1, <1>2, <1>3, <2>4
    DEF Service!Deconfigure, Service!Ask, Service!Want
  <2> QED BY <2>5 DEF ServiceStep, Service!Next
<1> QED BY <1>4, <1>5 DEF CfgDelete

(* What is asking, and what it wants, while its request is under way.      *)
LEMMA AnsweringWants ==
  ASSUME IInv, Answering
  PROVE  /\ job \in Names /\ Asking = job
         /\ AllWanted = [g \in Names |->
              IF pc # "cfgRemove" /\ g = job THEN {conf[job][1], conf[job][2]}
              ELSE Wanted(waiting, g)]
         /\ pc # "cfgRemove" => /\ conf[job][1] \in Links
                                /\ conf[job][2] \in Links
                                /\ Wanted(waiting, job) = {}
         /\ pc = "cfgRemove" => conf[job] = None
<1>1. /\ job \in Names
      /\ pc # "cfgRemove" => conf[job] \in Pair /\ ~ Waits(waiting, job)
      /\ pc = "cfgRemove" => conf[job] = None
  BY DEF IInv, JobFits, Answering
<1>2. Asking = job
  BY DEF Asking
<1>3. AllWanted = [g \in Names |->
        IF pc # "cfgRemove" /\ g = job THEN {conf[job][1], conf[job][2]}
        ELSE Wanted(waiting, g)]
  BY DEF AllWanted, Answering
<1>4. pc # "cfgRemove" => conf[job][1] \in Links /\ conf[job][2] \in Links
  BY <1>1 DEF Pair
<1>5. pc # "cfgRemove" => Wanted(waiting, job) = {}
  BY <1>1, WantedNothing
<1> QED BY <1>1, <1>2, <1>3, <1>4, <1>5

(* main_check lets the interface wait, in a node for the slaves wanted, or *)
(* goes on to a request.                                                   *)
LEMMA CfgCheckServes ==
  ASSUME IInv, CfgCheck
  PROVE  ServiceStep
<1> DEFINE a == conf[job][1]
           b == conf[job][2]
<1>1. pc = "cfgCheck" /\ UNCHANGED <<conf, master>>
  BY DEF CfgCheck
<1>2. /\ job \in Names /\ Asking = job /\ a \in Links /\ b \in Links
      /\ AllWanted = [g \in Names |->
           IF g = job THEN {a, b} ELSE Wanted(waiting, g)]
      /\ Wanted(waiting, job) = {}
  BY <1>1, AnsweringWants DEF Answering
<1>3. Present' = Present /\ Up' = Up
  BY <1>1 DEF Present, Up
<1>4. ASSUME NEW n, NodeOf(n, job, a, b), Enqueue(n)
      PROVE  ServiceStep
  <2> HIDE DEF a, b
  <2>1. waiting' = Append(waiting, n) /\ ~ Answering'
    BY <1>4 DEF Enqueue, Answering
  <2>2. waiting \in Seq(WaitListNode(Links, Names))
    BY DEF IInv, TypeOK
  <2>3. \A g \in Names : Wanted(waiting', g) =
          IF g = job THEN {a, b} ELSE Wanted(waiting, g)
    BY <1>2, <1>4, <2>1, <2>2, WantedAppend DEF NodeOf
  <2>4. Asking' = None /\ AllWanted' = [g \in Names |-> Wanted(waiting', g)]
    BY <2>1, NobodyAnswered
  <2>5. AllWanted' = AllWanted /\ AllWanted[job] # {}
    BY <1>2, <2>3, <2>4
  <2>6. Service!Postpone(job)
    BY <1>1, <1>2, <1>3, <2>4, <2>5 DEF Service!Postpone, Service!Answer
  <2> QED BY <1>2, <2>6 DEF ServiceStep, Service!Next
<1>5. ASSUME NEW newpc \in {"cfgCreate", "cfgReplace"}, Request(newpc)
      PROVE  ServiceStep
  <2>1. pc' = newpc /\ UNCHANGED <<waiting, job>>
    BY <1>5 DEF Request
  <2>2. UNCHANGED <<AllWanted, Asking>>
    BY <1>1, <2>1 DEF AllWanted, Asking, Answering
  <2> QED BY <1>1, <1>3, <2>2, StutterServes
<1>6. \/ Request("cfgReplace") \/ Request("cfgCreate")
      \/ \E n : NodeOf(n, job, a, b) /\ Enqueue(n)
  BY <1>2, CheckOutcome
<1> QED BY <1>4, <1>5, <1>6

(* main_check sets the interface up, or forgets it.                        *)
LEMMA CfgCreateServes ==
  ASSUME IInv, CfgCreate
  PROVE  ServiceStep
<1> DEFINE a == conf[job][1]
           b == conf[job][2]
<1>1. pc = "cfgCreate" /\ UNCHANGED <<conf, waiting>> /\ ~ Answering'
  BY DEF CfgCreate, Finish, Answering
<1>2. /\ job \in Names /\ Asking = job /\ a \in Links /\ b \in Links
      /\ AllWanted = [g \in Names |->
           IF g = job THEN {a, b} ELSE Wanted(waiting, g)]
      /\ Wanted(waiting, job) = {}
  BY <1>1, AnsweringWants DEF Answering
<1>3. Asking' = None /\ AllWanted' = [AllWanted EXCEPT ![job] = {}]
  BY <1>1, <1>2, NobodyAnswered
<1>4. CASE CanCreate(master, job, a, b) /\ master' = Enslaved(master, job, a, b)
  <2>1. /\ Present' = Present /\ Up' = [Up EXCEPT ![job] = {a, b}]
        /\ {a, b} \subseteq Present
        /\ \A g \in Names : Up[g] \cap {a, b} = {}
    BY <1>2, <1>4, EnslavedMaps DEF IInv, TypeOK, KernelTypeOK
  <2>2. AllWanted[job] = {a, b}
    BY <1>2
  <2> HIDE DEF a, b
  <2>3. Service!SetUp(job)
    BY <1>1, <1>2, <1>3, <2>1, <2>2
    DEF Service!SetUp, Service!Answer, Service!Want
  <2> QED BY <1>2, <2>3 DEF ServiceStep, Service!Next
<1>5. CASE master' = master
  <2>1. Service!GiveUp(job)
    BY <1>1, <1>2, <1>3, <1>5
    DEF Service!GiveUp, Service!Answer, Service!Want, Present, Up
  <2> QED BY <1>2, <2>1 DEF ServiceStep, Service!Next
<1> QED BY <1>4, <1>5 DEF CfgCreate, CreateRequest

(* main_check takes the old interface down and lets the new one wait, or   *)
(* forgets it.                                                             *)
LEMMA CfgReplaceServes ==
  ASSUME IInv, CfgReplace
  PROVE  ServiceStep
<1> DEFINE a == conf[job][1]
           b == conf[job][2]
           n == wait_list_node_alloc(job, a, b)
<1>1. pc = "cfgReplace" /\ conf' = conf /\ ~ Answering'
  BY DEF CfgReplace, Finish, Answering
<1>2. /\ job \in Names /\ Asking = job /\ a \in Links /\ b \in Links
      /\ AllWanted = [g \in Names |->
           IF g = job THEN {a, b} ELSE Wanted(waiting, g)]
      /\ Wanted(waiting, job) = {}
  BY <1>1, AnsweringWants DEF Answering
<1>3. /\ Asking' = None
      /\ AllWanted' = [g \in Names |-> Wanted(waiting', g)]
  BY <1>1, NobodyAnswered
<1>4. CASE master' = Released(master, job) /\ waiting' = Append(waiting, n)
  <2>1. Present' = Present /\ Up' = [Up EXCEPT ![job] = {}]
    BY <1>2, <1>4, ReleasedMaps DEF IInv, TypeOK, KernelTypeOK
  <2>2. /\ n \in WaitListNode(Links, Names)
        /\ n.hsr_name = job /\ Slaves(n) = {a, b}
    <3> HIDE DEF a, b
    <3> QED BY <1>2 DEF n, wait_list_node_alloc, WaitListNode, Slaves
  <2> HIDE DEF a, b, n
  <2>3. waiting \in Seq(WaitListNode(Links, Names))
    BY DEF IInv, TypeOK
  <2>4. \A g \in Names : Wanted(waiting', g) =
          IF n.hsr_name = g THEN Wanted(waiting, g) \cup Slaves(n)
          ELSE Wanted(waiting, g)
    BY <1>4, <2>2, <2>3, WantedAppend
  <2>5. AllWanted' = AllWanted
    BY <1>2, <1>3, <2>2, <2>4
  <2>6. AllWanted[job] # {}
    BY <1>2
  <2>7. Service!TakeDown(job)
    BY <1>1, <1>2, <1>3, <2>1, <2>5, <2>6 DEF Service!TakeDown, Service!Answer
  <2> QED BY <1>2, <2>7 DEF ServiceStep, Service!Next
<1>5. CASE UNCHANGED <<master, waiting>>
  <2>1. AllWanted' = [AllWanted EXCEPT ![job] = {}]
    BY <1>2, <1>3, <1>5
  <2>2. Service!GiveUp(job)
    BY <1>1, <1>2, <1>3, <1>5, <2>1
    DEF Service!GiveUp, Service!Answer, Service!Want, Present, Up
  <2> QED BY <1>2, <2>2 DEF ServiceStep, Service!Next
<1> QED BY <1>4, <1>5 DEF CfgReplace, Requeue

(* hsr_handler takes the interface down, or finds it gone.                 *)
LEMMA CfgRemoveServes ==
  ASSUME IInv, CfgRemove
  PROVE  ServiceStep
<1>1. pc = "cfgRemove" /\ conf' = conf /\ ~ Answering'
  BY DEF CfgRemove, Due, Finish, Answering
<1>2. /\ job \in Names /\ Asking = job /\ conf[job] = None
      /\ AllWanted = [g \in Names |-> Wanted(waiting, g)]
  BY <1>1, AnsweringWants DEF Answering
<1>3. /\ Asking' = None
      /\ AllWanted' = [g \in Names |-> Wanted(waiting', g)]
  BY <1>1, NobodyAnswered
<1>4. CASE master' = Released(master, job) /\ waiting' = waiting
  <2>1. Present' = Present /\ Up' = [Up EXCEPT ![job] = {}]
    BY <1>2, <1>4, ReleasedMaps DEF IInv, TypeOK, KernelTypeOK
  <2>2. Service!TakeDown(job)
    BY <1>1, <1>2, <1>3, <1>4, <2>1 DEF Service!TakeDown, Service!Answer
  <2> QED BY <1>2, <2>2 DEF ServiceStep, Service!Next
<1>5. CASE master' = master /\ waiting' = delete_wait_list_node(waiting, job)
  <2>1. waiting \in Seq(WaitListNode(Links, Names)) /\ Unique(waiting)
    BY DEF IInv, TypeOK, NamesUnique, Unique
  <2>2. \A g \in Names :
          Wanted(waiting', g) = IF g = job THEN {} ELSE Wanted(waiting, g)
    BY <1>5, <2>1, WantedDelete
  <2>3. AllWanted' = [AllWanted EXCEPT ![job] = {}]
    BY <1>2, <1>3, <2>2
  <2>4. Service!GiveUp(job)
    BY <1>1, <1>2, <1>3, <1>5, <2>3
    DEF Service!GiveUp, Service!Answer, Service!Want, Present, Up
  <2> QED BY <1>2, <2>4 DEF ServiceStep, Service!Next
<1> QED BY <1>4, <1>5 DEF CfgRemove

(* What is done to the interface list only.                                *)
LEMMA OutsideServes ==
  ASSUME CfgUnlist \/ CfgWritesOutside
  PROVE  ServiceStep
<1>1. /\ ~ Answering /\ ~ Answering'
      /\ UNCHANGED <<master, conf, waiting>>
  BY DEF CfgUnlist, CfgWritesOutside, Finish, Crash, Answering
<1>2. UNCHANGED <<AllWanted, Asking>>
  BY <1>1, NobodyAnswered
<1> QED BY <1>1, <1>2, StutterServes DEF Present, Up

-----------------------------------------------------------------------------
(* The daemon implements the service: for any number of interfaces and     *)
(* links, and whatever messages are late and requests refused, an          *)
(* interface is set up with the slaves it was last configured with and no  *)
(* others, taken down for a reason of its own, and forgotten only to       *)
(* answer a configuration of its own name.                                 *)
THEOREM DaemonImplementsService == Spec => ServiceKept
<1>1. Init => Service!Init
  <2> SUFFICES ASSUME Init PROVE Service!Init
    OBVIOUS
  <2>1. Asking = None /\ AllWanted = [h \in Names |-> {}]
    <3>1. ~ Answering /\ \A h : ~ Waits(waiting, h)
      BY DEF Init, Answering, Waits
    <3> QED BY <3>1, NobodyAnswered, WantedNothing
  <2>2. Present \in SUBSET Links /\ Up \in [Names -> SUBSET Present]
    BY DistinctAssumption DEF Present, Up, SlavesOf
  <2> QED BY <2>1, <2>2 DEF Init, Service!Init
<1>2. ASSUME IInv, [Next]_vars
      PROVE  [Service!Next]_(Service!vars)
  <2>1. CASE Configuration
    <3>1. ASSUME CfgWritesOutside PROVE ServiceStep
      BY <3>1, OutsideServes
    <3> QED
      BY <1>2, <2>1, <3>1, CfgSetServes, CfgIncompleteServes, CfgDeleteServes
      DEF Configuration, ServiceStep
  <2>2. CASE Daemon
    BY <1>2, <2>2, NotificationServes, WaitListCreateServes,
       WaitListRecreateServes, CfgCheckServes, CfgCreateServes,
       CfgReplaceServes, CfgRemoveServes, OutsideServes
    DEF Daemon, ServiceStep
  <2>3. CASE UNCHANGED vars
    BY <2>3, StutterServes DEF vars, daemonVars, Present, Up, AllWanted, Asking,
       Answering, ServiceStep
  <2> QED
    BY <1>2, <2>1, <2>2, <2>3, EnvironmentServes DEF Next, ServiceStep
<1> QED BY <1>1, <1>2, Invariant, PTL DEF Spec, ServiceKept, Service!Spec

-----------------------------------------------------------------------------
(* What the interface list holds.                                          *)

Index == Names \cup {NoIndex, Stale}

(* Links that are gone lose their index, and nothing else happens.         *)
LEMMA RetireEntries ==
  ASSUME NEW list \in Seq(Index), NEW m, NEW S, NEW m0
  PROVE  /\ RetireIndexes(list, m) \in Seq(Index)
         /\ IndexesOf(list, m0, S) => IndexesOf(RetireIndexes(list, m), m, S)
         /\ Covers(list, S) => Covers(RetireIndexes(list, m), S)
         /\ list = <<>> => RetireIndexes(list, m) = <<>>
<1> DEFINE r == RetireIndexes(list, m)
<1>1. r \in [DOMAIN list -> Index]
  BY DEF RetireIndexes, Index
<1>2. r \in Seq(Index) /\ DOMAIN r = DOMAIN list /\ Len(r) = Len(list)
  BY <1>1, MapIsSeq
<1>3. NoIndex \notin Names /\ Stale \notin Names
  BY DaemonAssumption
<1>4. \A k \in DOMAIN list :
        r[k] = IF list[k] \in Names /\ ~ Exists(m, list[k])
                 THEN Stale ELSE list[k]
  BY DEF RetireIndexes
<1> HIDE DEF r
<1>5. IndexesOf(list, m0, S) => IndexesOf(r, m, S)
  BY <1>2, <1>3, <1>4 DEF IndexesOf
<1>6. Contains(list, NoIndex) => Contains(r, NoIndex)
  BY <1>2, <1>3, <1>4 DEF Contains
<1>7. list = <<>> => r = <<>>
  BY <1>2
<1> QED BY <1>2, <1>5, <1>6, <1>7 DEF Covers, r

(* What becomes of the list when a name is configured.                     *)
LEMMA AddOutcome ==
  ASSUME NEW h, change_interface_list(h, TRUE)
  PROVE  \/ Contains(interfaces, IndexIn(master, h)) /\ UNCHANGED listVars
         \/ /\ overdrawn = 0 /\ UNCHANGED overdrawn
            /\ interfaces' = Append(interfaces, IndexIn(master, h))
         \/ /\ overdrawn # 0 /\ overdrawn' = overdrawn - 1
            /\ UNCHANGED interfaces
BY DEF change_interface_list, add_interface

(* What becomes of it after a removal.                                     *)
LEMMA DropOutcome ==
  ASSUME NEW h, change_interface_list(h, FALSE)
  PROVE  \/ Contains(interfaces, IndexIn(master, h)) /\ UNCHANGED listVars
         \/ /\ interfaces # <<>> /\ UNCHANGED overdrawn
            /\ ~ Contains(interfaces, IndexIn(master, h))
            /\ interfaces' = Front(interfaces)
         \/ /\ interfaces = <<>> /\ UNCHANGED interfaces
            /\ overdrawn' = overdrawn + 1
BY DEF change_interface_list, delete_interface

(* An index is added for a name that may be in the list from now on.       *)
LEMMA AppendIndex ==
  ASSUME NEW list \in Seq(Index), NEW m, NEW S, NEW h \in Names,
         IndexesOf(list, m, S)
  PROVE  IndexesOf(Append(list, IndexIn(m, h)), m, S \cup {h})
<1> DEFINE id == IndexIn(m, h)
           r == Append(list, id)
           T == S \cup {h}
<1>1. Len(list) \in Nat /\ DOMAIN list = 1 .. Len(list)
  OBVIOUS
<1>2. id \in {h, NoIndex} /\ (id = h => Exists(m, h)) /\ NoIndex \notin Names
  BY DaemonAssumption DEF IndexIn
<1> HIDE DEF id
<1>3. /\ DOMAIN r = 1 .. (Len(list) + 1)
      /\ r[Len(list) + 1] = id
      /\ \A k \in 1 .. Len(list) : r[k] = list[k]
  BY <1>1
<1> HIDE DEF r, T
<1>4. ASSUME NEW k \in DOMAIN r, r[k] \in Names
      PROVE  Exists(m, r[k]) /\ r[k] \in T
  <2>1. CASE k \in 1 .. Len(list)
    BY <1>1, <1>3, <1>4, <2>1 DEF IndexesOf, T
  <2>2. CASE k = Len(list) + 1
    BY <1>2, <1>3, <1>4, <2>2 DEF T
  <2> QED BY <1>1, <1>3, <2>1, <2>2
<1> QED BY <1>4 DEF IndexesOf, r, T, id

(* The list without its last entry.                                        *)
LEMMA FrontIndexes ==
  ASSUME NEW list \in Seq(Index), list # <<>>, NEW m, NEW S,
         IndexesOf(list, m, S)
  PROVE  /\ IndexesOf(Front(list), m, S)
         /\ Len(Front(list)) = Len(list) - 1
<1>1. /\ Len(list) \in Nat /\ DOMAIN list = 1 .. Len(list) /\ Len(list) # 0
      /\ Front(list) = SubSeq(list, 1, Len(list) - 1)
  BY DEF Front
<1> DEFINE r == SubSeq(list, 1, Len(list) - 1)
<1>2. /\ Len(r) = Len(list) - 1 /\ DOMAIN r = 1 .. (Len(list) - 1)
      /\ \A k \in DOMAIN r : k \in DOMAIN list /\ r[k] = list[k]
  BY <1>1
<1> HIDE DEF r
<1>3. IndexesOf(r, m, S)
  BY <1>2 DEF IndexesOf
<1> QED BY <1>1, <1>2, <1>3 DEF r

(* An entry is added for a name that is counted from now on.               *)
LEMMA AddCovers ==
  ASSUME NEW list \in Seq(Index), NEW S, IsFiniteSet(S), NEW m,
         IndexesOf(list, m, S), Covers(list, S), NEW h \in Names
  PROVE  /\ Contains(list, IndexIn(m, h)) => Covers(list, S \cup {h})
         /\ Covers(Append(list, IndexIn(m, h)), S \cup {h})
<1> DEFINE id == IndexIn(m, h)
           T == S \cup {h}
           r == Append(list, id)
<1>1. /\ Cardinality(S) \in Nat
      /\ Cardinality(T) = IF h \in S THEN Cardinality(S) ELSE Cardinality(S) + 1
  BY FS_AddElement, FS_CardinalityType
<1>2. Len(list) \in Nat /\ DOMAIN list = 1 .. Len(list)
  OBVIOUS
<1>3. id \in {h, NoIndex}
  BY DEF IndexIn
<1>4. Contains(list, id) => Covers(list, T)
  <2>1. ASSUME Contains(list, id), id = h PROVE h \in S
    BY <1>2, <2>1 DEF Contains, IndexesOf
  <2> QED BY <1>1, <1>3, <2>1 DEF Covers
<1> HIDE DEF id, T
<1>5. /\ Len(r) = Len(list) + 1 /\ DOMAIN r = 1 .. (Len(list) + 1)
      /\ \A k \in 1 .. Len(list) : r[k] = list[k]
  BY <1>2
<1> HIDE DEF r
<1>6. Contains(list, NoIndex) => Contains(r, NoIndex)
  BY <1>2, <1>5 DEF Contains
<1>7. Covers(r, T)
  BY <1>1, <1>2, <1>5, <1>6 DEF Covers
<1> QED BY <1>4, <1>7 DEF r, id, T

(* What a notification leaves alone.                                       *)
LEMMA NotificationFrame ==
  ASSUME Notification
  PROVE  /\ pc \in {"poll", "drain"}
         /\ pc' \in {"poll", "drain", "create", "recreate", "crashed"}
         /\ UNCHANGED <<master, conf, interfaces, overdrawn>>
<1> DEFINE Frame ==
             /\ pc \in {"poll", "drain"}
             /\ pc' \in {"poll", "drain", "create", "recreate", "crashed"}
             /\ UNCHANGED <<master, conf, interfaces, overdrawn>>
<1> USE DEF listVars, Receive, ReceiveLink, Crash, Settle, Wake, WakeOrSettle, Resume
<1>1. ASSUME LinkNew \/ LinkDel \/ LinkGotBusy
      PROVE  Frame
  BY <1>1 DEF LinkNew, LinkDel, LinkGotBusy
<1>2. ASSUME LinkReleasedByBridge \/ LinkReleasedByHsr \/ LinkUnaffected
      PROVE  Frame
  BY <1>2 DEF LinkReleasedByBridge, LinkReleasedByHsr, LinkUnaffected
<1>3. ASSUME HsrNew \/ HsrDel
      PROVE  Frame
  BY <1>3 DEF HsrNew, HsrDel
<1> QED BY <1>1, <1>2, <1>3 DEF Notification

(* What was to be removed is gone.                                         *)
LEMMA RemovedIsGone ==
  ASSUME IInv, CfgRemove
  PROVE  ~ Exists(master', job)
<1>1. job \in Names /\ job # None
  BY DistinctAssumption DEF IInv, JobFits, CfgRemove
<1>2. ~ Exists(Released(master, job), job)
  BY <1>1 DEF Exists, SlavesOf, Released
<1> QED BY <1>2 DEF CfgRemove

(* Links come and go, and so do indexes.                                   *)
LEMMA RetireHolds ==
  ASSUME IInv, ListHolds, Named' \subseteq Named,
         \A h \in Named \ Named' : ~ Exists(master', h),
         interfaces' = RetireIndexes(interfaces, master'), UNCHANGED overdrawn
  PROVE  ListHolds'
<1>1. interfaces \in Seq(Index)
  BY DEF IInv, TypeOK, Index
<1>2. /\ IndexesOf(interfaces', master', Named)
      /\ interfaces = <<>> => interfaces' = <<>>
  BY <1>1, RetireEntries DEF ListHolds
<1>3. IndexesOf(interfaces', master', Named')
  BY <1>2 DEF IndexesOf
<1> QED BY <1>2, <1>3 DEF ListHolds

(* A name is configured: it may be in the list.                            *)
LEMMA EnlistHolds ==
  ASSUME IInv, ListHolds, NEW h \in Names, NEW value,
         Enlist(h, value), value # None, pc' # "cfgRemove"
  PROVE  ListHolds'
<1>1. /\ interfaces \in Seq(Index) /\ overdrawn \in Nat
      /\ conf \in [Names -> Pair \cup {None, Incomplete}]
  BY DEF IInv, TypeOK, Index
<1>2. /\ master' = master /\ change_interface_list(h, TRUE)
      /\ pc = "poll" /\ conf' = [conf EXCEPT ![h] = value]
  BY DEF Enlist, Deliver
<1>3. Named' = Named \cup {h}
  BY <1>1, <1>2 DEF Named
<1>4. IndexesOf(interfaces, master, Named) /\ (overdrawn > 0 => interfaces = <<>>)
  BY DEF ListHolds
<1>5. IndexesOf(interfaces, master, Named \cup {h})
  BY <1>4 DEF IndexesOf
<1>6. IndexesOf(Append(interfaces, IndexIn(master, h)), master, Named \cup {h})
  BY <1>1, <1>4, AppendIndex
<1>7. CASE UNCHANGED listVars
  BY <1>2, <1>3, <1>4, <1>5, <1>7 DEF ListHolds, listVars
<1>8. CASE /\ overdrawn = 0 /\ UNCHANGED overdrawn
           /\ interfaces' = Append(interfaces, IndexIn(master, h))
  BY <1>2, <1>3, <1>6, <1>8 DEF ListHolds
<1>9. CASE overdrawn # 0 /\ overdrawn' = overdrawn - 1 /\ UNCHANGED interfaces
  BY <1>1, <1>2, <1>3, <1>4, <1>5, <1>9 DEF ListHolds
<1> QED BY <1>2, <1>7, <1>8, <1>9, AddOutcome

LEMMA HoldsStep == ASSUME IInv, ListHolds, [Next]_vars PROVE ListHolds'
<1>1. /\ conf \in [Names -> Pair \cup {None, Incomplete}]
      /\ interfaces \in Seq(Index) /\ overdrawn \in Nat
      /\ pc \in {"cfgRemove", "cfgUnlist"} => job \in Names /\ conf[job] = None
  BY DEF IInv, TypeOK, Index, JobFits
<1>2. ASSUME Environment \/ WaitListCreate \/ WaitListRecreate
               \/ CfgCreate \/ CfgReplace
      PROVE  ListHolds'
  <2>1. /\ interfaces' = RetireIndexes(interfaces, master')
        /\ Named' = Named /\ UNCHANGED overdrawn
    BY <1>2 DEF Environment, WaitListCreate, WaitListRecreate, CfgCreate,
       CfgReplace, Finish, Resume, Named
  <2> QED BY <2>1, RetireHolds
<1>3. ASSUME NEW h \in Names, NEW a \in Links, NEW b \in Links, CfgSet(h, a, b)
      PROVE  ListHolds'
  <2>1. <<a, b>> # None /\ pc' # "cfgRemove"
    BY <1>3, DaemonAssumption DEF CfgSet, Due
  <2> QED BY <1>3, <2>1, EnlistHolds DEF CfgSet
<1>4. ASSUME NEW h \in Names, CfgIncomplete(h)
      PROVE  ListHolds'
  <2>1. Incomplete # None /\ pc' # "cfgRemove"
    BY <1>4, DaemonAssumption DEF CfgIncomplete, Enlist, Deliver
  <2> QED BY <1>4, <2>1, EnlistHolds DEF CfgIncomplete
<1>5. ASSUME Notification \/ CfgCheck \/ CfgWritesOutside \/ UNCHANGED vars
      PROVE  ListHolds'
  <2>1. Named' = Named /\ UNCHANGED <<master, listVars>>
    <3>1. ASSUME Notification PROVE Named' = Named /\ UNCHANGED <<master, listVars>>
      BY <3>1, NotificationFrame DEF Named, listVars
    <3>2. ASSUME CfgCheck PROVE Named' = Named /\ UNCHANGED <<master, listVars>>
      <4>1. pc = "cfgCheck" /\ pc' # "cfgRemove" /\ UNCHANGED <<conf, master, listVars>>
        BY <3>2 DEF CfgCheck, Enqueue, Request
      <4> QED BY <4>1 DEF Named
    <3>3. ASSUME CfgWritesOutside \/ UNCHANGED vars
          PROVE  Named' = Named /\ UNCHANGED <<master, listVars>>
      BY <3>3 DEF CfgWritesOutside, Crash, vars, daemonVars, Named
    <3> QED BY <1>5, <3>1, <3>2, <3>3
  <2> QED BY <2>1 DEF ListHolds, listVars
<1>6. ASSUME NEW h \in Names, CfgDelete(h)
      PROVE  ListHolds'
  <2>1. /\ conf[h] # None /\ conf' = [conf EXCEPT ![h] = None]
        /\ pc = "poll" /\ UNCHANGED <<master, interfaces, overdrawn>>
    BY <1>6 DEF CfgDelete, Deliver, listVars
  <2>2. CASE Exists(master, h)
    <3>1. Named' = Named
      BY <1>1, <1>6, <2>1, <2>2 DEF Named, CfgDelete, Due
    <3> QED BY <2>1, <3>1 DEF ListHolds
  <2>3. CASE ~ Exists(master, h)
    <3>1. Named' = Named \ {h}
      BY <1>1, <1>6, <2>1, <2>3 DEF Named, CfgDelete
    <3>2. IndexesOf(interfaces, master, Named \ {h})
      BY <2>3 DEF ListHolds, IndexesOf
    <3> QED BY <2>1, <3>1, <3>2 DEF ListHolds
  <2> QED BY <2>2, <2>3
<1>7. ASSUME CfgRemove
      PROVE  ListHolds'
  <2>1. /\ pc = "cfgRemove" /\ pc' # "cfgRemove"
        /\ interfaces' = RetireIndexes(interfaces, master')
        /\ UNCHANGED <<conf, overdrawn>>
    BY <1>7 DEF CfgRemove, Due, Finish
  <2>2. Named' = Named \ {job}
    BY <1>1, <2>1 DEF Named
  <2>3. ~ Exists(master', job)
    BY <1>7, RemovedIsGone
  <2> QED BY <2>1, <2>2, <2>3, RetireHolds
<1>8. ASSUME CfgUnlist
      PROVE  ListHolds'
  <2>1. /\ pc = "cfgUnlist" /\ pc' # "cfgRemove" /\ UNCHANGED <<conf, master>>
        /\ change_interface_list(job, FALSE)
    BY <1>8 DEF CfgUnlist, Finish
  <2>2. Named' = Named
    BY <2>1 DEF Named
  <2>3. CASE UNCHANGED listVars
    BY <2>1, <2>2, <2>3 DEF ListHolds, listVars
  <2>4. CASE /\ interfaces # <<>> /\ UNCHANGED overdrawn
             /\ interfaces' = Front(interfaces)
    BY <1>1, <2>1, <2>2, <2>4, FrontIndexes DEF ListHolds
  <2>5. CASE interfaces = <<>> /\ UNCHANGED interfaces
    BY <2>1, <2>2, <2>5 DEF ListHolds
  <2> QED BY <2>1, <2>3, <2>4, <2>5, DropOutcome
<1> QED
  BY <1>2, <1>3, <1>4, <1>5, <1>6, <1>7, <1>8 DEF Next, Configuration, Daemon

LEMMA HoldsInit == ASSUME Init PROVE ListHolds
BY DEF Init, ListHolds, IndexesOf

(* The indexes in the list are those of links there are, and never of a    *)
(* name without configuration, whatever other tools do.                    *)
THEOREM ListIndexesExist == Spec => []ListHolds
<1> QED BY HoldsInit, HoldsStep, Invariant, PTL DEF Spec

-----------------------------------------------------------------------------
(* The interface list covers the configuration.                            *)

(* Links come and go.                                                      *)
LEMMA RetireCovers ==
  ASSUME IInv, ListCounts, Counted' = Counted, UNCHANGED <<outside, overdrawn>>,
         interfaces' = RetireIndexes(interfaces, master'), pc' # "cfgUnlist"
  PROVE  ListCounts'
BY RetireEntries DEF IInv, TypeOK, ListCounts, Index

(* The names in the list are counted.                                      *)
LEMMA CountedIndexes == ListHolds => IndexesOf(interfaces, master, Counted)
BY DEF ListHolds, IndexesOf, Named, Counted

(* A name is configured.                                                   *)
LEMMA EnlistCovers ==
  ASSUME IInv, ListHolds, ListCounts, NEW h \in Names, NEW value,
         Enlist(h, value), value # None, pc' \notin {"cfgRemove", "cfgUnlist"},
         UNCHANGED outside
  PROVE  ListCounts'
<1>1. /\ conf \in [Names -> Pair \cup {None, Incomplete}]
      /\ interfaces \in Seq(Index)
  BY DEF IInv, TypeOK, Index
<1>2. /\ change_interface_list(h, TRUE)
      /\ pc = "poll" /\ conf' = [conf EXCEPT ![h] = value]
  BY DEF Enlist, Deliver
<1>3. Counted' = Counted \cup {h}
  BY <1>1, <1>2 DEF Counted
<1>4. SUFFICES ASSUME "recreated" \notin outside
               PROVE  /\ IsFiniteSet(Counted \cup {h})
                      /\ overdrawn' = 0
                      /\ Covers(interfaces', Counted \cup {h})
  BY <1>3 DEF ListCounts
<1>5. /\ IsFiniteSet(Counted) /\ overdrawn = 0 /\ Covers(interfaces, Counted)
      /\ IndexesOf(interfaces, master, Counted)
  BY <1>4, CountedIndexes DEF ListCounts
<1>6. \/ Contains(interfaces, IndexIn(master, h)) /\ UNCHANGED listVars
      \/ interfaces' = Append(interfaces, IndexIn(master, h)) /\ UNCHANGED overdrawn
  BY <1>2, <1>5, AddOutcome
<1>7. Covers(interfaces', Counted \cup {h})
  <2> DEFINE id == IndexIn(master, h)
  <2>1. interfaces \in Seq(Index)
    BY <1>1
  <2>2. /\ Contains(interfaces, id) => Covers(interfaces, Counted \cup {h})
        /\ Covers(Append(interfaces, id), Counted \cup {h})
    BY <1>5, <2>1, AddCovers
  <2>3. \/ Contains(interfaces, id) /\ interfaces' = interfaces
        \/ interfaces' = Append(interfaces, id)
    BY <1>6 DEF listVars
  <2> HIDE DEF id
  <2> QED BY <2>2, <2>3
<1> QED BY <1>5, <1>6, <1>7, FS_AddElement DEF listVars

(* A name without configuration, and without link, is not counted any      *)
(* more.                                                                   *)
LEMMA FewerCovers ==
  ASSUME NEW list \in Seq(Index), NEW S, IsFiniteSet(S), Covers(list, S), NEW h
  PROVE  IsFiniteSet(S \ {h}) /\ Covers(list, S \ {h})
<1>1. /\ IsFiniteSet(S \ {h})
      /\ Cardinality(S) \in Nat /\ Cardinality(S \ {h}) \in Nat
      /\ Cardinality(S \ {h}) <= Cardinality(S)
  BY FS_RemoveElement, FS_CardinalityType
<1> QED BY <1>1 DEF Covers

(* The entry of a name that was removed is dropped.                        *)
LEMMA CfgUnlistCovers ==
  ASSUME IInv, ListHolds, ListCounts, CfgUnlist, UNCHANGED outside
  PROVE  ListCounts'
<1>1. /\ interfaces \in Seq(Index)
      /\ pc = "cfgUnlist" /\ pc' = "poll" /\ UNCHANGED conf
      /\ job \in Names /\ conf[job] = None
      /\ change_interface_list(job, FALSE)
  BY DEF IInv, TypeOK, Index, JobFits, CfgUnlist, Finish
<1>2. job \in Counted /\ Counted' = Counted \ {job}
  BY <1>1 DEF Counted
<1>3. SUFFICES ASSUME "recreated" \notin outside
               PROVE  /\ IsFiniteSet(Counted \ {job})
                      /\ overdrawn' = 0
                      /\ Covers(interfaces', Counted \ {job})
  BY <1>1, <1>2 DEF ListCounts
<1>4. /\ IsFiniteSet(Counted) /\ overdrawn = 0 /\ Covers(interfaces, Counted)
      /\ IndexIn(master, job) = NoIndex
      /\ IndexesOf(interfaces, master, Counted)
  BY <1>1, <1>3, CountedIndexes DEF ListCounts, IndexIn
<1>5. /\ IsFiniteSet(Counted \ {job}) /\ Cardinality(Counted) \in Nat
      /\ Cardinality(Counted \ {job}) = Cardinality(Counted) - 1
      /\ Cardinality(Counted) # 0
  BY <1>2, <1>4, FS_RemoveElement, FS_CardinalityType, FS_EmptySet
<1>6. CASE UNCHANGED listVars
  BY <1>1, <1>4, <1>6, FewerCovers DEF listVars
<1>7. CASE /\ interfaces # <<>> /\ UNCHANGED overdrawn
           /\ ~ Contains(interfaces, NoIndex) /\ interfaces' = Front(interfaces)
  <2>1. Len(interfaces') = Len(interfaces) - 1 /\ Len(interfaces) \in Nat
    BY <1>1, <1>4, <1>7, FrontIndexes
  <2> QED BY <1>4, <1>5, <1>7, <2>1 DEF Covers
<1>8. interfaces # <<>> \/ Contains(interfaces, NoIndex)
  <2>1. Len(<<>>) = 0
    OBVIOUS
  <2> QED BY <1>4, <1>5, <2>1 DEF Covers
<1>9. ~ Contains(<<>>, NoIndex)
  BY DEF Contains
<1> QED BY <1>1, <1>4, <1>6, <1>7, <1>8, <1>9, DropOutcome

(* What can become of a link outside the daemon.                           *)
Turned(l) ==
  \/ master'[l] = master[l]
  \/ master[l] = Absent /\ master'[l] = None
  \/ master[l] \in LinkState \ {Absent} /\ master'[l] = Absent
  \/ master[l] \in Bridges /\ master'[l] = None
  \/ master[l] = None /\ master'[l] \in Bridges
  \/ master[l] \in Names /\ master'[l] = None
  \/ master[l] = None /\ master'[l] \in Names /\ ~ Exists(master, master'[l])

LEMMA KernelTurns ==
  ASSUME KernelTypeOK, KernelStep
  PROVE  \A l \in Links : Turned(l)
<1>1. master \in [Links -> LinkState]
  BY DEF KernelTypeOK
<1>2. ASSUME NEW k \in Links, AddLink(k) \/ DelLink(k) \/ Release(k)
      PROVE  \A l \in Links : Turned(l)
  BY <1>1, <1>2 DEF AddLink, DelLink, Release, Turned
<1>3. ASSUME NEW k \in Links, NEW b \in Bridges, Enslave(k, b)
      PROVE  \A l \in Links : Turned(l)
  BY <1>1, <1>3 DEF Enslave, Turned
<1>4. ASSUME NEW h \in Names, NEW a \in Links, NEW b \in Links, AdminAdd(h, a, b)
      PROVE  \A l \in Links : Turned(l)
  BY <1>1, <1>4 DEF AdminAdd, CanCreate, Enslaved, Turned
<1>5. ASSUME NEW h \in Names, AdminDel(h)
      PROVE  \A l \in Links : Turned(l)
  BY <1>1, <1>5 DEF AdminDel, Released, Turned
<1> QED BY <1>2, <1>3, <1>4, <1>5 DEF KernelStep

LEMMA OutsideSteps == [OutsideNext]_<<vars, outside>> => [Next]_vars
BY DEF OutsideNext, OthersAct, ConfdbAsks, Reacts, Next

(* A link comes back by another process that creates it.                   *)
LEMMA ComesBack ==
  ASSUME KernelTypeOK, KernelStep, NEW h \in Names,
         ~ Exists(master, h), Exists(master', h)
  PROVE  \E l \in Links : master[l] = None /\ master'[l] = h
<1>1. PICK l \in Links : master'[l] = h /\ master[l] # h
  BY DEF Exists, SlavesOf
<1>2. h # None /\ h # Absent /\ h \notin Bridges
  BY DistinctAssumption
<1>3. master[l] = None
  BY <1>1, <1>2, KernelTurns DEF Turned
<1> QED BY <1>1, <1>3

LEMMA CountsStep ==
  ASSUME IInv, ListHolds, ListCounts, [OutsideNext]_<<vars, outside>>
  PROVE  ListCounts'
<1>1. /\ conf \in [Names -> Pair \cup {None, Incomplete}]
      /\ interfaces \in Seq(Index)
      /\ pc \in {"cfgRemove", "cfgUnlist"} => job \in Names /\ conf[job] = None
  BY DEF IInv, TypeOK, Index, JobFits
<1>2. CASE OthersAct
  <2>1. /\ KernelStep /\ outside \subseteq outside'
        /\ UNCHANGED <<overdrawn, pc, job>>
        /\ interfaces' = RetireIndexes(interfaces, master')
        /\ Happens("recreated") => "recreated" \in outside'
    BY <1>2 DEF OthersAct, Kinds, Environment
  <2>2. Counted' = Counted
    BY <1>2 DEF OthersAct, Environment, Counted
  <2>3. ASSUME pc = "cfgUnlist", ~ Exists(master, job), Exists(master', job)
        PROVE  "recreated" \in outside'
    <3>1. KernelTypeOK
      BY DEF IInv, TypeOK
    <3>2. \E l \in Links : master[l] = None /\ master'[l] = job
      BY <1>1, <2>1, <2>3, <3>1, ComesBack
    <3> QED BY <2>1, <2>3, <3>2 DEF Happens, Turns
  <2> QED BY <1>1, <2>1, <2>2, <2>3, RetireEntries DEF ListCounts
<1>3. ASSUME NEW h \in Names, NEW a \in Links, NEW b \in Links,
             CfgSet(h, a, b), UNCHANGED outside
      PROVE  ListCounts'
  <2>1. <<a, b>> # None /\ pc' \notin {"cfgRemove", "cfgUnlist"}
    BY <1>3, DaemonAssumption DEF CfgSet, Due
  <2> QED BY <1>3, <2>1, EnlistCovers DEF CfgSet
<1>4. ASSUME NEW h \in Names, CfgIncomplete(h), UNCHANGED outside
      PROVE  ListCounts'
  <2>1. Incomplete # None /\ pc' \notin {"cfgRemove", "cfgUnlist"}
    BY <1>4, DaemonAssumption DEF CfgIncomplete, Enlist, Deliver
  <2> QED BY <1>4, <2>1, EnlistCovers DEF CfgIncomplete
<1>5. ASSUME NEW h \in Names, CfgDelete(h), UNCHANGED outside
      PROVE  ListCounts'
  <2>1. /\ conf[h] # None /\ conf' = [conf EXCEPT ![h] = None]
        /\ pc = "poll" /\ pc' # "cfgUnlist"
        /\ UNCHANGED <<master, interfaces, overdrawn>>
    BY <1>5 DEF CfgDelete, Deliver, Due, listVars
  <2>2. CASE Exists(master, h)
    <3>1. Counted' = Counted
      BY <1>1, <1>5, <2>1, <2>2 DEF Counted, CfgDelete, Due
    <3> QED BY <1>5, <2>1, <3>1 DEF ListCounts
  <2>3. CASE ~ Exists(master, h)
    <3>1. Counted' = Counted \ {h}
      BY <1>1, <1>5, <2>1, <2>3 DEF Counted, CfgDelete
    <3> QED BY <1>1, <1>5, <2>1, <3>1, FewerCovers DEF ListCounts
  <2> QED BY <2>2, <2>3
<1>6. ASSUME Notification \/ CfgCheck \/ CfgWritesOutside \/ UNCHANGED vars,
             UNCHANGED outside
      PROVE  ListCounts'
  <2> DEFINE Same == /\ Counted' = Counted
                     /\ UNCHANGED <<master, interfaces, overdrawn>>
                     /\ pc' = "cfgUnlist" => pc = "cfgUnlist" /\ job' = job
  <2>1. ASSUME Notification PROVE Same
    BY <2>1, NotificationFrame DEF Counted
  <2>2. ASSUME CfgCheck PROVE Same
    <3>1. /\ pc = "cfgCheck" /\ pc' \notin {"cfgRemove", "cfgUnlist"}
          /\ UNCHANGED <<conf, master, interfaces, overdrawn>>
      BY <2>2 DEF CfgCheck, Enqueue, Request, listVars
    <3> QED BY <3>1 DEF Counted
  <2>3. ASSUME CfgWritesOutside \/ UNCHANGED vars PROVE Same
    BY <2>3 DEF CfgWritesOutside, Crash, vars, daemonVars, listVars, Counted
  <2> QED BY <1>6, <2>1, <2>2, <2>3 DEF ListCounts
<1>7. ASSUME WaitListCreate \/ WaitListRecreate \/ CfgCreate \/ CfgReplace,
             UNCHANGED outside
      PROVE  ListCounts'
  <2>1. /\ interfaces' = RetireIndexes(interfaces, master')
        /\ Counted' = Counted /\ UNCHANGED overdrawn /\ pc' # "cfgUnlist"
    BY <1>7 DEF WaitListCreate, WaitListRecreate, CfgCreate, CfgReplace, Finish,
       Resume, Counted
  <2> QED BY <1>7, <2>1, RetireCovers
<1>8. ASSUME CfgRemove, UNCHANGED outside
      PROVE  ListCounts'
  <2>1. /\ pc = "cfgRemove" /\ UNCHANGED <<conf, overdrawn>>
        /\ interfaces' = RetireIndexes(interfaces, master')
        /\ \/ pc' = "cfgUnlist" /\ job' = job
           \/ pc' = "poll"
    BY <1>8 DEF CfgRemove, Due, Finish
  <2>2. ~ Exists(master', job)
    BY <1>8, RemovedIsGone
  <2>3. Counted' = Counted \/ Counted' = Counted \ {job}
    BY <1>1, <2>1 DEF Counted
  <2>4. ASSUME IsFiniteSet(Counted), Covers(interfaces, Counted)
        PROVE  IsFiniteSet(Counted') /\ Covers(interfaces', Counted')
    <3>1. IsFiniteSet(Counted') /\ Covers(interfaces, Counted')
      <4>1. IsFiniteSet(Counted \ {job}) /\ Covers(interfaces, Counted \ {job})
        BY <1>1, <2>4, FewerCovers
      <4> QED BY <2>3, <2>4, <4>1
    <3> QED BY <1>1, <2>1, <3>1, RetireEntries
  <2> QED BY <1>8, <2>1, <2>2, <2>4 DEF ListCounts
<1>9. CASE UNCHANGED <<vars, outside>>
  BY <1>6, <1>9
<1> QED
  BY <1>2, <1>3, <1>4, <1>5, <1>6, <1>7, <1>8, <1>9, CfgUnlistCovers
  DEF OutsideNext, ConfdbAsks, Reacts, Configuration, Daemon

LEMMA CountsInit == ASSUME OutsideInit PROVE ListCounts
<1>1. Counted = {} /\ interfaces = <<>> /\ overdrawn = 0 /\ pc = "poll"
  BY DEF OutsideInit, Init, Counted
<1> QED BY <1>1, FS_EmptySet DEF ListCounts, Covers

(* While something is configured or being removed the interface list is    *)
(* not empty, so that nodes are published, and a removal finds an entry to *)
(* drop, unless another process creates an HSR link again between its      *)
(* removal and the look at its index.                                      *)
THEOREM ListCoversConfig == OutsideSpec => []InterfaceListCoversConfig
<1>1. OutsideInit => IInv /\ ListHolds /\ ListCounts
  BY InitInv, HoldsInit, CountsInit DEF OutsideInit
<1>2. IInv /\ ListHolds /\ ListCounts /\ [OutsideNext]_<<vars, outside>>
        => (IInv /\ ListHolds /\ ListCounts)'
  BY OutsideSteps, StepKeeps, HoldsStep, CountsStep
<1>3. ASSUME IInv, ListCounts
      PROVE  InterfaceListCoversConfig
  <2>1. SUFFICES ASSUME "recreated" \notin outside,
                        \/ \E h \in Names : conf[h] # None
                        \/ pc \in {"cfgRemove", "cfgUnlist"},
                        interfaces = <<>>
                 PROVE  FALSE
    BY <1>3 DEF InterfaceListCoversConfig, ListCounts
  <2>2. Counted # {}
    BY <1>3, <2>1 DEF Counted, IInv, JobFits
  <2>3. Cardinality(Counted) \in Nat /\ Cardinality(Counted) # 0
    BY <1>3, <2>1, <2>2, FS_CardinalityType, FS_EmptySet DEF ListCounts
  <2>4. Len(interfaces) = 0 /\ ~ Contains(interfaces, NoIndex)
    BY <2>1 DEF Contains
  <2> QED BY <1>3, <2>1, <2>3, <2>4 DEF ListCounts, Covers
<1> QED BY <1>1, <1>2, <1>3, PTL DEF OutsideSpec

-----------------------------------------------------------------------------
(* HSR_STILL_EXISTS is reset in time.                                      *)

(* The kernel went from m to m2, and the messages s say of HSR links what  *)
(* has to be said.                                                         *)
HsrTells(m, m2, s) ==
  /\ s \in Seq(Event)
  /\ HsrWordTrue(s, m2)
  /\ \A h \in Names : Exists(m, h) => Going(s, h) \/ Exists(m2, h)

LEMMA HsrTellsNothing == ASSUME NEW m PROVE HsrTells(m, m, <<>>)
BY DEF HsrTells, HsrWordTrue

(* A report without a message that an HSR link was created.                *)
LEMMA HsrTellsUncreated ==
  ASSUME NEW m, NEW m2, NEW s \in Seq(Event),
         \A k \in DOMAIN s : \A h : ~ Creates(s[k], h),
         \A h \in Names : Exists(m, h) => Going(s, h) \/ Exists(m2, h)
  PROVE  HsrTells(m, m2, s)
BY DEF HsrTells, HsrWordTrue

(* What a message more, or the oldest one less, does to what is known.     *)
LEMMA HsrWordAppend ==
  ASSUME NEW q \in Seq(Event), NEW m, NEW m2, NEW s,
         HsrWordTrue(q, m), HsrTells(m, m2, s)
  PROVE  /\ HsrWordTrue(q \o s, m2)
         /\ \A h : Going(q \o s, h) <=> Going(q, h) \/ Going(s, h)
<1> DEFINE c == q \o s
<1>0. s \in Seq(Event)
  BY DEF HsrTells
<1>1. Joined(c, q, s)
  BY <1>0, ConcatParts
<1> HIDE DEF c
<1>2. \A h : Going(c, h) <=> Going(q, h) \/ Going(s, h)
  BY <1>1 DEF Joined, Going
<1>3. ASSUME NEW h \in Names, NEW k \in DOMAIN c, Creates(c[k], h),
             \A j \in DOMAIN c : j > k => ~ Deletes(c[j], h)
      PROVE  Exists(m2, h)
  <2>1. CASE k \in DOMAIN q /\ c[k] = q[k]
    <3>1. \A i \in DOMAIN s : Len(q) + i > k
      BY <1>1, <2>1 DEF Joined
    <3>2. ~ Going(s, h)
      BY <1>1, <1>3, <3>1 DEF Joined, Going
    <3>3. Exists(m, h)
      BY <1>1, <1>3, <2>1 DEF Joined, HsrWordTrue
    <3> QED BY <3>2, <3>3 DEF HsrTells
  <2>2. ASSUME NEW i \in DOMAIN s, k = Len(q) + i, c[k] = s[i]
        PROVE  Exists(m2, h)
    <3>1. \A j \in DOMAIN s : j > i => Len(q) + j > k
      BY <1>1, <2>2 DEF Joined
    <3>2. \A j \in DOMAIN s : j > i => ~ Deletes(s[j], h)
      BY <1>1, <1>3, <3>1 DEF Joined
    <3> QED BY <1>3, <2>2, <3>2 DEF HsrTells, HsrWordTrue
  <2> QED BY <1>1, <2>1, <2>2 DEF Joined
<1> QED BY <1>2, <1>3 DEF HsrWordTrue, c

LEMMA HsrWordTail ==
  ASSUME NEW q \in Seq(Event), q # <<>>, NEW m, HsrWordTrue(q, m)
  PROVE  /\ HsrWordTrue(Tail(q), m)
         /\ \A h \in Names :
              Creates(Head(q), h) => Going(Tail(q), h) \/ Exists(m, h)
         /\ \A h : Going(q, h) <=> Deletes(Head(q), h) \/ Going(Tail(q), h)
<1> DEFINE t == Tail(q)
<1>1. Head(q) = q[1] /\ Remains(t, q)
  BY TailParts
<1> HIDE DEF t
<1>2. \A h : Going(q, h) <=> Deletes(Head(q), h) \/ Going(t, h)
  BY <1>1 DEF Remains, Going
<1>3. ASSUME NEW h \in Names, NEW k \in DOMAIN t, Creates(t[k], h),
             \A j \in DOMAIN t : j > k => ~ Deletes(t[j], h)
      PROVE  Exists(m, h)
  <2>1. ASSUME NEW j \in DOMAIN q, j > k + 1
        PROVE  ~ Deletes(q[j], h)
    <3>1. j # 1 /\ j - 1 > k
      BY <1>1, <2>1 DEF Remains
    <3> QED BY <1>1, <1>3, <3>1 DEF Remains
  <2> QED BY <1>1, <1>3, <2>1 DEF Remains, HsrWordTrue
<1>4. ASSUME NEW h \in Names, Creates(q[1], h), ~ Going(t, h)
      PROVE  Exists(m, h)
  <2>1. ASSUME NEW j \in DOMAIN q, j > 1
        PROVE  ~ Deletes(q[j], h)
    <3>1. j - 1 \in DOMAIN t /\ q[j] = t[j - 1]
      BY <1>1, <2>1 DEF Remains
    <3> QED BY <1>4, <3>1 DEF Going
  <2> QED BY <1>1, <1>4, <2>1 DEF Remains, HsrWordTrue
<1> QED BY <1>1, <1>2, <1>3, <1>4 DEF HsrWordTrue, t

(* A create request, refused or not.                                       *)
LEMMA HsrTellsCreate ==
  ASSUME NEW m \in [Links -> LinkState], NEW h \in Names,
         NEW a \in Links, NEW b \in Links
  PROVE  HsrTells(m, CreateRequest(m, h, a, b), CreateReport(m, h, a, b))
<1>1. CASE ~ CanCreate(m, h, a, b)
  BY <1>1, HsrTellsNothing DEF CreateRequest, CreateReport
<1>2. CASE CanCreate(m, h, a, b)
  <2> DEFINE m2 == Enslaved(m, h, a, b)
             s == CreateEvents(h, a, b)
  <2>1. /\ HsrEvent(h, a) \in Event
        /\ LinkEvent(a, h) \in Event /\ LinkEvent(b, h) \in Event
    BY EventTypes, StateTypes
  <2>2. /\ s \in Seq(Event)
        /\ \A k \in DOMAIN s :
             s[k] \in {HsrEvent(h, a), LinkEvent(a, h), LinkEvent(b, h)}
    BY <2>1 DEF CreateEvents
  <2>3. \A g : \A k \in DOMAIN s : Creates(s[k], g) => g = h
    <3>1. \A g : /\ Creates(HsrEvent(h, a), g) => g = h
                 /\ ~ Creates(LinkEvent(a, h), g)
                 /\ ~ Creates(LinkEvent(b, h), g)
      BY DEF Creates, HsrEvent, LinkEvent
    <3> HIDE DEF s
    <3> QED BY <2>2, <3>1
  <2>4. Exists(m2, h)
    BY DEF Exists, SlavesOf, Enslaved
  <2>5. m[a] = None /\ m[b] = None /\ None \notin Names
    BY <1>2, DistinctAssumption DEF CanCreate
  <2>6. \A g \in Names : Exists(m, g) => Exists(m2, g)
    BY <2>5 DEF Exists, SlavesOf, Enslaved
  <2> HIDE DEF m2, s
  <2>7. HsrTells(m, m2, s)
    BY <2>2, <2>3, <2>4, <2>6 DEF HsrTells, HsrWordTrue
  <2> QED BY <1>2, <2>7 DEF CreateRequest, CreateReport, m2, s
<1> QED BY <1>1, <1>2

(* The deletion of an HSR link.                                            *)
LEMMA HsrTellsDelete ==
  ASSUME NEW m \in [Links -> LinkState], NEW h \in Names,
         NEW events \in DeleteEvents(m, h)
  PROVE  HsrTells(m, Released(m, h), events)
<1> DEFINE S == SlavesOf(m, h)
           m2 == Released(m, h)
<1>1. PICK order \in SetToSeqs(S) :
        events = [k \in DOMAIN order |-> LinkEvent(order[k], None)]
                   \o <<HsrEvent(h, Absent)>>
  BY DEF DeleteEvents
<1>2. Cardinality(S) \in Nat
  BY LinksAssumption, FS_Subset, FS_CardinalityType DEF SlavesOf
<1>3. order \in [1 .. Cardinality(S) -> S]
  BY DEF SetToSeqs
<1> DEFINE links == [k \in DOMAIN order |-> LinkEvent(order[k], None)]
           hsr == <<HsrEvent(h, Absent)>>
<1>4. \A l \in S : LinkEvent(l, None) \in Event
  BY EventTypes, StateTypes DEF SlavesOf
<1>5. links \in [1 .. Cardinality(S) -> Event]
  BY <1>3, <1>4
<1>6. links \in Seq(Event) /\ \A k \in DOMAIN links : links[k].type = "link"
  BY <1>2, <1>5, SeqDef DEF LinkEvent
<1>7. hsr \in Seq(Event) /\ Len(hsr) = 1 /\ hsr[1] = HsrEvent(h, Absent)
  BY EventTypes
<1> HIDE DEF links, hsr, m2
<1>8. events = links \o hsr
  BY <1>1 DEF links, hsr
<1>9. /\ Len(links) \in Nat /\ DOMAIN links = 1 .. Len(links)
      /\ events \in Seq(Event) /\ DOMAIN events = 1 .. Len(links) + 1
      /\ \A k \in 1 .. Len(links) : events[k] = links[k]
      /\ events[Len(links) + 1] = HsrEvent(h, Absent)
  <2>1. /\ Len(links) \in Nat /\ DOMAIN links = 1 .. Len(links)
        /\ events \in Seq(Event) /\ Len(events) = Len(links) + 1
        /\ \A k \in 1 .. Len(links) + 1 :
             events[k] = IF k <= Len(links) THEN links[k]
                         ELSE hsr[k - Len(links)]
    <3>1. /\ events \in Seq(Event) /\ Len(events) = Len(links) + Len(hsr)
          /\ \A k \in 1 .. Len(links) + Len(hsr) :
               events[k] = IF k <= Len(links) THEN links[k]
                           ELSE hsr[k - Len(links)]
      BY <1>6, <1>7, <1>8, ConcatProperties
    <3>2. Len(links) \in Nat /\ DOMAIN links = 1 .. Len(links)
      BY <1>6
    <3> QED BY <1>7, <3>1, <3>2
  <2>2. /\ ~ (Len(links) + 1 <= Len(links))
        /\ (Len(links) + 1) - Len(links) = 1
        /\ Len(links) + 1 \in 1 .. Len(links) + 1
        /\ \A k \in 1 .. Len(links) : k \in 1 .. Len(links) + 1
    BY <2>1
  <2> QED BY <1>7, <2>1, <2>2
<1>10. ASSUME NEW k \in DOMAIN events, NEW g
       PROVE  ~ Creates(events[k], g)
  <2>1. CASE k \in 1 .. Len(links)
    BY <1>6, <1>9, <2>1 DEF Creates
  <2>2. CASE k = Len(links) + 1
    BY <1>9, <2>2 DEF Creates, HsrEvent
  <2> QED BY <1>9, <2>1, <2>2
<1>11. Going(events, h)
  <2>1. Len(links) + 1 \in DOMAIN events
    BY <1>9
  <2> QED BY <1>9, <2>1 DEF Going, Deletes, HsrEvent
<1>12. \A g \in Names : g # h /\ Exists(m, g) => Exists(m2, g)
  BY DEF Exists, SlavesOf, Released, m2
<1> QED
  BY <1>9, <1>10, <1>11, <1>12, HsrTellsUncreated DEF m2

(* Everything that happens outside the daemon.                             *)
LEMMA HsrTellsKernel ==
  ASSUME KernelTypeOK, KernelStep
  PROVE  \E s : HsrTells(master, master', s) /\ queue' = queue \o s
<1> DEFINE Said == \E s : HsrTells(master, master', s) /\ queue' = queue \o s
<1>0. master \in [Links -> LinkState] /\ queue \in Seq(Event)
  BY DEF KernelTypeOK
<1>1. ASSUME NEW l \in Links, NEW e \in Event, e.type = "link",
             queue' = Append(queue, e),
             \A g \in Names : Exists(master, g) => Exists(master', g)
      PROVE  Said
  <2> DEFINE s == <<e>>
  <2>1. s \in Seq(Event) /\ \A k \in DOMAIN s : s[k] = e
    OBVIOUS
  <2>2. queue' = queue \o s
    BY <1>0, <1>1, AppendIsConcat
  <2> HIDE DEF s
  <2>3. HsrTells(master, master', s)
    BY <1>1, <2>1, HsrTellsUncreated DEF Creates
  <2> QED BY <2>2, <2>3
<1>2. ASSUME NEW l \in Links, AddLink(l)
      PROVE  Said
  <2>1. LinkEvent(l, None) \in Event /\ LinkEvent(l, None).type = "link"
    BY EventTypes, StateTypes DEF LinkEvent
  <2>2. \A g \in Names : Exists(master, g) => Exists(master', g)
    BY <1>0, <1>2, StateTypes DEF AddLink, Exists, SlavesOf
  <2> QED BY <1>1, <1>2, <2>1, <2>2 DEF AddLink
<1>3. ASSUME NEW l \in Links, DelLink(l)
      PROVE  Said
  <2> DEFINE s1 == IF master[l] = None THEN <<>> ELSE <<LinkEvent(l, None)>>
             s2 == <<LinkEvent(l, Absent)>>
             s3 == IF master[l] \in Names /\ ~ Exists(master', master[l])
                     THEN <<HsrEvent(master[l], Absent)>> ELSE <<>>
             s == (s1 \o s2) \o s3
  <2>1. /\ master' = [master EXCEPT ![l] = Absent]
        /\ queue' = ((queue \o s1) \o s2) \o s3
    BY <1>3 DEF DelLink
  <2>2. /\ LinkEvent(l, None) \in Event /\ LinkEvent(l, Absent) \in Event
        /\ \A h \in Names : HsrEvent(h, Absent) \in Event
    BY EventTypes, StateTypes
  <2>3. s1 \in Seq(Event) /\ s2 \in Seq(Event) /\ s3 \in Seq(Event)
    BY <2>2
  <2>4. \A h : /\ ~ Creates(LinkEvent(l, None), h)
               /\ ~ Creates(LinkEvent(l, Absent), h)
               /\ \A g : ~ Creates(HsrEvent(g, Absent), h)
    BY DEF Creates, LinkEvent, HsrEvent
  <2>5a. /\ \A k \in DOMAIN s1 : s1[k] = LinkEvent(l, None)
         /\ \A k \in DOMAIN s2 : s2[k] = LinkEvent(l, Absent)
         /\ \A k \in DOMAIN s3 : s3[k] = HsrEvent(master[l], Absent)
    OBVIOUS
  <2>5. /\ \A h : \A k \in DOMAIN s1 : ~ Creates(s1[k], h)
        /\ \A h : \A k \in DOMAIN s2 : ~ Creates(s2[k], h)
        /\ \A h : \A k \in DOMAIN s3 : ~ Creates(s3[k], h)
    <3> HIDE DEF s1, s2, s3
    <3> QED BY <2>4, <2>5a
  <2>6. \A h \in Names : Exists(master, h) => Going(s3, h) \/ Exists(master', h)
    <3>1. ASSUME NEW h \in Names, Exists(master, h), ~ Exists(master', h)
          PROVE  Going(s3, h)
      <4>1. master[l] = h
        BY <1>0, <2>1, <3>1 DEF Exists, SlavesOf
      <4>2. s3 = <<HsrEvent(h, Absent)>>
        BY <3>1, <4>1
      <4>3. 1 \in DOMAIN s3 /\ s3[1] = HsrEvent(h, Absent)
        BY <4>2
      <4> QED BY <4>3 DEF Going, Deletes, HsrEvent
    <3> QED BY <3>1
  <2> HIDE DEF s1, s2, s3
  <2>7. queue' = queue \o s /\ s \in Seq(Event)
    <3>1. /\ s1 \o s2 \in Seq(Event) /\ s \in Seq(Event)
          /\ (queue \o s1) \o s2 = queue \o (s1 \o s2)
      BY <1>0, <2>3
    <3>2. (queue \o (s1 \o s2)) \o s3 = queue \o s
      <4> DEFINE s12 == s1 \o s2
      <4>1. s12 \in Seq(Event)
        BY <3>1
      <4> HIDE DEF s12
      <4>2. (queue \o s12) \o s3 = queue \o (s12 \o s3)
        BY <1>0, <2>3, <4>1
      <4> QED BY <4>2 DEF s12
    <3> QED BY <2>1, <3>1, <3>2
  <2>8. HsrTells(master', master', s1) /\ HsrTells(master', master', s2)
    BY <2>3, <2>5, HsrTellsUncreated
  <2>9. HsrTells(master, master', s3)
    BY <2>3, <2>5, <2>6, HsrTellsUncreated
  <2>10. /\ HsrWordTrue(s1 \o s2, master') /\ s1 \o s2 \in Seq(Event)
    BY <2>3, <2>8, HsrWordAppend DEF HsrTells
  <2>11. HsrTells(master', master', s3)
    BY <2>3, <2>5, HsrTellsUncreated
  <2>12. /\ HsrWordTrue(s, master')
         /\ \A h : Going(s3, h) => Going(s, h)
    BY <2>10, <2>11, HsrWordAppend
  <2>13. HsrTells(master, master', s)
    BY <2>6, <2>7, <2>12 DEF HsrTells
  <2> QED BY <2>7, <2>13
<1>4. ASSUME NEW l \in Links, Release(l)
      PROVE  Said
  <2>1. LinkEvent(l, None) \in Event /\ LinkEvent(l, None).type = "link"
    BY EventTypes, StateTypes DEF LinkEvent
  <2>2. \A g \in Names : Exists(master, g) => Exists(master', g)
    BY <1>0, <1>4, DistinctAssumption DEF Release, Exists, SlavesOf
  <2> QED BY <1>1, <1>4, <2>1, <2>2 DEF Release
<1>5. ASSUME NEW l \in Links, NEW b \in Bridges, Enslave(l, b)
      PROVE  Said
  <2>1. LinkEvent(l, b) \in Event /\ LinkEvent(l, b).type = "link"
    BY EventTypes, StateTypes DEF LinkEvent
  <2>2. \A g \in Names : Exists(master, g) => Exists(master', g)
    BY <1>0, <1>5, DistinctAssumption DEF Enslave, Exists, SlavesOf
  <2> QED BY <1>1, <1>5, <2>1, <2>2 DEF Enslave
<1>6. ASSUME NEW h \in Names, NEW a \in Links, NEW b \in Links, AdminAdd(h, a, b)
      PROVE  Said
  BY <1>0, <1>6, HsrTellsCreate DEF AdminAdd, CreateRequest, CreateReport
<1>7. ASSUME NEW h \in Names, AdminDel(h)
      PROVE  Said
  BY <1>0, <1>7, HsrTellsDelete DEF AdminDel
<1> QED
  BY <1>2, <1>3, <1>4, <1>5, <1>6, <1>7 DEF KernelStep

(* A slave given twice is refused, so that nothing is ever recreated.      *)
LEMMA TwiceIsRefused ==
  ASSUME NEW m, NEW h, NEW a, NEW b, a = b
  PROVE  CreateRequest(m, h, a, b) = m /\ CreateReport(m, h, a, b) = <<>>
BY DEF CreateRequest, CreateReport, CanCreate

KernelRequest ==
  \/ WaitListCreate \/ WaitListRecreate
  \/ CfgCreate \/ CfgReplace \/ CfgRemove

(* What main_check does before a request.                                  *)
LEMMA CheckEnds ==
  ASSUME IInv, CfgCheck
  PROVE  /\ pc = "cfgCheck" /\ job \in Names /\ conf[job] \in Pair
         /\ conf[job][1] \in Links /\ conf[job][2] \in Links
         /\ UNCHANGED <<master, queue, conf, cachedMaster, cachedHsr>>
         /\ \/ /\ Exists(master, job)
               /\ pc' = "cfgReplace" /\ UNCHANGED <<waiting, job, seen>>
            \/ /\ ~ Exists(master, job)
               /\ \A l \in {conf[job][1], conf[job][2]} :
                    master[l] # Absent /\ master[l] \notin Names
               /\ pc' = "cfgCreate" /\ UNCHANGED <<waiting, job, seen>>
            \/ \E n : /\ NodeOf(n, job, conf[job][1], conf[job][2])
                      /\ ~ n.hsrStillExists
                      /\ \A l \in n.busy : master[l] \in Names
                      /\ Enqueue(n)
<1>1. /\ pc = "cfgCheck" /\ job \in Names /\ conf[job] \in Pair
      /\ UNCHANGED <<master, queue, conf, cachedMaster, cachedHsr>>
  BY DEF CfgCheck, IInv, JobFits
<1>2. conf[job][1] \in Links /\ conf[job][2] \in Links
  BY <1>1 DEF Pair
<1> QED BY <1>1, <1>2, CheckOutcome DEF Request

(* What is done to the interface list only.                                *)
LEMMA ListWorkFrame ==
  ASSUME CfgUnlist \/ CfgWritesOutside
  PROVE  /\ pc \in {"poll", "cfgUnlist"} /\ pc' \in {"poll", "crashed"}
         /\ UNCHANGED <<master, queue, conf, cachedMaster, cachedHsr, waiting>>
BY DEF CfgUnlist, CfgWritesOutside, Finish, Crash

(* The steps that ask the kernel at most, and tell it nothing.             *)
OwnWork == Configuration \/ CfgCheck \/ CfgUnlist

LEMMA OwnWorkFrame ==
  ASSUME OwnWork
  PROVE  pc # "crashed" /\ UNCHANGED <<master, queue, cachedMaster, cachedHsr>>
BY DEF OwnWork, Configuration, CfgSet, CfgIncomplete, CfgDelete,
   CfgWritesOutside, Enlist, Deliver, CfgCheck, CfgUnlist

(* What a request of the daemon makes of the kernel's links, and what the  *)
(* kernel says of it.                                                      *)
LEMMA RequestOutcome ==
  ASSUME IInv, KernelRequest
  PROVE  /\ job \in Names /\ UNCHANGED conf
         /\ \/ UNCHANGED <<master, queue>>
            \/ /\ Exists(master, job) /\ master' = Released(master, job)
               /\ \E events \in DeleteEvents(master, job) :
                    queue' = queue \o events
            \/ \E a, b \in Links :
                 /\ CanCreate(master, job, a, b)
                 /\ master' = Enslaved(master, job, a, b)
                 /\ queue' = queue \o CreateEvents(job, a, b)
<1>1. /\ job \in Names /\ UNCHANGED conf
  BY DEF KernelRequest, WaitListCreate, WaitListRecreate, CfgCreate,
     CfgReplace, CfgRemove, IInv, JobFits
<1>2. queue \in Seq(Event) /\ queue = queue \o <<>>
  BY RequestStart
<1>3. ASSUME NEW a \in Links, NEW b \in Links,
             master' = CreateRequest(master, job, a, b),
             queue' = queue \o CreateReport(master, job, a, b)
      PROVE  \/ UNCHANGED <<master, queue>>
             \/ /\ CanCreate(master, job, a, b)
                /\ master' = Enslaved(master, job, a, b)
                /\ queue' = queue \o CreateEvents(job, a, b)
  BY <1>2, <1>3 DEF CreateRequest, CreateReport
<1>4. CASE WaitListCreate
  <2> DEFINE n == NodeNamed(waiting, job)
  <2>1. Waits(waiting, job)
    BY <1>4 DEF WaitListCreate, IInv, JobFits
  <2>2. n \in WaitListNode(Links, Names)
    BY <2>1, RequestStart, NodeNamedIn
  <2>3. n.slave1 \in Links /\ n.slave2 \in Links
    BY <2>2 DEF WaitListNode
  <2>4. \/ UNCHANGED <<master, queue>>
        \/ /\ master' = CreateRequest(master, job, n.slave1, n.slave2)
           /\ queue' = queue \o CreateReport(master, job, n.slave1, n.slave2)
    BY <1>4 DEF WaitListCreate
  <2> HIDE DEF n
  <2> QED BY <1>1, <1>3, <2>3, <2>4
<1>5. CASE WaitListRecreate
  <2> DEFINE n == NodeNamed(waiting, job)
             m == Released(master, job)
  <2>1. /\ CreateRequest(m, job, n.slave2, n.slave2) = m
        /\ CreateReport(m, job, n.slave2, n.slave2) = <<>>
    BY TwiceIsRefused
  <2>2. RecreateSlaves(n)[1] = n.slave2 /\ RecreateSlaves(n)[2] = n.slave2
    BY DEF RecreateSlaves
  <2>3. \/ UNCHANGED <<master, queue>>
        \/ /\ Exists(master, job) /\ master' = m
           /\ \E events \in DeleteEvents(master, job) :
                queue' = queue \o events
        \/ /\ Exists(master, job)
           /\ master' = CreateRequest(m, job, n.slave2, n.slave2)
           /\ \E events \in DeleteEvents(master, job) :
                queue' = (queue \o events)
                           \o CreateReport(m, job, n.slave2, n.slave2)
    BY <1>5, <2>2 DEF WaitListRecreate
  <2> HIDE DEF n
  <2>4. ASSUME NEW events \in DeleteEvents(master, job)
        PROVE  (queue \o events) \o <<>> = queue \o events
    <3>1. events \in Seq(Event)
      BY <1>1, RequestStart, HsrTellsDelete DEF HsrTells
    <3> DEFINE c == queue \o events
    <3>2. c \in Seq(Event)
      BY <1>2, <3>1
    <3> HIDE DEF c
    <3> QED BY <3>2, ConcatEmptySeq DEF c
  <2> QED BY <1>1, <2>1, <2>3, <2>4
<1>6. CASE CfgCreate
  <2>1. conf[job][1] \in Links /\ conf[job][2] \in Links
    BY <1>6 DEF CfgCreate, IInv, JobFits, Pair
  <2> QED BY <1>1, <1>3, <1>6, <2>1 DEF CfgCreate
<1>7. CASE CfgReplace \/ CfgRemove
  BY <1>1, <1>7 DEF CfgReplace, CfgRemove
<1> QED BY <1>4, <1>5, <1>6, <1>7 DEF KernelRequest

(* So it says what it does of HSR links.                                   *)
LEMMA HsrTellsRequest ==
  ASSUME IInv, KernelRequest
  PROVE  \E s : HsrTells(master, master', s) /\ queue' = queue \o s
<1>1. master \in [Links -> LinkState] /\ queue = queue \o <<>> /\ job \in Names
  BY RequestStart, RequestOutcome
<1>2. CASE UNCHANGED <<master, queue>>
  BY <1>1, <1>2, HsrTellsNothing
<1>3. ASSUME NEW events \in DeleteEvents(master, job),
             master' = Released(master, job), queue' = queue \o events
      PROVE  \E s : HsrTells(master, master', s) /\ queue' = queue \o s
  BY <1>1, <1>3, HsrTellsDelete
<1>4. ASSUME NEW a \in Links, NEW b \in Links, CanCreate(master, job, a, b),
             master' = Enslaved(master, job, a, b),
             queue' = queue \o CreateEvents(job, a, b)
      PROVE  \E s : HsrTells(master, master', s) /\ queue' = queue \o s
  <2>1. /\ master' = CreateRequest(master, job, a, b)
        /\ queue' = queue \o CreateReport(master, job, a, b)
    BY <1>4 DEF CreateRequest, CreateReport
  <2> QED BY <1>1, <2>1, HsrTellsCreate
<1> QED BY <1>2, <1>3, <1>4, RequestOutcome

-----------------------------------------------------------------------------
(* Nodes of v that have the bit set have had it in w.                      *)
FlagsOf(v, w) ==
  \A k \in DOMAIN v :
    v[k].hsrStillExists =>
      \E j \in DOMAIN w :
        w[j].hsrStillExists /\ w[j].hsr_name = v[k].hsr_name

LEMMA FlagsOfPart ==
  ASSUME NEW v, NEW w, \A k \in DOMAIN v : \E j \in DOMAIN w : v[k] = w[j]
  PROVE  FlagsOf(v, w)
BY DEF FlagsOf

LEMMA FlagsOfAppend ==
  ASSUME NEW S, NEW u \in Seq(S), NEW w, FlagsOf(u, w),
         NEW n \in S, ~ n.hsrStillExists
  PROVE  FlagsOf(Append(u, n), w)
<1>1. \A k \in DOMAIN Append(u, n) :
        Append(u, n)[k] = n \/ \E j \in DOMAIN u : Append(u, n)[k] = u[j]
  BY AppendProperties2
<1> DEFINE v == Append(u, n)
<1>2. \A k \in DOMAIN v : v[k] = n \/ \E j \in DOMAIN u : v[k] = u[j]
  BY <1>1
<1> HIDE DEF v
<1>3. FlagsOf(v, w)
  BY <1>2 DEF FlagsOf
<1> QED BY <1>3 DEF v

LEMMA FlagsOfHandlers ==
  ASSUME NEW w \in Seq(WaitListNode(Links, Names)), NEW l
  PROVE  \A v \in {w, link_changed_got_busy(w, l), link_deleted(w, l),
                   LinkAppeared(w, l), LinkReleased(w, l)} : FlagsOf(v, w)
<1>1. \A k \in DOMAIN w : w[k] \in WaitListNode(Links, Names)
  OBVIOUS
<1> QED
  BY <1>1 DEF FlagsOf, link_changed_got_busy, link_deleted, LinkAppeared,
     LinkReleased, WaitListNode

(* Requests and the configuration set no bit.                              *)
LEMMA FlagsOfRequest ==
  ASSUME IInv, KernelRequest \/ CfgCheck \/ CfgUnlist \/ Configuration
  PROVE  FlagsOf(waiting', waiting)
<1> DEFINE N == WaitListNode(Links, Names)
<1>1. waiting \in Seq(N)
  BY WaitingType
<1>2. ASSUME NEW h
      PROVE  /\ delete_wait_list_node(waiting, h) \in Seq(N)
             /\ FlagsOf(delete_wait_list_node(waiting, h), waiting)
             /\ \A c : FlagsOf(create_hif(waiting, h, c), waiting)
  BY <1>1, DeleteProperties, CreateProperties, FlagsOfPart
<1>3. FlagsOf(waiting, waiting)
  BY FlagsOfPart
<1>4. CASE WaitListCreate \/ WaitListRecreate \/ CfgCreate \/ CfgRemove
  BY <1>2, <1>3, <1>4
     DEF WaitListCreate, WaitListRecreate, CfgCreate, CfgRemove
<1>5. CASE CfgReplace
  <2> DEFINE n == wait_list_node_alloc(job, conf[job][1], conf[job][2])
  <2>1. pc = "cfgReplace" => n \in N /\ ~ n.hsrStillExists
    BY DEF IInv, JobFits, Pair, wait_list_node_alloc, WaitListNode
  <2> HIDE DEF n
  <2>2. pc = "cfgReplace" => FlagsOf(Append(waiting, n), waiting)
    BY <1>1, <1>3, <2>1, FlagsOfAppend
  <2> QED BY <1>3, <1>5, <2>2 DEF CfgReplace, Requeue, n
<1>6. CASE CfgCheck
  <2>1. CASE waiting' = waiting
    BY <1>3, <2>1
  <2>2. ASSUME NEW n, NodeOf(n, job, conf[job][1], conf[job][2]),
               ~ n.hsrStillExists, Enqueue(n)
        PROVE  FlagsOf(waiting', waiting)
    BY <1>1, <1>3, <2>2, FlagsOfAppend DEF Enqueue, NodeOf
  <2> QED BY <1>6, <2>1, <2>2, CheckEnds
<1>7. CASE CfgUnlist \/ CfgWritesOutside
  BY <1>3, <1>7, ListWorkFrame
<1>8. ASSUME NEW h \in Names, NEW a \in Links, NEW b \in Links, CfgSet(h, a, b)
      PROVE  FlagsOf(waiting', waiting)
  BY <1>2, <1>8 DEF CfgSet
<1>9. ASSUME NEW h \in Names, CfgIncomplete(h) \/ CfgDelete(h)
      PROVE  FlagsOf(waiting', waiting)
  BY <1>2, <1>3, <1>9 DEF CfgIncomplete, CfgDelete
<1> QED
  BY <1>4, <1>5, <1>6, <1>7, <1>8, <1>9 DEF KernelRequest, Configuration
-----------------------------------------------------------------------------
(* Names whose HSR link exists, or whose deletion is on its way.           *)
Heard(q, m, h) == Going(q, h) \/ Exists(m, h)

LEMMA FlagsStayTrue ==
  ASSUME IInv, NEW v, FlagsOf(v, waiting), NEW q, NEW m,
         StillExistsTrue(waiting, queue, master),
         \A h \in Names : Heard(queue, master, h) => Heard(q, m, h)
  PROVE  StillExistsTrue(v, q, m)
<1>1. \A k \in DOMAIN waiting : waiting[k].hsr_name \in Names
  BY WaitingType, SlavesType
<1> QED BY <1>1 DEF StillExistsTrue, FlagsOf, Heard

(* The kernel changes and says so.                                         *)
LEMMA TellKeepsGone ==
  ASSUME IInv, HsrGoneHeardOf, FlagsOf(waiting', waiting),
         UNCHANGED cachedHsr,
         \E s : HsrTells(master, master', s) /\ queue' = queue \o s
  PROVE  HsrGoneHeardOf'
<1>1. PICK s : HsrTells(master, master', s) /\ queue' = queue \o s
  OBVIOUS
<1>2. /\ queue \in Seq(Event) /\ HsrWordTrue(queue, master)
      /\ cachedHsr \subseteq Names
  BY DEF IInv, TypeOK, KernelTypeOK, HsrGoneHeardOf
<1>3. /\ HsrWordTrue(queue', master')
      /\ \A h : Going(queue', h) <=> Going(queue, h) \/ Going(s, h)
  BY <1>1, <1>2, HsrWordAppend
<1>4. \A h \in Names : Heard(queue, master, h) => Heard(queue', master', h)
  BY <1>1, <1>3 DEF HsrTells, Heard
<1>5. StillExistsTrue(waiting', queue', master')
  BY <1>4, FlagsStayTrue DEF HsrGoneHeardOf
<1>6. HsrCacheTrue(cachedHsr', queue', master')
  BY <1>2, <1>4 DEF HsrGoneHeardOf, HsrCacheTrue, Heard
<1> QED BY <1>3, <1>5, <1>6 DEF HsrGoneHeardOf

(* A message about a link says nothing of HSR links.                       *)
LEMMA LinkKeepsGone ==
  ASSUME IInv, HsrGoneHeardOf, NEW l \in Links, NEW old, NEW new,
         ReceiveLink(l, old, new)
  PROVE  /\ HsrWordTrue(queue', master')
         /\ HsrCacheTrue(cachedHsr', queue', master')
         /\ \A h \in Names : Heard(queue, master, h) => Heard(queue', master', h)
<1>1. /\ queue \in Seq(Event) /\ queue # <<>> /\ HsrWordTrue(queue, master)
      /\ Head(queue) = LinkEvent(l, new) /\ queue' = Tail(queue)
      /\ master' = master /\ cachedHsr' = cachedHsr
  BY DEF IInv, TypeOK, KernelTypeOK, HsrGoneHeardOf, ReceiveLink, Receive
<1>2. \A h : ~ Deletes(Head(queue), h)
  BY <1>1 DEF Deletes, LinkEvent
<1>3. /\ HsrWordTrue(Tail(queue), master)
      /\ \A h : Going(queue, h) <=> Going(Tail(queue), h)
  BY <1>1, <1>2, HsrWordTail
<1>4. HsrCacheTrue(cachedHsr, Tail(queue), master)
  BY <1>3 DEF HsrGoneHeardOf, HsrCacheTrue
<1> QED BY <1>1, <1>3, <1>4 DEF Heard

LEMMA LinkFlagsKeepGone ==
  ASSUME IInv, HsrGoneHeardOf, NEW l \in Links, NEW old, NEW new,
         ReceiveLink(l, old, new), FlagsOf(waiting', waiting)
  PROVE  HsrGoneHeardOf'
BY LinkKeepsGone, FlagsStayTrue DEF HsrGoneHeardOf

(* A slave leaves an HSR link that is still in the cache.                  *)
LEMMA LinkReleasedByHsrKeepsGone ==
  ASSUME IInv, HsrGoneHeardOf, LinkReleasedByHsr
  PROVE  HsrGoneHeardOf'
<1>1. PICK l \in Links, old \in cachedHsr, new \in LinkState :
        /\ ReceiveLink(l, old, new)
        /\ waiting' = link_released_hsr_not(waiting, l, old)
  BY DEF LinkReleasedByHsr, Settle
<1>2. /\ HsrWordTrue(queue', master')
      /\ HsrCacheTrue(cachedHsr', queue', master')
      /\ \A h \in Names : Heard(queue, master, h) => Heard(queue', master', h)
  BY <1>1, LinkKeepsGone
<1>3. Heard(queue', master', old)
  BY <1>1, <1>2 DEF HsrCacheTrue, Heard, ReceiveLink
<1>4. \A k \in DOMAIN waiting :
        /\ waiting[k] \in WaitListNode(Links, Names)
        /\ waiting[k].hsr_name \in Names
  BY WaitingType, SlavesType
<1>5. ASSUME NEW k \in DOMAIN waiting', waiting'[k].hsrStillExists
      PROVE  Heard(queue', master', waiting'[k].hsr_name)
  <2>1. /\ k \in DOMAIN waiting
        /\ waiting'[k].hsr_name = waiting[k].hsr_name
        /\ waiting[k].hsrStillExists \/ waiting[k].hsr_name = old
    BY <1>1, <1>4, <1>5 DEF link_released_hsr_not, WaitListNode
  <2> QED
    BY <1>2, <1>3, <1>4, <2>1 DEF HsrGoneHeardOf, StillExistsTrue, Heard
<1> QED BY <1>2, <1>5 DEF HsrGoneHeardOf, StillExistsTrue, Heard

(* An HSR link comes into the cache.                                       *)
LEMMA HsrNewKeepsGone ==
  ASSUME IInv, HsrGoneHeardOf, HsrNew PROVE HsrGoneHeardOf'
<1>1. PICK h \in Names, s \in Links :
        /\ Receive(HsrEvent(h, s)) /\ cachedHsr' = cachedHsr \cup {h}
        /\ waiting' = waiting \/ waiting' = link_changed_got_busy(waiting, s)
  BY DEF HsrNew, Crash, Settle
<1>2. /\ queue \in Seq(Event) /\ queue # <<>> /\ HsrWordTrue(queue, master)
      /\ Head(queue) = HsrEvent(h, s) /\ queue' = Tail(queue)
      /\ master' = master
  BY <1>1 DEF IInv, TypeOK, KernelTypeOK, HsrGoneHeardOf, Receive
<1>3. Creates(Head(queue), h) /\ \A g : ~ Deletes(Head(queue), g)
  <2>1. s # Absent
    BY DistinctAssumption
  <2> QED BY <1>2, <2>1 DEF Creates, Deletes, HsrEvent
<1>4. /\ HsrWordTrue(queue', master')
      /\ Going(queue', h) \/ Exists(master', h)
      /\ \A g : Going(queue, g) <=> Going(queue', g)
  BY <1>2, <1>3, HsrWordTail
<1>5. HsrCacheTrue(cachedHsr', queue', master')
  BY <1>1, <1>2, <1>4 DEF HsrGoneHeardOf, HsrCacheTrue
<1>6. FlagsOf(waiting', waiting)
  BY <1>1, WaitingType, FlagsOfHandlers
<1>7. StillExistsTrue(waiting', queue', master')
  BY <1>2, <1>4, <1>6, FlagsStayTrue DEF HsrGoneHeardOf, Heard
<1> QED BY <1>4, <1>5, <1>7 DEF HsrGoneHeardOf

(* An HSR link leaves the cache, and the bit its node.                     *)
LEMMA HsrDelKeepsGone ==
  ASSUME IInv, HsrGoneHeardOf, HsrDel PROVE HsrGoneHeardOf'
<1>1. PICK h \in cachedHsr :
        /\ Receive(HsrEvent(h, Absent)) /\ cachedHsr' = cachedHsr \ {h}
        /\ waiting' = HsrGone(waiting, h)
  BY DEF HsrDel, WakeOrSettle, Wake, Settle
<1>2. /\ queue \in Seq(Event) /\ queue # <<>> /\ HsrWordTrue(queue, master)
      /\ Head(queue) = HsrEvent(h, Absent) /\ queue' = Tail(queue)
      /\ master' = master
  BY <1>1 DEF IInv, TypeOK, KernelTypeOK, HsrGoneHeardOf, Receive
<1>3. \A g : Deletes(Head(queue), g) => g = h
  BY <1>2 DEF Deletes, HsrEvent
<1>4. /\ HsrWordTrue(queue', master')
      /\ \A g : g # h /\ Going(queue, g) => Going(queue', g)
  BY <1>2, <1>3, HsrWordTail
<1>5. HsrCacheTrue(cachedHsr', queue', master')
  BY <1>1, <1>2, <1>4 DEF HsrGoneHeardOf, HsrCacheTrue
<1>6. \A k \in DOMAIN waiting : waiting[k] \in WaitListNode(Links, Names)
  BY WaitingType
<1>7. ASSUME NEW k \in DOMAIN waiting', waiting'[k].hsrStillExists
      PROVE  Heard(queue', master', waiting'[k].hsr_name)
  <2>1. /\ k \in DOMAIN waiting /\ waiting'[k].hsr_name = waiting[k].hsr_name
        /\ waiting[k].hsrStillExists /\ waiting[k].hsr_name # h
    BY <1>1, <1>6, <1>7 DEF HsrGone, WaitListNode
  <2> QED BY <1>2, <1>4, <2>1 DEF HsrGoneHeardOf, StillExistsTrue, Heard
<1> QED BY <1>4, <1>5, <1>7 DEF HsrGoneHeardOf, StillExistsTrue, Heard

LEMMA GoneStep ==
  ASSUME IInv, HsrGoneHeardOf, [Next]_vars PROVE HsrGoneHeardOf'
<1>0. /\ FlagsOf(waiting, waiting)
      /\ \E s : HsrTells(master, master, s) /\ queue = queue \o s
  <2>1. queue = queue \o <<>>
    BY RequestStart
  <2> QED BY <2>1, FlagsOfPart, HsrTellsNothing
<1>1. CASE Environment
  BY <1>0, <1>1, HsrTellsKernel, TellKeepsGone
     DEF Environment, IInv, TypeOK
<1>2. CASE Configuration
  <2>1. UNCHANGED <<master, queue, cachedHsr>>
    BY <1>2 DEF Configuration, CfgSet, CfgIncomplete, CfgDelete,
       CfgWritesOutside, Enlist, Deliver
  <2> QED BY <1>0, <1>2, <2>1, FlagsOfRequest, TellKeepsGone
<1>3. CASE KernelRequest
  <2>1. UNCHANGED cachedHsr
    BY <1>3 DEF KernelRequest, WaitListCreate, WaitListRecreate, CfgCreate,
       CfgReplace, CfgRemove
  <2> QED BY <1>3, <2>1, HsrTellsRequest, FlagsOfRequest, TellKeepsGone
<1>4. CASE LinkNew \/ LinkDel \/ LinkGotBusy
  <2>1. PICK l \in Links : \E old, new : ReceiveLink(l, old, new)
    BY <1>4 DEF LinkNew, LinkDel, LinkGotBusy
  <2>2. PICK k : waiting' \in {waiting, link_changed_got_busy(waiting, k),
                               link_deleted(waiting, k), LinkAppeared(waiting, k)}
    BY <1>4 DEF LinkNew, LinkDel, LinkGotBusy, Crash, WakeOrSettle, Wake, Settle
  <2>3. FlagsOf(waiting', waiting)
    BY <2>2, WaitingType, FlagsOfHandlers
  <2> QED BY <2>1, <2>3, LinkFlagsKeepGone
<1>5. CASE LinkReleasedByBridge \/ LinkUnaffected
  <2>1. PICK l \in Links : \E old, new : ReceiveLink(l, old, new)
    BY <1>5 DEF LinkReleasedByBridge, LinkUnaffected
  <2>2. PICK k : waiting' \in {waiting, LinkReleased(waiting, k)}
    BY <1>5 DEF LinkReleasedByBridge, LinkUnaffected, Settle, Wake
  <2>3. FlagsOf(waiting', waiting)
    BY <2>2, WaitingType, FlagsOfHandlers
  <2> QED BY <2>1, <2>3, LinkFlagsKeepGone
<1>6. CASE UNCHANGED vars
  BY <1>0, <1>6, TellKeepsGone DEF vars, daemonVars
<1>7. CASE CfgCheck \/ CfgUnlist
  <2>1. UNCHANGED <<master, queue, cachedHsr>>
    BY <1>7, CheckEnds, ListWorkFrame
  <2> QED BY <1>0, <1>7, <2>1, FlagsOfRequest, TellKeepsGone
<1> QED
  BY <1>1, <1>2, <1>3, <1>4, <1>5, <1>6, <1>7, LinkReleasedByHsrKeepsGone,
     HsrNewKeepsGone, HsrDelKeepsGone
     DEF Next, Daemon, Notification, KernelRequest

LEMMA GoneInit == ASSUME Init PROVE HsrGoneHeardOf
BY DEF Init, HsrGoneHeardOf, HsrWordTrue, HsrCacheTrue, StillExistsTrue

(* Once the daemon has heard everything, HSR_STILL_EXISTS is set only on   *)
(* a node whose interface exists: the message that resets it is never      *)
(* missed.                                                                 *)
THEOREM StillExistsIsSound == Spec => []StillExistsSound
<1>1. Init => HsrGoneHeardOf
  BY GoneInit
<1>2. IInv /\ HsrGoneHeardOf /\ [Next]_vars => HsrGoneHeardOf'
  BY GoneStep
<1>3. HsrGoneHeardOf => StillExistsSound
  BY DEF HsrGoneHeardOf, StillExistsTrue, Going, StillExistsSound, Quiescent
<1> QED BY <1>1, <1>2, <1>3, Invariant, PTL DEF Spec

-----------------------------------------------------------------------------
(* What main_check decides holds when it decides it.                       *)

LEMMA MainCheckFinds ==
  ASSUME IInv, CfgCheck
  PROVE  /\ pc' = "cfgCreate" =>
              /\ ~ Exists(master, job) /\ conf[job][1] # conf[job][2]
              /\ \A l \in {conf[job][1], conf[job][2]} :
                   master[l] \in Bridges \cup {None}
         /\ pc' = "cfgReplace" => Exists(master, job)
         /\ pc' \in {"cfgCreate", "cfgReplace"} => job' = job
         /\ pc' \notin {"cfgCreate", "cfgReplace"} =>
              pc' = "poll" /\ Waits(waiting', job)
<1>1. conf[job][1] # conf[job][2]
  BY CheckEnds DEF Pair
<1>2. \A l \in {conf[job][1], conf[job][2]} :
        master[l] # Absent /\ master[l] \notin Names =>
          master[l] \in Bridges \cup {None}
  BY CheckEnds, RequestStart DEF LinkState, Masters
<1>3. ASSUME NEW n, NodeOf(n, job, conf[job][1], conf[job][2]), Enqueue(n)
      PROVE  pc' = "poll" /\ Waits(waiting', job)
  <2>1. /\ Len(waiting) + 1 \in DOMAIN Append(waiting, n)
        /\ Append(waiting, n)[Len(waiting) + 1] = n
    BY <1>3, RequestStart DEF NodeOf
  <2> QED BY <1>3, <2>1 DEF Enqueue, Waits, NodeOf
<1> QED BY <1>1, <1>2, <1>3, CheckEnds

(* Whatever else is done, main_check asks for nothing.                     *)
LEMMA MainCheckEnds ==
  ASSUME \/ Notification \/ KernelRequest \/ CfgUnlist \/ Configuration
  PROVE  pc' \notin {"cfgCreate", "cfgReplace"}
<1>1. CASE Notification
  BY <1>1, NotificationFrame
<1>2. CASE KernelRequest
  BY <1>2 DEF KernelRequest, WaitListCreate, WaitListRecreate, CfgCreate,
     CfgReplace, CfgRemove, Finish, Resume, Due
<1>3. CASE CfgUnlist \/ CfgWritesOutside
  BY <1>3, ListWorkFrame
<1>4. ASSUME NEW h \in Names, NEW a \in Links, NEW b \in Links, CfgSet(h, a, b)
      PROVE  pc' \notin {"cfgCreate", "cfgReplace"}
  BY <1>4 DEF CfgSet, Due
<1>5. ASSUME NEW h \in Names, CfgIncomplete(h) \/ CfgDelete(h)
      PROVE  pc' \notin {"cfgCreate", "cfgReplace"}
  BY <1>5 DEF CfgIncomplete, CfgDelete, Enlist, Deliver, Due
<1> QED BY <1>1, <1>2, <1>3, <1>4, <1>5 DEF Configuration

-----------------------------------------------------------------------------
(* An interface is forgotten by a race only.                               *)

LEMMA RacesStep ==
  ASSUME IInv, MainCheckHolds, [RacesNext]_<<vars, raced>>
  PROVE  MainCheckHolds'
<1>1. CASE Environment /\ raced' = MainCheckRequests
  BY <1>1 DEF Environment, MainCheckRequests, MainCheckHolds
<1>2. CASE CfgCheck
  BY <1>2, CheckEnds, MainCheckFinds DEF MainCheckHolds
<1>3. CASE Notification \/ KernelRequest \/ CfgUnlist \/ Configuration
  BY <1>3, MainCheckEnds DEF MainCheckHolds
<1>4. CASE UNCHANGED <<vars, raced>>
  BY <1>4 DEF vars, daemonVars, MainCheckHolds
<1> QED
  BY <1>1, <1>2, <1>3, <1>4 DEF RacesNext, KernelRequest

(* The requests of main_check end with an answer.                          *)
LEMMA MainCheckAnswered ==
  ASSUME Next, pc \in {"cfgCreate", "cfgReplace"}, pc' # pc
  PROVE  CfgCreate \/ CfgReplace
<1>1. ~ Environment
  BY DEF Environment
<1>2. ~ Configuration
  BY DEF Configuration, CfgSet, CfgIncomplete, CfgDelete, CfgWritesOutside,
     Enlist, Deliver
<1>3. ~ Notification
  BY NotificationFrame
<1>4. /\ ~ WaitListCreate /\ ~ WaitListRecreate
      /\ ~ CfgCheck /\ ~ CfgRemove /\ ~ CfgUnlist
  BY DEF WaitListCreate, WaitListRecreate, CfgCheck, CfgRemove, CfgUnlist
<1> QED BY <1>1, <1>2, <1>3, <1>4 DEF Next, Daemon

(* A request that was not raced does what main_check meant it to do.       *)
LEMMA RacesForget ==
  ASSUME IInv, MainCheckHolds, RacesNext, NEW h \in Names, Forgets(h)
  PROVE  raced \/ \E l \in {conf[h][1], conf[h][2]} : master[l] \in Bridges
<1>1. /\ pc \in {"cfgCreate", "cfgReplace"} /\ pc' # pc /\ job = h
      /\ conf[h] \in Pair
  BY DEF Forgets, MainCheckRequests, IInv, JobFits
<1>2. CfgCreate \/ CfgReplace
  BY <1>1, MainCheckAnswered DEF RacesNext, Next, Daemon
<1>3. SUFFICES ASSUME ~ raced,
                      \A l \in {conf[h][1], conf[h][2]} : master[l] \notin Bridges
               PROVE  FALSE
  OBVIOUS
<1>4. conf[h][1] \in Links /\ conf[h][2] \in Links
  BY <1>1 DEF Pair
<1>5. CASE CfgCreate
  <2>1. CanCreate(master, h, conf[h][1], conf[h][2])
    BY <1>1, <1>3, <1>5 DEF CfgCreate, MainCheckHolds, CanCreate
  <2>2. master' = Enslaved(master, h, conf[h][1], conf[h][2])
    BY <1>1, <1>5, <2>1 DEF CfgCreate, CreateRequest
  <2>3. SlavesOf(master', h) = {conf[h][1], conf[h][2]}
    BY <1>4, <2>1, <2>2, RequestStart, EnslavedSlaves DEF CanCreate
  <2> QED BY <2>3 DEF Forgets
<1>6. CASE CfgReplace
  <2> DEFINE n == wait_list_node_alloc(h, conf[h][1], conf[h][2])
  <2>1. waiting' = Append(waiting, n)
    BY <1>1, <1>3, <1>6 DEF CfgReplace, MainCheckHolds, Requeue
  <2>2. n \in WaitListNode(Links, Names) /\ n.hsr_name = h
    BY <1>4 DEF wait_list_node_alloc, WaitListNode
  <2> HIDE DEF n
  <2>3. Len(waiting) + 1 \in DOMAIN waiting' /\ waiting'[Len(waiting) + 1] = n
    BY <2>1, <2>2, RequestStart
  <2> QED BY <2>2, <2>3 DEF Forgets, Waits
<1> QED BY <1>2, <1>5, <1>6

(* An interface that was just configured is neither created nor waiting    *)
(* only if links were changed between the dump and the request of          *)
(* main_check, or if a slave is in a bridge.                               *)
THEOREM ForgettingNeedsARace == RacesSpec => ForgottenOnlyByRace
<1>1. RacesInit => Init /\ MainCheckHolds
  BY DEF RacesInit, Init, MainCheckHolds
<1>2. RacesNext => Next
  BY DEF RacesNext, Next, Daemon
<1>3. [RacesNext]_<<vars, raced>> => [Next]_vars
  BY <1>2
<1>4. Init => IInv
  BY InitInv
<1>5. IInv /\ [Next]_vars => IInv'
  BY StepKeeps
<1>6. IInv /\ MainCheckHolds /\ [RacesNext]_<<vars, raced>> => MainCheckHolds'
  BY RacesStep
<1>7. IInv /\ MainCheckHolds /\ [RacesNext]_<<vars, raced>> =>
        [\A h \in Names :
           Forgets(h) =>
             raced \/ \E l \in {conf[h][1], conf[h][2]} : master[l] \in Bridges
        ]_<<vars, raced>>
  BY RacesForget
<1> QED
  BY <1>1, <1>3, <1>4, <1>5, <1>6, <1>7, PTL DEF RacesSpec, ForgottenOnlyByRace
-----------------------------------------------------------------------------
(* No configured interface is lost.                                        *)

(* Nodes have the slaves last configured: a handler that changes bits, or  *)
(* one that takes nodes off, changes nothing about that.                   *)
LEMMA ConfiguredSame ==
  ASSUME NodesAsConfigured, UNCHANGED conf,
         \A k \in DOMAIN waiting' : \E j \in DOMAIN waiting :
           /\ waiting'[k].hsr_name = waiting[j].hsr_name
           /\ Slaves(waiting'[k]) = Slaves(waiting[j])
  PROVE  NodesAsConfigured'
BY DEF NodesAsConfigured, Configured, PairOf

(* The same of a node and the next configuration.                          *)
WillFit(n) ==
  conf'[n.hsr_name] \in Pair =>
    Slaves(n) = {conf'[n.hsr_name][1], conf'[n.hsr_name][2]}

LEMMA ConfiguredAppend ==
  ASSUME NEW w \in Seq(WaitListNode(Links, Names)),
         NEW n, NEW h \in Names, NEW a \in Links, NEW b \in Links,
         NodeOf(n, h, a, b), waiting' = Append(w, n),
         conf'[h][1] = a, conf'[h][2] = b,
         \A k \in DOMAIN w : WillFit(w[k])
  PROVE  NodesAsConfigured'
<1>1. \A k \in DOMAIN waiting' :
        waiting'[k] = n \/ \E j \in DOMAIN w : waiting'[k] = w[j]
  <2>1. n \in WaitListNode(Links, Names)
    BY DEF NodeOf
  <2> QED BY <2>1, AppendProperties2
<1>2. n.hsr_name = h /\ Slaves(n) = {conf'[h][1], conf'[h][2]}
  BY DEF NodeOf
<1> QED
  BY <1>1, <1>2 DEF NodesAsConfigured, Configured, PairOf, WillFit

LEMMA CfgSetConfigures ==
  ASSUME IInv, NodesAsConfigured, NEW h \in Names, NEW a \in Links,
         NEW b \in Links, CfgSet(h, a, b)
  PROVE  NodesAsConfigured'
<1>1. /\ conf' = [conf EXCEPT ![h] = <<a, b>>]
      /\ conf \in [Names -> Pair \cup {None, Incomplete}]
      /\ waiting' = delete_wait_list_node(waiting, h)
  BY DEF CfgSet, Enlist, Deliver, IInv, TypeOK
<1>2. /\ waiting' \in Seq(WaitListNode(Links, Names)) /\ ~ Waits(waiting', h)
      /\ \A k \in DOMAIN waiting' : \E j \in DOMAIN waiting :
           waiting'[k] = waiting[j]
  BY <1>1, RequestStart, DeleteProperties
<1>3. ASSUME NEW k \in DOMAIN waiting'
      PROVE  WillFit(waiting'[k])
  <2>1. PICK j \in DOMAIN waiting : waiting'[k] = waiting[j]
    BY <1>2
  <2>2. waiting'[k].hsr_name # h /\ waiting'[k].hsr_name \in Names
    BY <1>2, SlavesType DEF Waits
  <2>3. conf'[waiting'[k].hsr_name] = conf[waiting'[k].hsr_name]
    BY <1>1, <2>2
  <2> QED BY <2>1, <2>3 DEF NodesAsConfigured, Configured, PairOf, WillFit
<1> QED BY <1>3 DEF NodesAsConfigured, Configured, PairOf, WillFit

LEMMA CfgCheckConfigures ==
  ASSUME IInv, NodesAsConfigured, CfgCheck
  PROVE  NodesAsConfigured'
<1>1. CASE waiting' = waiting
  BY <1>1, CheckEnds, ConfiguredSame
<1>2. ASSUME NEW n, NodeOf(n, job, conf[job][1], conf[job][2]), Enqueue(n)
      PROVE  NodesAsConfigured'
  <2>1. /\ job \in Names /\ conf[job][1] \in Links /\ conf[job][2] \in Links
        /\ conf' = conf
    BY CheckEnds
  <2>2. \A k \in DOMAIN waiting : WillFit(waiting[k])
    BY <2>1 DEF NodesAsConfigured, Configured, PairOf, WillFit
  <2> QED BY <1>2, <2>1, <2>2, RequestStart, ConfiguredAppend DEF Enqueue
<1> QED BY <1>1, <1>2, CheckEnds

LEMMA ConfiguredStep ==
  ASSUME IInv, NodesAsConfigured, [Next]_vars PROVE NodesAsConfigured'
<1>1. CASE Environment \/ UNCHANGED vars \/ CfgUnlist \/ CfgWritesOutside
  <2>1. UNCHANGED <<waiting, conf>>
    BY <1>1, ListWorkFrame DEF Environment, vars, daemonVars
  <2> QED BY <2>1 DEF NodesAsConfigured, Configured, PairOf
<1>2. CASE Notification
  <2>1. waiting' = waiting \/ SameNodes(waiting', waiting)
    BY <1>2, NotificationNodes
  <2>2. \A k \in DOMAIN waiting' : \E j \in DOMAIN waiting :
          /\ waiting'[k].hsr_name = waiting[j].hsr_name
          /\ Slaves(waiting'[k]) = Slaves(waiting[j])
    BY <2>1, SameNodesUnique DEF SameNodes
  <2> QED BY <1>2, <2>2, NotificationFrame, ConfiguredSame
<1>3. CASE WaitListCreate \/ WaitListRecreate \/ CfgCreate \/ CfgRemove
  <2>1. /\ \/ waiting' = waiting
           \/ waiting' = delete_wait_list_node(waiting, job)
           \/ \E c : waiting' = create_hif(waiting, job, c)
        /\ UNCHANGED conf
    BY <1>3 DEF WaitListCreate, WaitListRecreate, CfgCreate, CfgRemove
  <2>2. \A k \in DOMAIN waiting' : \E j \in DOMAIN waiting :
          waiting'[k] = waiting[j]
    BY <2>1, RequestStart, DeleteProperties, CreateProperties
  <2> QED BY <2>1, <2>2, ConfiguredSame
<1>4. CASE CfgReplace
  <2>1. CASE waiting' = waiting
    BY <1>4, <2>1, ConfiguredSame DEF CfgReplace
  <2>2. CASE waiting' = Append(waiting, wait_list_node_alloc(job, conf[job][1], conf[job][2]))
    <3>1. /\ job \in Names /\ conf[job][1] \in Links /\ conf[job][2] \in Links
          /\ conf' = conf
      BY <1>4 DEF CfgReplace, IInv, JobFits, Pair
    <3>2. NodeOf(wait_list_node_alloc(job, conf[job][1], conf[job][2]),
                 job, conf[job][1], conf[job][2])
      <4>1. {} \in SUBSET Links
        OBVIOUS
      <4> QED BY <3>1, <4>1, NewNodeFits, ZenonT(30)
    <3>3. \A k \in DOMAIN waiting : WillFit(waiting[k])
      BY <3>1 DEF NodesAsConfigured, Configured, PairOf, WillFit
    <3> QED BY <2>2, <3>1, <3>2, <3>3, RequestStart, ConfiguredAppend
  <2> QED BY <1>4, <2>1, <2>2 DEF CfgReplace, Requeue
<1>5. ASSUME NEW h \in Names, CfgIncomplete(h) \/ CfgDelete(h)
      PROVE  NodesAsConfigured'
  <2>1. /\ conf \in [Names -> Pair \cup {None, Incomplete}]
        /\ conf' = [conf EXCEPT ![h] = None] \/ conf' = [conf EXCEPT ![h] = Incomplete]
    BY <1>5 DEF CfgIncomplete, CfgDelete, Enlist, Deliver, IInv, TypeOK
  <2>2. None \notin Pair /\ Incomplete \notin Pair
    BY DaemonAssumption DEF Pair
  <2>3. \A g : Configured(g)' => g # h /\ (g \in Names => conf'[g] = conf[g])
    BY <2>1, <2>2 DEF Configured
  <2>4. waiting' = waiting \/ waiting' = delete_wait_list_node(waiting, h)
    BY <1>5 DEF CfgIncomplete, CfgDelete
  <2>5. \A k \in DOMAIN waiting' : \E j \in DOMAIN waiting :
          waiting'[k] = waiting[j]
    BY <2>4, RequestStart, DeleteProperties
  <2>6. \A j \in DOMAIN waiting : waiting[j].hsr_name \in Names
    BY WaitingType, SlavesType
  <2> QED BY <2>3, <2>5, <2>6 DEF NodesAsConfigured, Configured, PairOf
<1> QED
  BY <1>1, <1>2, <1>3, <1>4, <1>5, CfgSetConfigures, CfgCheckConfigures
     DEF Next, Daemon, Configuration

LEMMA EnvironmentLoses ==
  ASSUME IInv, Unlost, Environment,
         outside' = outside \cup {kind \in Kinds : Happens(kind)}
  PROVE  Unlost'
<1>1. SUFFICES ASSUME outside' \cap {"vanished", "deleted", "bridged", "raced"} = {}
               PROVE  /\ \A l \in Links : master'[l] \notin Bridges
                      /\ MainCheckSucceeds'
                      /\ pc' # "crashed" => NothingLost'
  BY DEF Unlost
<1>2. outside \cap {"vanished", "deleted", "bridged", "raced"} = {}
  BY <1>1
<1>3. /\ \A l \in Links : master[l] \notin Bridges
      /\ MainCheckSucceeds
      /\ pc # "crashed" => NothingLost
  BY <1>2 DEF Unlost
<1>4. /\ ~ Turns(LinkState \ {Absent}, {Absent})
      /\ ~ Turns(Names, {None})
      /\ ~ Turns({None}, Bridges)
      /\ pc \in {"cfgCreate", "cfgReplace"} => ~ Turns({None}, Names)
  BY <1>1 DEF Kinds, Happens
<1>5. \A l \in Links : Turned(l)
  BY KernelTurns DEF Environment, IInv, TypeOK
<1>6. \A l \in Links :
        \/ master'[l] = master[l]
        \/ master[l] = Absent /\ master'[l] = None
        \/ /\ master[l] = None /\ master'[l] \in Names
           /\ ~ Exists(master, master'[l])
           /\ pc \notin {"cfgCreate", "cfgReplace"}
  BY <1>3, <1>4, <1>5 DEF Turned, Turns
<1>7. UNCHANGED <<conf, waiting, pc, job>>
  BY DEF Environment
<1>8. \A l \in Links : master'[l] \notin Bridges
  BY <1>3, <1>6, DistinctAssumption
<1>9. \A h \in Names : Exists(master, h) => SlavesOf(master', h) = SlavesOf(master, h)
  BY <1>6, DistinctAssumption DEF Exists, SlavesOf
<1>10. MainCheckSucceeds'
  <2>1. pc \in {"cfgCreate", "cfgReplace"} =>
          job \in Names /\ conf[job][1] \in Links /\ conf[job][2] \in Links
    BY DEF IInv, JobFits, Pair
  <2>2. CASE pc = "cfgCreate"
    <3>1. CanCreate(master, job, conf[job][1], conf[job][2])
      BY <1>3, <2>2 DEF MainCheckSucceeds
    <3>2. ~ Exists(master', job)
      BY <1>6, <2>1, <2>2, <3>1, DistinctAssumption DEF CanCreate, Exists, SlavesOf
    <3>3. master'[conf[job][1]] = None /\ master'[conf[job][2]] = None
      BY <1>6, <2>1, <2>2, <3>1, DistinctAssumption DEF CanCreate
    <3> QED BY <1>7, <2>2, <3>1, <3>2, <3>3 DEF MainCheckSucceeds, CanCreate
  <2>3. CASE pc = "cfgReplace"
    <3>1. Exists(master, job)
      BY <1>3, <2>3 DEF MainCheckSucceeds
    <3>2. Exists(master', job)
      BY <1>9, <2>1, <2>3, <3>1 DEF Exists
    <3> QED BY <1>7, <2>3, <3>2 DEF MainCheckSucceeds
  <2> QED BY <1>7, <2>2, <2>3 DEF MainCheckSucceeds
<1>11. pc' # "crashed" => NothingLost'
  <2>1. \A h \in Names : Configured(h) => PairOf(h) # {}
    BY DEF PairOf
  <2> QED BY <1>3, <1>7, <1>9, <2>1 DEF NothingLost, Configured, PairOf, Exists
<1> QED BY <1>8, <1>10, <1>11

(* An interface that waits or exists as configured does so after a step    *)
(* that leaves its configuration and, if it exists, its slaves alone.      *)
LEMMA StaysFound ==
  ASSUME IInv, NodesAsConfigured, [Next]_vars, NEW g \in Names,
         Configured(g), conf'[g] = conf[g],
         \/ Waits(waiting, g)
         \/ /\ SlavesOf(master, g) = PairOf(g)
            /\ SlavesOf(master', g) = SlavesOf(master, g)
  PROVE  Waits(waiting', g) \/ SlavesOf(master', g) = PairOf(g)
<1>1. SUFFICES ASSUME Waits(waiting, g)
               PROVE  Waits(waiting', g) \/ SlavesOf(master', g) = PairOf(g)
  OBVIOUS
<1>2. PICK k \in DOMAIN waiting : waiting[k].hsr_name = g
  BY <1>1 DEF Waits
<1>3. Spared(k)
  BY StepSpares
<1>4. conf[g] # None
  BY DaemonAssumption DEF Configured, Pair
<1>5. Slaves(waiting[k]) = PairOf(g)
  BY <1>2 DEF NodesAsConfigured
<1> QED BY <1>2, <1>3, <1>4, <1>5 DEF Spared, CreatedAsConfigured

LEMMA RequestLoses ==
  ASSUME IInv, NodesAsConfigured, Unlost, KernelRequest, UNCHANGED outside
  PROVE  Unlost'
<1>1. SUFFICES ASSUME outside \cap {"vanished", "deleted", "bridged", "raced"} = {}
               PROVE  /\ \A l \in Links : master'[l] \notin Bridges
                      /\ MainCheckSucceeds'
                      /\ NothingLost'
  BY DEF Unlost
<1>2. /\ \A l \in Links : master[l] \notin Bridges
      /\ MainCheckSucceeds
      /\ NothingLost
  <2>1. pc # "crashed"
    BY DEF KernelRequest, WaitListCreate, WaitListRecreate, CfgCreate,
       CfgReplace, CfgRemove
  <2> QED BY <1>1, <2>1 DEF Unlost
<1>3. master \in [Links -> LinkState]
  BY RequestStart
<1>4. \A l \in Links : master'[l] \notin Bridges
  BY <1>2, <1>3, RequestOutcome, DistinctAssumption DEF Released, Enslaved
<1>5. MainCheckSucceeds'
  BY MainCheckEnds DEF MainCheckSucceeds
<1>6. \A g \in Names : g # job => SlavesOf(master', g) = SlavesOf(master, g)
  BY <1>3, RequestOutcome, DistinctAssumption
     DEF Released, Enslaved, SlavesOf, CanCreate
<1>7. ASSUME NEW g \in Names, Configured(g)
      PROVE  Waits(waiting', g) \/ SlavesOf(master', g) = PairOf(g)
  <2>1. [Next]_vars /\ conf' = conf
    BY RequestOutcome DEF Next, Daemon, KernelRequest
  <2>2. CASE Waits(waiting, g) \/ g # job
    <3>1. \/ Waits(waiting, g)
          \/ /\ SlavesOf(master, g) = PairOf(g)
             /\ SlavesOf(master', g) = SlavesOf(master, g)
      BY <1>2, <1>6, <1>7, <2>2 DEF NothingLost
    <3> QED BY <1>7, <2>1, <3>1, StaysFound
  <2>3. CASE ~ Waits(waiting, g) /\ g = job
    <3>1. CfgCreate \/ CfgReplace
      <4>1. conf[job] # None
        BY <1>7, <2>3, DaemonAssumption DEF Configured, Pair
      <4> QED BY <2>3, <4>1 DEF KernelRequest, WaitListCreate, WaitListRecreate,
              CfgRemove, IInv, JobFits
    <3>2. conf[g][1] \in Links /\ conf[g][2] \in Links
      BY <1>7 DEF Configured, Pair
    <3>3. CASE CfgCreate
      <4>1. CanCreate(master, g, conf[g][1], conf[g][2])
        BY <1>2, <2>3, <3>3 DEF CfgCreate, MainCheckSucceeds
      <4>2. master' = Enslaved(master, g, conf[g][1], conf[g][2])
        BY <2>3, <3>3, <4>1 DEF CfgCreate, CreateRequest
      <4> QED BY <1>3, <3>2, <4>1, <4>2, EnslavedSlaves DEF CanCreate, PairOf
    <3>4. CASE CfgReplace
      <4> DEFINE n == wait_list_node_alloc(g, conf[g][1], conf[g][2])
      <4>1. waiting' = Append(waiting, n)
        BY <1>2, <2>3, <3>4 DEF CfgReplace, MainCheckSucceeds, Requeue
      <4>2. n \in WaitListNode(Links, Names) /\ n.hsr_name = g
        BY <3>2 DEF wait_list_node_alloc, WaitListNode
      <4> HIDE DEF n
      <4>3. Len(waiting) + 1 \in DOMAIN waiting' /\ waiting'[Len(waiting) + 1] = n
        BY <4>1, <4>2, RequestStart
      <4> QED BY <4>2, <4>3 DEF Waits
    <3> QED BY <3>1, <3>3, <3>4
  <2> QED BY <2>2, <2>3
<1>8. NothingLost'
  BY <1>7, RequestOutcome DEF NothingLost, Configured, PairOf
<1> QED BY <1>4, <1>5, <1>8

LEMMA ConfigurationLoses ==
  ASSUME IInv, NodesAsConfigured, Unlost, Configuration, UNCHANGED outside
  PROVE  Unlost'
<1>1. SUFFICES ASSUME outside \cap {"vanished", "deleted", "bridged", "raced"} = {}
               PROVE  /\ \A l \in Links : master'[l] \notin Bridges
                      /\ MainCheckSucceeds'
                      /\ NothingLost'
  BY DEF Unlost
<1>2. /\ pc = "poll" /\ master' = master /\ [Next]_vars
      /\ conf \in [Names -> Pair \cup {None, Incomplete}]
  BY DEF Configuration, CfgSet, CfgIncomplete, CfgDelete, CfgWritesOutside,
     Enlist, Deliver, Next, IInv, TypeOK
<1>3. /\ \A l \in Links : master[l] \notin Bridges
      /\ NothingLost
  BY <1>1, <1>2 DEF Unlost
<1>4. \A g \in Names : Configured(g) =>
        Waits(waiting, g) \/ SlavesOf(master, g) = PairOf(g)
  BY <1>2, <1>3 DEF NothingLost
<1>5. MainCheckSucceeds'
  BY MainCheckEnds DEF MainCheckSucceeds
<1>6. ASSUME NEW h \in Names, NEW a \in Links, NEW b \in Links, CfgSet(h, a, b)
      PROVE  NothingLost'
  <2>1. conf' = [conf EXCEPT ![h] = <<a, b>>] /\ pc' = "cfgCheck" /\ job' = h
    BY <1>6 DEF CfgSet, Enlist, Deliver, Due
  <2>2. ASSUME NEW g \in Names, g # h, Configured(g)
        PROVE  Waits(waiting', g) \/ SlavesOf(master', g) = PairOf(g)
    BY <1>2, <1>4, <2>1, <2>2, StaysFound
  <2>3. \A g \in Names : g # h => conf'[g] = conf[g]
    BY <1>2, <2>1
  <2> QED BY <2>1, <2>2, <2>3 DEF NothingLost, Configured, PairOf
<1>7. ASSUME NEW h \in Names, CfgIncomplete(h) \/ CfgDelete(h)
      PROVE  NothingLost'
  <2>1. conf' = [conf EXCEPT ![h] = None] \/ conf' = [conf EXCEPT ![h] = Incomplete]
    BY <1>7 DEF CfgIncomplete, CfgDelete, Enlist, Deliver
  <2>2. None \notin Pair /\ Incomplete \notin Pair
    BY DaemonAssumption DEF Pair
  <2>3. \A g \in Names : conf'[g] \in Pair => conf'[g] = conf[g]
    BY <1>2, <2>1, <2>2
  <2>4. ASSUME NEW g \in Names, conf'[g] \in Pair
        PROVE  Waits(waiting', g) \/ SlavesOf(master', g) = PairOf(g)
    <3>1. Configured(g) /\ conf'[g] = conf[g]
      BY <2>3, <2>4 DEF Configured
    <3> QED BY <1>2, <1>4, <3>1, StaysFound
  <2> QED BY <2>3, <2>4 DEF NothingLost, Configured, PairOf
<1>8. ASSUME CfgWritesOutside
      PROVE  NothingLost'
  BY <1>2, <1>4, <1>8, ListWorkFrame DEF NothingLost, Configured, PairOf
<1> QED BY <1>2, <1>3, <1>5, <1>6, <1>7, <1>8 DEF Configuration

(* main_check goes on to a request that will succeed, or lets the          *)
(* interface wait.                                                         *)
LEMMA CheckLoses ==
  ASSUME IInv, NodesAsConfigured, Unlost, CfgCheck, UNCHANGED outside
  PROVE  Unlost'
<1>1. SUFFICES ASSUME outside \cap {"vanished", "deleted", "bridged", "raced"} = {}
               PROVE  /\ \A l \in Links : master'[l] \notin Bridges
                      /\ MainCheckSucceeds'
                      /\ NothingLost'
  BY DEF Unlost
<1>2. /\ pc = "cfgCheck" /\ UNCHANGED <<master, conf>> /\ [Next]_vars
      /\ conf[job][1] \in Links /\ conf[job][2] \in Links
  BY CheckEnds DEF Next, Daemon
<1>3. /\ \A l \in Links : master[l] \notin Bridges
      /\ NothingLost
  BY <1>1, <1>2 DEF Unlost
<1>4. MainCheckSucceeds'
  BY <1>2, <1>3, MainCheckFinds DEF MainCheckSucceeds, CanCreate
<1>5. ASSUME NEW g \in Names, Configured(g), g # job
      PROVE  Waits(waiting', g) \/ SlavesOf(master', g) = PairOf(g)
  BY <1>2, <1>3, <1>5, StaysFound DEF NothingLost
<1>6. \/ Waits(waiting', job)
      \/ pc' \in {"cfgCreate", "cfgReplace"} /\ job' = job
  BY MainCheckFinds
<1>7. NothingLost'
  BY <1>2, <1>5, <1>6 DEF NothingLost, Configured, PairOf
<1> QED BY <1>2, <1>3, <1>4, <1>7

LEMMA ListWorkLoses ==
  ASSUME IInv, Unlost, CfgUnlist, UNCHANGED outside
  PROVE  Unlost'
<1>1. /\ pc = "cfgUnlist" /\ pc' = "poll"
      /\ UNCHANGED <<master, conf, waiting>>
  BY DEF CfgUnlist, Finish
<1> QED BY <1>1 DEF Unlost, MainCheckSucceeds, NothingLost, Configured, PairOf

LEMMA NotificationLoses ==
  ASSUME IInv, NodesAsConfigured, Unlost, Notification, UNCHANGED outside
  PROVE  Unlost'
<1>1. /\ pc \in {"poll", "drain"} /\ pc' \notin {"cfgCreate", "cfgReplace"}
      /\ UNCHANGED <<master, conf>> /\ [Next]_vars
  BY NotificationFrame DEF Next, Daemon
<1>2. MainCheckSucceeds'
  BY <1>1 DEF MainCheckSucceeds
<1>3. ASSUME NothingLost
      PROVE  NothingLost'
  <2>1. ASSUME NEW g \in Names, Configured(g)
        PROVE  Waits(waiting', g) \/ SlavesOf(master', g) = PairOf(g)
    BY <1>1, <1>3, <2>1, StaysFound DEF NothingLost
  <2> QED BY <1>1, <2>1 DEF NothingLost, Configured, PairOf
<1> QED BY <1>1, <1>2, <1>3 DEF Unlost

(* A configured interface is lost only after a link has vanished or was    *)
(* put into a bridge, another process has deleted an HSR link, or one has  *)
(* taken a link that main_check had just found free.                       *)
THEOREM LossHasACause == OutsideSpec => []LossNeedsLostLink
<1>1. ASSUME OutsideInit
      PROVE  Init /\ NodesAsConfigured /\ Unlost
  <2>1. \A h \in Names : ~ Configured(h)
    BY <1>1, DaemonAssumption DEF OutsideInit, Init, Configured, Pair
  <2>2. /\ waiting = <<>> /\ pc = "poll"
        /\ (\E l \in Links : master[l] \in Bridges) => "bridged" \in outside
    BY <1>1 DEF OutsideInit, Init
  <2>3. Unlost
    BY <2>1, <2>2 DEF Unlost, MainCheckSucceeds, NothingLost
  <2> QED BY <1>1, <2>2, <2>3 DEF OutsideInit, NodesAsConfigured
<1>2. [OutsideNext]_<<vars, outside>> => [Next]_vars
  BY OutsideSteps
<1>3. Init => IInv
  BY InitInv
<1>4. IInv /\ [Next]_vars => IInv'
  BY StepKeeps
<1>5. IInv /\ NodesAsConfigured /\ [Next]_vars => NodesAsConfigured'
  BY ConfiguredStep
<1>6. ASSUME IInv, NodesAsConfigured, Unlost, [OutsideNext]_<<vars, outside>>
      PROVE  Unlost'
  <2>1. CASE UNCHANGED <<vars, outside>>
    BY <1>6, <2>1 DEF vars, daemonVars, Unlost, MainCheckSucceeds, NothingLost,
       Configured, PairOf
  <2> QED
    BY <1>6, <2>1, EnvironmentLoses, ConfigurationLoses, NotificationLoses,
       RequestLoses, CheckLoses, ListWorkLoses
       DEF OutsideNext, OthersAct, ConfdbAsks, Reacts, Daemon, KernelRequest
<1>7. Unlost => LossNeedsLostLink
  BY DEF Unlost, LossNeedsLostLink, ConfigurationNeverLost, NothingLost,
     Configured, PairOf
<1> QED
  BY <1>1, <1>2, <1>3, <1>4, <1>5, <1>6, <1>7, PTL DEF OutsideSpec

-----------------------------------------------------------------------------
(* The daemon does not crash before a link vanishes, a bridge lets one go, *)
(* a link appears that does not tell its kind, or an HSR link comes back   *)
(* while it is removed.                                                    *)

NoneLeaves == \A l \in Links : ~ Leaving(queue, l)

(* The kernel went from m to m2 and no link has vanished or left a bridge: *)
(* what the messages s do not say, and what their order is.                *)
Gentle(m, m2, s) ==
  /\ s \in Seq(Event)
  /\ \A l \in Links : ~ Leaving(s, l)
  /\ \A h \in Names, f \in Links : \A k \in DOMAIN s :
       s[k] = HsrEvent(h, f) => m[f] # Absent
  /\ \A l \in Links : m[l] \in Bridges =>
       /\ m2[l] = m[l]
       /\ \A k \in DOMAIN s : ~ AboutLink(s[k], l)
  /\ \A l \in Links : \A k \in DOMAIN s :
       AboutLink(s[k], l) /\ s[k].up \in Bridges =>
         /\ m2[l] = s[k].up
         /\ \A j \in DOMAIN s : j > k => ~ AboutLink(s[j], l)
  /\ \A l \in Links : \A k \in DOMAIN s :
       Announces(s[k], l) => m[l] # Absent \/ m2[l] # Absent

LEMMA GentleNothing == ASSUME NEW m PROVE Gentle(m, m, <<>>)
BY DEF Gentle, Leaving

(* A single message about a link.                                          *)
LEMMA GentleLink ==
  ASSUME NEW m, NEW m2, NEW l \in Links, NEW up \in LinkState \ {Absent},
         m2 = [m EXCEPT ![l] = up], m \in [Links -> LinkState],
         m[l] \notin Bridges
  PROVE  Gentle(m, m2, <<LinkEvent(l, up)>>)
<1> DEFINE s == <<LinkEvent(l, up)>>
<1>1. s \in Seq(Event) /\ DOMAIN s = {1} /\ s[1] = LinkEvent(l, up)
  BY EventTypes
<1> HIDE DEF s
<1>2. \A k \in DOMAIN s : k = 1
  BY <1>1
<1>3. /\ LinkEvent(l, up).type = "link" /\ LinkEvent(l, up).dev = l
      /\ LinkEvent(l, up).up = up
      /\ \A h, f : HsrEvent(h, f).type = "hsr"
  BY DEF LinkEvent, HsrEvent
<1>4. \A g \in Links : ~ Leaving(s, g)
  BY <1>1, <1>3 DEF Leaving, Withdraws
<1>5. \A g \in Links : \A k \in DOMAIN s : AboutLink(s[k], g) <=> g = l
  BY <1>1, <1>3 DEF AboutLink
<1>6. \A h \in Names, f \in Links : \A k \in DOMAIN s : s[k] # HsrEvent(h, f)
  BY <1>1, <1>3
<1>7. \A g \in Links : \A k \in DOMAIN s : Announces(s[k], g) => m2[g] # Absent
  BY <1>1, <1>3 DEF Announces
<1>8. Gentle(m, m2, s)
  BY <1>1, <1>3, <1>4, <1>5, <1>6, <1>7 DEF Gentle
<1> QED BY <1>8 DEF s

(* The creation of an HSR link.                                            *)
LEMMA GentleCreate ==
  ASSUME NEW m \in [Links -> LinkState], NEW h \in Names,
         NEW a \in Links, NEW b \in Links, CanCreate(m, h, a, b)
  PROVE  Gentle(m, Enslaved(m, h, a, b), CreateEvents(h, a, b))
<1> DEFINE m2 == Enslaved(m, h, a, b)
           s == CreateEvents(h, a, b)
           E == {HsrEvent(h, a), LinkEvent(a, h), LinkEvent(b, h)}
<1>1. /\ HsrEvent(h, a) \in Event
      /\ LinkEvent(a, h) \in Event /\ LinkEvent(b, h) \in Event
  BY EventTypes, StateTypes
<1>2. s \in Seq(Event) /\ \A k \in DOMAIN s : s[k] \in E
  BY <1>1 DEF CreateEvents
<1>3. /\ m[a] = None /\ m[b] = None /\ None \notin Bridges /\ None # Absent
      /\ h \notin Bridges /\ h # Absent
  BY DistinctAssumption DEF CanCreate
<1>4. \A e \in E : \A l \in Links :
        /\ ~ Withdraws(e, l)
        /\ AboutLink(e, l) => l \in {a, b} /\ e.up = h
        /\ \A g \in Names : e = HsrEvent(g, l) => l = a
  BY <1>3 DEF Withdraws, AboutLink, HsrEvent, LinkEvent
<1>5. \A l \in Links : m[l] \in Bridges => l \notin {a, b} /\ m2[l] = m[l]
  BY <1>3 DEF Enslaved
<1>6. \A e \in E : \A l \in Links : Announces(e, l) => m[l] # Absent
  BY <1>3 DEF Announces, HsrEvent, LinkEvent
<1> HIDE DEF m2, s, E
<1>7. Gentle(m, m2, s)
  BY <1>2, <1>3, <1>4, <1>5, <1>6 DEF Gentle, Leaving
<1> QED BY <1>7 DEF m2, s

(* The deletion of an HSR link.                                            *)
LEMMA GentleDelete ==
  ASSUME NEW m \in [Links -> LinkState], NEW h \in Names,
         NEW events \in DeleteEvents(m, h)
  PROVE  Gentle(m, Released(m, h), events)
<1> DEFINE S == SlavesOf(m, h)
           m2 == Released(m, h)
<1>1. PICK order \in SetToSeqs(S) :
        events = [k \in DOMAIN order |-> LinkEvent(order[k], None)]
                   \o <<HsrEvent(h, Absent)>>
  BY DEF DeleteEvents
<1>2. Cardinality(S) \in Nat
  BY LinksAssumption, FS_Subset, FS_CardinalityType DEF SlavesOf
<1>3. order \in [1 .. Cardinality(S) -> S]
  BY DEF SetToSeqs
<1> DEFINE links == [k \in DOMAIN order |-> LinkEvent(order[k], None)]
           hsr == <<HsrEvent(h, Absent)>>
           E == {LinkEvent(l, None) : l \in S} \cup {HsrEvent(h, Absent)}
<1>4. links \in [1 .. Cardinality(S) -> E] /\ links \in Seq(E)
  BY <1>2, <1>3, SeqDef
<1>5. hsr \in Seq(E)
  OBVIOUS
<1> HIDE DEF links, hsr, E
<1>6. events \in Seq(E)
  BY <1>1, <1>4, <1>5 DEF links, hsr
<1>7. E \subseteq Event /\ \A k \in DOMAIN events : events[k] \in E
  BY <1>6, EventTypes, StateTypes DEF E, SlavesOf
<1>8. None # Absent /\ None \notin Bridges /\ h \notin Bridges /\ Absent \notin Links
  BY DistinctAssumption
<1>9. \A e \in E : \A l \in Links :
        /\ ~ Withdraws(e, l)
        /\ AboutLink(e, l) => l \in S /\ e.up = None
        /\ \A g \in Names : e # HsrEvent(g, l)
  BY <1>8 DEF E, Withdraws, AboutLink, HsrEvent, LinkEvent
<1>10. \A l \in Links : m[l] \in Bridges => l \notin S /\ m2[l] = m[l]
  BY <1>8 DEF SlavesOf, Released
<1>11. events \in Seq(Event)
  BY <1>6, <1>7
<1>12. \A l \in S : m[l] # Absent
  BY DistinctAssumption DEF SlavesOf
<1> HIDE DEF S, m2
<1>13. \A l \in Links : \A k \in DOMAIN events :
         Announces(events[k], l) => m[l] # Absent
  BY <1>7, <1>9, <1>12 DEF Announces, AboutLink
<1>14. Gentle(m, m2, events)
  BY <1>7, <1>8, <1>9, <1>10, <1>11, <1>13 DEF Gentle, Leaving
<1> QED BY <1>14 DEF m2

LEMMA GentleRequest ==
  ASSUME IInv, KernelRequest
  PROVE  \E s : Gentle(master, master', s) /\ queue' = queue \o s
<1>1. master \in [Links -> LinkState] /\ queue = queue \o <<>> /\ job \in Names
  BY RequestStart, RequestOutcome
<1>2. CASE UNCHANGED <<master, queue>>
  BY <1>1, <1>2, GentleNothing
<1>3. ASSUME NEW events \in DeleteEvents(master, job),
             master' = Released(master, job), queue' = queue \o events
      PROVE  \E s : Gentle(master, master', s) /\ queue' = queue \o s
  BY <1>1, <1>3, GentleDelete
<1>4. ASSUME NEW a \in Links, NEW b \in Links, CanCreate(master, job, a, b),
             master' = Enslaved(master, job, a, b),
             queue' = queue \o CreateEvents(job, a, b)
      PROVE  \E s : Gentle(master, master', s) /\ queue' = queue \o s
  BY <1>1, <1>4, GentleCreate
<1> QED BY <1>2, <1>3, <1>4, RequestOutcome

LEMMA GentleKernel ==
  ASSUME KernelTypeOK, KernelStep,
         ~ Turns(LinkState \ {Absent}, {Absent}), ~ Turns(Bridges, {None})
  PROVE  \E s : Gentle(master, master', s) /\ queue' = queue \o s
<1> DEFINE Said == \E s : Gentle(master, master', s) /\ queue' = queue \o s
<1>1. master \in [Links -> LinkState] /\ queue \in Seq(Event)
  BY DEF KernelTypeOK
<1>2. ASSUME NEW l \in Links, NEW up \in LinkState \ {Absent},
             master' = [master EXCEPT ![l] = up], master[l] \notin Bridges,
             queue' = Append(queue, LinkEvent(l, up))
      PROVE  Said
  <2>1. LinkEvent(l, up) \in Event
    BY EventTypes
  <2>2. queue' = queue \o <<LinkEvent(l, up)>>
    BY <1>1, <1>2, <2>1, AppendIsConcat
  <2> QED BY <1>1, <1>2, <2>2, GentleLink
<1>3. ASSUME NEW l \in Links, AddLink(l)
      PROVE  Said
  BY <1>2, <1>3, StateTypes DEF AddLink
<1>4. ASSUME NEW l \in Links, DelLink(l)
      PROVE  FALSE
  BY <1>1, <1>4 DEF DelLink, Turns
<1>5. ASSUME NEW l \in Links, Release(l)
      PROVE  FALSE
  BY <1>1, <1>5 DEF Release, Turns
<1>6. ASSUME NEW l \in Links, NEW b \in Bridges, Enslave(l, b)
      PROVE  Said
  BY <1>2, <1>6, StateTypes, DistinctAssumption DEF Enslave
<1>7. ASSUME NEW h \in Names, NEW a \in Links, NEW b \in Links, AdminAdd(h, a, b)
      PROVE  Said
  BY <1>1, <1>7, GentleCreate DEF AdminAdd
<1>8. ASSUME NEW h \in Names, AdminDel(h)
      PROVE  Said
  BY <1>1, <1>8, GentleDelete DEF AdminDel
<1> QED BY <1>3, <1>4, <1>5, <1>6, <1>7, <1>8 DEF KernelStep

(* What the daemon relies on when it reads messages without looking twice. *)
QueueSound ==
  NoneLeaves /\ FirstSlavesKnown /\ BridgePortsStay /\ KindlessKnown

LEMMA GentleKeeps ==
  ASSUME IInv, QueueSound, NEW s, Gentle(master, master', s),
         queue' = queue \o s, UNCHANGED cachedMaster,
         \A l \in Kindless : master[l] = Absent => master'[l] = Absent
  PROVE  QueueSound'
<1>1. queue \in Seq(Event) /\ s \in Seq(Event)
  BY DEF IInv, TypeOK, KernelTypeOK, Gentle
<1>2. Joined(queue', queue, s)
  BY <1>1, ConcatParts
<1>3. NoneLeaves'
  BY <1>2 DEF QueueSound, NoneLeaves, Leaving, Gentle, Joined
<1>4. FirstSlavesKnown'
  <2>1. SUFFICES ASSUME NEW h \in Names, NEW f \in Links, NEW k \in DOMAIN queue',
                        queue'[k] = HsrEvent(h, f)
                 PROVE  \/ cachedMaster[f] # Absent
                        \/ \E j \in DOMAIN queue' :
                             j < k /\ Announces(queue'[j], f)
    BY DEF FirstSlavesKnown
  <2>2. CASE k \in DOMAIN queue /\ queue'[k] = queue[k]
    <3>1. \/ cachedMaster[f] # Absent
          \/ \E j \in DOMAIN queue : j < k /\ Announces(queue[j], f)
      BY <2>1, <2>2 DEF QueueSound, FirstSlavesKnown
    <3> QED BY <1>2, <3>1 DEF Joined
  <2>3. ASSUME NEW i \in DOMAIN s, k = Len(queue) + i, queue'[k] = s[i]
        PROVE  \/ cachedMaster[f] # Absent
               \/ \E j \in DOMAIN queue' : j < k /\ Announces(queue'[j], f)
    <3>1. master[f] # Absent
      BY <2>1, <2>3 DEF Gentle
    <3>2. cachedMaster[f] # Absent \/ Coming(queue, f)
      BY <3>1 DEF IInv, NothingStaleForGood, CacheTrue
    <3> QED BY <1>2, <2>3, <3>2 DEF Joined, Coming
  <2> QED BY <1>2, <2>2, <2>3 DEF Joined
<1>5. BridgePortsStay'
  <2>1. ASSUME NEW l \in Links, cachedMaster[l] \in Bridges
        PROVE  /\ master'[l] = cachedMaster[l]
               /\ \A k \in DOMAIN queue' : ~ AboutLink(queue'[k], l)
    BY <1>2, <2>1 DEF Joined, QueueSound, BridgePortsStay, Gentle
  <2>2. ASSUME NEW l \in Links, NEW k \in DOMAIN queue',
               AboutLink(queue'[k], l), queue'[k].up \in Bridges
        PROVE  /\ master'[l] = queue'[k].up
               /\ \A j \in DOMAIN queue' : j > k => ~ AboutLink(queue'[j], l)
    <3>1. CASE k \in DOMAIN queue /\ queue'[k] = queue[k]
      <4>1. /\ master[l] = queue[k].up /\ master[l] \in Bridges
            /\ \A j \in DOMAIN queue : j > k => ~ AboutLink(queue[j], l)
        BY <2>2, <3>1 DEF QueueSound, BridgePortsStay
      <4>2. master'[l] = master[l] /\ \A j \in DOMAIN s : ~ AboutLink(s[j], l)
        BY <4>1 DEF Gentle
      <4> QED BY <1>2, <3>1, <4>1, <4>2 DEF Joined
    <3>2. ASSUME NEW i \in DOMAIN s, k = Len(queue) + i, queue'[k] = s[i]
          PROVE  /\ master'[l] = queue'[k].up
                 /\ \A j \in DOMAIN queue' : j > k => ~ AboutLink(queue'[j], l)
      <4>1. /\ master'[l] = s[i].up
            /\ \A j \in DOMAIN s : j > i => ~ AboutLink(s[j], l)
        BY <2>2, <3>2 DEF Gentle
      <4>2. \A j \in DOMAIN queue : ~ (j > k)
        BY <1>2, <3>2 DEF Joined
      <4>3. \A j \in DOMAIN s : Len(queue) + j > k => j > i
        BY <1>2, <3>2 DEF Joined
      <4> QED BY <1>2, <3>2, <4>1, <4>2, <4>3 DEF Joined
    <3> QED BY <1>2, <3>1, <3>2 DEF Joined
  <2> QED BY <2>1, <2>2 DEF BridgePortsStay
<1>6. KindlessKnown'
  <2>1. SUFFICES ASSUME NEW l \in Kindless, NEW k \in DOMAIN queue',
                        Announces(queue'[k], l)
                 PROVE  cachedMaster[l] # Absent
    BY DEF KindlessKnown
  <2>2. l \in Links
    BY DaemonAssumption
  <2>3. CASE k \in DOMAIN queue /\ queue'[k] = queue[k]
    BY <2>1, <2>3 DEF QueueSound, KindlessKnown
  <2>4. ASSUME NEW i \in DOMAIN s, queue'[k] = s[i]
        PROVE  cachedMaster[l] # Absent
    <3>1. master[l] # Absent
      BY <2>1, <2>2, <2>4 DEF Gentle
    <3>2. cachedMaster[l] # Absent \/ Coming(queue, l)
      BY <2>2, <3>1 DEF IInv, NothingStaleForGood, CacheTrue
    <3> QED BY <3>2 DEF QueueSound, KindlessKnown, Coming
  <2> QED BY <1>2, <2>3, <2>4 DEF Joined
<1> QED BY <1>3, <1>4, <1>5, <1>6 DEF QueueSound

(* A message is read: the cache follows a link, or an HSR link is heard of.*)
LEMMA ReadingKeeps ==
  ASSUME IInv, QueueSound, NEW e, Receive(e),
         \/ e.type = "hsr" /\ UNCHANGED cachedMaster
         \/ \E l \in Links, new \in LinkState \ {Absent} :
              /\ e = LinkEvent(l, new)
              /\ cachedMaster' = [cachedMaster EXCEPT ![l] = new]
  PROVE  QueueSound'
<1>1. /\ queue \in Seq(Event) /\ queue # <<>> /\ queue' = Tail(queue)
      /\ e = Head(queue) /\ UNCHANGED master
      /\ cachedMaster \in [Links -> LinkState]
  BY DEF IInv, TypeOK, KernelTypeOK, Receive
<1>2. e = queue[1] /\ Remains(queue', queue)
  BY <1>1, TailParts
<1>3. /\ \A f \in Links : cachedMaster[f] # Absent => cachedMaster'[f] # Absent
      /\ \A f \in Links : Announces(e, f) => cachedMaster'[f] # Absent
      /\ \A f \in Links : \/ cachedMaster'[f] = cachedMaster[f]
                          \/ AboutLink(e, f) /\ e.up = cachedMaster'[f]
  <2>1. CASE e.type = "hsr" /\ UNCHANGED cachedMaster
    BY <2>1 DEF Announces
  <2>2. ASSUME NEW l \in Links, NEW new \in LinkState \ {Absent},
               e = LinkEvent(l, new),
               cachedMaster' = [cachedMaster EXCEPT ![l] = new]
        PROVE  /\ \A f \in Links : cachedMaster[f] # Absent => cachedMaster'[f] # Absent
               /\ \A f \in Links : Announces(e, f) => cachedMaster'[f] # Absent
               /\ \A f \in Links : \/ cachedMaster'[f] = cachedMaster[f]
                                   \/ AboutLink(e, f) /\ e.up = cachedMaster'[f]
    BY <1>1, <2>2 DEF Announces, AboutLink, LinkEvent
  <2> QED BY <2>1, <2>2
<1>4. NoneLeaves'
  BY <1>2 DEF Remains, QueueSound, NoneLeaves, Leaving
<1>5. FirstSlavesKnown'
  <2>1. SUFFICES ASSUME NEW h \in Names, NEW f \in Links, NEW k \in DOMAIN queue',
                        queue'[k] = HsrEvent(h, f)
                 PROVE  \/ cachedMaster'[f] # Absent
                        \/ \E j \in DOMAIN queue' :
                             j < k /\ Announces(queue'[j], f)
    BY DEF FirstSlavesKnown
  <2>2. \/ cachedMaster[f] # Absent
        \/ \E j \in DOMAIN queue : j < k + 1 /\ Announces(queue[j], f)
    BY <1>2, <2>1 DEF Remains, QueueSound, FirstSlavesKnown
  <2>3. ASSUME NEW j \in DOMAIN queue, j < k + 1, Announces(queue[j], f), j # 1
        PROVE  j - 1 \in DOMAIN queue' /\ j - 1 < k /\ Announces(queue'[j - 1], f)
    BY <1>2, <2>3 DEF Remains
  <2> QED BY <1>2, <1>3, <2>2, <2>3 DEF Remains
<1>6. BridgePortsStay'
  <2>1. ASSUME NEW l \in Links, cachedMaster'[l] \in Bridges
        PROVE  /\ master[l] = cachedMaster'[l]
               /\ \A k \in DOMAIN queue' : ~ AboutLink(queue'[k], l)
    <3>1. \A k \in DOMAIN queue' : k + 1 > 1
      BY <1>2 DEF Remains
    <3> QED BY <1>2, <1>3, <2>1, <3>1 DEF Remains, QueueSound, BridgePortsStay
  <2>2. ASSUME NEW l \in Links, NEW k \in DOMAIN queue',
               AboutLink(queue'[k], l), queue'[k].up \in Bridges
        PROVE  /\ master[l] = queue'[k].up
               /\ \A j \in DOMAIN queue' : j > k => ~ AboutLink(queue'[j], l)
    <3>1. \A j \in DOMAIN queue' : j > k => j + 1 > k + 1
      BY <1>2 DEF Remains
    <3> QED BY <1>2, <2>2, <3>1 DEF Remains, QueueSound, BridgePortsStay
  <2> QED BY <1>1, <2>1, <2>2 DEF BridgePortsStay
<1>7. KindlessKnown'
  <2>1. \A l \in Kindless : \A k \in DOMAIN queue :
          Announces(queue[k], l) => l \in Links /\ cachedMaster[l] # Absent
    BY DaemonAssumption DEF QueueSound, KindlessKnown
  <2> QED BY <1>2, <1>3, <2>1 DEF Remains, KindlessKnown
<1> QED BY <1>4, <1>5, <1>6, <1>7 DEF QueueSound

(* A slave whose NOT_EXISTS bit is not set is there.                       *)
LEMMA NotMissingIsThere ==
  ASSUME NEW q, NEW cm, NEW m, NEW w,
         LastWordTrue(q, m), CacheTrue(cm, q, m), NodesFollow(w, cm, q),
         \A l \in Links : ~ Leaving(q, l),
         NEW k \in DOMAIN w, NEW g \in Links, g \in Slaves(w[k]),
         g \notin w[k].missing
  PROVE  m[g] # Absent
<1>1. cm[g] # Absent \/ Coming(q, g)
  BY DEF NodesFollow
<1>2. CASE cm[g] # Absent
  BY <1>2 DEF CacheTrue
<1>3. CASE Coming(q, g)
  <2>1. PICK j \in DOMAIN q : Announces(q[j], g)
    BY <1>3 DEF Coming
  <2>2. \A i \in DOMAIN q : ~ Withdraws(q[i], g)
    BY DEF Leaving
  <2> QED BY <2>1, <2>2 DEF LastWordTrue
<1> QED BY <1>1, <1>2, <1>3

(* So the dump before the request shows the slaves of a node that is       *)
(* started because no NOT_EXISTS bit is set.                               *)
LEMMA WakeShows ==
  ASSUME IInv', NoneLeaves', UNCHANGED master, NEW w, NEW met, met # {},
         met \subseteq DOMAIN w, Wake(met, w),
         \A k \in met : Slaves(w[k]) \cap w[k].missing = {}
  PROVE  pc' # "crashed" /\ DumpShowsSlaves'
<1>1. /\ waiting' = w /\ pc' \in {"create", "recreate"}
      /\ job' = w[Min(met)].hsr_name
      /\ seen' = {l \in Links : master[l] # Absent}
  BY DEF Wake
<1>2. /\ w \in Seq(WaitListNode(Links, Names)) /\ Unique(w)
      /\ LastWordTrue(queue', master) /\ CacheTrue(cachedMaster', queue', master)
      /\ NodesFollow(w, cachedMaster', queue')
      /\ \A l \in Links : ~ Leaving(queue', l)
  BY <1>1 DEF IInv, TypeOK, NamesUnique, Unique, NothingStaleForGood, NoneLeaves
<1>3. Min(met) \in met
  BY <1>2, MinIn
<1>4. PICK k \in DOMAIN w : NodeNamed(w, job') = w[k] /\ w[k].hsr_name = job'
  BY <1>1, <1>2, <1>3, NodeNamedIn DEF Waits
<1>5. k \in met
  BY <1>1, <1>2, <1>3, <1>4 DEF Unique
<1>6. Slaves(w[k]) \subseteq Links
  BY <1>2, <1>4, SlavesType
<1>7. \A g \in Slaves(w[k]) : master[g] # Absent
  BY <1>2, <1>5, <1>6, NotMissingIsThere
<1> QED BY <1>1, <1>4, <1>6, <1>7 DEF DumpShowsSlaves

LEMMA SettleShows ==
  ASSUME NEW w, Settle(w)
  PROVE  pc' # "crashed" /\ DumpShowsSlaves'
BY DEF Settle, Resume, DumpShowsSlaves

(* The two notifications that start a node look at both NOT_EXISTS bits.   *)
LEMMA LinkNewShows ==
  ASSUME IInv, IInv', NoneLeaves', KindlessKnown, LinkNew
  PROVE  pc' # "crashed" /\ DumpShowsSlaves'
<1>1. PICK l \in Links :
        /\ WakeOrSettle(NewLinkMet(waiting, l), LinkAppeared(waiting, l))
        /\ UNCHANGED master
  <2>1. PICK l \in Links, new \in LinkState \ {Absent} :
          /\ ReceiveLink(l, Absent, new)
          /\ IF l \in Kindless
               THEN Crash
               ELSE WakeOrSettle(NewLinkMet(waiting, l), LinkAppeared(waiting, l))
    BY DEF LinkNew
  <2>2. /\ queue # <<>> /\ Head(queue) = LinkEvent(l, new)
        /\ cachedMaster[l] = Absent /\ UNCHANGED master
    BY <2>1 DEF ReceiveLink, Receive
  <2>3. queue[1] = LinkEvent(l, new) /\ 1 \in DOMAIN queue
    BY <2>2, TailParts DEF IInv, TypeOK, KernelTypeOK, Remains
  <2>4. Announces(queue[1], l)
    BY <2>1, <2>3 DEF Announces, LinkEvent
  <2>5. l \notin Kindless
    BY <2>2, <2>3, <2>4 DEF KindlessKnown
  <2> QED BY <2>1, <2>2, <2>5
<1> DEFINE met == NewLinkMet(waiting, l)
           w == LinkAppeared(waiting, l)
<1>2. met \subseteq DOMAIN w /\ DOMAIN w = DOMAIN waiting
  BY DEF NewLinkMet, LinkAppeared
<1>3. ASSUME NEW k \in met
      PROVE  Slaves(w[k]) \cap w[k].missing = {}
  <2>1. k \in DOMAIN waiting /\ (Slaves(waiting[k]) \ {l}) \cap waiting[k].missing = {}
    BY DEF NewLinkMet
  <2>2. w[k].missing = waiting[k].missing \ {l}
    BY <2>1, WaitingType, HandlersOnOwnMissing
  <2>3. SameNodes(w, waiting)
    BY WaitingType, HandlersKeepNodes
  <2>4. Slaves(w[k]) = Slaves(waiting[k])
    BY <2>1, <2>3, SameNodesUnique
  <2> QED BY <2>1, <2>2, <2>4
<1> HIDE DEF met, w
<1> QED BY <1>1, <1>2, <1>3, WakeShows, SettleShows DEF WakeOrSettle, met, w

LEMMA HsrDelShows ==
  ASSUME IInv', NoneLeaves', HsrDel
  PROVE  pc' # "crashed" /\ DumpShowsSlaves'
<1>1. PICK h : /\ WakeOrSettle(HsrDeletedMet(HsrGone(waiting, h), h),
                               HsrGone(waiting, h))
               /\ UNCHANGED master
  BY DEF HsrDel, Receive
<1> DEFINE w == HsrGone(waiting, h)
           met == HsrDeletedMet(w, h)
<1>2. met \subseteq DOMAIN w /\ \A k \in met : w[k].missing = {}
  BY DEF HsrDeletedMet, NoSlaveFlag
<1> HIDE DEF met, w
<1> QED BY <1>1, <1>2, WakeShows, SettleShows DEF WakeOrSettle, met, w

(* No message that is read finds the daemon without the link it is about.  *)
LEMMA NotificationShows ==
  ASSUME IInv, IInv', QueueSound, Notification
  PROVE  pc' # "crashed" /\ DumpShowsSlaves' /\ QueueSound'
<1>1. /\ queue \in Seq(Event)
      /\ queue # <<>> => Head(queue) = queue[1] /\ 1 \in DOMAIN queue
                         /\ DOMAIN queue \subseteq Nat \ {0}
  BY TailParts DEF IInv, TypeOK, KernelTypeOK, Remains
<1>2. ~ LinkDel
  <2>1. SUFFICES ASSUME NEW l \in Links, NEW old, ReceiveLink(l, old, Absent)
                 PROVE  FALSE
    BY DEF LinkDel
  <2>2. Withdraws(queue[1], l) /\ 1 \in DOMAIN queue
    BY <1>1, <2>1 DEF ReceiveLink, Receive, Withdraws, LinkEvent
  <2> QED BY <2>2 DEF QueueSound, NoneLeaves, Leaving
<1>3. ~ LinkReleasedByBridge
  <2>1. SUFFICES ASSUME NEW l \in Links, NEW old \in Bridges,
                        NEW new, ReceiveLink(l, old, new)
                 PROVE  FALSE
    BY DEF LinkReleasedByBridge
  <2>2. AboutLink(queue[1], l) /\ cachedMaster[l] \in Bridges /\ 1 \in DOMAIN queue
    BY <1>1, <2>1 DEF ReceiveLink, Receive, AboutLink, LinkEvent
  <2> QED BY <2>2 DEF QueueSound, BridgePortsStay
<1>4. ASSUME LinkNew \/ LinkGotBusy \/ LinkReleasedByHsr \/ LinkUnaffected
      PROVE  QueueSound'
  <2>1. PICK l \in Links, new \in LinkState \ {Absent} :
          \E old : ReceiveLink(l, old, new)
    BY <1>4 DEF LinkNew, LinkGotBusy, LinkReleasedByHsr, LinkUnaffected
  <2> QED BY <2>1, ReadingKeeps DEF ReceiveLink
<1>5. ASSUME HsrNew \/ HsrDel
      PROVE  QueueSound'
  <2>1. PICK e : e.type = "hsr" /\ Receive(e) /\ UNCHANGED cachedMaster
    <3>1. \A h, s : HsrEvent(h, s).type = "hsr"
      BY DEF HsrEvent
    <3> QED BY <1>5, <3>1 DEF HsrNew, HsrDel
  <2> QED BY <2>1, ReadingKeeps
<1>6. ASSUME HsrNew
      PROVE  pc' # "crashed" /\ DumpShowsSlaves'
  <2>1. PICK h \in Names, s \in Links :
          /\ Receive(HsrEvent(h, s))
          /\ IF cachedMaster[s] = Absent
               THEN Crash
               ELSE Settle(link_changed_got_busy(waiting, s))
    BY <1>6 DEF HsrNew
  <2>2. queue[1] = HsrEvent(h, s) /\ 1 \in DOMAIN queue
        /\ \A j \in DOMAIN queue : ~ (j < 1)
    BY <1>1, <2>1 DEF Receive
  <2>3. cachedMaster[s] # Absent
    BY <2>2 DEF QueueSound, FirstSlavesKnown
  <2> QED BY <2>1, <2>3, SettleShows
<1>7. ASSUME LinkGotBusy \/ LinkReleasedByHsr \/ LinkUnaffected
      PROVE  pc' # "crashed" /\ DumpShowsSlaves'
  BY <1>7, SettleShows DEF LinkGotBusy, LinkReleasedByHsr, LinkUnaffected
<1>8. (QueueSound' => NoneLeaves') /\ KindlessKnown
  BY DEF QueueSound
<1> QED
  BY <1>2, <1>3, <1>4, <1>5, <1>6, <1>7, <1>8, LinkNewShows, HsrDelShows
     DEF Notification

(* A request made with a dump that showed its slaves crashes nothing.      *)
LEMMA RequestShows ==
  ASSUME IInv, DumpShowsSlaves, KernelRequest
  PROVE  pc' # "crashed" /\ DumpShowsSlaves'
<1>1. \A q : Resume(q) \in {"poll", "drain"}
  BY DEF Resume
<1>2. CASE WaitListCreate
  BY <1>1, <1>2 DEF WaitListCreate, DumpShowsSlaves, Finish
<1>3. CASE WaitListRecreate
  <2>1. {RecreateSlaves(NodeNamed(waiting, job))[1],
         RecreateSlaves(NodeNamed(waiting, job))[2]} \subseteq seen
    BY <1>3 DEF WaitListRecreate, DumpShowsSlaves, RecreateSlaves, Slaves
  <2>2. pc' \in {"poll", "drain"}
    BY <1>1, <1>3, <2>1 DEF WaitListRecreate, Finish
  <2> QED BY <2>2 DEF DumpShowsSlaves
<1>4. CASE CfgCreate \/ CfgReplace \/ CfgRemove
  BY <1>4 DEF CfgCreate, CfgReplace, CfgRemove, DumpShowsSlaves, Finish, Due
<1> QED BY <1>2, <1>3, <1>4 DEF KernelRequest

(* No request of the daemon brings a link into being.                      *)
LEMMA RequestCreatesNoLink ==
  ASSUME IInv, KernelRequest, NEW l \in Links, master[l] = Absent
  PROVE  master'[l] = Absent
<1>1. master \in [Links -> LinkState] /\ None # Absent /\ Absent \notin Names
  BY DistinctAssumption DEF IInv, TypeOK, KernelTypeOK
<1>2. job \in Names
  BY RequestOutcome
<1>3. CASE UNCHANGED <<master, queue>>
  BY <1>3
<1>4. CASE master' = Released(master, job)
  BY <1>1, <1>2, <1>4 DEF Released
<1>5. ASSUME NEW a \in Links, NEW b \in Links, CanCreate(master, job, a, b),
             master' = Enslaved(master, job, a, b)
      PROVE  master'[l] = Absent
  BY <1>1, <1>5 DEF CanCreate, Enslaved
<1> QED BY <1>3, <1>4, <1>5, RequestOutcome

LEMMA UncrashedStep ==
  ASSUME IInv, IInv', ListCounts, Uncrashed, [OutsideNext]_<<vars, outside>>
  PROVE  Uncrashed'
<1> DEFINE Causes == {"vanished", "released", "kindless", "recreated"}
           Sound == pc # "crashed" /\ QueueSound /\ DumpShowsSlaves
<1>1. SUFFICES ASSUME outside' \cap Causes = {}
               PROVE  Sound'
  BY DEF Uncrashed, QueueSound, NoneLeaves
<1>2. outside \subseteq outside'
  BY DEF OutsideNext, OthersAct, ConfdbAsks, Reacts
<1>3. outside \cap Causes = {}
  BY <1>1, <1>2
<1>4. pc # "crashed" /\ QueueSound /\ DumpShowsSlaves
  BY <1>3 DEF Uncrashed, QueueSound, NoneLeaves
<1>5. ~ CfgWritesOutside
  BY <1>3 DEF ListCounts, CfgWritesOutside
<1>6. ASSUME Environment,
             outside' = outside \cup {kind \in Kinds : Happens(kind)}
      PROVE  Sound'
  <2>1. ~ Happens("vanished") /\ ~ Happens("released") /\ ~ Happens("kindless")
    BY <1>1, <1>6 DEF Kinds
  <2>2. ~ Turns(LinkState \ {Absent}, {Absent}) /\ ~ Turns(Bridges, {None})
    BY <2>1 DEF Happens
  <2>3. \A l \in Kindless : master[l] = Absent => master'[l] = Absent
    BY <2>1 DEF Happens
  <2>4. KernelTypeOK /\ KernelStep
    BY <1>6 DEF Environment, IInv, TypeOK
  <2>5. QueueSound'
    BY <1>4, <1>6, <2>2, <2>3, <2>4, GentleKernel, GentleKeeps DEF Environment
  <2>6. DumpShowsSlaves'
    BY <1>4, <1>6 DEF Environment, DumpShowsSlaves
  <2> QED BY <1>4, <1>6, <2>5, <2>6 DEF Environment
<1>7. ASSUME UNCHANGED <<master, queue, cachedMaster>>,
             pc' \in PC \ {"create", "recreate", "crashed"}
      PROVE  Sound'
  <2>1. QueueSound'
    BY <1>4, <1>7 DEF QueueSound, NoneLeaves, FirstSlavesKnown,
       BridgePortsStay, KindlessKnown
  <2> QED BY <1>7, <2>1 DEF DumpShowsSlaves
<1>8. ASSUME Configuration
      PROVE  Sound'
  <2>1. UNCHANGED <<master, queue, cachedMaster>> /\ pc = "poll"
    BY <1>5, <1>8 DEF Configuration, CfgSet, CfgIncomplete, CfgDelete,
       Enlist, Deliver
  <2>2. pc' \in {"poll", "cfgCheck", "cfgRemove"}
    BY <1>5, <1>8, <2>1 DEF Configuration, CfgSet, CfgIncomplete, CfgDelete, Due
  <2> QED BY <1>7, <2>1, <2>2 DEF PC
<1>9. ASSUME CfgCheck
      PROVE  Sound'
  <2>1. /\ UNCHANGED <<master, queue, cachedMaster>>
        /\ pc' \in {"poll", "cfgCreate", "cfgReplace"}
    BY <1>9, CheckEnds DEF Enqueue
  <2> QED BY <1>7, <2>1 DEF PC
<1>10. ASSUME CfgUnlist
       PROVE  Sound'
  <2>1. UNCHANGED <<master, queue, cachedMaster>> /\ pc' = "poll"
    BY <1>10 DEF CfgUnlist, Finish
  <2> QED BY <1>7, <2>1 DEF PC
<1>11. ASSUME KernelRequest
       PROVE  Sound'
  <2>1. UNCHANGED cachedMaster
    BY <1>11 DEF KernelRequest, WaitListCreate, WaitListRecreate, CfgCreate,
       CfgReplace, CfgRemove
  <2>2. \A l \in Kindless : master[l] = Absent => master'[l] = Absent
    BY <1>11, RequestCreatesNoLink, DaemonAssumption
  <2> QED BY <1>4, <1>11, <2>1, <2>2, GentleRequest, GentleKeeps, RequestShows
<1>12. ASSUME Notification
       PROVE  Sound'
  BY <1>4, <1>12, NotificationShows
<1>13. CASE UNCHANGED <<vars, outside>>
  BY <1>4, <1>13 DEF vars, daemonVars, QueueSound, NoneLeaves,
     FirstSlavesKnown, BridgePortsStay, KindlessKnown, DumpShowsSlaves
<1> QED
  BY <1>6, <1>8, <1>9, <1>10, <1>11, <1>12, <1>13
     DEF OutsideNext, OthersAct, ConfdbAsks, Reacts, Daemon, KernelRequest

(* No handler dereferences a link or a kind that is not there, or writes   *)
(* outside its list, until a link vanishes, a bridge lets one go, a link   *)
(* appears that does not tell its kind, or an HSR link comes back while    *)
(* the daemon removes it.                                                  *)
THEOREM CrashHasACause == OutsideSpec => []CrashNeedsLostLink
<1>1. OutsideInit => Init /\ Uncrashed
  <2>1. SUFFICES ASSUME OutsideInit
                 PROVE  Init /\ Uncrashed
    OBVIOUS
  <2>2. /\ queue = <<>> /\ DOMAIN queue = {} /\ pc = "poll"
        /\ cachedMaster = master
    BY <2>1 DEF OutsideInit, Init
  <2> QED
    BY <2>1, <2>2 DEF OutsideInit, Uncrashed, Leaving, FirstSlavesKnown,
       BridgePortsStay, DumpShowsSlaves, KindlessKnown
<1>2. [OutsideNext]_<<vars, outside>> => [Next]_vars
  BY OutsideSteps
<1>3. OutsideInit => IInv /\ ListHolds /\ ListCounts
  BY InitInv, HoldsInit, CountsInit DEF OutsideInit
<1>4. IInv /\ ListHolds /\ ListCounts /\ [OutsideNext]_<<vars, outside>>
        => (IInv /\ ListHolds /\ ListCounts)'
  BY <1>2, StepKeeps, HoldsStep, CountsStep
<1>5. IInv /\ IInv' /\ ListCounts /\ Uncrashed /\ [OutsideNext]_<<vars, outside>>
        => Uncrashed'
  BY UncrashedStep
<1>6. Uncrashed => CrashNeedsLostLink
  BY DEF Uncrashed, CrashNeedsLostLink, NeverCrashed
<1> QED
  BY <1>1, <1>3, <1>4, <1>5, <1>6, PTL DEF OutsideSpec

-----------------------------------------------------------------------------
(* A BUSY bit is reset in time.                                            *)

(* The positions of c, in which the messages s follow the messages q.      *)
Spliced(c, q, s) ==
  /\ Len(q) \in Nat /\ Len(s) \in Nat
  /\ DOMAIN q = 1 .. Len(q) /\ DOMAIN s = 1 .. Len(s)
  /\ Len(c) = Len(q) + Len(s) /\ DOMAIN c = 1 .. (Len(q) + Len(s))
  /\ \A k \in 1 .. Len(q) : c[k] = q[k]
  /\ \A k \in 1 .. Len(s) : c[Len(q) + k] = s[k]

LEMMA SplicedParts ==
  ASSUME NEW q \in Seq(Event), NEW s \in Seq(Event)
  PROVE  Spliced(q \o s, q, s)
<1> DEFINE c == q \o s
<1>1. /\ Len(q) \in Nat /\ DOMAIN q = 1 .. Len(q)
      /\ Len(s) \in Nat /\ DOMAIN s = 1 .. Len(s)
      /\ Len(c) = Len(q) + Len(s)
      /\ DOMAIN c = 1 .. (Len(q) + Len(s))
      /\ \A k \in 1 .. Len(q) + Len(s) :
           c[k] = IF k <= Len(q) THEN q[k] ELSE s[k - Len(q)]
  BY ConcatProperties
<1> HIDE DEF c
<1>2. \A k \in 1 .. Len(q) : c[k] = q[k]
  BY <1>1
<1>3. ASSUME NEW k \in 1 .. Len(s)
      PROVE  c[Len(q) + k] = s[k]
  <2>1. Len(q) + k \in 1 .. Len(q) + Len(s) /\ ~ (Len(q) + k <= Len(q))
        /\ (Len(q) + k) - Len(q) = k
    BY <1>1
  <2> QED BY <1>1, <2>1
<1> QED BY <1>1, <1>2, <1>3 DEF Spliced, c

(* What comes before a message is the same when more messages follow.      *)
LEMMA BeforeStays ==
  ASSUME NEW c, NEW q, NEW s, Spliced(c, q, s), NEW k \in DOMAIN q,
         NEW cm, NEW l, NEW up, Before(q, cm, l, k, up)
  PROVE  Before(c, cm, l, k, up)
<1>1. \A j : j \in DOMAIN c /\ j < k <=> j \in DOMAIN q /\ j < k
  BY DEF Spliced
<1>2. \A j \in DOMAIN q : c[j] = q[j]
  BY DEF Spliced
<1>3. CASE cm[l] = up /\ \A j \in DOMAIN q : j < k => ~ AboutLink(q[j], l)
  BY <1>1, <1>2, <1>3 DEF Before
<1>4. ASSUME NEW j \in DOMAIN q, j < k, AboutLink(q[j], l), q[j].up = up,
             \A i \in DOMAIN q : j < i /\ i < k => ~ AboutLink(q[i], l)
      PROVE  Before(c, cm, l, k, up)
  BY <1>1, <1>2, <1>4 DEF Before
<1> QED BY <1>3, <1>4 DEF Before

(* What comes before a message that follows q, if no other does that is    *)
(* about the same link.                                                    *)
LEMMA BeforeNext ==
  ASSUME NEW c, NEW q, NEW s, Spliced(c, q, s), NEW k \in 1 .. (Len(s) + 1),
         NEW cm, NEW l, NEW up, Before(q, cm, l, Len(q) + 1, up),
         \A j \in DOMAIN s : j < k => ~ AboutLink(s[j], l)
  PROVE  Before(c, cm, l, Len(q) + k, up)
<1>1. Len(q) \in Nat /\ k \in Int /\ k >= 1
  BY DEF Spliced
<1>2. ASSUME NEW j \in DOMAIN c, j < Len(q) + k, ~ (j \in DOMAIN q)
      PROVE  ~ AboutLink(c[j], l)
  <2>1. j - Len(q) \in 1 .. Len(s) /\ j - Len(q) < k /\ Len(q) + (j - Len(q)) = j
    BY <1>1, <1>2 DEF Spliced
  <2> QED BY <2>1 DEF Spliced
<1>3. \A j \in DOMAIN q : j \in DOMAIN c /\ c[j] = q[j] /\ j < Len(q) + 1 /\ j < Len(q) + k
  BY <1>1 DEF Spliced
<1>4. CASE cm[l] = up /\ \A j \in DOMAIN q : j < Len(q) + 1 => ~ AboutLink(q[j], l)
  BY <1>2, <1>3, <1>4 DEF Before
<1>5. ASSUME NEW j \in DOMAIN q, AboutLink(q[j], l), q[j].up = up,
             \A i \in DOMAIN q : j < i /\ i < Len(q) + 1 => ~ AboutLink(q[i], l)
      PROVE  Before(c, cm, l, Len(q) + k, up)
  <2>1. \A i \in DOMAIN c : j < i /\ i < Len(q) + k => ~ AboutLink(c[i], l)
    BY <1>2, <1>3, <1>5
  <2> QED BY <1>3, <1>5, <2>1 DEF Before
<1> QED BY <1>4, <1>5 DEF Before

(* What the messages that follow q say is what comes last.                 *)
LEMMA BeforeLast ==
  ASSUME NEW c, NEW q, NEW s, Spliced(c, q, s), NEW k \in DOMAIN s,
         NEW e \in 1 .. (Len(s) + 1), k < e,
         NEW cm, NEW l, AboutLink(s[k], l),
         \A j \in DOMAIN s : k < j /\ j < e => ~ AboutLink(s[j], l)
  PROVE  Before(c, cm, l, Len(q) + e, s[k].up)
<1>1. Len(q) \in Nat /\ k \in Int /\ k >= 1 /\ e \in Int
  BY DEF Spliced
<1>2. Len(q) + k \in DOMAIN c /\ c[Len(q) + k] = s[k] /\ Len(q) + k < Len(q) + e
  BY <1>1 DEF Spliced
<1>3. ASSUME NEW i \in DOMAIN c, Len(q) + k < i, i < Len(q) + e
      PROVE  ~ AboutLink(c[i], l)
  <2>1. i - Len(q) \in 1 .. Len(s) /\ Len(q) + (i - Len(q)) = i
        /\ k < i - Len(q) /\ i - Len(q) < e
    BY <1>1, <1>3 DEF Spliced
  <2> QED BY <2>1 DEF Spliced
<1> QED BY <1>2, <1>3 DEF Before

(* The same for HSR links.                                                 *)
LEMMA KnownStays ==
  ASSUME NEW c, NEW q, NEW s, Spliced(c, q, s), NEW k \in DOMAIN q,
         NEW hs, NEW h, Known(q, hs, h, k)
  PROVE  Known(c, hs, h, k)
<1>1. \A j : j \in DOMAIN c /\ j < k <=> j \in DOMAIN q /\ j < k
  BY DEF Spliced
<1>2. \A j \in DOMAIN q : c[j] = q[j]
  BY DEF Spliced
<1>3. CASE h \in hs /\ \A j \in DOMAIN q : j < k => ~ Deletes(q[j], h)
  BY <1>1, <1>2, <1>3 DEF Known
<1>4. ASSUME NEW j \in DOMAIN q, j < k, Creates(q[j], h),
             \A i \in DOMAIN q : j < i /\ i < k => ~ Deletes(q[i], h)
      PROVE  Known(c, hs, h, k)
  BY <1>1, <1>2, <1>4 DEF Known
<1> QED BY <1>3, <1>4 DEF Known

LEMMA KnownNext ==
  ASSUME NEW c, NEW q, NEW s, Spliced(c, q, s), NEW k \in 1 .. (Len(s) + 1),
         NEW hs, NEW h, Known(q, hs, h, Len(q) + 1),
         \A j \in DOMAIN s : j < k => ~ Deletes(s[j], h)
  PROVE  Known(c, hs, h, Len(q) + k)
<1>1. Len(q) \in Nat /\ k \in Int /\ k >= 1
  BY DEF Spliced
<1>2. ASSUME NEW j \in DOMAIN c, j < Len(q) + k, ~ (j \in DOMAIN q)
      PROVE  ~ Deletes(c[j], h)
  <2>1. j - Len(q) \in 1 .. Len(s) /\ j - Len(q) < k /\ Len(q) + (j - Len(q)) = j
    BY <1>1, <1>2 DEF Spliced
  <2> QED BY <2>1 DEF Spliced
<1>3. \A j \in DOMAIN q : j \in DOMAIN c /\ c[j] = q[j] /\ j < Len(q) + 1 /\ j < Len(q) + k
  BY <1>1 DEF Spliced
<1>4. CASE h \in hs /\ \A j \in DOMAIN q : j < Len(q) + 1 => ~ Deletes(q[j], h)
  BY <1>2, <1>3, <1>4 DEF Known
<1>5. ASSUME NEW j \in DOMAIN q, Creates(q[j], h),
             \A i \in DOMAIN q : j < i /\ i < Len(q) + 1 => ~ Deletes(q[i], h)
      PROVE  Known(c, hs, h, Len(q) + k)
  <2>1. \A i \in DOMAIN c : j < i /\ i < Len(q) + k => ~ Deletes(c[i], h)
    BY <1>2, <1>3, <1>5
  <2> QED BY <1>3, <1>5, <2>1 DEF Known
<1> QED BY <1>4, <1>5 DEF Known

LEMMA KnownLast ==
  ASSUME NEW c, NEW q, NEW s, Spliced(c, q, s), NEW k \in DOMAIN s,
         NEW hs, NEW h, Creates(s[k], h),
         \A j \in DOMAIN s : k < j => ~ Deletes(s[j], h)
  PROVE  Known(c, hs, h, Len(c) + 1)
<1>1. Len(q) \in Nat /\ k \in Int /\ k >= 1
  BY DEF Spliced
<1>2. Len(q) + k \in DOMAIN c /\ c[Len(q) + k] = s[k] /\ Len(q) + k < Len(c) + 1
  BY <1>1 DEF Spliced
<1>3. ASSUME NEW i \in DOMAIN c, Len(q) + k < i
      PROVE  ~ Deletes(c[i], h)
  <2>1. i - Len(q) \in 1 .. Len(s) /\ Len(q) + (i - Len(q)) = i /\ k < i - Len(q)
    BY <1>1, <1>3 DEF Spliced
  <2> QED BY <2>1 DEF Spliced
<1> QED BY <1>2, <1>3 DEF Known

(* A link has one master at a time.                                        *)
LEMMA BeforeUnique ==
  ASSUME NEW q \in Seq(Event), NEW k \in Int, NEW cm, NEW l, NEW x, NEW y,
         Before(q, cm, l, k, x), Before(q, cm, l, k, y)
  PROVE  x = y
<1>1. \A j \in DOMAIN q : j \in Int
  OBVIOUS
<1>2. ASSUME NEW i \in DOMAIN q, i < k, AboutLink(q[i], l),
             \A j \in DOMAIN q : i < j /\ j < k => ~ AboutLink(q[j], l),
             NEW j \in DOMAIN q, j < k, AboutLink(q[j], l),
             \A m \in DOMAIN q : j < m /\ m < k => ~ AboutLink(q[m], l)
      PROVE  i = j
  BY <1>1, <1>2
<1> QED BY <1>1, <1>2 DEF Before

-----------------------------------------------------------------------------
(* The kernel went from m to m2.  The messages s say of each link what has *)
(* become of it, and of each link that was let go by whom.                 *)
ToldLast(m, m2, s, l) ==
  \/ m2[l] = m[l] /\ \A k \in DOMAIN s : ~ AboutLink(s[k], l)
  \/ \E k \in DOMAIN s :
       /\ AboutLink(s[k], l) /\ s[k].up = m2[l]
       /\ \A j \in DOMAIN s : k < j => ~ AboutLink(s[j], l)

HsrToldLast(m, s, h) ==
  \/ Exists(m, h) /\ \A k \in DOMAIN s : ~ Deletes(s[k], h)
  \/ \E k \in DOMAIN s :
       /\ Creates(s[k], h)
       /\ \A j \in DOMAIN s : k < j => ~ Deletes(s[j], h)

ToldFreed(m, s, l, k) ==
  /\ \A j \in DOMAIN s : j < k => ~ AboutLink(s[j], l)
  /\ \/ m[l] = Absent
     \/ m[l] \in Names /\ \A j \in DOMAIN s : j < k => ~ Deletes(s[j], m[l])
     \/ m[l] \in Bridges /\ \E j \in DOMAIN s : j > k /\ Withdraws(s[j], l)

ToldEnslaved(s, h, f, k) ==
  \/ \E j \in DOMAIN s :
       /\ j < k /\ s[j] = LinkEvent(f, h)
       /\ \A i \in DOMAIN s : j < i /\ i < k => ~ AboutLink(s[i], f)
  \/ \E j \in DOMAIN s : j > k /\ s[j] = LinkEvent(f, h)

Traces(m, m2, s) ==
  /\ s \in Seq(Event)
  /\ \A l \in Links : ToldLast(m, m2, s, l)
  /\ \A h \in Names : Exists(m2, h) => HsrToldLast(m, s, h)
  /\ \A l \in Links : \A k \in DOMAIN s : Frees(s[k], l) => ToldFreed(m, s, l, k)
  /\ \A h \in Names, f \in Links : \A k \in DOMAIN s :
       s[k] = HsrEvent(h, f) => ToldEnslaved(s, h, f, k)

Told(q, cm, hs, m) ==
  /\ MastersHeardOf(q, cm, m)
  /\ HsrLinksKnown(q, hs, m)
  /\ FreedFromSome(q, cm, hs)
  /\ FirstSlavesEnslaved(q, cm)

LEMMA TracesNothing == ASSUME NEW m PROVE Traces(m, m, <<>>)
BY DEF Traces, ToldLast, HsrToldLast

(* Messages that say of each link what has become of it keep the cache     *)
(* right about masters.                                                    *)
LEMMA MastersStay ==
  ASSUME NEW q \in Seq(Event), NEW cm, NEW m, NEW m2, NEW s \in Seq(Event),
         \A l \in Links : ToldLast(m, m2, s, l), MastersHeardOf(q, cm, m)
  PROVE  MastersHeardOf(q \o s, cm, m2)
<1> DEFINE c == q \o s
<1>1. Spliced(c, q, s)
  BY SplicedParts
<1> HIDE DEF c
<1>2. /\ Len(q) \in Nat /\ Len(s) \in Nat /\ Len(c) = Len(q) + Len(s)
      /\ DOMAIN s = 1 .. Len(s)
  BY <1>1 DEF Spliced
<1>3. ASSUME NEW l \in Links
      PROVE  Before(c, cm, l, Len(c) + 1, m2[l])
  <2>1. Len(s) + 1 \in 1 .. (Len(s) + 1) /\ Len(q) + (Len(s) + 1) = Len(c) + 1
        /\ \A j \in DOMAIN s : j < Len(s) + 1
    BY <1>2
  <2>2. Before(q, cm, l, Len(q) + 1, m[l]) /\ ToldLast(m, m2, s, l)
    BY DEF MastersHeardOf
  <2>3. CASE m2[l] = m[l] /\ \A k \in DOMAIN s : ~ AboutLink(s[k], l)
    <3>1. Before(c, cm, l, Len(q) + (Len(s) + 1), m[l])
      BY <1>1, <2>1, <2>2, <2>3, BeforeNext
    <3> QED BY <2>1, <2>3, <3>1
  <2>4. ASSUME NEW k \in DOMAIN s, AboutLink(s[k], l), s[k].up = m2[l],
               \A j \in DOMAIN s : k < j => ~ AboutLink(s[j], l)
        PROVE  Before(c, cm, l, Len(c) + 1, m2[l])
    <3>1. Before(c, cm, l, Len(q) + (Len(s) + 1), s[k].up)
      BY <1>1, <2>1, <2>4, BeforeLast
    <3> QED BY <2>1, <2>4, <3>1
  <2> QED BY <2>2, <2>3, <2>4 DEF ToldLast
<1> QED BY <1>3 DEF MastersHeardOf, c

LEMMA TracesKeep ==
  ASSUME NEW q \in Seq(Event), NEW cm, NEW hs, NEW m \in [Links -> LinkState],
         NEW m2, NEW s, Traces(m, m2, s), Told(q, cm, hs, m)
  PROVE  Told(q \o s, cm, hs, m2)
<1> DEFINE c == q \o s
<1>1. s \in Seq(Event)
  BY DEF Traces
<1>2. Spliced(c, q, s)
  BY <1>1, SplicedParts
<1> HIDE DEF c
<1>3. /\ Len(q) \in Nat /\ Len(s) \in Nat /\ Len(c) = Len(q) + Len(s)
      /\ DOMAIN q = 1 .. Len(q) /\ DOMAIN s = 1 .. Len(s)
      /\ DOMAIN c = 1 .. (Len(q) + Len(s))
      /\ \A k \in DOMAIN q : c[k] = q[k]
      /\ \A k \in DOMAIN s : c[Len(q) + k] = s[k] /\ Len(q) + k \in DOMAIN c
  BY <1>2 DEF Spliced
<1>4. ASSUME NEW k \in DOMAIN c, ~ (k \in DOMAIN q)
      PROVE  \E i \in DOMAIN s : k = Len(q) + i /\ c[k] = s[i]
  <2>1. k - Len(q) \in DOMAIN s /\ k = Len(q) + (k - Len(q))
    BY <1>3, <1>4
  <2> QED BY <1>3, <2>1
<1>5. MastersHeardOf(c, cm, m2)
  BY MastersStay DEF Traces, Told, c
<1>6. HsrLinksKnown(c, hs, m2)
  <2>1. ASSUME NEW h \in Names, Exists(m2, h)
        PROVE  Known(c, hs, h, Len(c) + 1)
    <3>1. Len(s) + 1 \in 1 .. (Len(s) + 1) /\ Len(q) + (Len(s) + 1) = Len(c) + 1
      BY <1>3
    <3>2. HsrToldLast(m, s, h)
      BY <2>1 DEF Traces
    <3>3. CASE Exists(m, h) /\ \A k \in DOMAIN s : ~ Deletes(s[k], h)
      <4>1. Known(q, hs, h, Len(q) + 1)
        BY <3>3 DEF Told, HsrLinksKnown
      <4>2. Known(c, hs, h, Len(q) + (Len(s) + 1))
        BY <1>2, <3>1, <3>3, <4>1, KnownNext
      <4> QED BY <3>1, <4>2
    <3> QED BY <1>2, <3>2, <3>3, KnownLast DEF HsrToldLast
  <2> QED BY <2>1 DEF HsrLinksKnown
<1>7. FreedFromSome(c, cm, hs)
  <2>1. SUFFICES ASSUME NEW l \in Links, NEW k \in DOMAIN c, Frees(c[k], l)
                 PROVE  \E up \in LinkState : FreedFrom(c, cm, hs, l, k, up)
    BY DEF FreedFromSome
  <2>2. CASE k \in DOMAIN q
    <3>1. PICK up \in LinkState : FreedFrom(q, cm, hs, l, k, up)
      BY <1>3, <2>1, <2>2 DEF Told, FreedFromSome
    <3>2. Before(c, cm, l, k, up)
      BY <1>2, <2>2, <3>1, BeforeStays DEF FreedFrom
    <3>3. Known(q, hs, up, k) => Known(c, hs, up, k)
      BY <1>2, <2>2, KnownStays
    <3>4. \A j \in DOMAIN q : j \in DOMAIN c /\ c[j] = q[j]
      BY <1>3
    <3> QED BY <3>1, <3>2, <3>3, <3>4 DEF FreedFrom
  <2>3. ASSUME NEW i \in DOMAIN s, k = Len(q) + i, c[k] = s[i]
        PROVE  \E up \in LinkState : FreedFrom(c, cm, hs, l, k, up)
    <3>1. ToldFreed(m, s, l, i)
      BY <2>1, <2>3 DEF Traces
    <3>2. i \in 1 .. (Len(s) + 1) /\ m[l] \in LinkState
      BY <1>3
    <3>3. Before(q, cm, l, Len(q) + 1, m[l])
      BY DEF Told, MastersHeardOf
    <3>4. Before(c, cm, l, k, m[l])
      BY <1>2, <2>3, <3>1, <3>2, <3>3, BeforeNext DEF ToldFreed
    <3>5. ASSUME m[l] \in Names, \A j \in DOMAIN s : j < i => ~ Deletes(s[j], m[l])
          PROVE  Known(c, hs, m[l], k)
      <4>1. Exists(m, m[l])
        BY DEF Exists, SlavesOf
      <4>2. Known(q, hs, m[l], Len(q) + 1)
        BY <3>5, <4>1 DEF Told, HsrLinksKnown
      <4> QED BY <1>2, <2>3, <3>2, <3>5, <4>2, KnownNext
    <3>6. ASSUME NEW j \in DOMAIN s, j > i, Withdraws(s[j], l)
          PROVE  \E x \in DOMAIN c : x > k /\ Withdraws(c[x], l)
      <4>1. Len(q) + j \in DOMAIN c /\ Len(q) + j > k
        BY <1>3, <2>3, <3>6
      <4> QED BY <1>3, <3>6, <4>1
    <3>7. FreedFrom(c, cm, hs, l, k, m[l])
      BY <3>1, <3>4, <3>5, <3>6 DEF ToldFreed, FreedFrom
    <3> QED BY <3>2, <3>7
  <2> QED BY <1>4, <2>2, <2>3
<1>8. FirstSlavesEnslaved(c, cm)
  <2>1. SUFFICES ASSUME NEW h \in Names, NEW f \in Links, NEW k \in DOMAIN c,
                        c[k] = HsrEvent(h, f)
                 PROVE  \/ Before(c, cm, f, k, h)
                        \/ \E j \in DOMAIN c : j > k /\ c[j] = LinkEvent(f, h)
    BY DEF FirstSlavesEnslaved
  <2>2. CASE k \in DOMAIN q
    <3>1. \/ Before(q, cm, f, k, h)
          \/ \E j \in DOMAIN q : j > k /\ q[j] = LinkEvent(f, h)
      BY <1>3, <2>1, <2>2 DEF Told, FirstSlavesEnslaved
    <3>2. Before(q, cm, f, k, h) => Before(c, cm, f, k, h)
      BY <1>2, <2>2, BeforeStays
    <3>3. \A j \in DOMAIN q : j \in DOMAIN c /\ c[j] = q[j]
      BY <1>3
    <3> QED BY <3>1, <3>2, <3>3
  <2>3. ASSUME NEW i \in DOMAIN s, k = Len(q) + i, c[k] = s[i]
        PROVE  \/ Before(c, cm, f, k, h)
               \/ \E j \in DOMAIN c : j > k /\ c[j] = LinkEvent(f, h)
    <3>1. ToldEnslaved(s, h, f, i)
      BY <2>1, <2>3 DEF Traces
    <3>2. ASSUME NEW j \in DOMAIN s, j < i, s[j] = LinkEvent(f, h),
                 \A x \in DOMAIN s : j < x /\ x < i => ~ AboutLink(s[x], f)
          PROVE  Before(c, cm, f, k, h)
      <4>1. AboutLink(s[j], f) /\ s[j].up = h
        BY <3>2 DEF AboutLink, LinkEvent
      <4>2. i \in 1 .. (Len(s) + 1)
        BY <1>3
      <4> QED BY <1>2, <2>3, <3>2, <4>1, <4>2, BeforeLast
    <3>3. ASSUME NEW j \in DOMAIN s, j > i, s[j] = LinkEvent(f, h)
          PROVE  \E x \in DOMAIN c : x > k /\ c[x] = LinkEvent(f, h)
      <4>1. Len(q) + j \in DOMAIN c /\ Len(q) + j > k
        BY <1>3, <2>3, <3>3
      <4> QED BY <1>3, <3>3, <4>1
    <3> QED BY <3>1, <3>2, <3>3 DEF ToldEnslaved
  <2> QED BY <1>4, <2>2, <2>3
<1> QED BY <1>5, <1>6, <1>7, <1>8 DEF Told, c

(* A link that has a master, or will be heard of without one, stays so.    *)
LEMMA TracesResets ==
  ASSUME NEW q \in Seq(Event), NEW cm, NEW m \in [Links -> LinkState],
         NEW m2 \in [Links -> LinkState], NEW s, Traces(m, m2, s),
         MastersHeardOf(q, cm, m),
         NEW l \in Links, m[l] \in Masters \/ Resets(q, cm, l)
  PROVE  m2[l] \in Masters \/ Resets(q \o s, cm, l)
<1> DEFINE c == q \o s
<1>1. Spliced(c, q, s)
  BY SplicedParts DEF Traces
<1> HIDE DEF c
<1>2. /\ Len(q) \in Nat /\ DOMAIN s = 1 .. Len(s) /\ Len(s) \in Nat
      /\ \A k \in DOMAIN q : k \in DOMAIN c /\ c[k] = q[k]
      /\ \A k \in DOMAIN s : c[Len(q) + k] = s[k] /\ Len(q) + k \in DOMAIN c
  BY <1>1 DEF Spliced
<1>3. CASE Resets(q, cm, l)
  <2>1. PICK k \in DOMAIN q :
          \/ Withdraws(q[k], l)
          \/ Frees(q[k], l) /\ \E h \in Names : Before(q, cm, l, k, h)
    BY <1>3 DEF Resets
  <2>2. \A h : Before(q, cm, l, k, h) => Before(c, cm, l, k, h)
    BY <1>1, BeforeStays
  <2>3. Resets(c, cm, l)
    BY <1>2, <2>1, <2>2 DEF Resets
  <2> QED BY <2>3 DEF c
<1>4. CASE m[l] \in Masters /\ m2[l] \notin Masters
  <2>1. m2[l] \in {None, Absent}
    BY <1>4 DEF LinkState
  <2>2. PICK k \in DOMAIN s :
          /\ AboutLink(s[k], l) /\ s[k].up = m2[l]
          /\ \A j \in DOMAIN s : k < j => ~ AboutLink(s[j], l)
    BY <1>4 DEF Traces, ToldLast
  <2>3. CASE m2[l] = Absent
    <3>1. Withdraws(s[k], l)
      BY <2>2, <2>3 DEF AboutLink, Withdraws
    <3>2. Resets(c, cm, l)
      BY <1>2, <3>1 DEF Resets
    <3> QED BY <3>2 DEF c
  <2>4. CASE m2[l] = None
    <3>1. Frees(s[k], l)
      BY <2>2, <2>4 DEF Frees
    <3>2. ToldFreed(m, s, l, k)
      BY <3>1 DEF Traces
    <3>3. ~ \E j \in DOMAIN s : j > k /\ Withdraws(s[j], l)
      BY <1>2, <2>2 DEF Withdraws, AboutLink
    <3>4. m[l] \in Names
      BY <1>4, <3>2, <3>3, DistinctAssumption DEF ToldFreed, Masters
    <3>5. Before(q, cm, l, Len(q) + 1, m[l])
      BY DEF MastersHeardOf
    <3>6. k \in 1 .. (Len(s) + 1)
      BY <1>2
    <3>7. Before(c, cm, l, Len(q) + k, m[l])
      BY <1>1, <3>2, <3>5, <3>6, BeforeNext DEF ToldFreed
    <3>8. Resets(c, cm, l)
      BY <1>2, <3>1, <3>4, <3>7 DEF Resets
    <3> QED BY <3>8 DEF c
  <2> QED BY <2>1, <2>3, <2>4
<1> QED BY <1>3, <1>4

(* The bits of the nodes of v are bits the nodes of w have, or true.       *)
BusyOf(v, w, m) ==
  \A k \in DOMAIN v : \A l \in v[k].busy :
    m[l] \in Masters \/ \E j \in DOMAIN w : l \in w[j].busy

LEMMA TracesBusy ==
  ASSUME NEW q \in Seq(Event), NEW cm, NEW m \in [Links -> LinkState],
         NEW m2 \in [Links -> LinkState], NEW s, Traces(m, m2, s),
         MastersHeardOf(q, cm, m), NEW w, NEW v, BusyOf(v, w, m),
         \A k \in DOMAIN v : v[k].busy \subseteq Links,
         BusyTrue(w, q, cm, m)
  PROVE  BusyTrue(v, q \o s, cm, m2)
<1>1. SUFFICES ASSUME NEW k \in DOMAIN v, NEW l \in v[k].busy
               PROVE  m2[l] \in Masters \/ Resets(q \o s, cm, l)
  BY DEF BusyTrue
<1>2. l \in Links /\ (m[l] \in Masters \/ Resets(q, cm, l))
  BY DEF BusyOf, BusyTrue
<1> QED BY <1>2, TracesResets

-----------------------------------------------------------------------------
(* Every report traces what it reports.                                    *)

LEMMA EventParts ==
  /\ \A l, up, g : AboutLink(LinkEvent(l, up), g) <=> g = l
  /\ \A l, up, g : Frees(LinkEvent(l, up), g) <=> g = l /\ up = None
  /\ \A l, up, g : Withdraws(LinkEvent(l, up), g) <=> g = l /\ up = Absent
  /\ \A l, up, g : ~ Deletes(LinkEvent(l, up), g) /\ ~ Creates(LinkEvent(l, up), g)
  /\ \A h, f, g : ~ AboutLink(HsrEvent(h, f), g) /\ ~ Frees(HsrEvent(h, f), g)
  /\ \A h, f, g : Deletes(HsrEvent(h, f), g) <=> g = h /\ f = Absent
  /\ \A h, f, g : Creates(HsrEvent(h, f), g) <=> g = h /\ f # Absent
  /\ \A h, f, l, up : HsrEvent(h, f) # LinkEvent(l, up)
  /\ \A h, f, g, e : HsrEvent(h, f) = HsrEvent(g, e) => h = g /\ f = e
  /\ \A l, up : LinkEvent(l, up).up = up
BY DEF AboutLink, Frees, Withdraws, Deletes, Creates, LinkEvent, HsrEvent

(* A link appears, or a bridge takes it.                                   *)
LEMMA TracesLink ==
  ASSUME NEW m \in [Links -> LinkState], NEW m2, NEW l \in Links,
         NEW up \in LinkState \ Names, m2 = [m EXCEPT ![l] = up],
         up = None => m[l] = Absent
  PROVE  Traces(m, m2, <<LinkEvent(l, up)>>)
<1> DEFINE s == <<LinkEvent(l, up)>>
<1>1. s \in Seq(Event) /\ DOMAIN s = {1} /\ s[1] = LinkEvent(l, up)
  BY EventTypes
<1> HIDE DEF s
<1>2. \A k \in DOMAIN s : k = 1 /\ s[k] = LinkEvent(l, up)
  BY <1>1
<1>3. ASSUME NEW g \in Links
      PROVE  ToldLast(m, m2, s, g)
  BY <1>1, <1>2, EventParts DEF ToldLast
<1>4. ASSUME NEW h \in Names, Exists(m2, h)
      PROVE  HsrToldLast(m, s, h)
  <2>1. Exists(m, h)
    BY <1>4 DEF Exists, SlavesOf
  <2> QED BY <1>2, <2>1, EventParts DEF HsrToldLast
<1>5. ASSUME NEW g \in Links, NEW k \in DOMAIN s, Frees(s[k], g)
      PROVE  ToldFreed(m, s, g, k)
  BY <1>2, <1>5, EventParts DEF ToldFreed
<1>6. ASSUME NEW h \in Names, NEW f \in Links, NEW k \in DOMAIN s,
             s[k] = HsrEvent(h, f)
      PROVE  ToldEnslaved(s, h, f, k)
  BY <1>2, <1>6, EventParts
<1>7. Traces(m, m2, s)
  BY <1>1, <1>3, <1>4, <1>5, <1>6 DEF Traces
<1> QED BY <1>7 DEF s

(* A link vanishes, and with it an HSR link that has no other.             *)
LEMMA TracesGone ==
  ASSUME NEW m \in [Links -> LinkState], NEW m2, NEW l \in Links,
         m[l] # Absent, m2 = [m EXCEPT ![l] = Absent], NEW s \in Seq(Event),
         NEW e \in {1, 2}, e = 1 <=> m[l] = None,
         e \in DOMAIN s, s[e] = LinkEvent(l, Absent),
         \A k \in DOMAIN s :
           \/ k = e
           \/ k = 1 /\ e = 2 /\ s[k] = LinkEvent(l, None)
           \/ /\ k = 3 /\ e = 2 /\ s[k] = HsrEvent(m[l], Absent)
              /\ m[l] \in Names /\ ~ Exists(m2, m[l])
  PROVE  Traces(m, m2, s)
<1>1. None # Absent /\ Absent \notin Links /\ Absent \notin Names
  BY DistinctAssumption
<1>2. ASSUME NEW g \in Links
      PROVE  ToldLast(m, m2, s, g)
  <2>1. CASE g = l
    <3>1. m2[g] = Absent /\ AboutLink(s[e], g) /\ s[e].up = Absent
      BY <2>1, EventParts
    <3>2. \A j \in DOMAIN s : e < j => ~ AboutLink(s[j], g)
      BY EventParts
    <3> QED BY <3>1, <3>2 DEF ToldLast
  <2>2. CASE g # l
    <3>1. m2[g] = m[g] /\ \A k \in DOMAIN s : ~ AboutLink(s[k], g)
      BY <2>2, EventParts
    <3> QED BY <3>1 DEF ToldLast
  <2> QED BY <2>1, <2>2
<1>3. ASSUME NEW h \in Names, Exists(m2, h)
      PROVE  HsrToldLast(m, s, h)
  <2>1. Exists(m, h)
    BY <1>1, <1>3 DEF Exists, SlavesOf
  <2>2. \A k \in DOMAIN s : ~ Deletes(s[k], h)
    BY <1>3, EventParts
  <2> QED BY <2>1, <2>2 DEF HsrToldLast
<1>4. ASSUME NEW g \in Links, NEW k \in DOMAIN s, Frees(s[k], g)
      PROVE  ToldFreed(m, s, g, k)
  <2>1. g = l /\ k = 1 /\ e = 2
    BY <1>1, <1>4, EventParts
  <2>2. \A j \in DOMAIN s : ~ (j < 1)
    OBVIOUS
  <2>3. m[l] \in Names \cup Bridges
    BY <2>1 DEF LinkState, Masters
  <2>4. e > k /\ Withdraws(s[e], l)
    BY <2>1, EventParts
  <2> QED BY <2>1, <2>2, <2>3, <2>4 DEF ToldFreed
<1>5. ASSUME NEW h \in Names, NEW f \in Links, NEW k \in DOMAIN s,
             s[k] = HsrEvent(h, f)
      PROVE  ToldEnslaved(s, h, f, k)
  BY <1>1, <1>5, EventParts
<1> QED BY <1>2, <1>3, <1>4, <1>5 DEF Traces

(* What the kernel says of it: the e-th message of s is its last one.      *)
GoneAt(m, m2, l, s, e) ==
  /\ e = 1 <=> m[l] = None
  /\ e \in DOMAIN s /\ s[e] = LinkEvent(l, Absent)
  /\ \A k \in DOMAIN s :
       \/ k = e
       \/ k = 1 /\ e = 2 /\ s[k] = LinkEvent(l, None)
       \/ /\ k = 3 /\ e = 2 /\ s[k] = HsrEvent(m[l], Absent)
          /\ m[l] \in Names /\ ~ Exists(m2, m[l])
  /\ m[l] \in Names /\ ~ Exists(m2, m[l]) =>
       3 \in DOMAIN s /\ s[3] = HsrEvent(m[l], Absent)

GoneReport(m, m2, l, s) ==
  /\ m[l] # Absent /\ m2 = [m EXCEPT ![l] = Absent] /\ s \in Seq(Event)
  /\ \E e \in {1, 2} : GoneAt(m, m2, l, s, e)

LEMMA DelLinkReport ==
  ASSUME KernelTypeOK, NEW l \in Links, DelLink(l)
  PROVE  \E s : GoneReport(master, master', l, s) /\ queue' = queue \o s
<1> DEFINE old == master[l]
           L == LinkEvent(l, None)
           W == LinkEvent(l, Absent)
           H == HsrEvent(old, Absent)
           gone == old \in Names /\ ~ Exists(master', old)
           s1 == IF old = None THEN <<>> ELSE <<L>>
           s3 == IF gone THEN <<H>> ELSE <<>>
           s == (s1 \o <<W>>) \o s3
<1>1. /\ master \in [Links -> LinkState] /\ queue \in Seq(Event)
      /\ old # Absent /\ master' = [master EXCEPT ![l] = Absent]
      /\ queue' = ((queue \o s1) \o <<W>>) \o s3
  BY DEF KernelTypeOK, DelLink
<1>2. L \in Event /\ W \in Event /\ (gone => H \in Event)
  BY EventTypes, StateTypes
<1>3. None \notin Names
  BY DistinctAssumption
<1> HIDE DEF L, W, H, gone
<1>4. s1 \in Seq(Event) /\ <<W>> \in Seq(Event) /\ s3 \in Seq(Event)
  BY <1>2
<1>5. queue' = queue \o s /\ s \in Seq(Event)
  <2> HIDE DEF s1, s3
  <2> DEFINE w == <<W>>
  <2>1. w \in Seq(Event)
    BY <1>4
  <2> HIDE DEF w
  <2>2. s1 \o w \in Seq(Event) /\ (queue \o s1) \o w = queue \o (s1 \o w)
    BY <1>1, <1>4, <2>1
  <2> DEFINE v == s1 \o w
  <2>3. v \in Seq(Event)
    BY <2>2
  <2> HIDE DEF v
  <2>4. v \o s3 \in Seq(Event) /\ (queue \o v) \o s3 = queue \o (v \o s3)
    BY <1>1, <1>4, <2>3
  <2> QED BY <1>1, <2>2, <2>4 DEF v, w
<1> DEFINE e == IF old = None THEN 1 ELSE 2
<1>6. /\ e \in DOMAIN s /\ s[e] = W
      /\ \A k \in DOMAIN s :
           \/ k = e
           \/ k = 1 /\ e = 2 /\ s[k] = L
           \/ k = 3 /\ e = 2 /\ s[k] = H /\ gone
      /\ gone => 3 \in DOMAIN s /\ s[3] = H
  <2> DEFINE w == <<W>>
             v == s1 \o w
  <2>1. /\ w \in Seq(Event) /\ Len(w) = 1 /\ w[1] = W
        /\ old = None => Len(s1) = 0 /\ Len(s3) = 0
        /\ old # None => Len(s1) = 1 /\ s1[1] = L
        /\ gone => Len(s3) = 1 /\ s3[1] = H
        /\ ~ gone => Len(s3) = 0
    BY <1>2, <1>3 DEF gone
  <2> HIDE DEF s1, s3, w
  <2>2. Spliced(v, s1, w) /\ v \in Seq(Event)
    BY <1>4, <2>1, SplicedParts
  <2>3. Spliced(s, v, s3)
    <3> HIDE DEF v
    <3> QED BY <1>4, <2>2, SplicedParts DEF v, w
  <2> HIDE DEF s, v
  <2>4. CASE old = None
    <3>1. /\ Len(v) = 1 /\ 1 \in 1 .. Len(w) /\ 0 + 1 = 1 /\ Len(s1) = 0
          /\ DOMAIN s = 1 .. 1 /\ 1 \in 1 .. Len(v)
      BY <2>1, <2>2, <2>3, <2>4 DEF Spliced
    <3>2. v[1] = W /\ s[1] = v[1]
      BY <2>1, <2>2, <2>3, <3>1 DEF Spliced
    <3> QED BY <1>3, <2>4, <3>1, <3>2 DEF gone
  <2>5. CASE old # None
    <3>1. /\ Len(v) = 2 /\ 1 \in 1 .. Len(w) /\ 1 + 1 = 2 /\ Len(s1) = 1
          /\ 1 \in 1 .. Len(s1) /\ 1 \in 1 .. Len(v) /\ 2 \in 1 .. Len(v)
          /\ gone => DOMAIN s = 1 .. 3 /\ 1 \in 1 .. Len(s3) /\ 2 + 1 = 3
          /\ ~ gone => DOMAIN s = 1 .. 2
      BY <2>1, <2>2, <2>3, <2>5 DEF Spliced
    <3>2. v[1] = L /\ v[2] = W /\ s[1] = v[1] /\ s[2] = v[2]
      BY <2>1, <2>2, <2>3, <2>5, <3>1 DEF Spliced
    <3>3. gone => s[3] = H
      BY <2>1, <2>3, <3>1 DEF Spliced
    <3> QED BY <2>5, <3>1, <3>2, <3>3
  <2> QED BY <2>4, <2>5
<1>7. e \in {1, 2} /\ (e = 1 <=> old = None)
  OBVIOUS
<1> HIDE DEF s, e
<1>8. GoneReport(master, master', l, s)
  BY <1>1, <1>5, <1>6, <1>7 DEF GoneReport, GoneAt, L, W, H, gone
<1> QED BY <1>5, <1>8

LEMMA TracesDelLink ==
  ASSUME KernelTypeOK, NEW l \in Links, DelLink(l)
  PROVE  \E s : Traces(master, master', s) /\ queue' = queue \o s
<1>1. PICK s : GoneReport(master, master', l, s) /\ queue' = queue \o s
  BY DelLinkReport
<1>2. master \in [Links -> LinkState]
  BY DEF KernelTypeOK
<1>3. PICK e \in {1, 2} : GoneAt(master, master', l, s, e)
  BY <1>1 DEF GoneReport
<1>4. Traces(master, master', s)
  BY <1>1, <1>2, <1>3, TracesGone DEF GoneReport, GoneAt
<1> QED BY <1>1, <1>4

(* The creation of an HSR link.                                            *)
LEMMA TracesCreate ==
  ASSUME NEW m \in [Links -> LinkState], NEW h \in Names,
         NEW a \in Links, NEW b \in Links, CanCreate(m, h, a, b)
  PROVE  Traces(m, Enslaved(m, h, a, b), CreateEvents(h, a, b))
<1> DEFINE m2 == Enslaved(m, h, a, b)
           s == CreateEvents(h, a, b)
           H == HsrEvent(h, a)
           A == LinkEvent(a, h)
           B == LinkEvent(b, h)
<1>1. H \in Event /\ A \in Event /\ B \in Event
  BY EventTypes, StateTypes
<1>2. /\ a # b /\ None \notin Names /\ Absent \notin Links
      /\ h # None /\ h # Absent /\ m[a] = None /\ m[b] = None
  BY DistinctAssumption DEF CanCreate
<1>3. s \in {<<H, A, B>>, <<A, H, B>>, <<A, B, H>>}
  BY DEF CreateEvents
<1> HIDE DEF s, H, A, B
<1>4. s \in Seq(Event) /\ DOMAIN s = {1, 2, 3}
  <2>1. CASE s = <<H, A, B>>
    BY <1>1, <2>1
  <2>2. CASE s = <<A, H, B>>
    BY <1>1, <2>2
  <2>3. CASE s = <<A, B, H>>
    BY <1>1, <2>3
  <2> QED BY <1>3, <2>1, <2>2, <2>3
<1>5. \E x, y, z \in DOMAIN s :
        /\ s[x] = H /\ s[y] = A /\ s[z] = B
        /\ \A k \in DOMAIN s : k \in {x, y, z}
  <2>1. CASE s = <<H, A, B>>
    <3>1. s[1] = H /\ s[2] = A /\ s[3] = B
      BY <2>1
    <3> QED BY <1>4, <3>1
  <2>2. CASE s = <<A, H, B>>
    <3>1. s[2] = H /\ s[1] = A /\ s[3] = B
      BY <2>2
    <3> QED BY <1>4, <3>1
  <2>3. CASE s = <<A, B, H>>
    <3>1. s[3] = H /\ s[1] = A /\ s[2] = B
      BY <2>3
    <3> QED BY <1>4, <3>1
  <2> QED BY <1>3, <2>1, <2>2, <2>3
<1>5a. PICK x, y, z \in DOMAIN s :
         /\ s[x] = H /\ s[y] = A /\ s[z] = B
         /\ \A k \in DOMAIN s : k \in {x, y, z}
  BY <1>5
<1>6. x # y /\ x # z /\ y # z
  BY <1>2, <1>5a, <1>4, EventParts DEF H, A, B
<1>7. ASSUME NEW l \in Links
      PROVE  ToldLast(m, m2, s, l)
  <2>1. CASE l = a
    <3>1. m2[l] = h /\ AboutLink(s[y], l) /\ s[y].up = h
      BY <1>5a, <1>4, <2>1, EventParts DEF Enslaved, A
    <3>2. \A j \in DOMAIN s : y < j => ~ AboutLink(s[j], l)
      BY <1>2, <1>4, <1>5a, <2>1, EventParts DEF H, B
    <3> QED BY <3>1, <3>2 DEF ToldLast
  <2>2. CASE l = b
    <3>1. m2[l] = h /\ AboutLink(s[z], l) /\ s[z].up = h
      BY <1>5a, <1>4, <2>2, EventParts DEF Enslaved, B
    <3>2. \A j \in DOMAIN s : z < j => ~ AboutLink(s[j], l)
      BY <1>2, <1>4, <1>5a, <2>2, EventParts DEF H, A
    <3> QED BY <3>1, <3>2 DEF ToldLast
  <2>3. CASE l \notin {a, b}
    <3>1. m2[l] = m[l]
      BY <2>3 DEF Enslaved
    <3>2. \A k \in DOMAIN s : ~ AboutLink(s[k], l)
      BY <1>5a, <1>4, <2>3, EventParts DEF H, A, B
    <3> QED BY <3>1, <3>2 DEF ToldLast
  <2> QED BY <2>1, <2>2, <2>3
<1>8. ASSUME NEW g \in Names, Exists(m2, g)
      PROVE  HsrToldLast(m, s, g)
  <2>1. \A k \in DOMAIN s : ~ Deletes(s[k], g)
    BY <1>2, <1>5a, <1>4, EventParts DEF H, A, B
  <2>2. CASE g = h
    <3>1. Creates(s[x], g)
      BY <1>2, <1>5a, <1>4, <2>2, EventParts DEF H
    <3> QED BY <2>1, <3>1 DEF HsrToldLast
  <2>3. CASE g # h
    <3>1. Exists(m, g)
      BY <1>8, <2>3 DEF Exists, SlavesOf, Enslaved
    <3> QED BY <2>1, <3>1 DEF HsrToldLast
  <2> QED BY <2>2, <2>3
<1>9. \A l \in Links : \A k \in DOMAIN s : ~ Frees(s[k], l)
  BY <1>2, <1>5a, <1>4, EventParts DEF H, A, B
<1>10. ASSUME NEW g \in Names, NEW f \in Links, NEW k \in DOMAIN s,
              s[k] = HsrEvent(g, f)
       PROVE  ToldEnslaved(s, g, f, k)
  <2>1. k = x /\ g = h /\ f = a
    BY <1>5a, <1>4, <1>10, EventParts DEF H, A, B
  <2>2. CASE y < k
    <3>1. \A i \in DOMAIN s : y < i /\ i < k => ~ AboutLink(s[i], f)
      BY <1>2, <1>4, <1>5a, <2>1, EventParts DEF H, B
    <3> QED BY <1>5a, <1>4, <2>1, <2>2, <3>1 DEF ToldEnslaved, A
  <2>3. CASE y > k
    BY <1>5a, <1>4, <2>1, <2>3 DEF ToldEnslaved, A
  <2> QED BY <1>4, <1>6, <2>1, <2>2, <2>3
<1> HIDE DEF m2
<1>11. Traces(m, m2, s)
  BY <1>4, <1>7, <1>8, <1>9, <1>10 DEF Traces
<1> QED BY <1>11 DEF m2, s

(* The deletion of an HSR link.                                            *)
LEMMA DeleteOrder ==
  ASSUME NEW m \in [Links -> LinkState], NEW h \in Names,
         NEW events \in DeleteEvents(m, h)
  PROVE  \E n \in Nat : \E order \in [1 .. n -> SlavesOf(m, h)] :
           /\ \A i, j \in 1 .. n : i # j => order[i] # order[j]
           /\ \A l \in SlavesOf(m, h) : \E i \in 1 .. n : order[i] = l
           /\ events \in Seq(Event) /\ DOMAIN events = 1 .. (n + 1)
           /\ \A k \in 1 .. n : events[k] = LinkEvent(order[k], None)
           /\ events[n + 1] = HsrEvent(h, Absent)
<1> DEFINE S == SlavesOf(m, h)
           n == Cardinality(S)
<1>1. PICK order \in SetToSeqs(S) :
        events = [k \in DOMAIN order |-> LinkEvent(order[k], None)]
                   \o <<HsrEvent(h, Absent)>>
  BY DEF DeleteEvents
<1>2. IsFiniteSet(S) /\ n \in Nat
  BY LinksAssumption, FS_Subset, FS_CardinalityType DEF SlavesOf
<1>3. order \in [1 .. n -> S] /\ \A i, j \in 1 .. n : i # j => order[i] # order[j]
  BY DEF SetToSeqs
<1>4. \A l \in S : \E i \in 1 .. n : order[i] = l
  <2>1. order \in Injection(1 .. n, S)
    BY <1>3 DEF Injection, IsInjective
  <2>2. Cardinality(1 .. n) = n
    BY <1>2, FS_Interval
  <2>3. order \in Surjection(1 .. n, S)
    BY <1>2, <2>1, <2>2, FS_Injection
  <2> QED BY <2>3 DEF Surjection
<1> DEFINE links == [k \in DOMAIN order |-> LinkEvent(order[k], None)]
           hsr == <<HsrEvent(h, Absent)>>
<1>5. \A l \in S : LinkEvent(l, None) \in Event
  BY EventTypes, StateTypes DEF SlavesOf
<1>6. links \in [1 .. n -> Event]
  BY <1>3, <1>5
<1>7. /\ links \in Seq(Event) /\ Len(links) = n
      /\ \A k \in 1 .. n : links[k] = LinkEvent(order[k], None)
  BY <1>2, <1>3, <1>6, SeqDef
<1>8. hsr \in Seq(Event) /\ Len(hsr) = 1 /\ hsr[1] = HsrEvent(h, Absent)
  BY EventTypes
<1> HIDE DEF links, hsr, S, n
<1>9. events = links \o hsr
  BY <1>1 DEF links, hsr
<1>10. Spliced(events, links, hsr) /\ events \in Seq(Event)
  BY <1>7, <1>8, <1>9, SplicedParts
<1>11. /\ DOMAIN events = 1 .. (n + 1)
       /\ \A k \in 1 .. n : events[k] = links[k]
       /\ events[n + 1] = hsr[1]
  BY <1>2, <1>7, <1>8, <1>10 DEF Spliced
<1>12. /\ events \in Seq(Event) /\ DOMAIN events = 1 .. (n + 1)
       /\ \A k \in 1 .. n : events[k] = LinkEvent(order[k], None)
       /\ events[n + 1] = HsrEvent(h, Absent)
  BY <1>7, <1>8, <1>10, <1>11
<1>13. n \in Nat /\ order \in [1 .. n -> S]
  BY <1>2, <1>3
<1> QED BY <1>3, <1>4, <1>12, <1>13 DEF S

LEMMA TracesDelete ==
  ASSUME NEW m \in [Links -> LinkState], NEW h \in Names,
         NEW events \in DeleteEvents(m, h)
  PROVE  Traces(m, Released(m, h), events)
<1> DEFINE S == SlavesOf(m, h)
           m2 == Released(m, h)
           s == events
<1>0. PICK n \in Nat : \E order \in [1 .. n -> S] :
        /\ \A i, j \in 1 .. n : i # j => order[i] # order[j]
        /\ \A l \in S : \E i \in 1 .. n : order[i] = l
        /\ s \in Seq(Event) /\ DOMAIN s = 1 .. (n + 1)
        /\ \A k \in 1 .. n : s[k] = LinkEvent(order[k], None)
        /\ s[n + 1] = HsrEvent(h, Absent)
  BY DeleteOrder
<1>1. PICK order \in [1 .. n -> S] :
        /\ \A i, j \in 1 .. n : i # j => order[i] # order[j]
        /\ \A l \in S : \E i \in 1 .. n : order[i] = l
        /\ s \in Seq(Event) /\ DOMAIN s = 1 .. (n + 1)
        /\ \A k \in 1 .. n : s[k] = LinkEvent(order[k], None)
        /\ s[n + 1] = HsrEvent(h, Absent)
  BY <1>0
<1>2. /\ n \in Int /\ \A k \in 1 .. n : k \in DOMAIN s /\ k < n + 1
      /\ \A k \in DOMAIN s : k \in Int /\ (k \in 1 .. n \/ k = n + 1)
  BY <1>1
<1>3. S \subseteq Links /\ \A l \in Links : l \in S <=> m[l] = h
  BY DEF SlavesOf
<1>4. /\ \A l \in S : m2[l] = None
      /\ \A l \in Links \ S : m2[l] = m[l]
      /\ None # h /\ None \notin Names /\ Absent \notin Links
  BY <1>3, DistinctAssumption DEF Released
<1> HIDE DEF S, m2
<1>5. \A k \in DOMAIN s, l \in Links :
        /\ AboutLink(s[k], l) <=> k \in 1 .. n /\ order[k] = l
        /\ Frees(s[k], l) => k \in 1 .. n /\ order[k] = l
  <2>1. SUFFICES ASSUME NEW k \in DOMAIN s, NEW l \in Links
                 PROVE  /\ AboutLink(s[k], l) <=> k \in 1 .. n /\ order[k] = l
                        /\ Frees(s[k], l) => k \in 1 .. n /\ order[k] = l
    OBVIOUS
  <2>2. CASE k \in 1 .. n
    BY <1>1, <2>2, EventParts
  <2>3. CASE k = n + 1
    <3>1. ~ (k \in 1 .. n)
      BY <2>3
    <3> QED BY <1>1, <2>3, <3>1, EventParts
  <2> QED BY <1>2, <2>2, <2>3
<1>6. ASSUME NEW l \in Links
      PROVE  ToldLast(m, m2, s, l)
  <2>1. CASE l \in S
    <3>1. PICK i \in 1 .. n : order[i] = l
      BY <1>1, <2>1
    <3>2. AboutLink(s[i], l) /\ s[i].up = m2[l]
      BY <1>1, <1>4, <2>1, <3>1, EventParts
    <3>3. \A j \in DOMAIN s : i < j => ~ AboutLink(s[j], l)
      BY <1>1, <1>5, <3>1
    <3> QED BY <1>2, <3>1, <3>2, <3>3 DEF ToldLast
  <2>2. CASE l \notin S
    <3>1. \A k \in DOMAIN s : ~ AboutLink(s[k], l)
      BY <1>5, <2>2
    <3> QED BY <1>4, <2>2, <3>1 DEF ToldLast
  <2> QED BY <2>1, <2>2
<1>7. ASSUME NEW g \in Names, Exists(m2, g)
      PROVE  HsrToldLast(m, s, g)
  <2>1. PICK l \in Links : m2[l] = g
    BY <1>7 DEF Exists, SlavesOf
  <2>2. m[l] = g /\ g # h
    BY <1>3, <1>4, <2>1
  <2>3. Exists(m, g)
    BY <2>2 DEF Exists, SlavesOf
  <2>4. \A k \in DOMAIN s : ~ Deletes(s[k], g)
    BY <1>1, <1>2, <2>2, EventParts
  <2> QED BY <2>3, <2>4 DEF HsrToldLast
<1>8. ASSUME NEW l \in Links, NEW k \in DOMAIN s, Frees(s[k], l)
      PROVE  ToldFreed(m, s, l, k)
  <2>1. k \in 1 .. n /\ order[k] = l
    BY <1>5, <1>8
  <2>2. m[l] = h
    BY <1>3, <2>1
  <2>3. ASSUME NEW j \in DOMAIN s, j < k
        PROVE  j \in 1 .. n /\ j # k /\ ~ AboutLink(s[j], l)
    <3>1. j \in 1 .. n /\ j # k
      BY <1>2, <2>1, <2>3
    <3> QED BY <1>1, <1>5, <2>1, <3>1
  <2>4. \A j \in DOMAIN s : j < k => ~ Deletes(s[j], h)
    BY <1>1, <2>3, EventParts
  <2> QED BY <2>2, <2>3, <2>4 DEF ToldFreed
<1>9. ASSUME NEW g \in Names, NEW f \in Links, NEW k \in DOMAIN s,
             s[k] = HsrEvent(g, f)
      PROVE  ToldEnslaved(s, g, f, k)
  <2>1. k = n + 1
    BY <1>1, <1>2, <1>9, EventParts
  <2> QED BY <1>1, <1>4, <1>9, <2>1, EventParts
<1>10. Traces(m, m2, s)
  BY <1>1, <1>6, <1>7, <1>8, <1>9 DEF Traces
<1> QED BY <1>10 DEF m2

LEMMA TracesRequest ==
  ASSUME IInv, KernelRequest
  PROVE  \E s : Traces(master, master', s) /\ queue' = queue \o s
<1>1. master \in [Links -> LinkState] /\ queue = queue \o <<>> /\ job \in Names
  BY RequestStart, RequestOutcome
<1>2. CASE UNCHANGED <<master, queue>>
  BY <1>1, <1>2, TracesNothing
<1>3. ASSUME NEW events \in DeleteEvents(master, job),
             master' = Released(master, job), queue' = queue \o events
      PROVE  \E s : Traces(master, master', s) /\ queue' = queue \o s
  BY <1>1, <1>3, TracesDelete
<1>4. ASSUME NEW a \in Links, NEW b \in Links, CanCreate(master, job, a, b),
             master' = Enslaved(master, job, a, b),
             queue' = queue \o CreateEvents(job, a, b)
      PROVE  \E s : Traces(master, master', s) /\ queue' = queue \o s
  BY <1>1, <1>4, TracesCreate
<1> QED BY <1>2, <1>3, <1>4, RequestOutcome

LEMMA TracesKernel ==
  ASSUME KernelTypeOK, KernelStep, ~ Turns(Bridges, {None})
  PROVE  \E s : Traces(master, master', s) /\ queue' = queue \o s
<1> DEFINE Said == \E s : Traces(master, master', s) /\ queue' = queue \o s
<1>1. master \in [Links -> LinkState] /\ queue \in Seq(Event)
  BY DEF KernelTypeOK
<1>2. ASSUME NEW l \in Links, NEW up \in LinkState \ Names,
             master' = [master EXCEPT ![l] = up],
             up = None => master[l] = Absent,
             queue' = Append(queue, LinkEvent(l, up))
      PROVE  Said
  <2>1. LinkEvent(l, up) \in Event
    BY EventTypes
  <2>2. queue' = queue \o <<LinkEvent(l, up)>>
    BY <1>1, <1>2, <2>1, AppendIsConcat
  <2> QED BY <1>1, <1>2, <2>2, TracesLink
<1>3. ASSUME NEW l \in Links, AddLink(l)
      PROVE  Said
  BY <1>2, <1>3, StateTypes, DistinctAssumption DEF AddLink
<1>4. ASSUME NEW l \in Links, DelLink(l)
      PROVE  Said
  BY <1>4, TracesDelLink
<1>5. ASSUME NEW l \in Links, Release(l)
      PROVE  FALSE
  BY <1>1, <1>5 DEF Release, Turns
<1>6. ASSUME NEW l \in Links, NEW b \in Bridges, Enslave(l, b)
      PROVE  Said
  BY <1>2, <1>6, StateTypes, DistinctAssumption DEF Enslave
<1>7. ASSUME NEW h \in Names, NEW a \in Links, NEW b \in Links, AdminAdd(h, a, b)
      PROVE  Said
  BY <1>1, <1>7, TracesCreate DEF AdminAdd
<1>8. ASSUME NEW h \in Names, AdminDel(h)
      PROVE  Said
  BY <1>1, <1>8, TracesDelete DEF AdminDel
<1> QED BY <1>3, <1>4, <1>5, <1>6, <1>7, <1>8 DEF KernelStep

-----------------------------------------------------------------------------
(* The oldest message is read.                                             *)

(* What it makes of the cache.                                             *)
CacheRead(e, cm, hs, cm2, hs2) ==
  /\ \A l \in Links : cm2[l] = IF AboutLink(e, l) THEN e.up ELSE cm[l]
  /\ \A h : Creates(e, h) \/ (h \in hs /\ ~ Deletes(e, h)) <=> h \in hs2

LEMMA BeforeTail ==
  ASSUME NEW q, NEW t, Remains(t, q), NEW cm, NEW hs, NEW cm2, NEW hs2,
         CacheRead(q[1], cm, hs, cm2, hs2), NEW l \in Links,
         NEW k \in Int, k >= 1, NEW up, Before(q, cm, l, k + 1, up)
  PROVE  Before(t, cm2, l, k, up)
<1>1. \A j \in DOMAIN t : j \in Int /\ j + 1 \in DOMAIN q /\ t[j] = q[j + 1]
  BY DEF Remains
<1>2. 1 \in DOMAIN q /\ 1 < k + 1
  BY DEF Remains
<1>3. CASE cm[l] = up /\ \A j \in DOMAIN q : j < k + 1 => ~ AboutLink(q[j], l)
  <2>1. cm2[l] = up
    BY <1>2, <1>3 DEF CacheRead
  <2>2. \A j \in DOMAIN t : j < k => ~ AboutLink(t[j], l)
    BY <1>1, <1>3
  <2> QED BY <2>1, <2>2 DEF Before
<1>4. ASSUME NEW j \in DOMAIN q, j < k + 1, AboutLink(q[j], l), q[j].up = up,
             \A i \in DOMAIN q : j < i /\ i < k + 1 => ~ AboutLink(q[i], l)
      PROVE  Before(t, cm2, l, k, up)
  <2>1. CASE j = 1
    <3>1. cm2[l] = up
      BY <1>4, <2>1 DEF CacheRead
    <3>2. \A i \in DOMAIN t : 1 < i + 1
      BY DEF Remains
    <3>3. \A i \in DOMAIN t : i < k => ~ AboutLink(t[i], l)
      BY <1>1, <1>4, <2>1, <3>2
    <3> QED BY <3>1, <3>3 DEF Before
  <2>2. CASE j # 1
    <3>1. j - 1 \in DOMAIN t /\ t[j - 1] = q[j] /\ j - 1 < k
      BY <1>4, <2>2 DEF Remains
    <3>2. \A i \in DOMAIN t : j - 1 < i /\ i < k => ~ AboutLink(t[i], l)
      BY <1>1, <1>4 DEF Remains
    <3> QED BY <1>4, <3>1, <3>2 DEF Before
  <2> QED BY <2>1, <2>2
<1> QED BY <1>3, <1>4 DEF Before

LEMMA KnownTail ==
  ASSUME NEW q, NEW t, Remains(t, q), NEW cm, NEW hs, NEW cm2, NEW hs2,
         CacheRead(q[1], cm, hs, cm2, hs2), NEW h,
         NEW k \in Int, k >= 1, Known(q, hs, h, k + 1)
  PROVE  Known(t, hs2, h, k)
<1>1. \A j \in DOMAIN t : j \in Int /\ j + 1 \in DOMAIN q /\ t[j] = q[j + 1]
  BY DEF Remains
<1>2. 1 \in DOMAIN q /\ 1 < k + 1
  BY DEF Remains
<1>3. CASE h \in hs /\ \A j \in DOMAIN q : j < k + 1 => ~ Deletes(q[j], h)
  <2>1. h \in hs2
    BY <1>2, <1>3 DEF CacheRead
  <2>2. \A j \in DOMAIN t : j < k => ~ Deletes(t[j], h)
    BY <1>1, <1>3
  <2> QED BY <2>1, <2>2 DEF Known
<1>4. ASSUME NEW j \in DOMAIN q, j < k + 1, Creates(q[j], h),
             \A i \in DOMAIN q : j < i /\ i < k + 1 => ~ Deletes(q[i], h)
      PROVE  Known(t, hs2, h, k)
  <2>1. CASE j = 1
    <3>1. h \in hs2
      BY <1>4, <2>1 DEF CacheRead
    <3>2. \A i \in DOMAIN t : 1 < i + 1
      BY DEF Remains
    <3>3. \A i \in DOMAIN t : i < k => ~ Deletes(t[i], h)
      BY <1>1, <1>4, <2>1, <3>2
    <3> QED BY <3>1, <3>3 DEF Known
  <2>2. CASE j # 1
    <3>1. j - 1 \in DOMAIN t /\ t[j - 1] = q[j] /\ j - 1 < k
      BY <1>4, <2>2 DEF Remains
    <3>2. \A i \in DOMAIN t : j - 1 < i /\ i < k => ~ Deletes(t[i], h)
      BY <1>1, <1>4 DEF Remains
    <3> QED BY <1>4, <3>1, <3>2 DEF Known
  <2> QED BY <2>1, <2>2
<1> QED BY <1>3, <1>4 DEF Known

LEMMA ReadingMasters ==
  ASSUME NEW q \in Seq(Event), q # <<>>, NEW cm, NEW hs, NEW cm2, NEW hs2,
         CacheRead(Head(q), cm, hs, cm2, hs2), NEW m, MastersHeardOf(q, cm, m)
  PROVE  MastersHeardOf(Tail(q), cm2, m)
<1> DEFINE t == Tail(q)
<1>1. Head(q) = q[1] /\ Remains(t, q) /\ Len(t) + 1 = Len(q) /\ Len(t) \in Nat
  BY TailParts
<1> HIDE DEF t
<1>2. CacheRead(q[1], cm, hs, cm2, hs2)
  BY <1>1
<1>3. Len(t) + 1 \in Int /\ Len(t) + 1 >= 1 /\ (Len(t) + 1) + 1 = Len(q) + 1
  BY <1>1
<1>4. ASSUME NEW l \in Links
      PROVE  Before(t, cm2, l, Len(t) + 1, m[l])
  <2>1. Before(q, cm, l, (Len(t) + 1) + 1, m[l])
    BY <1>3 DEF MastersHeardOf
  <2> QED BY <1>1, <1>2, <1>3, <2>1, BeforeTail
<1> QED BY <1>4 DEF MastersHeardOf, t

LEMMA ReadingTells ==
  ASSUME NEW q \in Seq(Event), q # <<>>, NEW cm, NEW hs, NEW cm2, NEW hs2,
         CacheRead(Head(q), cm, hs, cm2, hs2), NEW m, Told(q, cm, hs, m)
  PROVE  Told(Tail(q), cm2, hs2, m)
<1> DEFINE t == Tail(q)
<1>1. Head(q) = q[1] /\ Remains(t, q) /\ Len(t) + 1 = Len(q) /\ Len(t) \in Nat
  BY TailParts
<1> HIDE DEF t
<1>2. CacheRead(q[1], cm, hs, cm2, hs2)
  BY <1>1
<1>3. \A k \in DOMAIN t : k \in Int /\ k >= 1 /\ k + 1 \in DOMAIN q /\ t[k] = q[k + 1]
  BY <1>1 DEF Remains
<1>4. Len(t) + 1 \in Int /\ Len(t) + 1 >= 1 /\ (Len(t) + 1) + 1 = Len(q) + 1
  BY <1>1
<1>5. MastersHeardOf(t, cm2, m)
  BY ReadingMasters DEF Told, t
<1>6. HsrLinksKnown(t, hs2, m)
  <2>1. ASSUME NEW h \in Names, Exists(m, h)
        PROVE  Known(t, hs2, h, Len(t) + 1)
    <3>1. Known(q, hs, h, (Len(t) + 1) + 1)
      BY <1>4, <2>1 DEF Told, HsrLinksKnown
    <3> QED BY <1>1, <1>2, <1>4, <3>1, KnownTail
  <2> QED BY <2>1 DEF HsrLinksKnown
<1>7. FreedFromSome(t, cm2, hs2)
  <2>1. SUFFICES ASSUME NEW l \in Links, NEW k \in DOMAIN t, Frees(t[k], l)
                 PROVE  \E up \in LinkState : FreedFrom(t, cm2, hs2, l, k, up)
    BY DEF FreedFromSome
  <2>2. PICK up \in LinkState : FreedFrom(q, cm, hs, l, k + 1, up)
    BY <1>3, <2>1 DEF Told, FreedFromSome
  <2>3. Before(t, cm2, l, k, up)
    BY <1>1, <1>2, <1>3, <2>2, BeforeTail DEF FreedFrom
  <2>4. Known(q, hs, up, k + 1) => Known(t, hs2, up, k)
    BY <1>1, <1>2, <1>3, KnownTail
  <2>5. ASSUME NEW j \in DOMAIN q, j > k + 1, Withdraws(q[j], l)
        PROVE  \E i \in DOMAIN t : i > k /\ Withdraws(t[i], l)
    <3>1. j - 1 \in DOMAIN t /\ t[j - 1] = q[j] /\ j - 1 > k
      BY <1>1, <1>3, <2>5 DEF Remains
    <3> QED BY <2>5, <3>1
  <2> QED BY <2>2, <2>3, <2>4, <2>5 DEF FreedFrom
<1>8. FirstSlavesEnslaved(t, cm2)
  <2>1. SUFFICES ASSUME NEW h \in Names, NEW f \in Links, NEW k \in DOMAIN t,
                        t[k] = HsrEvent(h, f)
                 PROVE  \/ Before(t, cm2, f, k, h)
                        \/ \E j \in DOMAIN t : j > k /\ t[j] = LinkEvent(f, h)
    BY DEF FirstSlavesEnslaved
  <2>2. \/ Before(q, cm, f, k + 1, h)
        \/ \E j \in DOMAIN q : j > k + 1 /\ q[j] = LinkEvent(f, h)
    BY <1>3, <2>1 DEF Told, FirstSlavesEnslaved
  <2>3. Before(q, cm, f, k + 1, h) => Before(t, cm2, f, k, h)
    BY <1>1, <1>2, <1>3, BeforeTail
  <2>4. ASSUME NEW j \in DOMAIN q, j > k + 1, q[j] = LinkEvent(f, h)
        PROVE  \E i \in DOMAIN t : i > k /\ t[i] = LinkEvent(f, h)
    <3>1. j - 1 \in DOMAIN t /\ t[j - 1] = q[j] /\ j - 1 > k
      BY <1>1, <1>3, <2>4 DEF Remains
    <3> QED BY <2>4, <3>1
  <2> QED BY <2>2, <2>3, <2>4
<1> QED BY <1>5, <1>6, <1>7, <1>8 DEF Told, t

(* A message after which the bit of l is not set is still there, or was    *)
(* the oldest one.                                                         *)
ResetNow(e, cm, hs, l) ==
  Withdraws(e, l) \/ (Frees(e, l) /\ cm[l] \in Names /\ cm[l] \in hs)

LEMMA ReadingResets ==
  ASSUME NEW q \in Seq(Event), q # <<>>, NEW cm, NEW hs, NEW cm2, NEW hs2,
         CacheRead(Head(q), cm, hs, cm2, hs2), NEW m, Told(q, cm, hs, m),
         NEW l \in Links, Resets(q, cm, l)
  PROVE  Resets(Tail(q), cm2, l) \/ ResetNow(Head(q), cm, hs, l)
<1> DEFINE t == Tail(q)
<1>1. Head(q) = q[1] /\ Remains(t, q)
  BY TailParts
<1> HIDE DEF t
<1>2. PICK k \in DOMAIN q :
        \/ Withdraws(q[k], l)
        \/ Frees(q[k], l) /\ \E h \in Names : Before(q, cm, l, k, h)
  BY DEF Resets
<1>3. CASE k # 1
  <2>1. /\ k - 1 \in DOMAIN t /\ t[k - 1] = q[k]
        /\ k - 1 \in Int /\ k - 1 >= 1 /\ (k - 1) + 1 = k
    BY <1>1, <1>3 DEF Remains
  <2>2. CASE Withdraws(q[k], l)
    <3>1. Resets(t, cm2, l)
      BY <2>1, <2>2 DEF Resets
    <3> QED BY <3>1 DEF t
  <2>3. ASSUME Frees(q[k], l), NEW h \in Names, Before(q, cm, l, k, h)
        PROVE  Resets(Tail(q), cm2, l)
    <3>1. Before(q, cm, l, (k - 1) + 1, h)
      BY <2>1, <2>3
    <3>2. Before(t, cm2, l, k - 1, h)
      <4>1. CacheRead(q[1], cm, hs, cm2, hs2)
        BY <1>1
      <4> QED BY <1>1, <2>1, <3>1, <4>1, BeforeTail
    <3>3. Resets(t, cm2, l)
      BY <2>1, <2>3, <3>2 DEF Resets
    <3> QED BY <3>3 DEF t
  <2> QED BY <1>2, <2>2, <2>3
<1>4. ASSUME k = 1, Frees(q[1], l), NEW h \in Names, Before(q, cm, l, 1, h)
      PROVE  ResetNow(Head(q), cm, hs, l)
  <2>1. \A j \in DOMAIN q : ~ (j < 1)
    BY <1>1 DEF Remains
  <2>2. cm[l] = h
    BY <1>4, <2>1 DEF Before
  <2>3. PICK up \in LinkState : FreedFrom(q, cm, hs, l, 1, up)
    BY <1>1, <1>4 DEF Told, FreedFromSome, Remains
  <2>4. up = h
    BY <2>1, <2>2, <2>3 DEF FreedFrom, Before
  <2>5. Known(q, hs, h, 1)
    BY <2>3, <2>4, DistinctAssumption DEF FreedFrom
  <2>6. h \in hs
    BY <2>1, <2>5 DEF Known
  <2> QED BY <1>1, <1>4, <2>2, <2>6 DEF ResetNow
<1> QED BY <1>1, <1>2, <1>3, <1>4 DEF ResetNow, t

(* A link that has, or is about to get, a master in the cache has one, or  *)
(* will be heard of without one.                                           *)
LEMMA MasterJustified ==
  ASSUME NEW q \in Seq(Event), NEW cm, NEW hs, NEW m \in [Links -> LinkState],
         Told(q, cm, hs, m), NEW l \in Links,
         \/ cm[l] \in Masters
         \/ \E k \in DOMAIN q : AboutLink(q[k], l) /\ q[k].up \in Masters
  PROVE  m[l] \in Masters \/ Resets(q, cm, l)
<1>1. SUFFICES ASSUME m[l] \notin Masters, ~ Resets(q, cm, l)
               PROVE  FALSE
  OBVIOUS
<1>2. /\ None \notin Masters /\ Absent \notin Masters
      /\ m[l] \in {None, Absent}
  BY <1>1, DistinctAssumption DEF Masters, LinkState
<1>3. \A k \in DOMAIN q : k \in Int /\ k < Len(q) + 1
  OBVIOUS
<1>4. \A k \in DOMAIN q : AboutLink(q[k], l) => q[k].up # Absent
  BY <1>1 DEF AboutLink, Withdraws, Resets
<1>5. Before(q, cm, l, Len(q) + 1, m[l])
  BY DEF Told, MastersHeardOf
<1>6. PICK j \in DOMAIN q :
        /\ AboutLink(q[j], l) /\ q[j].up = m[l]
        /\ \A i \in DOMAIN q : j < i => ~ AboutLink(q[i], l)
  BY <1>2, <1>3, <1>5 DEF Before
<1>7. Frees(q[j], l)
  BY <1>2, <1>4, <1>6 DEF Frees
<1>8. PICK up \in LinkState : FreedFrom(q, cm, hs, l, j, up)
  BY <1>7 DEF Told, FreedFromSome
<1>9. up = Absent
  <2>1. up \notin Names
    BY <1>1, <1>7, <1>8 DEF FreedFrom, Resets
  <2>2. ~ \E i \in DOMAIN q : i > j /\ Withdraws(q[i], l)
    BY <1>1 DEF Resets
  <2> QED BY <1>8, <2>1, <2>2 DEF FreedFrom
<1>10. cm[l] = Absent /\ \A i \in DOMAIN q : i < j => ~ AboutLink(q[i], l)
  BY <1>4, <1>8, <1>9 DEF FreedFrom, Before
<1>11. PICK k \in DOMAIN q : AboutLink(q[k], l) /\ q[k].up \in Masters
  BY <1>2, <1>10
<1>12. k # j
  BY <1>2, <1>6, <1>11
<1> QED BY <1>3, <1>6, <1>10, <1>11, <1>12

-----------------------------------------------------------------------------
(* The bits of the nodes.                                                  *)

LEMMA BusyOfPart ==
  ASSUME NEW v, NEW w, NEW m, \A k \in DOMAIN v : \E j \in DOMAIN w : v[k] = w[j]
  PROVE  BusyOf(v, w, m)
BY DEF BusyOf

LEMMA BusyOfAppend ==
  ASSUME NEW S, NEW u \in Seq(S), NEW w, NEW m, BusyOf(u, w, m),
         NEW n \in S, \A l \in n.busy : m[l] \in Masters
  PROVE  BusyOf(Append(u, n), w, m)
<1> DEFINE v == Append(u, n)
<1>1. \A k \in DOMAIN v : v[k] = n \/ \E j \in DOMAIN u : v[k] = u[j]
  BY AppendProperties2
<1> HIDE DEF v
<1>2. BusyOf(v, w, m)
  BY <1>1 DEF BusyOf
<1> QED BY <1>2 DEF v

(* The configuration sets true bits, and requests none.                    *)
LEMMA BusyOfRequest ==
  ASSUME IInv, KernelRequest \/ OwnWork
  PROVE  BusyOf(waiting', waiting, master)
<1> DEFINE N == WaitListNode(Links, Names)
<1>1. waiting \in Seq(N)
  BY WaitingType
<1>2. ASSUME NEW h
      PROVE  /\ delete_wait_list_node(waiting, h) \in Seq(N)
             /\ BusyOf(delete_wait_list_node(waiting, h), waiting, master)
             /\ \A c : BusyOf(create_hif(waiting, h, c), waiting, master)
  BY <1>1, DeleteProperties, CreateProperties, BusyOfPart
<1>3. BusyOf(waiting, waiting, master)
  BY BusyOfPart
<1>4. CASE WaitListCreate \/ WaitListRecreate \/ CfgCreate \/ CfgRemove
  BY <1>2, <1>3, <1>4
     DEF WaitListCreate, WaitListRecreate, CfgCreate, CfgRemove
<1>5. CASE CfgReplace
  <2> DEFINE n == wait_list_node_alloc(job, conf[job][1], conf[job][2])
  <2>1. pc = "cfgReplace" => n \in N /\ n.busy = {}
    BY DEF IInv, JobFits, Pair, wait_list_node_alloc, WaitListNode
  <2> HIDE DEF n
  <2>2. pc = "cfgReplace" => BusyOf(Append(waiting, n), waiting, master)
    BY <1>1, <1>3, <2>1, BusyOfAppend
  <2> QED BY <1>3, <1>5, <2>2 DEF CfgReplace, Requeue, n
<1>6. CASE CfgCheck
  <2>1. \/ UNCHANGED waiting
        \/ \E n : /\ NodeOf(n, job, conf[job][1], conf[job][2])
                  /\ \A l \in n.busy : master[l] \in Names
                  /\ Enqueue(n)
    BY <1>6, CheckEnds
  <2>2. ASSUME NEW n, NodeOf(n, job, conf[job][1], conf[job][2]),
               \A l \in n.busy : master[l] \in Names, Enqueue(n)
        PROVE  BusyOf(waiting', waiting, master)
    <3>1. n \in N /\ \A l \in n.busy : master[l] \in Masters
      BY <2>2 DEF NodeOf, Masters
    <3>2. waiting' = Append(waiting, n)
      BY <2>2 DEF Enqueue
    <3> HIDE DEF N
    <3> QED BY <1>1, <1>3, <3>1, <3>2, BusyOfAppend
  <2> QED BY <1>3, <2>1, <2>2
<1>7. ASSUME NEW h \in Names, NEW a \in Links, NEW b \in Links, CfgSet(h, a, b)
      PROVE  BusyOf(waiting', waiting, master)
  BY <1>2, <1>7 DEF CfgSet
<1>8. ASSUME NEW h \in Names, CfgIncomplete(h) \/ CfgDelete(h)
      PROVE  BusyOf(waiting', waiting, master)
  BY <1>2, <1>3, <1>8 DEF CfgIncomplete, CfgDelete
<1>9. CASE CfgUnlist \/ CfgWritesOutside
  BY <1>3, <1>9, ListWorkFrame
<1> QED
  BY <1>4, <1>5, <1>6, <1>7, <1>8, <1>9 DEF KernelRequest, OwnWork, Configuration

(* What the handlers of notifications do to the bits.                      *)
LEMMA HandlersOnBusy ==
  ASSUME NEW w \in Seq(WaitListNode(Links, Names)), NEW k \in DOMAIN w, NEW l
  PROVE  /\ LinkAppeared(w, l)[k].busy = w[k].busy
         /\ HsrGone(w, l)[k].busy = w[k].busy
         /\ link_deleted(w, l)[k].busy = w[k].busy \ {l}
         /\ LinkReleased(w, l)[k].busy = w[k].busy \ {l}
         /\ link_changed_got_busy(w, l)[k].busy \subseteq w[k].busy \cup {l}
<1>1. w[k] \in WaitListNode(Links, Names)
  OBVIOUS
<1> QED
  BY <1>1 DEF LinkAppeared, HsrGone, link_deleted, LinkReleased,
     link_changed_got_busy, WaitListNode

LEMMA ReleasedOnBusy ==
  ASSUME NEW w \in Seq(WaitListNode(Links, Names)), NEW k \in DOMAIN w,
         NEW l, NEW m
  PROVE  link_released_hsr_not(w, l, m)[k].busy = w[k].busy \ {l}
<1>1. w[k] \in WaitListNode(Links, Names)
  OBVIOUS
<1> QED BY <1>1 DEF link_released_hsr_not, WaitListNode

(* The handler of the oldest message e resets the bits it has to reset,    *)
(* and sets only those of links that have a master then, or get one.       *)
BusyHandled(v, w, e, q, cm, hs, cm2) ==
  \A k \in DOMAIN v : \A l \in v[k].busy :
    \/ ~ ResetNow(e, cm, hs, l) /\ \E j \in DOMAIN w : l \in w[j].busy
    \/ cm2[l] \in Masters
    \/ \E j \in DOMAIN q : AboutLink(q[j], l) /\ q[j].up \in Masters

LEMMA ReadingBusy ==
  ASSUME NEW q \in Seq(Event), q # <<>>, NEW cm, NEW hs, NEW cm2, NEW hs2,
         CacheRead(Head(q), cm, hs, cm2, hs2),
         NEW m \in [Links -> LinkState], Told(q, cm, hs, m),
         NEW w, NEW v, BusyTrue(w, q, cm, m),
         \A k \in DOMAIN v : v[k].busy \subseteq Links,
         BusyHandled(v, w, Head(q), Tail(q), cm, hs, cm2)
  PROVE  BusyTrue(v, Tail(q), cm2, m)
<1>1. SUFFICES ASSUME NEW k \in DOMAIN v, NEW l \in v[k].busy
               PROVE  m[l] \in Masters \/ Resets(Tail(q), cm2, l)
  BY DEF BusyTrue
<1>2. l \in Links
  OBVIOUS
<1>3. CASE ~ ResetNow(Head(q), cm, hs, l) /\ \E j \in DOMAIN w : l \in w[j].busy
  <2>1. m[l] \in Masters \/ Resets(q, cm, l)
    BY <1>3 DEF BusyTrue
  <2> QED BY <1>2, <1>3, <2>1, ReadingResets
<1>4. CASE \/ cm2[l] \in Masters
           \/ \E j \in DOMAIN Tail(q) :
                AboutLink(Tail(q)[j], l) /\ Tail(q)[j].up \in Masters
  <2>1. Tail(q) \in Seq(Event) /\ Told(Tail(q), cm2, hs2, m)
    BY ReadingTells
  <2> QED BY <1>2, <1>4, <2>1, MasterJustified
<1> QED BY <1>1, <1>3, <1>4 DEF BusyHandled

(* What a message about a link is, and which bits it asks to reset.        *)
LEMMA LinkRead ==
  ASSUME IInv, NEW l \in Links, NEW old, NEW new, ReceiveLink(l, old, new)
  PROVE  /\ queue \in Seq(Event) /\ queue # <<>> /\ queue' = Tail(queue)
         /\ Head(queue) = LinkEvent(l, new)
         /\ UNCHANGED master /\ cachedMaster[l] = old /\ cachedMaster'[l] = new
         /\ CacheRead(Head(queue), cachedMaster, cachedHsr,
                      cachedMaster', cachedHsr')
         /\ \A g : ResetNow(Head(queue), cachedMaster, cachedHsr, g) =>
              /\ g = l
              /\ new = Absent \/ (new = None /\ old \in Names /\ old \in cachedHsr)
<1>1. /\ queue \in Seq(Event) /\ queue # <<>> /\ queue' = Tail(queue)
      /\ Head(queue) = LinkEvent(l, new)
      /\ UNCHANGED <<master, cachedHsr>> /\ cachedMaster[l] = old
      /\ cachedMaster \in [Links -> LinkState]
      /\ cachedMaster' = [cachedMaster EXCEPT ![l] = new]
  BY DEF IInv, TypeOK, KernelTypeOK, ReceiveLink, Receive
<1>2. CacheRead(Head(queue), cachedMaster, cachedHsr, cachedMaster', cachedHsr')
  BY <1>1, EventParts DEF CacheRead
<1>3. \A g : ResetNow(Head(queue), cachedMaster, cachedHsr, g) =>
        /\ g = l
        /\ new = Absent \/ (new = None /\ old \in Names /\ old \in cachedHsr)
  BY <1>1, EventParts DEF ResetNow
<1> QED BY <1>1, <1>2, <1>3

(* What one about an HSR link is.                                          *)
LEMMA HsrRead ==
  ASSUME IInv, NEW h, NEW f, Receive(HsrEvent(h, f)),
         UNCHANGED cachedMaster,
         \/ f # Absent /\ cachedHsr' = cachedHsr \cup {h}
         \/ f = Absent /\ cachedHsr' = cachedHsr \ {h}
  PROVE  /\ queue \in Seq(Event) /\ queue # <<>> /\ queue' = Tail(queue)
         /\ Head(queue) = HsrEvent(h, f) /\ UNCHANGED master
         /\ CacheRead(Head(queue), cachedMaster, cachedHsr,
                      cachedMaster', cachedHsr')
         /\ \A g : ~ ResetNow(Head(queue), cachedMaster, cachedHsr, g)
<1>1. /\ queue \in Seq(Event) /\ queue # <<>> /\ queue' = Tail(queue)
      /\ Head(queue) = HsrEvent(h, f) /\ UNCHANGED master
  BY DEF IInv, TypeOK, KernelTypeOK, Receive
<1>2. CacheRead(Head(queue), cachedMaster, cachedHsr, cachedMaster', cachedHsr')
  BY <1>1, EventParts DEF CacheRead
<1>3. \A g : ~ ResetNow(Head(queue), cachedMaster, cachedHsr, g)
  BY <1>1, EventParts DEF ResetNow, Withdraws, HsrEvent
<1> QED BY <1>1, <1>2, <1>3

Handled ==
  BusyHandled(waiting', waiting, Head(queue), queue', cachedMaster, cachedHsr,
              cachedMaster')

LEMMA SameBusyHandled ==
  ASSUME NEW v, waiting' = v, DOMAIN v = DOMAIN waiting,
         \A k \in DOMAIN waiting : \A l \in v[k].busy :
           /\ l \in waiting[k].busy
           /\ ~ ResetNow(Head(queue), cachedMaster, cachedHsr, l)
  PROVE  Handled
BY DEF Handled, BusyHandled

LEMMA LinksHandled ==
  ASSUME IInv, LinkNew \/ LinkDel \/ LinkReleasedByBridge
                 \/ LinkReleasedByHsr \/ LinkUnaffected,
         pc' # "crashed"
  PROVE  Handled
<1> DEFINE w == waiting
<1>0. /\ w \in Seq(WaitListNode(Links, Names)) /\ cachedHsr \subseteq Names
      /\ None # Absent /\ None \notin Names \cup Bridges
      /\ Absent \notin Names /\ Names \cap Bridges = {}
  BY WaitingType, DistinctAssumption DEF TypeOK
<1>1. ASSUME NEW l \in Links, NEW new \in LinkState \ {Absent},
             ReceiveLink(l, Absent, new), waiting' = LinkAppeared(w, l)
      PROVE  Handled
  <2>1. \A g : ~ ResetNow(Head(queue), cachedMaster, cachedHsr, g)
    BY <1>0, <1>1, LinkRead
  <2>2. DOMAIN LinkAppeared(w, l) = DOMAIN w
    BY DEF LinkAppeared
  <2> QED BY <1>0, <1>1, <2>1, <2>2, HandlersOnBusy, SameBusyHandled
<1>2. ASSUME NEW l \in Links, NEW old,
             ReceiveLink(l, old, Absent), waiting' = link_deleted(w, l)
      PROVE  Handled
  <2>1. \A g : ResetNow(Head(queue), cachedMaster, cachedHsr, g) => g = l
    BY <1>2, LinkRead
  <2>2. DOMAIN link_deleted(w, l) = DOMAIN w
    BY DEF link_deleted
  <2> QED BY <1>0, <1>2, <2>1, <2>2, HandlersOnBusy, SameBusyHandled
<1>3. ASSUME NEW l \in Links, NEW old \in Bridges, NEW new \in LinkState \ {Absent},
             ReceiveLink(l, old, new), waiting' \in {w, LinkReleased(w, l)}
      PROVE  Handled
  <2>1. \A g : ~ ResetNow(Head(queue), cachedMaster, cachedHsr, g)
    BY <1>0, <1>3, LinkRead
  <2>2. DOMAIN LinkReleased(w, l) = DOMAIN w
    BY DEF LinkReleased
  <2>3. CASE waiting' = w
    BY <2>1, <2>3, SameBusyHandled
  <2>4. CASE waiting' = LinkReleased(w, l)
    BY <1>0, <2>1, <2>2, <2>4, HandlersOnBusy, SameBusyHandled
  <2> QED BY <1>3, <2>3, <2>4
<1>4. ASSUME NEW l \in Links, NEW old, NEW new,
             ReceiveLink(l, old, new), waiting' = link_released_hsr_not(w, l, old)
      PROVE  Handled
  <2>1. \A g : ResetNow(Head(queue), cachedMaster, cachedHsr, g) => g = l
    BY <1>4, LinkRead
  <2>2. DOMAIN link_released_hsr_not(w, l, old) = DOMAIN w
    BY DEF link_released_hsr_not
  <2>3. \A k \in DOMAIN w : link_released_hsr_not(w, l, old)[k].busy = w[k].busy \ {l}
    BY <1>0, ReleasedOnBusy
  <2> QED BY <1>4, <2>1, <2>2, <2>3, SameBusyHandled
<1>5. ASSUME NEW l \in Links, NEW old, NEW new \in LinkState \ {Absent},
             ReceiveLink(l, old, new), MasterFound(old) <=> MasterFound(new),
             waiting' = w
      PROVE  Handled
  <2>1. \A g : ~ ResetNow(Head(queue), cachedMaster, cachedHsr, g)
    BY <1>0, <1>5, LinkRead DEF MasterFound
  <2> QED BY <1>5, <2>1, SameBusyHandled
<1>6. CASE LinkNew
  <2>1. PICK l \in Links, new \in LinkState \ {Absent} :
          /\ ReceiveLink(l, Absent, new)
          /\ WakeOrSettle(NewLinkMet(w, l), LinkAppeared(w, l))
    BY <1>6 DEF LinkNew, Crash
  <2> QED BY <1>1, <2>1 DEF WakeOrSettle, Wake, Settle
<1>7. CASE LinkDel
  <2>1. PICK l \in Links : \E old :
          ReceiveLink(l, old, Absent) /\ Settle(link_deleted(w, l))
    BY <1>7 DEF LinkDel, Crash
  <2> QED BY <1>2, <2>1 DEF Settle
<1>8. CASE LinkReleasedByBridge
  <2>1. PICK l \in Links, old \in Bridges, new \in LinkState \ {Absent} :
          ReceiveLink(l, old, new) /\ waiting' \in {w, LinkReleased(w, l)}
    BY <1>8 DEF LinkReleasedByBridge, Wake, Settle
  <2> QED BY <1>3, <2>1
<1>9. CASE LinkReleasedByHsr
  <2>1. PICK l \in Links, old \in cachedHsr, new \in LinkState :
          ReceiveLink(l, old, new) /\ waiting' = link_released_hsr_not(w, l, old)
    BY <1>9 DEF LinkReleasedByHsr, Settle
  <2> QED BY <1>4, <2>1
<1>10. CASE LinkUnaffected
  BY <1>5, <1>10 DEF LinkUnaffected, Settle
<1> QED BY <1>6, <1>7, <1>8, <1>9, <1>10

(* A link got a master that is in the cache.                               *)
LEMMA GotBusyHandled ==
  ASSUME IInv, LinkGotBusy
  PROVE  Handled
<1>1. PICK l \in Links, old, new \in LinkState \ {Absent} :
        /\ ReceiveLink(l, old, new) /\ MasterFound(new)
        /\ waiting' = link_changed_got_busy(waiting, l)
  BY DEF LinkGotBusy, Settle
<1>2. /\ waiting \in Seq(WaitListNode(Links, Names)) /\ cachedHsr \subseteq Names
      /\ None \notin Names \cup Bridges
  BY WaitingType, DistinctAssumption DEF TypeOK
<1>3. new \in Masters /\ new # None /\ new # Absent
  BY <1>1, <1>2 DEF MasterFound, Masters
<1>4. /\ cachedMaster'[l] = new
      /\ \A g : ~ ResetNow(Head(queue), cachedMaster, cachedHsr, g)
  BY <1>1, <1>3, LinkRead
<1>5. DOMAIN waiting' = DOMAIN waiting
  BY <1>1 DEF link_changed_got_busy
<1>6. \A k \in DOMAIN waiting : waiting'[k].busy \subseteq waiting[k].busy \cup {l}
  BY <1>1, <1>2, HandlersOnBusy
<1> QED BY <1>3, <1>4, <1>5, <1>6 DEF Handled, BusyHandled

(* The first slave of a new HSR link.                                      *)
LEMMA HsrNewHandled ==
  ASSUME IInv, MastersTold, HsrNew, pc' # "crashed"
  PROVE  Handled
<1>1. PICK h \in Names, f \in Links :
        /\ Receive(HsrEvent(h, f)) /\ UNCHANGED cachedMaster
        /\ cachedHsr' = cachedHsr \cup {h}
        /\ waiting' = link_changed_got_busy(waiting, f)
  BY DEF HsrNew, Crash, Settle
<1>2. /\ waiting \in Seq(WaitListNode(Links, Names)) /\ f # Absent /\ h \in Masters
  BY WaitingType, DistinctAssumption DEF Masters
<1>3. /\ queue \in Seq(Event) /\ queue # <<>> /\ queue' = Tail(queue)
      /\ Head(queue) = HsrEvent(h, f)
      /\ \A g : ~ ResetNow(Head(queue), cachedMaster, cachedHsr, g)
  BY <1>1, <1>2, HsrRead
<1>4. \/ cachedMaster'[f] \in Masters
      \/ \E j \in DOMAIN queue' :
           AboutLink(queue'[j], f) /\ queue'[j].up \in Masters
  <2>1. Head(queue) = queue[1] /\ Remains(queue', queue)
    BY <1>3, TailParts
  <2>2. \/ Before(queue, cachedMaster, f, 1, h)
        \/ \E j \in DOMAIN queue : j > 1 /\ queue[j] = LinkEvent(f, h)
    BY <1>3, <2>1 DEF MastersTold, FirstSlavesEnslaved, Remains
  <2>3. Before(queue, cachedMaster, f, 1, h) => cachedMaster[f] = h
    BY <2>1 DEF Before, Remains
  <2>4. ASSUME NEW j \in DOMAIN queue, j > 1, queue[j] = LinkEvent(f, h)
        PROVE  \E i \in DOMAIN queue' :
                 AboutLink(queue'[i], f) /\ queue'[i].up \in Masters
    <3>1. j - 1 \in DOMAIN queue' /\ queue'[j - 1] = LinkEvent(f, h)
      BY <2>1, <2>4 DEF Remains
    <3> QED BY <1>2, <3>1, EventParts
  <2> QED BY <1>1, <1>2, <2>2, <2>3, <2>4
<1>5. DOMAIN waiting' = DOMAIN waiting
  BY <1>1 DEF link_changed_got_busy
<1>6. \A k \in DOMAIN waiting : waiting'[k].busy \subseteq waiting[k].busy \cup {f}
  BY <1>1, <1>2, HandlersOnBusy
<1> QED BY <1>3, <1>4, <1>5, <1>6 DEF Handled, BusyHandled

LEMMA HsrDelHandled ==
  ASSUME IInv, HsrDel
  PROVE  Handled
<1>1. PICK h \in cachedHsr :
        /\ Receive(HsrEvent(h, Absent)) /\ UNCHANGED cachedMaster
        /\ cachedHsr' = cachedHsr \ {h}
        /\ waiting' = HsrGone(waiting, h)
  BY DEF HsrDel, WakeOrSettle, Wake, Settle
<1>2. waiting \in Seq(WaitListNode(Links, Names))
  BY WaitingType
<1>3. \A g : ~ ResetNow(Head(queue), cachedMaster, cachedHsr, g)
  BY <1>1, HsrRead
<1>4. DOMAIN HsrGone(waiting, h) = DOMAIN waiting
  BY DEF HsrGone
<1> QED BY <1>1, <1>2, <1>3, <1>4, HandlersOnBusy, SameBusyHandled

(* Every notification reads one message.                                   *)
Reads ==
  /\ queue \in Seq(Event) /\ queue # <<>>
  /\ queue' = Tail(queue) /\ UNCHANGED master
  /\ CacheRead(Head(queue), cachedMaster, cachedHsr, cachedMaster', cachedHsr')

LEMMA NotificationReads == ASSUME IInv, Notification PROVE Reads
<1>1. ASSUME NEW l \in Links, NEW old, NEW new, ReceiveLink(l, old, new)
      PROVE  Reads
  BY <1>1, LinkRead DEF Reads
<1>2. CASE HsrNew
  <2>1. \A f \in Links : f # Absent
    BY DistinctAssumption
  <2>2. PICK h \in Names, f \in Links :
          /\ Receive(HsrEvent(h, f)) /\ UNCHANGED cachedMaster
          /\ cachedHsr' = cachedHsr \cup {h}
    BY <1>2 DEF HsrNew
  <2> QED BY <2>1, <2>2, HsrRead DEF Reads
<1>3. CASE HsrDel
  <2>1. PICK h \in cachedHsr :
          /\ Receive(HsrEvent(h, Absent)) /\ UNCHANGED cachedMaster
          /\ cachedHsr' = cachedHsr \ {h}
    BY <1>3 DEF HsrDel
  <2> QED BY <2>1, HsrRead DEF Reads
<1> QED BY <1>1, <1>2, <1>3
  DEF Notification, LinkNew, LinkDel, LinkGotBusy, LinkReleasedByBridge,
      LinkReleasedByHsr, LinkUnaffected

LEMMA NotificationTells ==
  ASSUME IInv, IInv', MastersTold, Notification,
         BusyTrue(waiting, queue, cachedMaster, master)
  PROVE  /\ MastersTold'
         /\ pc' # "crashed" => BusyTrue(waiting', queue', cachedMaster', master')
<1>1. Reads
  BY NotificationReads
<1>2. Told(queue, cachedMaster, cachedHsr, master)
  BY DEF MastersTold, Told
<1>3. Told(queue', cachedMaster', cachedHsr', master')
  BY <1>1, <1>2, ReadingTells DEF Reads
<1>4. MastersTold'
  BY <1>3 DEF MastersTold, Told
<1>5. pc' # "crashed" => Handled
  BY LinksHandled, GotBusyHandled, HsrNewHandled, HsrDelHandled DEF Notification
<1>6. /\ master \in [Links -> LinkState]
      /\ \A k \in DOMAIN waiting' : waiting'[k].busy \subseteq Links
  <2>1. \A k \in DOMAIN waiting' : waiting'[k] \in WaitListNode(Links, Names)
    BY DEF IInv, TypeOK
  <2> QED BY <2>1 DEF IInv, TypeOK, KernelTypeOK, WaitListNode
<1>7. Handled => BusyTrue(waiting', Tail(queue), cachedMaster', master)
  BY <1>1, <1>2, <1>6, ReadingBusy DEF Handled, Reads
<1> QED BY <1>1, <1>4, <1>5, <1>7 DEF Reads

LEMMA UnreleasedStep ==
  ASSUME IInv, IInv', Unreleased, [OutsideNext]_<<vars, outside>>
  PROVE  Unreleased'
<1> DEFINE Goal ==
      /\ MastersTold'
      /\ pc' # "crashed" => BusyTrue(waiting', queue', cachedMaster', master')
<1>1. SUFFICES ASSUME "released" \notin outside'
               PROVE  Goal
  BY DEF Unreleased
<1>2. "released" \notin outside
  BY <1>1 DEF OutsideNext, OthersAct, ConfdbAsks, Reacts
<1>3. /\ MastersTold
      /\ pc # "crashed" => BusyTrue(waiting, queue, cachedMaster, master)
  BY <1>2 DEF Unreleased
<1>4. /\ queue \in Seq(Event) /\ master \in [Links -> LinkState]
      /\ master' \in [Links -> LinkState]
      /\ \A k \in DOMAIN waiting' : waiting'[k].busy \subseteq Links
  <2>1. \A k \in DOMAIN waiting' : waiting'[k] \in WaitListNode(Links, Names)
    BY DEF IInv, TypeOK
  <2> QED BY <2>1 DEF IInv, TypeOK, KernelTypeOK, WaitListNode
<1>5. ASSUME pc # "crashed", UNCHANGED <<cachedMaster, cachedHsr>>,
             BusyOf(waiting', waiting, master),
             NEW s, Traces(master, master', s), queue' = queue \o s
      PROVE  MastersTold' /\ BusyTrue(waiting', queue', cachedMaster', master')
  <2>1. Told(queue', cachedMaster', cachedHsr', master')
    BY <1>3, <1>4, <1>5, TracesKeep DEF MastersTold, Told
  <2>2. BusyTrue(waiting', queue', cachedMaster', master')
    BY <1>3, <1>4, <1>5, TracesBusy DEF MastersTold
  <2> QED BY <2>1, <2>2 DEF MastersTold, Told
<1>6. ASSUME Environment,
             outside' = outside \cup {kind \in Kinds : Happens(kind)}
      PROVE  Goal
  <2>1. ~ Turns(Bridges, {None})
    BY <1>1, <1>6 DEF Kinds, Happens
  <2>2. KernelTypeOK /\ KernelStep /\ pc # "crashed"
        /\ UNCHANGED <<cachedMaster, cachedHsr, waiting>>
    BY <1>6 DEF Environment, IInv, TypeOK
  <2>3. BusyOf(waiting', waiting, master)
    BY <2>2, BusyOfPart
  <2> QED BY <1>5, <2>1, <2>2, <2>3, TracesKernel
<1>7. ASSUME OwnWork
      PROVE  Goal
  <2>1. UNCHANGED <<master, queue, cachedMaster, cachedHsr>> /\ pc # "crashed"
    BY <1>7, OwnWorkFrame
  <2>2. queue = queue \o <<>>
    BY <1>4
  <2> QED BY <1>5, <1>7, <2>1, <2>2, BusyOfRequest, TracesNothing
<1>8. ASSUME KernelRequest
      PROVE  Goal
  <2>1. UNCHANGED <<cachedMaster, cachedHsr>> /\ pc # "crashed"
    BY <1>8 DEF KernelRequest, WaitListCreate, WaitListRecreate, CfgCreate,
       CfgReplace, CfgRemove
  <2> QED BY <1>5, <1>8, <2>1, TracesRequest, BusyOfRequest
<1>9. ASSUME Notification
      PROVE  Goal
  <2>1. pc # "crashed"
    BY <1>9 DEF Notification, LinkNew, LinkDel, LinkGotBusy,
       LinkReleasedByBridge, LinkReleasedByHsr, LinkUnaffected, ReceiveLink,
       HsrNew, HsrDel, Receive
  <2> QED BY <1>3, <1>9, <2>1, NotificationTells
<1>10. CASE UNCHANGED <<vars, outside>>
  BY <1>3, <1>10 DEF vars, daemonVars, MastersTold
<1> QED
  BY <1>6, <1>7, <1>8, <1>9, <1>10
     DEF OutsideNext, OthersAct, ConfdbAsks, Reacts, Daemon, KernelRequest, OwnWork

LEMMA UnreleasedInit == ASSUME OutsideInit PROVE Unreleased
<1>1. /\ queue = <<>> /\ DOMAIN queue = {} /\ Len(queue) = 0
      /\ waiting = <<>> /\ DOMAIN waiting = {}
      /\ cachedMaster = master
      /\ cachedHsr = {h \in Names : Exists(master, h)}
  BY DEF OutsideInit, Init
<1> QED
  BY <1>1 DEF Unreleased, MastersTold, MastersHeardOf, Before, HsrLinksKnown,
     Known, FreedFromSome, FirstSlavesEnslaved, BusyTrue

(* Until a bridge lets a link go, a BUSY bit is set, once the daemon has   *)
(* heard everything, on links that have a master only.                     *)
THEOREM BusyFlagsAreSound ==
  OutsideSpec => []("released" \notin outside => BusyFlagsSound)
<1>1. OutsideInit => Init /\ Unreleased
  BY UnreleasedInit DEF OutsideInit
<1>2. [OutsideNext]_<<vars, outside>> => [Next]_vars
  BY OutsideSteps
<1>3. Init => IInv
  BY InitInv
<1>4. IInv /\ [Next]_vars => IInv'
  BY StepKeeps
<1>5. IInv /\ IInv' /\ Unreleased /\ [OutsideNext]_<<vars, outside>> => Unreleased'
  BY UnreleasedStep
<1>6. Unreleased => ("released" \notin outside => BusyFlagsSound)
  BY DEF Unreleased, BusyTrue, Resets, BusyFlagsSound, Quiescent
<1> QED
  BY <1>1, <1>2, <1>3, <1>4, <1>5, <1>6, PTL DEF OutsideSpec

-----------------------------------------------------------------------------
(* The cache catches up with the kernel.                                   *)

(* The messages s say at most once of an HSR link that it came or went,    *)
(* and delete a link at most once, which was there.                        *)
AboutHsr(e, h) == Creates(e, h) \/ Deletes(e, h)

ToldHsr(m, m2, s, h) ==
  \/ /\ Exists(m, h) <=> Exists(m2, h)
     /\ \A k \in DOMAIN s : ~ AboutHsr(s[k], h)
  \/ \E k \in DOMAIN s :
       /\ \A j \in DOMAIN s : j # k => ~ AboutHsr(s[j], h)
       /\ \/ Creates(s[k], h) /\ ~ Exists(m, h) /\ Exists(m2, h)
          \/ Deletes(s[k], h) /\ Exists(m, h) /\ ~ Exists(m2, h)

ToldGone(m, s, l) ==
  \A k \in DOMAIN s :
    Withdraws(s[k], l) =>
      m[l] # Absent /\ \A j \in DOMAIN s : j < k => ~ Withdraws(s[j], l)

Recounts(m, m2, s) ==
  /\ s \in Seq(Event)
  /\ \A l \in Links : ToldLast(m, m2, s, l) /\ ToldGone(m, s, l)
  /\ \A h \in Names : ToldHsr(m, m2, s, h)

CatchesUp(q, cm, hs, m) ==
  /\ MastersHeardOf(q, cm, m)
  /\ HsrLinksHeardOf(q, hs, m)
  /\ MessagesFit(q, cm, hs)

LEMMA AboutHsrParts ==
  /\ \A l, up, h : ~ AboutHsr(LinkEvent(l, up), h)
  /\ \A h, f, g : AboutHsr(HsrEvent(h, f), g) <=> g = h
  /\ \A h, f, l : ~ Withdraws(HsrEvent(h, f), l)
  /\ \A e, h : ~ (Creates(e, h) /\ Deletes(e, h))
BY DEF AboutHsr, Creates, Deletes, Withdraws, LinkEvent, HsrEvent

LEMMA RecountsNothing == ASSUME NEW m PROVE Recounts(m, m, <<>>)
BY DEF Recounts, ToldLast, ToldGone, ToldHsr

(* What was to be read before a message of q is to be read before it when  *)
(* s follows.                                                              *)
LEMMA KnownSame ==
  ASSUME NEW c, NEW q, NEW s, Spliced(c, q, s), NEW k \in DOMAIN q,
         NEW hs, NEW h
  PROVE  Known(c, hs, h, k) <=> Known(q, hs, h, k)
<1>1. \A j : j \in DOMAIN c /\ j < k <=> j \in DOMAIN q /\ j < k
  BY DEF Spliced
<1>2. \A j \in DOMAIN q : c[j] = q[j]
  BY DEF Spliced
<1>3. ASSUME Known(c, hs, h, k)
      PROVE  Known(q, hs, h, k)
  <2>1. CASE h \in hs /\ \A j \in DOMAIN c : j < k => ~ Deletes(c[j], h)
    BY <1>1, <1>2, <2>1 DEF Known
  <2>2. ASSUME NEW j \in DOMAIN c, j < k, Creates(c[j], h),
               \A i \in DOMAIN c : j < i /\ i < k => ~ Deletes(c[i], h)
        PROVE  Known(q, hs, h, k)
    BY <1>1, <1>2, <2>2 DEF Known
  <2> QED BY <1>3, <2>1, <2>2 DEF Known
<1> QED BY <1>3, KnownStays

LEMMA BeforeSame ==
  ASSUME NEW c, NEW q, NEW s, Spliced(c, q, s), NEW k \in DOMAIN q,
         NEW cm, NEW l, NEW up, Before(c, cm, l, k, up)
  PROVE  Before(q, cm, l, k, up)
<1>1. \A j : j \in DOMAIN c /\ j < k <=> j \in DOMAIN q /\ j < k
  BY DEF Spliced
<1>2. \A j \in DOMAIN q : c[j] = q[j]
  BY DEF Spliced
<1>3. CASE cm[l] = up /\ \A j \in DOMAIN c : j < k => ~ AboutLink(c[j], l)
  BY <1>1, <1>2, <1>3 DEF Before
<1>4. ASSUME NEW j \in DOMAIN c, j < k, AboutLink(c[j], l), c[j].up = up,
             \A i \in DOMAIN c : j < i /\ i < k => ~ AboutLink(c[i], l)
      PROVE  Before(q, cm, l, k, up)
  BY <1>1, <1>2, <1>4 DEF Before
<1> QED BY <1>3, <1>4 DEF Before

(* What is to be read before a message of s.                               *)
LEMMA BeforeFrom ==
  ASSUME NEW c, NEW q, NEW s, Spliced(c, q, s), NEW e \in DOMAIN s,
         NEW cm, NEW l, NEW up, Before(c, cm, l, Len(q) + e, up)
  PROVE  \/ Before(q, cm, l, Len(q) + 1, up)
         \/ \E j \in DOMAIN s : j < e /\ AboutLink(s[j], l) /\ s[j].up = up
<1>1. /\ Len(q) \in Nat /\ e \in Int /\ e >= 1
      /\ \A j \in DOMAIN q : /\ j \in DOMAIN c /\ c[j] = q[j]
                             /\ j < Len(q) + 1 /\ j < Len(q) + e
  BY DEF Spliced
<1>2. CASE cm[l] = up /\ \A j \in DOMAIN c : j < Len(q) + e => ~ AboutLink(c[j], l)
  BY <1>1, <1>2 DEF Before
<1>3. ASSUME NEW j \in DOMAIN c, j < Len(q) + e, AboutLink(c[j], l), c[j].up = up,
             \A i \in DOMAIN c : j < i /\ i < Len(q) + e => ~ AboutLink(c[i], l)
      PROVE  \/ Before(q, cm, l, Len(q) + 1, up)
             \/ \E i \in DOMAIN s : i < e /\ AboutLink(s[i], l) /\ s[i].up = up
  <2>1. CASE j \in DOMAIN q
    <3>1. \A i \in DOMAIN q : j < i /\ i < Len(q) + 1 => ~ AboutLink(q[i], l)
      BY <1>1, <1>3
    <3>2. AboutLink(q[j], l) /\ q[j].up = up /\ j < Len(q) + 1
      BY <1>1, <1>3, <2>1
    <3> QED BY <2>1, <3>1, <3>2 DEF Before
  <2>2. CASE j \notin DOMAIN q
    <3>1. j - Len(q) \in DOMAIN s /\ j - Len(q) < e /\ c[j] = s[j - Len(q)]
      <4>1. j - Len(q) \in 1 .. Len(s) /\ Len(q) + (j - Len(q)) = j
        BY <1>1, <1>3, <2>2 DEF Spliced
      <4> QED BY <1>1, <1>3, <4>1 DEF Spliced
    <3> QED BY <1>3, <3>1
  <2> QED BY <2>1, <2>2
<1> QED BY <1>2, <1>3 DEF Before

LEMMA KnownFrom ==
  ASSUME NEW c, NEW q, NEW s, Spliced(c, q, s), NEW e \in 1 .. (Len(s) + 1),
         NEW hs, NEW h, \A j \in DOMAIN s : j < e => ~ AboutHsr(s[j], h)
  PROVE  Known(c, hs, h, Len(q) + e) <=> Known(q, hs, h, Len(q) + 1)
<1>1. /\ Len(q) \in Nat /\ e \in Int /\ e >= 1
      /\ \A j \in DOMAIN q : /\ j \in DOMAIN c /\ c[j] = q[j]
                             /\ j < Len(q) + 1 /\ j < Len(q) + e
  BY DEF Spliced
<1>2. ASSUME Known(q, hs, h, Len(q) + 1)
      PROVE  Known(c, hs, h, Len(q) + e)
  BY <1>2, KnownNext DEF AboutHsr
<1>3. ASSUME NEW j \in DOMAIN c, j < Len(q) + e, Creates(c[j], h)
      PROVE  j \in DOMAIN q
  <2>1. SUFFICES ASSUME j \notin DOMAIN q PROVE FALSE
    OBVIOUS
  <2>2. j - Len(q) \in 1 .. Len(s) /\ Len(q) + (j - Len(q)) = j /\ j - Len(q) < e
    BY <1>1, <1>3, <2>1 DEF Spliced
  <2>3. c[j] = s[j - Len(q)] /\ j - Len(q) \in DOMAIN s
    BY <2>2 DEF Spliced
  <2> QED BY <1>3, <2>2, <2>3 DEF AboutHsr
<1>4. CASE h \in hs /\ \A j \in DOMAIN c : j < Len(q) + e => ~ Deletes(c[j], h)
  BY <1>1, <1>4 DEF Known
<1>5. ASSUME NEW j \in DOMAIN c, j < Len(q) + e, Creates(c[j], h),
             \A i \in DOMAIN c : j < i /\ i < Len(q) + e => ~ Deletes(c[i], h)
      PROVE  Known(q, hs, h, Len(q) + 1)
  <2>1. j \in DOMAIN q
    BY <1>3, <1>5
  <2>2. Creates(q[j], h) /\ j < Len(q) + 1
    BY <1>1, <1>5, <2>1
  <2>3. \A i \in DOMAIN q : j < i /\ i < Len(q) + 1 => ~ Deletes(q[i], h)
    BY <1>1, <1>5
  <2> QED BY <2>1, <2>2, <2>3 DEF Known
<1> QED BY <1>2, <1>4, <1>5 DEF Known

LEMMA UnknownLast ==
  ASSUME NEW c, NEW q, NEW s, Spliced(c, q, s), NEW k \in DOMAIN s,
         NEW hs, NEW h, Deletes(s[k], h),
         \A j \in DOMAIN s : j # k => ~ AboutHsr(s[j], h)
  PROVE  ~ Known(c, hs, h, Len(c) + 1)
<1>1. /\ Len(q) \in Nat /\ k \in Int /\ k >= 1 /\ Len(c) \in Nat
      /\ DOMAIN c = 1 .. Len(c)
      /\ Len(q) + k \in DOMAIN c /\ c[Len(q) + k] = s[k]
  BY DEF Spliced
<1>2. ASSUME NEW j \in DOMAIN c, Creates(c[j], h)
      PROVE  j < Len(q) + k
  <2>1. SUFFICES ASSUME ~ (j < Len(q) + k) PROVE FALSE
    OBVIOUS
  <2>2. j # Len(q) + k
    BY <1>1, <1>2, AboutHsrParts
  <2>3. j - Len(q) \in 1 .. Len(s) /\ Len(q) + (j - Len(q)) = j /\ j - Len(q) # k
    BY <1>1, <2>1, <2>2 DEF Spliced
  <2>4. c[j] = s[j - Len(q)] /\ j - Len(q) \in DOMAIN s
    BY <2>3 DEF Spliced
  <2> QED BY <1>2, <2>3, <2>4 DEF AboutHsr
<1> QED BY <1>1, <1>2 DEF Known

LEMMA RecountsKeep ==
  ASSUME NEW q \in Seq(Event), NEW cm, NEW hs, NEW m \in [Links -> LinkState],
         NEW m2, NEW s, Recounts(m, m2, s), CatchesUp(q, cm, hs, m)
  PROVE  CatchesUp(q \o s, cm, hs, m2)
<1> DEFINE c == q \o s
<1>1. s \in Seq(Event) /\ Spliced(c, q, s)
  BY SplicedParts DEF Recounts
<1>2. MastersHeardOf(c, cm, m2)
  BY <1>1, MastersStay DEF Recounts, CatchesUp
<1> HIDE DEF c
<1>3. /\ Len(q) \in Nat /\ Len(s) \in Nat /\ Len(c) = Len(q) + Len(s)
      /\ DOMAIN q = 1 .. Len(q) /\ DOMAIN s = 1 .. Len(s)
      /\ DOMAIN c = 1 .. (Len(q) + Len(s))
      /\ \A k \in DOMAIN q : c[k] = q[k]
      /\ \A k \in DOMAIN s : c[Len(q) + k] = s[k]
  BY <1>1 DEF Spliced
<1>4. ASSUME NEW k \in DOMAIN c, ~ (k \in DOMAIN q)
      PROVE  \E i \in DOMAIN s : k = Len(q) + i /\ c[k] = s[i]
  <2>1. k - Len(q) \in DOMAIN s /\ k = Len(q) + (k - Len(q))
    BY <1>3, <1>4
  <2> QED BY <1>3, <2>1
<1>5. ASSUME NEW h \in Names
      PROVE  Exists(m, h) <=> Known(q, hs, h, Len(q) + 1)
  BY DEF CatchesUp, HsrLinksHeardOf
<1>6. ASSUME NEW h \in Names
      PROVE  Exists(m2, h) <=> Known(c, hs, h, Len(c) + 1)
  <2>1. Len(s) + 1 \in 1 .. (Len(s) + 1) /\ Len(q) + (Len(s) + 1) = Len(c) + 1
    BY <1>3
  <2>2. CASE /\ Exists(m, h) <=> Exists(m2, h)
             /\ \A k \in DOMAIN s : ~ AboutHsr(s[k], h)
    <3>1. Known(c, hs, h, Len(q) + (Len(s) + 1)) <=> Known(q, hs, h, Len(q) + 1)
      BY <1>1, <2>1, <2>2, KnownFrom
    <3> QED BY <1>5, <2>1, <2>2, <3>1
  <2>3. ASSUME NEW k \in DOMAIN s, Creates(s[k], h), Exists(m2, h),
               \A j \in DOMAIN s : j # k => ~ AboutHsr(s[j], h)
        PROVE  Known(c, hs, h, Len(c) + 1)
    <3>1. \A j \in DOMAIN s : k < j => ~ Deletes(s[j], h)
      BY <1>3, <2>3 DEF AboutHsr
    <3> QED BY <1>1, <2>3, <3>1, KnownLast
  <2>4. ASSUME NEW k \in DOMAIN s, Deletes(s[k], h), ~ Exists(m2, h),
               \A j \in DOMAIN s : j # k => ~ AboutHsr(s[j], h)
        PROVE  ~ Known(c, hs, h, Len(c) + 1)
    BY <1>1, <2>4, UnknownLast
  <2>5. ToldHsr(m, m2, s, h)
    BY DEF Recounts
  <2> QED BY <2>2, <2>3, <2>4, <2>5 DEF ToldHsr
<1>7. ASSUME NEW k \in DOMAIN c, NEW l \in Links, Withdraws(c[k], l),
             Before(c, cm, l, k, Absent)
      PROVE  FALSE
  <2>1. CASE k \in DOMAIN q
    BY <1>1, <1>3, <1>7, <2>1, BeforeSame DEF CatchesUp, MessagesFit
  <2>2. ASSUME NEW i \in DOMAIN s, k = Len(q) + i, c[k] = s[i]
        PROVE  FALSE
    <3>1. /\ m[l] # Absent /\ \A j \in DOMAIN s : j < i => ~ Withdraws(s[j], l)
      BY <1>7, <2>2 DEF Recounts, ToldGone
    <3>2. Before(q, cm, l, Len(q) + 1, m[l])
      BY DEF CatchesUp, MastersHeardOf
    <3>3. ~ Before(q, cm, l, Len(q) + 1, Absent)
      BY <1>3, <3>1, <3>2, BeforeUnique
    <3>4. PICK j \in DOMAIN s : j < i /\ AboutLink(s[j], l) /\ s[j].up = Absent
      BY <1>1, <1>7, <2>2, <3>3, BeforeFrom
    <3> QED BY <3>1, <3>4 DEF AboutLink, Withdraws
  <2> QED BY <1>4, <2>1, <2>2
<1>8. ASSUME NEW k \in DOMAIN c, NEW h \in Names
      PROVE  /\ Creates(c[k], h) => ~ Known(c, hs, h, k)
             /\ Deletes(c[k], h) => Known(c, hs, h, k)
  <2>1. CASE k \in DOMAIN q
    <3>1. Known(c, hs, h, k) <=> Known(q, hs, h, k)
      BY <1>1, <2>1, KnownSame
    <3> QED BY <1>3, <2>1, <3>1 DEF CatchesUp, MessagesFit
  <2>2. ASSUME NEW i \in DOMAIN s, k = Len(q) + i, c[k] = s[i], AboutHsr(s[i], h)
        PROVE  /\ Creates(c[k], h) => ~ Known(c, hs, h, k)
               /\ Deletes(c[k], h) => Known(c, hs, h, k)
    <3>1. ToldHsr(m, m2, s, h)
      BY DEF Recounts
    <3>2. /\ \A j \in DOMAIN s : j # i => ~ AboutHsr(s[j], h)
          /\ \/ Creates(s[i], h) /\ ~ Exists(m, h)
             \/ Deletes(s[i], h) /\ Exists(m, h)
      BY <2>2, <3>1 DEF ToldHsr
    <3>3. i \in 1 .. (Len(s) + 1) /\ \A j \in DOMAIN s : j < i => ~ AboutHsr(s[j], h)
      BY <1>3, <3>2
    <3>4. Known(c, hs, h, Len(q) + i) <=> Exists(m, h)
      BY <1>1, <1>5, <3>3, KnownFrom
    <3> QED BY <2>2, <3>2, <3>4, AboutHsrParts
  <2> QED BY <1>4, <2>1, <2>2 DEF AboutHsr
<1>9. CatchesUp(c, cm, hs, m2)
  BY <1>2, <1>6, <1>7, <1>8 DEF CatchesUp, HsrLinksHeardOf, MessagesFit, c
<1> QED BY <1>9 DEF c

-----------------------------------------------------------------------------
(* The oldest message is read.                                             *)

LEMMA BeforeHead ==
  ASSUME NEW q, NEW t, Remains(t, q), NEW cm, NEW hs, NEW cm2, NEW hs2,
         CacheRead(q[1], cm, hs, cm2, hs2), NEW l \in Links,
         NEW k \in Int, k >= 1, NEW up, Before(t, cm2, l, k, up)
  PROVE  Before(q, cm, l, k + 1, up)
<1>1. 1 \in DOMAIN q /\ 1 < k + 1
      /\ \A j \in DOMAIN t : j \in Nat \ {0} /\ j + 1 \in DOMAIN q /\ t[j] = q[j + 1]
  BY DEF Remains
<1>0. \A i \in DOMAIN q : i \in Nat /\ (i = 1 \/ (i - 1 \in DOMAIN t /\ q[i] = t[i - 1]))
  BY DEF Remains
<1>2. CASE cm2[l] = up /\ \A j \in DOMAIN t : j < k => ~ AboutLink(t[j], l)
  <2>1. \A i \in DOMAIN q : 1 < i /\ i < k + 1 => ~ AboutLink(q[i], l)
    BY <1>0, <1>1, <1>2
  <2>2. CASE AboutLink(q[1], l)
    <3>1. q[1].up = up
      BY <1>2, <2>2 DEF CacheRead
    <3> QED BY <1>1, <2>1, <2>2, <3>1 DEF Before
  <2>3. CASE ~ AboutLink(q[1], l)
    <3>1. cm[l] = up
      BY <1>2, <2>3 DEF CacheRead
    <3>2. \A i \in DOMAIN q : i < k + 1 => ~ AboutLink(q[i], l)
      BY <1>0, <1>1, <2>1, <2>3
    <3> QED BY <3>1, <3>2 DEF Before
  <2> QED BY <2>2, <2>3
<1>3. ASSUME NEW j \in DOMAIN t, j < k, AboutLink(t[j], l), t[j].up = up,
             \A i \in DOMAIN t : j < i /\ i < k => ~ AboutLink(t[i], l)
      PROVE  Before(q, cm, l, k + 1, up)
  <2>1. \A i \in DOMAIN q : j + 1 < i /\ i < k + 1 => ~ AboutLink(q[i], l)
    BY <1>0, <1>1, <1>3
  <2>2. j + 1 \in DOMAIN q /\ j + 1 < k + 1 /\ q[j + 1] = t[j]
    BY <1>0, <1>1, <1>3
  <2> QED BY <1>3, <2>1, <2>2 DEF Before
<1> QED BY <1>2, <1>3 DEF Before

LEMMA KnownHead ==
  ASSUME NEW q, NEW t, Remains(t, q), NEW cm, NEW hs, NEW cm2, NEW hs2,
         CacheRead(q[1], cm, hs, cm2, hs2), NEW h,
         NEW k \in Int, k >= 1, Known(t, hs2, h, k)
  PROVE  Known(q, hs, h, k + 1)
<1>1. 1 \in DOMAIN q /\ 1 < k + 1
      /\ \A j \in DOMAIN t : j \in Nat \ {0} /\ j + 1 \in DOMAIN q /\ t[j] = q[j + 1]
  BY DEF Remains
<1>0. \A i \in DOMAIN q : i \in Nat /\ (i = 1 \/ (i - 1 \in DOMAIN t /\ q[i] = t[i - 1]))
  BY DEF Remains
<1>2. CASE h \in hs2 /\ \A j \in DOMAIN t : j < k => ~ Deletes(t[j], h)
  <2>1. \A i \in DOMAIN q : 1 < i /\ i < k + 1 => ~ Deletes(q[i], h)
    BY <1>0, <1>1, <1>2
  <2>2. CASE Creates(q[1], h)
    BY <1>1, <2>1, <2>2 DEF Known
  <2>3. CASE h \in hs /\ ~ Deletes(q[1], h)
    <3>1. \A i \in DOMAIN q : i < k + 1 => ~ Deletes(q[i], h)
      BY <1>0, <1>1, <2>1, <2>3
    <3> QED BY <2>3, <3>1 DEF Known
  <2> QED BY <1>2, <2>2, <2>3 DEF CacheRead
<1>3. ASSUME NEW j \in DOMAIN t, j < k, Creates(t[j], h),
             \A i \in DOMAIN t : j < i /\ i < k => ~ Deletes(t[i], h)
      PROVE  Known(q, hs, h, k + 1)
  <2>1. \A i \in DOMAIN q : j + 1 < i /\ i < k + 1 => ~ Deletes(q[i], h)
    BY <1>0, <1>1, <1>3
  <2>2. j + 1 \in DOMAIN q /\ j + 1 < k + 1 /\ q[j + 1] = t[j]
    BY <1>0, <1>1, <1>3
  <2> QED BY <1>3, <2>1, <2>2 DEF Known
<1> QED BY <1>2, <1>3 DEF Known

LEMMA ReadingCatchesUp ==
  ASSUME NEW q \in Seq(Event), q # <<>>, NEW cm, NEW hs, NEW cm2, NEW hs2,
         CacheRead(Head(q), cm, hs, cm2, hs2), NEW m, CatchesUp(q, cm, hs, m)
  PROVE  CatchesUp(Tail(q), cm2, hs2, m)
<1> DEFINE t == Tail(q)
<1>1. MastersHeardOf(t, cm2, m)
  BY ReadingMasters DEF CatchesUp
<1>2. Head(q) = q[1] /\ Remains(t, q) /\ Len(t) + 1 = Len(q) /\ Len(t) \in Nat
  BY TailParts
<1> HIDE DEF t
<1>3. CacheRead(q[1], cm, hs, cm2, hs2)
  BY <1>2
<1>4. ASSUME NEW h, NEW k \in Int, k >= 1
      PROVE  Known(t, hs2, h, k) <=> Known(q, hs, h, k + 1)
  BY <1>2, <1>3, <1>4, KnownTail, KnownHead
<1>5. HsrLinksHeardOf(t, hs2, m)
  <2>1. Len(t) + 1 \in Int /\ Len(t) + 1 >= 1 /\ (Len(t) + 1) + 1 = Len(q) + 1
    BY <1>2
  <2>2. \A h : Known(t, hs2, h, Len(t) + 1) <=> Known(q, hs, h, Len(q) + 1)
    BY <1>4, <2>1
  <2> QED BY <2>2 DEF CatchesUp, HsrLinksHeardOf
<1>6. MessagesFit(t, cm2, hs2)
  <2>1. SUFFICES ASSUME NEW k \in DOMAIN t
                 PROVE  /\ \A l \in Links : Withdraws(t[k], l) =>
                             ~ Before(t, cm2, l, k, Absent)
                        /\ \A h \in Names :
                             /\ Creates(t[k], h) => ~ Known(t, hs2, h, k)
                             /\ Deletes(t[k], h) => Known(t, hs2, h, k)
    BY DEF MessagesFit
  <2>2. k \in Int /\ k >= 1 /\ k + 1 \in DOMAIN q /\ t[k] = q[k + 1]
    BY <1>2 DEF Remains
  <2>3. \A l \in Links : Before(t, cm2, l, k, Absent) => Before(q, cm, l, k + 1, Absent)
    BY <1>2, <1>3, <2>2, BeforeHead
  <2>4. \A h : Known(t, hs2, h, k) <=> Known(q, hs, h, k + 1)
    BY <1>4, <2>2
  <2> QED BY <2>2, <2>3, <2>4 DEF CatchesUp, MessagesFit
<1> QED BY <1>1, <1>5, <1>6 DEF CatchesUp, t

-----------------------------------------------------------------------------
(* Every report recounts what it reports.                                  *)

(* A link appears, a bridge takes one, or lets one go.                     *)
LEMMA RecountsLink ==
  ASSUME NEW m \in [Links -> LinkState], NEW m2, NEW l \in Links,
         NEW up \in LinkState \ Names, up # Absent, m[l] \notin Names,
         m2 = [m EXCEPT ![l] = up]
  PROVE  Recounts(m, m2, <<LinkEvent(l, up)>>)
<1> DEFINE s == <<LinkEvent(l, up)>>
<1>1. s \in Seq(Event) /\ DOMAIN s = {1} /\ s[1] = LinkEvent(l, up)
  BY EventTypes
<1> HIDE DEF s
<1>2. \A k \in DOMAIN s : k = 1 /\ s[k] = LinkEvent(l, up)
  BY <1>1
<1>3. ASSUME NEW g \in Links
      PROVE  ToldLast(m, m2, s, g)
  BY <1>1, <1>2, EventParts DEF ToldLast
<1>4. ASSUME NEW g \in Links
      PROVE  ToldGone(m, s, g)
  BY <1>2, EventParts DEF ToldGone
<1>5. ASSUME NEW h \in Names
      PROVE  ToldHsr(m, m2, s, h)
  <2>1. \A g \in Links : m[g] = h <=> m2[g] = h
    OBVIOUS
  <2>2. Exists(m, h) <=> Exists(m2, h)
    BY <2>1 DEF Exists, SlavesOf
  <2> QED BY <1>2, <2>2, AboutHsrParts DEF ToldHsr
<1>6. Recounts(m, m2, s)
  BY <1>1, <1>3, <1>4, <1>5 DEF Recounts
<1> QED BY <1>6 DEF s

LEMMA RecountsGone ==
  ASSUME NEW m \in [Links -> LinkState], NEW m2, NEW l \in Links, NEW s,
         GoneReport(m, m2, l, s)
  PROVE  Recounts(m, m2, s)
<1>1. PICK e \in {1, 2} : GoneAt(m, m2, l, s, e)
  BY DEF GoneReport
<1>2. /\ m[l] # Absent /\ m2 = [m EXCEPT ![l] = Absent] /\ s \in Seq(Event)
      /\ None # Absent /\ Absent \notin Names /\ None \notin Names
  BY DistinctAssumption DEF GoneReport
<1>3. Traces(m, m2, s)
  BY <1>1, <1>2, TracesGone DEF GoneAt
<1>4. ASSUME NEW g \in Links
      PROVE  ToldGone(m, s, g)
  <2>1. \A k \in DOMAIN s : Withdraws(s[k], g) => k = e /\ g = l
    BY <1>1, <1>2, EventParts, AboutHsrParts DEF GoneAt
  <2> QED BY <1>2, <2>1 DEF ToldGone
<1>5. ASSUME NEW h \in Names
      PROVE  ToldHsr(m, m2, s, h)
  <2>1. \A g \in Links : g # l => m2[g] = m[g]
    BY <1>2
  <2>2. m2[l] = Absent
    BY <1>2
  <2>3. Exists(m2, h) => Exists(m, h)
    BY <1>2, <2>1, <2>2 DEF Exists, SlavesOf
  <2>4. Exists(m, h) /\ ~ Exists(m2, h) => m[l] = h
    BY <2>1 DEF Exists, SlavesOf
  <2>5. CASE Exists(m, h) /\ ~ Exists(m2, h)
    <3>1. 3 \in DOMAIN s /\ s[3] = HsrEvent(h, Absent)
      BY <1>1, <2>4, <2>5 DEF GoneAt
    <3>2. \A j \in DOMAIN s : j # 3 => ~ AboutHsr(s[j], h)
      BY <1>1, AboutHsrParts DEF GoneAt
    <3>3. Deletes(s[3], h)
      BY <3>1, EventParts
    <3> QED BY <2>5, <3>1, <3>2, <3>3 DEF ToldHsr
  <2>6. CASE Exists(m, h) <=> Exists(m2, h)
    <3>1. m[l] = h => Exists(m, h)
      BY DEF Exists, SlavesOf
    <3>2. \A j \in DOMAIN s : ~ AboutHsr(s[j], h)
      BY <1>1, <2>6, <3>1, AboutHsrParts DEF GoneAt
    <3> QED BY <2>6, <3>2 DEF ToldHsr
  <2> QED BY <2>3, <2>5, <2>6
<1> QED BY <1>2, <1>3, <1>4, <1>5 DEF Recounts, Traces

LEMMA RecountsCreate ==
  ASSUME NEW m \in [Links -> LinkState], NEW h \in Names,
         NEW a \in Links, NEW b \in Links, CanCreate(m, h, a, b)
  PROVE  Recounts(m, Enslaved(m, h, a, b), CreateEvents(h, a, b))
<1> DEFINE m2 == Enslaved(m, h, a, b)
           s == CreateEvents(h, a, b)
           H == HsrEvent(h, a)
           A == LinkEvent(a, h)
           B == LinkEvent(b, h)
<1>1. /\ h # Absent /\ Absent \notin Links /\ None \notin Names
      /\ ~ Exists(m, h) /\ m[a] = None /\ m[b] = None
  BY DistinctAssumption DEF CanCreate
<1>2. s \in {<<H, A, B>>, <<A, H, B>>, <<A, B, H>>}
  BY DEF CreateEvents
<1>3. Traces(m, m2, s)
  BY TracesCreate
<1> HIDE DEF s, H, A, B
<1>4. \E x \in DOMAIN s : s[x] = H /\ \A k \in DOMAIN s : k # x => s[k] \in {A, B}
  <2>1. CASE s = <<H, A, B>>
    <3>1. DOMAIN s = 1 .. 3 /\ s[1] = H /\ s[2] = A /\ s[3] = B
      BY <2>1
    <3> QED BY <3>1
  <2>2. CASE s = <<A, H, B>>
    <3>1. DOMAIN s = 1 .. 3 /\ s[2] = H /\ s[1] = A /\ s[3] = B
      BY <2>2
    <3> QED BY <3>1
  <2>3. CASE s = <<A, B, H>>
    <3>1. DOMAIN s = 1 .. 3 /\ s[3] = H /\ s[1] = A /\ s[2] = B
      BY <2>3
    <3> QED BY <3>1
  <2> QED BY <1>2, <2>1, <2>2, <2>3
<1>5. PICK x \in DOMAIN s : s[x] = H /\ \A k \in DOMAIN s : k # x => s[k] \in {A, B}
  BY <1>4
<1>6. ASSUME NEW l \in Links
      PROVE  ToldGone(m, s, l)
  <2>1. \A k \in DOMAIN s : s[k] \in {H, A, B}
    BY <1>5
  <2>2. ~ Withdraws(H, l) /\ ~ Withdraws(A, l) /\ ~ Withdraws(B, l)
    BY <1>1, EventParts, AboutHsrParts DEF H, A, B
  <2>3. \A k \in DOMAIN s : ~ Withdraws(s[k], l)
    BY <2>1, <2>2
  <2> QED BY <2>3 DEF ToldGone
<1>7. ASSUME NEW g \in Names
      PROVE  ToldHsr(m, m2, s, g)
  <2>1. ~ AboutHsr(A, g) /\ ~ AboutHsr(B, g)
    BY AboutHsrParts DEF A, B
  <2>2. \A k \in DOMAIN s : k # x => ~ AboutHsr(s[k], g)
    BY <1>5, <2>1
  <2>3. CASE g = h
    <3>1. Creates(s[x], g)
      BY <1>1, <1>5, <2>3, EventParts DEF H
    <3>2. Exists(m2, g)
      BY <2>3 DEF Exists, SlavesOf, Enslaved
    <3> QED BY <1>1, <2>2, <2>3, <3>1, <3>2 DEF ToldHsr
  <2>4. CASE g # h
    <3>1. ~ AboutHsr(s[x], g)
      BY <1>5, <2>4, AboutHsrParts DEF H
    <3>2. \A l \in Links : m2[l] = g <=> m[l] = g
      BY <1>1, <2>4 DEF Enslaved
    <3>3. Exists(m2, g) <=> Exists(m, g)
      BY <3>2 DEF Exists, SlavesOf
    <3>4. \A k \in DOMAIN s : ~ AboutHsr(s[k], g)
      BY <2>2, <3>1
    <3> QED BY <3>3, <3>4 DEF ToldHsr
  <2> QED BY <2>3, <2>4
<1> HIDE DEF m2
<1>8. Recounts(m, m2, s)
  BY <1>3, <1>6, <1>7 DEF Recounts, Traces
<1> QED BY <1>8 DEF m2, s

LEMMA RecountsDelete ==
  ASSUME NEW m \in [Links -> LinkState], NEW h \in Names, Exists(m, h),
         NEW events \in DeleteEvents(m, h)
  PROVE  Recounts(m, Released(m, h), events)
<1> DEFINE S == SlavesOf(m, h)
           m2 == Released(m, h)
           s == events
<1>1. PICK n \in Nat : \E order \in [1 .. n -> S] :
        /\ s \in Seq(Event) /\ DOMAIN s = 1 .. (n + 1)
        /\ \A k \in 1 .. n : s[k] = LinkEvent(order[k], None)
        /\ s[n + 1] = HsrEvent(h, Absent)
  BY DeleteOrder
<1>2. /\ n + 1 \in DOMAIN s /\ s[n + 1] = HsrEvent(h, Absent)
      /\ \A k \in DOMAIN s : k # n + 1 => \E l : s[k] = LinkEvent(l, None)
  BY <1>1
<1>3. Traces(m, m2, s) /\ None # Absent /\ None \notin Names
  BY TracesDelete, DistinctAssumption
<1>4. ASSUME NEW l \in Links
      PROVE  ToldGone(m, s, l)
  BY <1>2, <1>3, EventParts, AboutHsrParts DEF ToldGone
<1>5. ASSUME NEW g \in Names
      PROVE  ToldHsr(m, m2, s, g)
  <2>1. \A k \in DOMAIN s : k # n + 1 => ~ AboutHsr(s[k], g)
    BY <1>2, AboutHsrParts
  <2>2. CASE g = h
    <3>1. \A l \in Links : m2[l] # h
      BY <1>3 DEF Released
    <3>2. ~ Exists(m2, h)
      BY <3>1 DEF Exists, SlavesOf
    <3>3. Deletes(s[n + 1], h)
      BY <1>2, EventParts
    <3> QED BY <1>2, <2>1, <2>2, <3>2, <3>3 DEF ToldHsr
  <2>3. CASE g # h
    <3>1. \A l \in Links : m2[l] = g <=> m[l] = g
      BY <1>3, <2>3 DEF Released
    <3>2. Exists(m2, g) <=> Exists(m, g)
      BY <3>1 DEF Exists, SlavesOf
    <3>3. \A k \in DOMAIN s : ~ AboutHsr(s[k], g)
      BY <1>2, <2>1, <2>3, AboutHsrParts
    <3> QED BY <3>2, <3>3 DEF ToldHsr
  <2> QED BY <2>2, <2>3
<1> HIDE DEF m2
<1>6. Recounts(m, m2, s)
  BY <1>3, <1>4, <1>5 DEF Recounts, Traces
<1> QED BY <1>6 DEF m2

LEMMA RecountsRequest ==
  ASSUME IInv, KernelRequest
  PROVE  \E s : Recounts(master, master', s) /\ queue' = queue \o s
<1>1. master \in [Links -> LinkState] /\ queue = queue \o <<>> /\ job \in Names
  BY RequestStart, RequestOutcome
<1>2. CASE UNCHANGED <<master, queue>>
  BY <1>1, <1>2, RecountsNothing
<1>3. ASSUME NEW events \in DeleteEvents(master, job), Exists(master, job),
             master' = Released(master, job), queue' = queue \o events
      PROVE  \E s : Recounts(master, master', s) /\ queue' = queue \o s
  BY <1>1, <1>3, RecountsDelete
<1>4. ASSUME NEW a \in Links, NEW b \in Links, CanCreate(master, job, a, b),
             master' = Enslaved(master, job, a, b),
             queue' = queue \o CreateEvents(job, a, b)
      PROVE  \E s : Recounts(master, master', s) /\ queue' = queue \o s
  BY <1>1, <1>4, RecountsCreate
<1> QED BY <1>2, <1>3, <1>4, RequestOutcome

LEMMA RecountsKernel ==
  ASSUME KernelTypeOK, KernelStep
  PROVE  \E s : Recounts(master, master', s) /\ queue' = queue \o s
<1> DEFINE Said == \E s : Recounts(master, master', s) /\ queue' = queue \o s
<1>1. /\ master \in [Links -> LinkState] /\ queue \in Seq(Event)
      /\ None \notin Names /\ None # Absent /\ Absent \notin Names
      /\ Bridges \cap Names = {} /\ Absent \notin Bridges
      /\ None \in LinkState /\ Bridges \subseteq LinkState
  BY DistinctAssumption, StateTypes DEF KernelTypeOK
<1>2. ASSUME NEW l \in Links, NEW up \in LinkState \ Names, up # Absent,
             master[l] \notin Names, master' = [master EXCEPT ![l] = up],
             queue' = Append(queue, LinkEvent(l, up))
      PROVE  Said
  <2>1. LinkEvent(l, up) \in Event
    BY EventTypes
  <2>2. queue' = queue \o <<LinkEvent(l, up)>>
    BY <1>1, <1>2, <2>1, AppendIsConcat
  <2> QED BY <1>1, <1>2, <2>2, RecountsLink
<1>3. ASSUME NEW l \in Links, AddLink(l)
      PROVE  Said
  BY <1>1, <1>2, <1>3 DEF AddLink
<1>4. ASSUME NEW l \in Links, DelLink(l)
      PROVE  Said
  BY <1>1, <1>4, DelLinkReport, RecountsGone
<1>5. ASSUME NEW l \in Links, Release(l)
      PROVE  Said
  BY <1>1, <1>2, <1>5 DEF Release
<1>6. ASSUME NEW l \in Links, NEW b \in Bridges, Enslave(l, b)
      PROVE  Said
  BY <1>1, <1>2, <1>6 DEF Enslave
<1>7. ASSUME NEW h \in Names, NEW a \in Links, NEW b \in Links, AdminAdd(h, a, b)
      PROVE  Said
  BY <1>1, <1>7, RecountsCreate DEF AdminAdd
<1>8. ASSUME NEW h \in Names, AdminDel(h)
      PROVE  Said
  BY <1>1, <1>8, RecountsDelete DEF AdminDel
<1> QED BY <1>3, <1>4, <1>5, <1>6, <1>7, <1>8 DEF KernelStep

-----------------------------------------------------------------------------
(* The cache always catches up.                                            *)

LEMMA CatchesUpInit == ASSUME Init PROVE CacheCatchesUp
<1>1. /\ queue = <<>> /\ DOMAIN queue = {} /\ Len(queue) = 0
      /\ cachedMaster = master /\ cachedHsr = {h \in Names : Exists(master, h)}
  BY DEF Init
<1> QED
  BY <1>1 DEF CacheCatchesUp, MastersHeardOf, Before, HsrLinksHeardOf, Known,
     MessagesFit

LEMMA CatchesUpStep ==
  ASSUME IInv, CacheCatchesUp, [Next]_vars
  PROVE  CacheCatchesUp'
<1>1. /\ CatchesUp(queue, cachedMaster, cachedHsr, master)
      /\ queue \in Seq(Event) /\ master \in [Links -> LinkState]
  BY DEF CacheCatchesUp, CatchesUp, IInv, TypeOK, KernelTypeOK
<1>2. ASSUME NEW s, Recounts(master, master', s), queue' = queue \o s,
             UNCHANGED <<cachedMaster, cachedHsr>>
      PROVE  CacheCatchesUp'
  <2>1. CatchesUp(queue', cachedMaster', cachedHsr', master')
    BY <1>1, <1>2, RecountsKeep
  <2> QED BY <2>1 DEF CacheCatchesUp, CatchesUp
<1>3. CASE Environment
  BY <1>2, <1>3, RecountsKernel DEF Environment, IInv, TypeOK
<1>4. CASE OwnWork \/ UNCHANGED vars
  <2>1. UNCHANGED <<master, queue, cachedMaster, cachedHsr>>
    BY <1>4, OwnWorkFrame DEF vars, daemonVars
  <2> QED BY <2>1 DEF CacheCatchesUp
<1>5. CASE KernelRequest
  <2>1. UNCHANGED <<cachedMaster, cachedHsr>>
    BY <1>5 DEF KernelRequest, WaitListCreate, WaitListRecreate, CfgCreate,
       CfgReplace, CfgRemove
  <2> QED BY <1>2, <1>5, <2>1, RecountsRequest
<1>6. CASE Notification
  <2>1. Reads
    BY <1>6, NotificationReads
  <2>2. CatchesUp(queue', cachedMaster', cachedHsr', master')
    BY <1>1, <2>1, ReadingCatchesUp DEF Reads
  <2> QED BY <2>2 DEF CacheCatchesUp, CatchesUp
<1> QED BY <1>3, <1>4, <1>5, <1>6 DEF Next, Daemon, KernelRequest, OwnWork

LEMMA CatchesUpAlways == Spec => [](IInv /\ CacheCatchesUp)
<1>1. Init => IInv /\ CacheCatchesUp
  BY InitInv, CatchesUpInit
<1>2. IInv /\ CacheCatchesUp /\ [Next]_vars => (IInv /\ CacheCatchesUp)'
  BY StepKeeps, CatchesUpStep
<1> QED BY <1>1, <1>2, PTL DEF Spec

(* When all messages are read the cache has the kernel's links with their  *)
(* masters, whoever changed them and however late they are read.           *)
THEOREM CacheFollowsKernel == Spec => []CacheIsKernel
<1>1. ASSUME IInv, CacheCatchesUp
      PROVE  CacheIsKernel
  <2>1. SUFFICES ASSUME queue = <<>>
                 PROVE  /\ cachedMaster = master
                        /\ cachedHsr = {h \in Names : Exists(master, h)}
    BY DEF CacheIsKernel
  <2>2. DOMAIN queue = {}
    BY <2>1
  <2>3. \A l \in Links : cachedMaster[l] = master[l]
    BY <1>1, <2>2 DEF CacheCatchesUp, MastersHeardOf, Before
  <2>4. \A h \in Names : Exists(master, h) <=> h \in cachedHsr
    BY <1>1, <2>2 DEF CacheCatchesUp, HsrLinksHeardOf, Known
  <2>5. /\ cachedMaster \in [Links -> LinkState] /\ master \in [Links -> LinkState]
        /\ cachedHsr \subseteq Names
    BY <1>1 DEF IInv, TypeOK, KernelTypeOK
  <2> QED BY <2>3, <2>4, <2>5
<1> QED BY <1>1, CatchesUpAlways, PTL

(* Every message finds in the cache what a handler expects: only what is   *)
(* there is deleted, and no HSR link that is there is announced as new.    *)
THEOREM MessagesAreRead == Spec => []NextMessageFits
<1>1. ASSUME IInv, CacheCatchesUp
      PROVE  NextMessageFits
  <2>1. SUFFICES ASSUME queue # <<>>
                 PROVE  /\ \A l \in Links :
                             Withdraws(Head(queue), l) => cachedMaster[l] # Absent
                        /\ \A h \in Names :
                             Creates(Head(queue), h) => h \notin cachedHsr
                        /\ \A h \in Names :
                             Deletes(Head(queue), h) => h \in cachedHsr
    BY DEF NextMessageFits
  <2>2. queue \in Seq(Event)
    BY <1>1 DEF IInv, TypeOK, KernelTypeOK
  <2>3. /\ Head(queue) = queue[1] /\ 1 \in DOMAIN queue
        /\ \A j \in DOMAIN queue : ~ (j < 1)
    BY <2>1, <2>2
  <2>4. \A l : cachedMaster[l] = Absent => Before(queue, cachedMaster, l, 1, Absent)
    BY <2>3 DEF Before
  <2>5. \A h : Known(queue, cachedHsr, h, 1) <=> h \in cachedHsr
    BY <2>3 DEF Known
  <2> QED BY <1>1, <2>3, <2>4, <2>5 DEF CacheCatchesUp, MessagesFit
<1> QED BY <1>1, CatchesUpAlways, PTL

-----------------------------------------------------------------------------
(* The link cache is one that libnl promises.                              *)

TableOf(m) == LinkTable(m, {h \in Names : Exists(m, h)})

LEMMA TableParts ==
  ASSUME NEW m, NEW hs
  PROVE  /\ \A l \in Links : LinkTable(m, hs)[l] = m[l]
         /\ \A h \in Names : LinkTable(m, hs)[h] = IF h \in hs THEN h ELSE Absent
BY DistinctAssumption DEF LinkTable

LEMMA TableType ==
  ASSUME NEW m \in [Links -> LinkState], NEW hs
  PROVE  LinkTable(m, hs) \in [Links \cup Names -> LinkState]
BY StateTypes DEF LinkTable

(* What a message says, in the words of the service.                       *)
LEMMA MessageParts ==
  ASSUME NEW e \in Event
  PROVE  /\ MessageOf(e).key \in Links \cup Names
         /\ MessageOf(e).val \in LinkState
         /\ MessageOf(e) \in LinkCache!Message
         /\ \A l \in Links :
              /\ MessageOf(e).key = l <=> AboutLink(e, l)
              /\ AboutLink(e, l) => MessageOf(e).val = e.up
         /\ \A h \in Names :
              /\ MessageOf(e).key = h <=> AboutHsr(e, h)
              /\ Creates(e, h) => MessageOf(e).val = h
              /\ Deletes(e, h) => MessageOf(e).val = Absent
<1>1. /\ Links \cap Names = {} /\ Names \subseteq LinkState /\ Absent \in LinkState
  BY StateTypes, DistinctAssumption
<1>2. CASE e.type = "link" /\ e.dev \in Links /\ e.up \in LinkState
  <2>1. MessageOf(e) = [key |-> e.dev, val |-> e.up]
    BY <1>2 DEF MessageOf
  <2> QED
    BY <1>1, <1>2, <2>1 DEF LinkCache!Message, AboutLink, AboutHsr, Creates, Deletes
<1>3. CASE e.type = "hsr" /\ e.dev \in Names /\ e.up \in Links \cup {Absent}
  <2>1. MessageOf(e) =
          [key |-> e.dev, val |-> IF e.up # Absent THEN e.dev ELSE Absent]
    BY <1>3 DEF MessageOf
  <2> QED
    BY <1>1, <1>3, <2>1 DEF LinkCache!Message, AboutLink, AboutHsr, Creates, Deletes
<1> QED BY <1>2, <1>3 DEF Event

LEMMA MessagesType ==
  ASSUME NEW q \in Seq(Event)
  PROVE  /\ MessagesOf(q) \in Seq(LinkCache!Message)
         /\ DOMAIN MessagesOf(q) = DOMAIN q
         /\ \A k \in DOMAIN q : q[k] \in Event /\ MessagesOf(q)[k] = MessageOf(q[k])
<1>1. /\ DOMAIN q = 1 .. Len(q) /\ Len(q) \in Nat
      /\ \A k \in DOMAIN q : q[k] \in Event
  OBVIOUS
<1>2. \A k \in 1 .. Len(q) : MessageOf(q[k]) \in LinkCache!Message
  BY <1>1, MessageParts
<1>3. MessagesOf(q) \in [1 .. Len(q) -> LinkCache!Message]
  BY <1>1, <1>2 DEF MessagesOf
<1>4. MessagesOf(q) \in Seq(LinkCache!Message)
  BY <1>1, <1>3, SeqDef
<1> QED BY <1>1, <1>4 DEF MessagesOf

LEMMA LinkCacheTypes == IInv => LinkCache!Typed
<1> SUFFICES ASSUME IInv PROVE LinkCache!Typed
  OBVIOUS
<1>1. /\ master \in [Links -> LinkState] /\ queue \in Seq(Event)
      /\ cachedMaster \in [Links -> LinkState]
  BY DEF IInv, TypeOK, KernelTypeOK
<1> QED BY <1>1, MessagesType, TableType DEF LinkCache!Typed

(* A report leads from the table before to the table after.                *)
LEMMA ReportLeads ==
  ASSUME NEW m, NEW m2, NEW s, Recounts(m, m2, s)
  PROVE  LinkCache!Leads(TableOf(m), MessagesOf(s), DOMAIN s, TableOf(m2))
<1>1. /\ s \in Seq(Event) /\ DOMAIN s = 1 .. Len(s)
      /\ \A k \in DOMAIN s : s[k] \in Event /\ MessagesOf(s)[k] = MessageOf(s[k])
  BY MessagesType DEF Recounts
<1>2. /\ \A l \in Links : TableOf(m)[l] = m[l] /\ TableOf(m2)[l] = m2[l]
      /\ \A h \in Names :
           /\ TableOf(m)[h] = IF Exists(m, h) THEN h ELSE Absent
           /\ TableOf(m2)[h] = IF Exists(m2, h) THEN h ELSE Absent
  BY TableParts DEF TableOf
<1>3. ASSUME NEW k \in Links \cup Names,
             \A j \in DOMAIN s : MessagesOf(s)[j].key # k
      PROVE  TableOf(m2)[k] = TableOf(m)[k]
  <2>1. CASE k \in Links
    <3>1. \A j \in DOMAIN s : ~ AboutLink(s[j], k)
      BY <1>1, <1>3, <2>1, MessageParts
    <3>2. ToldLast(m, m2, s, k)
      BY <2>1 DEF Recounts
    <3> QED BY <1>2, <2>1, <3>1, <3>2 DEF ToldLast
  <2>2. CASE k \in Names
    <3>1. \A j \in DOMAIN s : ~ AboutHsr(s[j], k)
      BY <1>1, <1>3, <2>2, MessageParts
    <3>2. ToldHsr(m, m2, s, k)
      BY <2>2 DEF Recounts
    <3> QED BY <1>2, <2>2, <3>1, <3>2 DEF ToldHsr, AboutHsr
  <2> QED BY <2>1, <2>2
<1>4. ASSUME NEW j \in DOMAIN s,
             \A i \in DOMAIN s :
               i > j => MessagesOf(s)[i].key # MessagesOf(s)[j].key
      PROVE  TableOf(m2)[MessagesOf(s)[j].key] = MessagesOf(s)[j].val
  <2>1. PICK k \in Links \cup Names : k = MessageOf(s[j]).key
    BY <1>1, MessageParts
  <2>2. CASE k \in Links
    <3>1. AboutLink(s[j], k) /\ \A i \in DOMAIN s : i > j => ~ AboutLink(s[i], k)
      BY <1>1, <1>4, <2>1, <2>2, MessageParts
    <3>2. ToldLast(m, m2, s, k)
      BY <2>2 DEF Recounts
    <3>3. s[j].up = m2[k]
      BY <1>1, <3>1, <3>2 DEF ToldLast
    <3> QED BY <1>1, <1>2, <2>1, <2>2, <3>1, <3>3, MessageParts
  <2>3. CASE k \in Names
    <3>1. AboutHsr(s[j], k)
      BY <1>1, <2>1, <2>3, MessageParts
    <3>2. ToldHsr(m, m2, s, k)
      BY <2>3 DEF Recounts
    <3>3. \/ Creates(s[j], k) /\ Exists(m2, k)
          \/ Deletes(s[j], k) /\ ~ Exists(m2, k)
      BY <3>1, <3>2 DEF ToldHsr
    <3> QED BY <1>1, <1>2, <2>1, <2>3, <3>3, MessageParts
  <2> QED BY <2>2, <2>3
<1> QED BY <1>3, <1>4 DEF LinkCache!Leads

(* A report at the end of what is queued is a change of the service.       *)
LEMMA ReportServes ==
  ASSUME IInv, LinkCache!Typed', NEW s, Recounts(master, master', s),
         queue' = queue \o s, UNCHANGED <<cachedMaster, cachedHsr>>
  PROVE  LinkCache!Change
<1> SUFFICES ASSUME NEW q \in Seq(Event), q = queue, NEW c, c = queue',
                    NEW m, m = master, NEW m2, m2 = master'
             PROVE  LinkCache!Change
  BY DEF IInv, TypeOK, KernelTypeOK
<1>1. Recounts(m, m2, s) /\ s \in Seq(Event) /\ c = q \o s
  BY DEF Recounts
<1>2. Spliced(c, q, s) /\ c \in Seq(Event)
  BY <1>1, SplicedParts
<1>3. /\ DOMAIN MessagesOf(q) = DOMAIN q /\ DOMAIN MessagesOf(c) = DOMAIN c
      /\ DOMAIN MessagesOf(s) = DOMAIN s
      /\ \A k \in DOMAIN q : MessagesOf(q)[k] = MessageOf(q[k])
      /\ \A k \in DOMAIN c : MessagesOf(c)[k] = MessageOf(c[k])
      /\ \A k \in DOMAIN s : MessagesOf(s)[k] = MessageOf(s[k])
  BY <1>1, <1>2, MessagesType
<1>4. /\ \A k \in DOMAIN q : k \in DOMAIN c /\ c[k] = q[k]
      /\ \A i \in DOMAIN s :
           Len(q) + i \in DOMAIN c \ DOMAIN q /\ c[Len(q) + i] = s[i]
      /\ \A k \in DOMAIN c \ DOMAIN q : \E i \in DOMAIN s : k = Len(q) + i
      /\ \A i, j \in DOMAIN s : Len(q) + i > Len(q) + j <=> i > j
  <2>1. ASSUME NEW k \in DOMAIN c \ DOMAIN q
        PROVE  \E i \in DOMAIN s : k = Len(q) + i
    <3>1. k - Len(q) \in DOMAIN s /\ k = Len(q) + (k - Len(q))
      BY <1>2 DEF Spliced
    <3> QED BY <3>1
  <2> QED BY <1>2, <2>1 DEF Spliced
<1>5. LinkCache!Leads(TableOf(m), MessagesOf(s), DOMAIN s, TableOf(m2))
  BY <1>1, ReportLeads
<1>6. LinkCache!Leads(TableOf(m), MessagesOf(c), DOMAIN c \ DOMAIN q, TableOf(m2))
  <2>1. \A i \in DOMAIN s : MessagesOf(c)[Len(q) + i] = MessagesOf(s)[i]
    BY <1>3, <1>4
  <2>2. ASSUME NEW k \in Links \cup Names,
               \A j \in DOMAIN c \ DOMAIN q : MessagesOf(c)[j].key # k
        PROVE  TableOf(m2)[k] = TableOf(m)[k]
    <3>1. ASSUME NEW i \in DOMAIN s
          PROVE  MessagesOf(s)[i].key # k
      <4>1. Len(q) + i \in DOMAIN c \ DOMAIN q
        BY <1>4
      <4>2. MessagesOf(c)[Len(q) + i].key # k
        BY <2>2, <4>1
      <4> QED BY <2>1, <4>2
    <3> QED BY <1>5, <3>1 DEF LinkCache!Leads
  <2>3. ASSUME NEW j \in DOMAIN c \ DOMAIN q,
               \A i \in DOMAIN c \ DOMAIN q :
                 i > j => MessagesOf(c)[i].key # MessagesOf(c)[j].key
        PROVE  TableOf(m2)[MessagesOf(c)[j].key] = MessagesOf(c)[j].val
    <3>1. PICK i \in DOMAIN s : j = Len(q) + i
      BY <1>4
    <3>2. ASSUME NEW h \in DOMAIN s, h > i
          PROVE  MessagesOf(s)[h].key # MessagesOf(s)[i].key
      <4>1. Len(q) + h \in DOMAIN c \ DOMAIN q /\ Len(q) + h > j
        BY <1>4, <3>1, <3>2
      <4>2. MessagesOf(c)[Len(q) + h].key # MessagesOf(c)[j].key
        BY <2>3, <4>1
      <4> QED BY <2>1, <3>1, <4>2
    <3> QED BY <1>5, <2>1, <3>1, <3>2 DEF LinkCache!Leads
  <2> QED BY <2>2, <2>3 DEF LinkCache!Leads
<1>7. \A j \in DOMAIN MessagesOf(q) :
        j \in DOMAIN MessagesOf(c) /\ MessagesOf(c)[j] = MessagesOf(q)[j]
  BY <1>3, <1>4
<1> QED BY <1>3, <1>6, <1>7 DEF LinkCache!Change, TableOf

(* A notification reads the oldest message, for the cache too.             *)
LEMMA ReadingServes ==
  ASSUME IInv, IInv', Reads
  PROVE  LinkCache!Read
<1> SUFFICES ASSUME NEW q \in Seq(Event), q = queue, NEW t, t = queue',
                    NEW cm, cm = cachedMaster, NEW hs, hs = cachedHsr,
                    NEW cm2, cm2 = cachedMaster', NEW hs2, hs2 = cachedHsr'
             PROVE  LinkCache!Read
  BY DEF IInv, TypeOK, KernelTypeOK
<1> DEFINE e == q[1]
<1>1. /\ q # <<>> /\ t = Tail(q) /\ master' = master
      /\ CacheRead(Head(q), cm, hs, cm2, hs2)
      /\ t \in Seq(Event)
  BY DEF Reads, IInv, TypeOK, KernelTypeOK
<1>2. Head(q) = e /\ Remains(t, q)
  BY <1>1, TailParts
<1>3. /\ MessagesOf(q) \in Seq(LinkCache!Message)
      /\ MessagesOf(t) \in Seq(LinkCache!Message)
      /\ DOMAIN MessagesOf(q) = DOMAIN q /\ DOMAIN MessagesOf(t) = DOMAIN t
      /\ \A k \in DOMAIN q : q[k] \in Event /\ MessagesOf(q)[k] = MessageOf(q[k])
      /\ \A k \in DOMAIN t : MessagesOf(t)[k] = MessageOf(t[k])
  BY <1>1, MessagesType
<1>4. /\ 1 \in DOMAIN q /\ e \in Event
      /\ DOMAIN q = 1 .. Len(q) /\ Len(q) \in Nat \ {0}
      /\ DOMAIN t = 1 .. Len(q) - 1
      /\ \A k \in 1 .. Len(q) - 1 : t[k] = q[k + 1]
  BY <1>1
<1>5. /\ MessagesOf(q) # <<>> /\ Head(MessagesOf(q)) = MessageOf(e)
      /\ MessagesOf(t) = Tail(MessagesOf(q))
  <2> DEFINE a == MessagesOf(q)
             b == MessagesOf(t)
  <2>1. /\ a \in Seq(LinkCache!Message) /\ DOMAIN a = 1 .. Len(q)
        /\ b \in Seq(LinkCache!Message) /\ DOMAIN b = 1 .. Len(q) - 1
        /\ \A k \in 1 .. Len(q) - 1 : b[k] = a[k + 1]
        /\ a[1] = MessageOf(e)
    <3>1. DOMAIN a = 1 .. Len(q) /\ DOMAIN b = 1 .. Len(q) - 1
          /\ a[1] = MessageOf(e)
      BY <1>3, <1>4
    <3>2. ASSUME NEW k \in 1 .. Len(q) - 1
          PROVE  b[k] = a[k + 1]
      <4>1. k \in DOMAIN t /\ k + 1 \in DOMAIN q /\ t[k] = q[k + 1]
        BY <1>4
      <4> QED BY <1>3, <4>1
    <3> HIDE DEF e
    <3> QED BY <1>3, <3>1, <3>2
  <2> HIDE DEF a, b
  <2>2. Len(a) = Len(q) /\ a # <<>>
    BY <1>4, <2>1
  <2>3. b = Tail(a) /\ Head(a) = a[1]
    BY <1>4, <2>1, <2>2
  <2> QED BY <2>1, <2>2, <2>3 DEF a, b
<1>6. LinkTable(cm2, hs2) =
        [LinkTable(cm, hs) EXCEPT ![MessageOf(e).key] = MessageOf(e).val]
  <2>1. /\ cm2 \in [Links -> LinkState] /\ cm \in [Links -> LinkState]
        /\ hs \subseteq Names /\ hs2 \subseteq Names
    BY DEF IInv, TypeOK
  <2>2. /\ \A l \in Links : cm2[l] = IF AboutLink(e, l) THEN e.up ELSE cm[l]
        /\ \A h : Creates(e, h) \/ (h \in hs /\ ~ Deletes(e, h)) <=> h \in hs2
    BY <1>1, <1>2 DEF CacheRead
  <2> HIDE DEF e
  <2>3. ASSUME NEW k \in Links \cup Names
        PROVE  LinkTable(cm2, hs2)[k] =
                 IF k = MessageOf(e).key THEN MessageOf(e).val
                                           ELSE LinkTable(cm, hs)[k]
    <3>1. CASE k \in Links
      BY <1>4, <2>2, <3>1, MessageParts, TableParts
    <3>2. CASE k \in Names
      <4>1. /\ LinkTable(cm2, hs2)[k] = IF k \in hs2 THEN k ELSE Absent
            /\ LinkTable(cm, hs)[k] = IF k \in hs THEN k ELSE Absent
        BY <3>2, TableParts
      <4>2. /\ MessageOf(e).key = k <=> Creates(e, k) \/ Deletes(e, k)
            /\ Creates(e, k) => MessageOf(e).val = k
            /\ Deletes(e, k) => MessageOf(e).val = Absent
        BY <1>4, <3>2, MessageParts DEF AboutHsr
      <4>3. ~ (Creates(e, k) /\ Deletes(e, k))
        BY AboutHsrParts
      <4> QED BY <2>2, <4>1, <4>2, <4>3
    <3> QED BY <3>1, <3>2
  <2>4. /\ LinkTable(cm2, hs2) \in [Links \cup Names -> LinkState]
        /\ LinkTable(cm, hs) \in [Links \cup Names -> LinkState]
    BY <2>1, TableType
  <2> QED BY <2>3, <2>4
<1>7. LinkTable(master, {h \in Names : Exists(master, h)})'
        = LinkTable(master, {h \in Names : Exists(master, h)})
  BY <1>1 DEF LinkTable, Exists, SlavesOf
<1> HIDE DEF e
<1> QED BY <1>5, <1>6, <1>7 DEF LinkCache!Read

LEMMA LinkCacheInit == ASSUME Init PROVE LinkCache!Init
<1>1. /\ queue = <<>> /\ queue \in Seq(Event)
      /\ cachedMaster = master /\ cachedHsr = {h \in Names : Exists(master, h)}
  BY DEF Init
<1>2. IInv
  BY InitInv
<1>3. DOMAIN MessagesOf(queue) = {}
  BY <1>1 DEF MessagesOf
<1>4. LinkCache!Lags
  BY <1>1, <1>3 DEF LinkCache!Lags, LinkCache!Leads
<1> QED BY <1>2, <1>4, LinkCacheTypes DEF LinkCache!Init

LEMMA LinkCacheStep ==
  ASSUME IInv, IInv', [Next]_vars
  PROVE  [LinkCache!Next]_(LinkCache!vars)
<1>1. LinkCache!Typed'
  <2>1. IInv' => LinkCache!Typed'
    BY LinkCacheTypes, PTL
  <2> QED BY <2>1
<1>2. CASE Environment
  <2>1. UNCHANGED <<cachedMaster, cachedHsr>>
    BY <1>2 DEF Environment, daemonVars
  <2>2. PICK s : Recounts(master, master', s) /\ queue' = queue \o s
    BY <1>2, RecountsKernel DEF Environment, IInv, TypeOK
  <2> QED BY <1>1, <2>1, <2>2, ReportServes DEF LinkCache!Next
<1>3. CASE KernelRequest
  <2>1. UNCHANGED <<cachedMaster, cachedHsr>>
    BY <1>3 DEF KernelRequest, WaitListCreate, WaitListRecreate, CfgCreate,
       CfgReplace, CfgRemove
  <2>2. PICK s : Recounts(master, master', s) /\ queue' = queue \o s
    BY <1>3, RecountsRequest
  <2> QED BY <1>1, <2>1, <2>2, ReportServes DEF LinkCache!Next
<1>4. CASE Notification
  BY <1>4, NotificationReads, ReadingServes DEF LinkCache!Next
<1>5. CASE OwnWork \/ UNCHANGED vars
  <2>1. UNCHANGED <<master, queue, cachedMaster, cachedHsr>>
    BY <1>5, OwnWorkFrame DEF vars, daemonVars
  <2> QED BY <2>1 DEF LinkCache!vars, LinkTable, MessagesOf, Exists, SlavesOf
<1> QED BY <1>2, <1>3, <1>4, <1>5 DEF Next, Daemon, KernelRequest, OwnWork

(* The daemon's link cache is a managed cache as libnl promises it, and as *)
(* NlCacheMngr keeps it: however a change of the kernel is announced, as   *)
(* one message or as several, the cache a handler finds is the table as it *)
(* was after the message before, and every message changes it by what it   *)
(* says (nl_cache_mngr_data_ready, route_link_cache_change_cb).            *)
THEOREM LinkCacheImplementsService == Spec => LinkCacheKept
<1>1. Init => LinkCache!Init
  BY LinkCacheInit
<1>2. IInv /\ IInv' /\ [Next]_vars => [LinkCache!Next]_(LinkCache!vars)
  BY LinkCacheStep
<1>3. Spec => []IInv
  BY Invariant, PTL
<1> QED
  BY <1>1, <1>2, <1>3, PTL DEF Spec, LinkCacheKept, LinkCache!Spec
=============================================================================

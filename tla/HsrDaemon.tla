----------------------------- MODULE HsrDaemon -----------------------------
(***************************************************************************)
(* The link side of the confdb-hsr daemon: configuration requests from     *)
(* confdb (hsr_handler), notifications of the route/link cache manager     *)
(* (route_link_cache_change_cb), the wait list between them, and the       *)
(* requests the daemon makes to the kernel (apply_conf.c).                 *)
(*                                                                         *)
(* The daemon has one thread.  It blocks in select ("poll"); a readable    *)
(* cache socket is read until it is empty ("drain"); confdb requests are   *)
(* handled between two drains only.  Every handler that talks to the       *)
(* kernel first dumps all links and then sends its request, and the kernel *)
(* may have changed in between: such a handler is two steps here, the      *)
(* dump and the request.  hsr_handler does several of these things one     *)
(* after the other, each with a dump of its own, and is as many steps.     *)
(* The other values of pc say what is due next.                            *)
(***************************************************************************)
EXTENDS HsrKernel, HsrWaitList

CONSTANTS
  Leftover,       \* masters links may have when the daemon starts
  Kindless,       \* links whose IFLA_INFO_KIND is absent (physical ports)
  Incomplete,     \* a configuration with a slave leaf missing
  NoIndex,        \* 0, what rtnl_link_name2i returns for an unknown name
  Stale,          \* the index of an HSR link that no longer exists
  CfgOps,         \* what confdb may deliver: "set", "incomplete", "delete"
  MaxInterfaces   \* bound: length of the interface list

ASSUME DaemonAssumption ==
  /\ Leftover \subseteq Masters
  /\ Kindless \subseteq Links
  /\ CfgOps \subseteq {"set", "incomplete", "delete"}
  /\ MaxInterfaces \in Nat
  /\ {NoIndex, Stale} \cap Names = {}
  /\ NoIndex # Stale
  /\ {None, Incomplete} \cap (Links \X Links) = {}
  /\ None # Incomplete

VARIABLES
  conf,           \* conf[h]: the slaves confdb last delivered for h
  cachedMaster,   \* the managed route/link cache: like master, but late
  cachedHsr,      \* the HSR links in that cache
  waiting,        \* app->wait_list_head
  interfaces,     \* app->interfaces
  overdrawn,      \* how far app->interfaces_size is below 0; if it is not,
                  \* it is the length of interfaces
  pc,             \* what the daemon is doing
  job,            \* the interface the step that is due is about
  seen            \* the links found by the dump made before that request

listVars == <<interfaces, overdrawn>>
daemonVars == <<cachedMaster, cachedHsr, waiting, listVars, pc, job, seen>>
vars == <<master, queue, conf, daemonVars>>

Pair == {p \in Links \X Links : p[1] # p[2]}
PC == {"poll", "drain", "create", "recreate", "cfgCheck",
       "cfgCreate", "cfgReplace", "cfgRemove", "cfgUnlist", "crashed"}

TypeOK ==
  /\ KernelTypeOK
  /\ conf \in [Names -> Pair \cup {None, Incomplete}]
  /\ cachedMaster \in [Links -> LinkState]
  /\ cachedHsr \in SUBSET Names
  /\ waiting \in Seq(WaitListNode(Links, Names))
  /\ interfaces \in Seq(Names \cup {NoIndex, Stale})
  /\ overdrawn \in Nat
  /\ pc \in PC
  /\ job \in Names \cup {None}
  /\ seen \in SUBSET Links

(* The daemon is up: its cache shows the links of this moment, among them  *)
(* HSR links a previous run may have left behind.  (What the cache manager *)
(* does while it fills the cache is not this module's subject.)            *)
Init ==
  /\ master \in {m \in [Links -> {None, Absent} \cup Leftover] :
                   \A h \in Names : Cardinality(SlavesOf(m, h)) \in {0, 2}}
  /\ queue = <<>>
  /\ conf = [h \in Names |-> None]
  /\ cachedMaster = master
  /\ cachedHsr = {h \in Names : Exists(master, h)}
  /\ waiting = <<>>
  /\ interfaces = <<>>
  /\ overdrawn = 0
  /\ pc = "poll"
  /\ job = None
  /\ seen = {}

-----------------------------------------------------------------------------
(* The interface list: interface indexes, searched to decide whether one   *)
(* is to be added or the last one is to be dropped.                        *)

(* The index of an HSR link that is gone is never given out again.         *)
RetireIndexes(list, m) ==
  [k \in DOMAIN list |->
     IF list[k] \in Names /\ ~ Exists(m, list[k]) THEN Stale ELSE list[k]]

(* What rtnl_link_name2i makes of h, in a dump of the links m.             *)
IndexIn(m, h) == IF Exists(m, h) THEN h ELSE NoIndex

(* A size that has run below 0 is counted up first.                        *)
add_interface(id) ==
  IF overdrawn = 0
    THEN interfaces' = Append(interfaces, id) /\ UNCHANGED overdrawn
    ELSE overdrawn' = overdrawn - 1 /\ UNCHANGED interfaces

(* The last entry goes, whatever index was asked for; there may be none.   *)
delete_interface ==
  IF interfaces # <<>>
    THEN interfaces' = Front(interfaces) /\ UNCHANGED overdrawn
    ELSE overdrawn' = overdrawn + 1 /\ UNCHANGED interfaces

change_interface_list_DropsKnown(h, isAdd) ==   \* mutant
  IF isAdd /\ ~ Contains(interfaces, IndexIn(master, h))
    THEN add_interface(IndexIn(master, h))
  ELSE IF isAdd
    THEN UNCHANGED listVars
  ELSE delete_interface

change_interface_list(h, isAdd) ==
  IF Contains(interfaces, IndexIn(master, h))
    THEN UNCHANGED listVars
  ELSE IF isAdd
    THEN add_interface(IndexIn(master, h))
  ELSE delete_interface

-----------------------------------------------------------------------------
(* Control: what a handler leaves behind.                                  *)

(* Inside a drain the socket is read again until it is empty.              *)
Resume(q) == IF q = <<>> THEN "poll" ELSE "drain"

(* The handler ends without asking the kernel for anything.                *)
Settle(w) ==
  /\ waiting' = w
  /\ pc' = Resume(queue')
  /\ UNCHANGED <<job, seen>>

(* create_hif for the first node met: the dump create_hif_from_waitlist    *)
(* makes decides between creating the interface and recreating it.         *)
Wake(met, w) ==
  LET h == w[Min(met)].hsr_name
  IN  /\ waiting' = w
      /\ job' = h
      /\ seen' = {l \in Links : master[l] # Absent}
      /\ pc' = IF Exists(master, h) THEN "recreate" ELSE "create"

WakeOrSettle(met, w) == IF met = {} THEN Settle(w) ELSE Wake(met, w)

Crash ==
  /\ pc' = "crashed"
  /\ UNCHANGED <<waiting, job, seen>>
-----------------------------------------------------------------------------
(* Notifications.  The cache manager takes the oldest message, applies it  *)
(* to the cache, and only then calls route_link_cache_change_cb, which     *)
(* looks masters up in the cache as it is now.                             *)

Receive(e) ==
  /\ pc \in {"poll", "drain"}
  /\ queue # <<>>
  /\ e = Head(queue)
  /\ queue' = Tail(queue)
  /\ UNCHANGED <<master, conf, listVars>>

(* A message about l: the cache goes from the old master to the new one.   *)
ReceiveLink(l, old, new) ==
  /\ Receive(LinkEvent(l, new))
  /\ cachedMaster[l] = old
  /\ cachedMaster' = [cachedMaster EXCEPT ![l] = new]
  /\ UNCHANGED cachedHsr

(* rtnl_link_get(cache, master) finds something.                           *)
MasterFound(m) == m \in Bridges \cup cachedHsr

(* NL_ACT_NEW of an ordinary link: link_new_handler.                       *)
LinkNew ==
  \E l \in Links, new \in LinkState \ {Absent} :
    /\ ReceiveLink(l, Absent, new)
    /\ IF l \in Kindless
         THEN Crash
         ELSE WakeOrSettle(NewLinkMet(waiting, l), LinkAppeared(waiting, l))

(* NL_ACT_DEL of an ordinary link: link_deleted_handler.                   *)
LinkDel ==
  \E l \in Links, old \in LinkState \ {Absent} :
    /\ ReceiveLink(l, old, Absent)
    /\ IF l \in Kindless THEN Crash ELSE Settle(link_deleted(waiting, l))

(* NL_ACT_CHANGE: link_changed_handler, one action for each outcome.       *)
LinkGotBusy ==
  \E l \in Links, old, new \in LinkState \ {Absent} :
    /\ ReceiveLink(l, old, new)
    /\ ~ MasterFound(old)
    /\ MasterFound(new)
    /\ Settle(link_changed_got_busy(waiting, l))

(* Nodes other than the one met keep their BUSY bit.                       *)
LinkReleasedByBridge ==
  \E l \in Links, old \in Bridges, new \in LinkState \ {Absent} :
    /\ ReceiveLink(l, old, new)
    /\ ~ MasterFound(new)
    /\ LET met == ReleasedMet(waiting, l)
       IN  IF met = {}
             THEN Settle(LinkReleased(waiting, l))
           ELSE IF waiting[Min(met)].hsrStillExists
             THEN Settle(waiting)
           ELSE Wake(met, waiting)

LinkReleasedByHsr ==
  \E l \in Links, old \in cachedHsr, new \in LinkState \ {Absent} :
    /\ ReceiveLink(l, old, new)
    /\ ~ MasterFound(new)
    /\ Settle(link_released_hsr_not(waiting, l, old))

(* No transition between "master found" and "no master found".  That is    *)
(* also how the first of the two slaves of a new HSR link looks when it is *)
(* announced before the HSR link.                                          *)
LinkUnaffected ==
  \E l \in Links, old, new \in LinkState \ {Absent} :
    /\ ReceiveLink(l, old, new)
    /\ MasterFound(old) <=> MasterFound(new)
    /\ Settle(waiting)

(* NL_ACT_NEW of an HSR link marks the link IFLA_LINK names, which         *)
(* link_new_handler takes from the cache without checking that it is there.*)
HsrNew ==
  \E h \in Names, s \in Links :
    /\ Receive(HsrEvent(h, s))
    /\ h \notin cachedHsr
    /\ cachedHsr' = cachedHsr \cup {h}
    /\ UNCHANGED cachedMaster
    /\ IF cachedMaster[s] = Absent
         THEN Crash
         ELSE Settle(link_changed_got_busy(waiting, s))

(* NL_ACT_DEL of an HSR link: hsr_link_deleted.                            *)
HsrDel ==
  \E h \in cachedHsr :
    /\ Receive(HsrEvent(h, Absent))
    /\ cachedHsr' = cachedHsr \ {h}
    /\ UNCHANGED cachedMaster
    /\ LET w == HsrGone(waiting, h) IN WakeOrSettle(HsrDeletedMet(w, h), w)

Notification ==
  \/ LinkNew \/ LinkDel
  \/ LinkGotBusy \/ LinkReleasedByBridge \/ LinkReleasedByHsr
  \/ LinkUnaffected
  \/ HsrNew \/ HsrDel

-----------------------------------------------------------------------------
(* Requests to the kernel.  master and queue may have changed since the    *)
(* dump; a request the kernel refuses changes nothing.                     *)

CreateRequest(m, h, a, b) ==
  IF CanCreate(m, h, a, b) THEN Enslaved(m, h, a, b) ELSE m

CreateReport(m, h, a, b) ==
  IF CanCreate(m, h, a, b) THEN CreateEvents(h, a, b) ELSE <<>>

NodeNamed(w, h) == w[Min({k \in DOMAIN w : w[k].hsr_name = h})]

Finish(newpc) ==
  /\ pc' = newpc
  /\ job' = None
  /\ seen' = {}

(* create_hif_from_waitlist, no interface of that name in the dump.  A     *)
(* slave the dump did not show is a null pointer by now.                   *)
WaitListCreate ==
  LET n == NodeNamed(waiting, job)
  IN  /\ pc = "create"
      /\ IF Slaves(n) \subseteq seen
           THEN /\ master' = CreateRequest(master, job, n.slave1, n.slave2)
                /\ queue' = queue \o
                     CreateReport(master, job, n.slave1, n.slave2)
                /\ waiting' = create_hif(waiting, job,
                               CanCreate(master, job, n.slave1, n.slave2))
                /\ Finish(Resume(queue'))
           ELSE /\ Finish("crashed")
                /\ UNCHANGED <<master, queue, waiting>>
      /\ interfaces' = RetireIndexes(interfaces, master')
      /\ UNCHANGED <<overdrawn, conf, cachedMaster, cachedHsr>>

(* The slaves create_hif_from_waitlist hands to recreate_hsr_interface.    *)
RecreateSlaves(n) == <<n.slave2, n.slave2>>

(* create_hif_from_waitlist, the dump showed the interface: delete it and, *)
(* unless the kernel answers that it is gone (ENODEV), create it again.    *)
WaitListRecreate ==
  LET n == NodeNamed(waiting, job)
      a == RecreateSlaves(n)[1]
      b == RecreateSlaves(n)[2]
      m == Released(master, job)
  IN  /\ pc = "recreate"
      /\ IF ~ Exists(master, job)
           THEN /\ Finish(Resume(queue))
                /\ UNCHANGED <<master, queue, waiting>>
         ELSE IF ~ {a, b} \subseteq seen
           THEN /\ master' = m
                /\ \E events \in DeleteEvents(master, job) :
                     queue' = queue \o events
                /\ Finish("crashed")
                /\ UNCHANGED waiting
         ELSE /\ master' = CreateRequest(m, job, a, b)
              /\ \E events \in DeleteEvents(master, job) :
                   queue' = queue \o events \o CreateReport(m, job, a, b)
              /\ waiting' = create_hif(waiting, job, CanCreate(m, job, a, b))
              /\ Finish(Resume(queue'))
      /\ interfaces' = RetireIndexes(interfaces, master')
      /\ UNCHANGED <<overdrawn, conf, cachedMaster, cachedHsr>>

-----------------------------------------------------------------------------
(* Requests from confdb: hsr_handler.                                      *)

(* A value is delivered when it differs from the last one.  (The bound on  *)
(* the queue stands for the drain that follows in the main loop.)          *)
Deliver(h, value) ==
  /\ pc = "poll"
  /\ Len(queue) < MaxQueue
  /\ conf[h] # value
  /\ conf' = [conf EXCEPT ![h] = value]
  /\ UNCHANGED <<master, queue, cachedMaster, cachedHsr>>

(* The handler begins with the interface list.                             *)
Enlist(h, value) ==
  /\ Len(interfaces) < MaxInterfaces
  /\ Deliver(h, value)
  /\ change_interface_list(h, TRUE)

(* Where the size is below 0 add_interface writes in front of the memory   *)
(* it has: that harms nothing, or it is the end (at once, or as soon as    *)
(* the heap is looked at), and nothing is said of the daemon any more.     *)
CfgWritesOutside ==
  /\ CfgOps \cap {"set", "incomplete"} # {}
  /\ pc = "poll"
  /\ Len(queue) < MaxQueue
  /\ overdrawn > 0
  /\ Crash
  /\ UNCHANGED <<master, queue, conf, cachedMaster, cachedHsr, listVars>>

(* The handler goes on with another dump.                                  *)
Due(newpc, h) ==
  /\ pc' = newpc
  /\ job' = h
  /\ UNCHANGED seen

(* get_master looks at HSR links only: a bridge port counts as free.       *)
BusySlaves(m, a, b) == {s \in {a, b} : m[s] \in Names}

(* main_check, both slaves exist and so does the interface: whether it is  *)
(* deleted now, and otherwise the BUSY bits.  Nothing is set when neither  *)
(* slave is its own and exactly one of them is busy.                       *)
ReplaceNow(m, h, a, b) ==
  BusySlaves(m, a, b) \ SlavesOf(m, h) = {}

ReplaceLaterBusy(m, h, a, b) ==
  LET busy == BusySlaves(m, a, b)
  IN  IF {a, b} \cap SlavesOf(m, h) = {} /\ busy # {a, b}
        THEN {} ELSE busy \ SlavesOf(m, h)

(* hsr_handler up to initial_check, which frees the node the name has; the *)
(* arguments of its new node are what was delivered.                       *)
CfgSet(h, a, b) ==
  /\ "set" \in CfgOps
  /\ <<a, b>> \in Pair
  /\ Enlist(h, <<a, b>>)
  /\ waiting' = delete_wait_list_node(waiting, h)
  /\ Due("cfgCheck", h)

(* main_check puts the node on the list, with these status bits.           *)
Enqueue(n) ==
  /\ waiting' = Append(waiting, n)
  /\ pc' = "poll"
  /\ job' = None
  /\ UNCHANGED seen

Request(newpc) ==
  /\ pc' = newpc
  /\ UNCHANGED <<waiting, job, seen>>

(* initial_check and main_check up to the request, if there is one.  (The  *)
(* dumps get_master makes for the slaves are taken with the first one.)    *)
CfgCheck ==
  LET a == conf[job][1]
      b == conf[job][2]
      n == wait_list_node_alloc(job, a, b)
      missing == {s \in {a, b} : master[s] = Absent}
      busy == BusySlaves(master, a, b)
  IN  /\ pc = "cfgCheck"
      /\ IF missing # {}
           THEN Enqueue([n EXCEPT !.missing = missing, !.busy = busy])
         ELSE IF Exists(master, job)
           THEN IF ReplaceNow(master, job, a, b)
                  THEN Request("cfgReplace")
                  ELSE Enqueue([n EXCEPT !.busy =
                                  ReplaceLaterBusy(master, job, a, b)])
         ELSE IF busy = {} /\ waiting = <<>>
           THEN Request("cfgCreate")
         ELSE Enqueue([n EXCEPT !.busy = busy])
      /\ UNCHANGED <<master, queue, conf, cachedMaster, cachedHsr, listVars>>

(* A slave leaf is missing: json_unpack_ex fails after the interface list  *)
(* was changed; link and node of the interface stay as they are.           *)
CfgIncomplete(h) ==
  /\ "incomplete" \in CfgOps
  /\ Enlist(h, Incomplete)
  /\ UNCHANGED <<waiting, pc, job, seen>>

CfgDelete(h) ==
  /\ "delete" \in CfgOps
  /\ overdrawn < MaxInterfaces
  /\ Deliver(h, None)
  /\ UNCHANGED listVars
  /\ IF Exists(master, h)
       THEN Due("cfgRemove", h) /\ UNCHANGED waiting
       ELSE /\ waiting' = delete_wait_list_node(waiting, h)
            /\ UNCHANGED <<pc, job, seen>>

(* create_hsr_interface from main_check.  The node is gone either way: it  *)
(* is freed on success and forgotten on failure.                           *)
CfgCreate ==
  LET a == conf[job][1]
      b == conf[job][2]
  IN  /\ pc = "cfgCreate"
      /\ master' = CreateRequest(master, job, a, b)
      /\ queue' = queue \o CreateReport(master, job, a, b)
      /\ Finish("poll")
      /\ interfaces' = RetireIndexes(interfaces, master')
      /\ UNCHANGED <<overdrawn, conf, cachedMaster, cachedHsr, waiting>>

(* add_node_to_wait_list after the old interface was deleted.              *)
Requeue_Dropped(w, n) == w      \* mutant: the node is taken for done

Requeue(w, n) == Append(w, n)

(* delete_hsr_interface from main_check.  For a link that is gone the      *)
(* kernel answers ENODEV, which libnl reports as NLE_NODEV and not as the  *)
(* NLE_OBJ_NOTFOUND the caller forgives: the node is forgotten.            *)
CfgReplace ==
  LET a == conf[job][1]
      b == conf[job][2]
  IN  /\ pc = "cfgReplace"
      /\ IF Exists(master, job)
           THEN /\ master' = Released(master, job)
                /\ \E events \in DeleteEvents(master, job) :
                     queue' = queue \o events
                /\ waiting' = Requeue(waiting, wait_list_node_alloc(job, a, b))
           ELSE UNCHANGED <<master, queue, waiting>>
      /\ Finish("poll")
      /\ interfaces' = RetireIndexes(interfaces, master')
      /\ UNCHANGED <<overdrawn, conf, cachedMaster, cachedHsr>>

(* delete_hsr_interface_by_name from hsr_handler.  Only a failure takes    *)
(* the wait-list node away; only a success leads to the interface list.    *)
CfgRemove ==
  /\ pc = "cfgRemove"
  /\ IF Exists(master, job)
       THEN /\ master' = Released(master, job)
            /\ \E events \in DeleteEvents(master, job) :
                 queue' = queue \o events
            /\ Due("cfgUnlist", job)
            /\ UNCHANGED waiting
       ELSE /\ waiting' = delete_wait_list_node(waiting, job)
            /\ Finish("poll")
            /\ UNCHANGED <<master, queue>>
  /\ interfaces' = RetireIndexes(interfaces, master')
  /\ UNCHANGED <<overdrawn, conf, cachedMaster, cachedHsr>>

(* change_interface_list after that: another dump, in which the name may   *)
(* be back under a new index.                                              *)
CfgUnlist ==
  /\ pc = "cfgUnlist"
  /\ change_interface_list(job, FALSE)
  /\ Finish("poll")
  /\ UNCHANGED <<master, queue, conf, cachedMaster, cachedHsr, waiting>>

-----------------------------------------------------------------------------
Configuration ==
  \/ \E h \in Names, a, b \in Links : CfgSet(h, a, b)
  \/ \E h \in Names : CfgIncomplete(h) \/ CfgDelete(h)
  \/ CfgWritesOutside

(* Nothing is observed once the daemon is dead.                            *)
Environment ==
  /\ pc # "crashed"
  /\ KernelStep
  /\ interfaces' = RetireIndexes(interfaces, master')
  /\ UNCHANGED <<overdrawn, conf, cachedMaster, cachedHsr, waiting,
                 pc, job, seen>>

Daemon ==
  \/ Notification
  \/ WaitListCreate \/ WaitListRecreate
  \/ CfgCheck \/ CfgCreate \/ CfgReplace
  \/ CfgRemove \/ CfgUnlist

Next == Environment \/ Configuration \/ Daemon

Spec == Init /\ [][Next]_vars

(* select returns when a socket is readable and a handler runs to its end; *)
(* nothing else is promised about what happens when.                       *)
FairSpec == Spec /\ WF_vars(Daemon)

-----------------------------------------------------------------------------
(* Properties.                                                             *)

(* The daemon has nothing to read and nothing under way.                   *)
Quiescent == pc = "poll" /\ queue = <<>>

(* No interface waits twice: initial_check drops the old node of a name    *)
(* before main_check or a later kernel answer adds the new one.            *)
NamesUnique ==
  \A i, j \in DOMAIN waiting :
    waiting[i].hsr_name = waiting[j].hsr_name => i = j

(* Whatever links come and go, and however late the daemon hears of it:    *)
(* when it has heard everything, the SLAVEn_NOT_EXISTS bits of every node  *)
(* are exactly the links the kernel does not have.  A node's bits come     *)
(* from a dump newer than the messages still queued, and old messages must *)
(* not undo that for good.                                                 *)
MissingFlagsExact ==
  Quiescent =>
    \A k \in DOMAIN waiting : \A l \in Slaves(waiting[k]) :
      l \in waiting[k].missing <=> master[l] = Absent

(* When the daemon has heard everything, a BUSY bit is set on links that   *)
(* do have a master only: a bit left behind would keep the node waiting    *)
(* for a release that has happened.                                        *)
BusyFlagsSound ==
  Quiescent =>
    \A k \in DOMAIN waiting : \A l \in waiting[k].busy : master[l] \in Masters

(* When the daemon has heard everything, HSR_STILL_EXISTS is set on a node *)
(* only while the interface of that name exists: the message that resets   *)
(* it is never missed.                                                     *)
StillExistsSound ==
  Quiescent =>
    \A k \in DOMAIN waiting :
      waiting[k].hsrStillExists => Exists(master, waiting[k].hsr_name)

(* A waiting interface stops waiting only because it was created with its  *)
(* own slaves, because it was configured anew, or because its              *)
(* configuration is gone: no notification and no refused request loses it. *)
CreatedAsConfigured(n) == SlavesOf(master', n.hsr_name) = Slaves(n)

WaitingNeverDropped ==
  [][ \A k \in DOMAIN waiting :
        LET n == waiting[k]
        IN  ~ Waits(waiting', n.hsr_name) =>
              \/ CreatedAsConfigured(n)
              \/ conf'[n.hsr_name] # conf[n.hsr_name]
              \/ conf[n.hsr_name] = None
    ]_vars

(* No handler dereferences a link that is not there.                       *)
NeverCrashed == pc # "crashed"

(* Every configured interface exists with its slaves or waits for them,    *)
(* unless a request for it is under way.                                   *)
ConfigurationNeverLost ==
  pc # "crashed" =>
    \A h \in Names :
      conf[h] \in Pair =>
        \/ Waits(waiting, h)
        \/ SlavesOf(master, h) = {conf[h][1], conf[h][2]}
        \/ job = h

(* With all links there from the start, an interface whose configuration   *)
(* and slaves stay as they are is up in the end, through every delete and  *)
(* recreate before: the message that makes a node startable starts it.     *)
Ready(h, p) ==
  /\ conf[h] = p
  /\ {master[p[1]], master[p[2]]} \subseteq {None, h}

Converges ==
  (\A l \in Links : master[l] # Absent) =>
    \A h \in Names, p \in Pair :
      <>[]Ready(h, p) => <>[](SlavesOf(master, h) = {p[1], p[2]})

(* An interface is not left waiting for ever while both its slaves exist   *)
(* and are free.                                                           *)
NeverStarves ==
  \A h \in Names, p \in Pair :
    ~ <>[](conf[h] = p /\ {master[p[1]], master[p[2]]} = {None})

-----------------------------------------------------------------------------
(* What the repository says about itself and the code does not keep.       *)

RequestBegins == pc \in {"poll", "drain"} /\ pc' \in {"create", "recreate"}

(* wait_list.h:10: HSR_STILL_EXISTS is "for restricting the creation of an *)
(* hsr interface while the old one exists".                                *)
StillExistsRestricts ==
  [][RequestBegins => ~ NodeNamed(waiting', job').hsrStillExists]_vars

(* wait_list.c:182: link_changed_released looks for "a waiting node that   *)
(* can be created"; both slaves have to exist for that.                    *)
ReleasedNodeCanBeCreated ==
  [][RequestBegins => NodeNamed(waiting', job').missing = {}]_vars

(* hsr_cmds.lua: deleting "deletes HSR interface parameters"; nothing is   *)
(* configured, so nothing exists once the daemon has heard everything.     *)
DeletedStaysDeleted ==
  Quiescent => \A h \in Names : conf[h] = None => ~ Exists(master, h)
=============================================================================

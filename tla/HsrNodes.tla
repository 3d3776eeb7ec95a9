------------------------------ MODULE HsrNodes ------------------------------
(***************************************************************************)
(* The node side of the confdb-hsr daemon, from app_create to app_destroy: *)
(* the hsr_node cache, the generic netlink messages that keep it up to     *)
(* date, and the node_list the daemon publishes in confdb for every HSR    *)
(* interface (status.c).                                                   *)
(*                                                                         *)
(* The cache knows a node by the index of its HSR link and its address;    *)
(* the published list knows it by the name of the link.  Links come and go *)
(* under the same name with a new index each time, while messages about    *)
(* the old index may still be queued.                                      *)
(*                                                                         *)
(* The cache is filled first, one request for each HSR link, and only then *)
(* does its manager join the multicast group; the manager does not fill it *)
(* again.  Each step of the start may fail, and app_destroy then runs with *)
(* what has been allocated so far.                                         *)
(*                                                                         *)
(* A change of a cached node (NL_ACT_CHANGE) is never reported: the parser *)
(* of node lists sets the two attributes a node is identified by and       *)
(* nothing else.  A RING_ERROR message is printed and forgotten.           *)
(*                                                                         *)
(* What a handler reads from the kernel may be untrue by the time it acts  *)
(* on it: publishing is two steps, the dump that gives the link its name   *)
(* and the edit of the list of that name; deleting an interface is two     *)
(* steps, the link and the interface list.                                 *)
(***************************************************************************)
EXTENDS Integers, Sequences

CONSTANTS
  Names,       \* names of HSR interfaces
  Macs,        \* addresses of the nodes in the rings
  DeadStack,   \* what the buffer hnode_get_mac_address_A returns may read as
               \* instead of the address: it is on a stack frame that is gone
  MaxIndex,    \* bound: interface indexes the kernel gives out
  MaxQueue,    \* bound: the outside acts only while fewer messages wait
  FdLimit      \* descriptors change_interface_list may leave open

ASSUME HsrNodesAssumption ==
  /\ Macs \cap DeadStack = {}
  /\ MaxIndex \in Nat
  /\ MaxQueue \in Nat
  /\ FdLimit \in Nat

\* The kernel: which links exist and what is in their rings.
VARIABLES
  index,       \* index[h]: the interface index of h, 0 if there is no link h
  lastIndex,   \* the last index given out
  nodes,       \* the node tables: <<index, address>> of every node
  queue        \* messages to the multicast group the manager has not read

\* The daemon and the status it keeps in confdb.
VARIABLES
  pc,          \* what the daemon is doing
  held,        \* what app_create has allocated
  toFill,      \* indexes hnode_alloc_cache has still to ask for
  cache,       \* the hsr_node cache
  interfaces_size,  \* app->interfaces_size; what is on the list is
                    \* HsrDaemon's subject
  fds,         \* descriptors left open by change_interface_list
  edit,        \* the edit that is due: the name the dump gave, the index and
               \* the address of the node
  published    \* published[h]: the node_list of h in confdb

\* History.
VARIABLES
  unheard,     \* nodes that changed after they were asked for and before the
               \* manager joined the group, and not since
  excused      \* <<name, address>> pairs whose entry in the node_list is no
               \* more than chance

kernelVars == <<index, lastIndex, nodes>>
listVars == <<interfaces_size, fds>>
vars == <<kernelVars, queue, pc, held, toFill, cache, listVars, edit,
          published, unheard, excused>>

Indexes == 1..MaxIndex
Parts == {"gen_manager", "hsr_node", "route_manager", "route/link"}
PC == {"create", "fill", "route", "links", "serve", "drain",
       "publish", "withdraw", "unlist", "ended", "crashed"}
Message == [act : {"SET_NODE_LIST", "NODE_DOWN"}, node : Indexes \X Macs]

TypeOK ==
  /\ index \in [Names -> 0..MaxIndex]
  /\ lastIndex \in 0..MaxIndex
  /\ nodes \in SUBSET (Indexes \X Macs)
  /\ queue \in Seq(Message)
  /\ pc \in PC
  /\ held \in SUBSET Parts
  /\ toFill \in SUBSET Indexes
  /\ cache \in SUBSET (Indexes \X Macs)
  /\ interfaces_size \in Int
  /\ fds \in 0..FdLimit
  /\ edit \in (Names \X Indexes \X Macs) \cup {<<>>}
  /\ published \in [Names -> SUBSET (Macs \cup DeadStack)]
  /\ unheard \in SUBSET (Indexes \X Macs)
  /\ excused \in SUBSET (Names \X Macs)

Init ==
  /\ index = [h \in Names |-> 0]
  /\ lastIndex = 0
  /\ nodes = {}
  /\ queue = <<>>
  /\ pc = "create"
  /\ held = {}
  /\ toFill = {}
  /\ cache = {}
  /\ interfaces_size = 0
  /\ fds = 0
  /\ edit = <<>>
  /\ published = [h \in Names |-> {}]
  /\ unheard = {}
  /\ excused = {}

-----------------------------------------------------------------------------
(* The kernel.                                                             *)

Alive == pc \notin {"ended", "crashed"}

(* The manager is a member of the group until the daemon ends.             *)
Joined == pc \in {"route", "links", "serve", "drain",
                  "publish", "withdraw", "unlist"}

NameOf(i) == {h \in Names : index[h] = i}

LinkAdded(h) ==
  /\ Alive
  /\ index[h] = 0
  /\ lastIndex < MaxIndex
  /\ lastIndex' = lastIndex + 1
  /\ index' = [index EXCEPT ![h] = lastIndex']
  /\ UNCHANGED <<nodes, queue, pc, held, toFill, cache, listVars, edit,
                 published, unheard, excused>>

(* The node table of a link goes with it and nobody is told: what is       *)
(* published for the name stays.                                           *)
Forget(h) ==
  /\ index' = [index EXCEPT ![h] = 0]
  /\ nodes' = {p \in nodes : p[1] # index[h]}
  /\ excused' = excused \cup ({h} \X (published[h] \cap Macs))
  /\ UNCHANGED lastIndex

LinkGone(h) ==
  /\ Alive
  /\ index[h] # 0
  /\ Forget(h)
  /\ UNCHANGED <<queue, pc, held, toFill, cache, listVars, edit,
                 published, unheard>>

(* The daemon hears of a change if it is a member of the group.            *)
Announce(act, p) ==
  /\ Alive
  /\ IF Joined
       THEN /\ Len(queue) < MaxQueue
            /\ queue' = Append(queue, [act |-> act, node |-> p])
            /\ unheard' = unheard \ {p}
       ELSE /\ unheard' = IF pc = "fill" /\ p[1] \notin toFill
                            THEN unheard \cup {p} ELSE unheard
            /\ UNCHANGED queue
  /\ UNCHANGED <<index, lastIndex, pc, held, toFill, cache, listVars, edit,
                 published, excused>>

NodeUp(h, m) ==
  /\ index[h] # 0
  /\ <<index[h], m>> \notin nodes
  /\ nodes' = nodes \cup {<<index[h], m>>}
  /\ Announce("SET_NODE_LIST", <<index[h], m>>)

NodeDown(h, m) ==
  /\ <<index[h], m>> \in nodes
  /\ nodes' = nodes \ {<<index[h], m>>}
  /\ Announce("NODE_DOWN", <<index[h], m>>)

Kernel ==
  \/ \E h \in Names : LinkAdded(h) \/ LinkGone(h)
  \/ \E h \in Names, m \in Macs : NodeUp(h, m) \/ NodeDown(h, m)

-----------------------------------------------------------------------------
(* app_create and app_destroy.                                             *)

(* app_destroy clears the provided hsr_node cache and looks into both      *)
(* managers, whether or not they are there.                                *)
AppDestroy ==
  /\ IF {"gen_manager", "hsr_node", "route_manager"} \subseteq held
       THEN /\ pc' = "ended"
            /\ held' = {}
            /\ cache' = {}
            /\ queue' = <<>>
       ELSE /\ pc' = "crashed"
            /\ UNCHANGED <<held, cache, queue>>
  /\ UNCHANGED <<kernelVars, toFill, listVars, edit, published,
                 unheard, excused>>

(* hm_cache_manager_alloc for generic netlink, and the links               *)
(* hnode_alloc_cache will ask for.                                         *)
CreateGenManager ==
  /\ pc = "create"
  /\ pc' = "fill"
  /\ held' = held \cup {"gen_manager"}
  /\ toFill' = {index[h] : h \in {g \in Names : index[g] # 0}}
  /\ UNCHANGED <<kernelVars, queue, cache, listVars, edit,
                 published, unheard, excused>>

(* Mutant: the loop ends after the first link.                             *)
FillOne_FirstLinkOnly(i) ==
  /\ pc = "fill"
  /\ i \in toFill
  /\ NameOf(i) # {}
  /\ toFill' = {}
  /\ cache' = cache \cup {p \in nodes : p[1] = i}
  /\ excused' = excused \cup
       {p \in NameOf(i) \X Macs : <<i, p[2]>> \in nodes}
  /\ UNCHANGED <<kernelVars, queue, pc, held, listVars, edit,
                 published, unheard>>

(* One request of hnode_alloc_cache.  Nothing is published of what it      *)
(* finds.                                                                  *)
FillOne(i) ==
  /\ pc = "fill"
  /\ i \in toFill
  /\ NameOf(i) # {}
  /\ toFill' = toFill \ {i}
  /\ cache' = cache \cup {p \in nodes : p[1] = i}
  /\ excused' = excused \cup
       {p \in NameOf(i) \X Macs : <<i, p[2]>> \in nodes}
  /\ UNCHANGED <<kernelVars, queue, pc, held, listVars, edit,
                 published, unheard>>

(* The link is gone by the time of the request: app_create fails.          *)
FillRefused(i) ==
  /\ pc = "fill"
  /\ i \in toFill
  /\ NameOf(i) = {}
  /\ AppDestroy

(* Mutant: the cache is not provided.                                      *)
AddNodeCache_NotProvided ==
  /\ pc = "fill"
  /\ toFill = {}
  /\ pc' = "route"
  /\ UNCHANGED <<kernelVars, queue, held, toFill, cache, listVars, edit,
                 published, unheard, excused>>

(* nl_cache_mngr_add_cache for a manager that does not fill its caches:    *)
(* the group is joined, the cache is provided.                             *)
AddNodeCache ==
  /\ pc = "fill"
  /\ toFill = {}
  /\ pc' = "route"
  /\ held' = held \cup {"hsr_node"}
  /\ UNCHANGED <<kernelVars, queue, toFill, cache, listVars, edit,
                 published, unheard, excused>>

CreateRouteManager ==
  /\ pc = "route"
  /\ pc' = "links"
  /\ held' = held \cup {"route_manager"}
  /\ UNCHANGED <<kernelVars, queue, toFill, cache, listVars, edit,
                 published, unheard, excused>>

AddLinkCache ==
  /\ pc = "links"
  /\ pc' = IF queue = <<>> THEN "serve" ELSE "drain"
  /\ held' = held \cup {"route/link"}
  /\ UNCHANGED <<kernelVars, queue, toFill, cache, listVars, edit,
                 published, unheard, excused>>

(* Memory, sockets or confdb fail.  (When nl_cache_mngr_alloc frees its    *)
(* sync socket twice, or no socket is allocated and hm_cache_manager_alloc *)
(* still returns 0, the daemon is lost as well.)                           *)
CreateFails ==
  /\ pc \in {"create", "fill", "route", "links"}
  /\ AppDestroy

(* A signal, the end of the connection to confdb, or a failure the main    *)
(* loop does not forgive.                                                  *)
Stop ==
  /\ pc \in {"serve", "drain"}
  /\ AppDestroy

-----------------------------------------------------------------------------
(* Messages of the multicast group.  The manager reads them until none is  *)
(* left, the cache changes first, hnode_cache_change_cb runs second.       *)

Receive(act, p) ==
  /\ pc \in {"serve", "drain"}
  /\ queue # <<>>
  /\ Head(queue) = [act |-> act, node |-> p]
  /\ queue' = Tail(queue)
  /\ UNCHANGED <<kernelVars, held, toFill, listVars, unheard, published>>

Resume == pc' = IF queue' = <<>> THEN "serve" ELSE "drain"

(* The list is not touched: the entry of <<i, m>>, if i is still the index *)
(* of a link, is no more than chance from now on.                          *)
Unpublished(i, m) ==
  /\ Resume
  /\ excused' = excused \cup (NameOf(i) \X {m})
  /\ UNCHANGED edit

(* No descriptor is left: the handler puts a link cache it never got.      *)
NoSocket(i, m) ==
  /\ fds = FdLimit
  /\ \/ pc' = "crashed" /\ UNCHANGED <<edit, excused>>
     \/ Unpublished(i, m)

(* add_node_to_list and delete_node_from_list begin with a dump, which     *)
(* gives the name of the link, if it is there.                             *)
LookUp(i, m, due) ==
  /\ fds < FdLimit
  /\ IF NameOf(i) = {}
       THEN Resume /\ UNCHANGED edit
       ELSE pc' = due /\ edit' \in NameOf(i) \X {i} \X {m}
  /\ UNCHANGED excused

(* What the change is to lead to: "publish" or "withdraw".                 *)
hnode_cache_change_cb(i, m, due) ==
  IF interfaces_size > 0
    THEN LookUp(i, m, due) \/ NoSocket(i, m)
    ELSE Unpublished(i, m)

(* A node the cache has already is exchanged and not reported.             *)
HearKnown(i, m) ==
  /\ Receive("SET_NODE_LIST", <<i, m>>)
  /\ <<i, m>> \in cache
  /\ Resume
  /\ UNCHANGED <<cache, edit, excused>>

HearNew(i, m) ==
  /\ Receive("SET_NODE_LIST", <<i, m>>)
  /\ <<i, m>> \notin cache
  /\ cache' = cache \cup {<<i, m>>}
  /\ hnode_cache_change_cb(i, m, "publish")

HearDown(i, m) ==
  /\ Receive("NODE_DOWN", <<i, m>>)
  /\ <<i, m>> \in cache
  /\ cache' = cache \ {<<i, m>>}
  /\ hnode_cache_change_cb(i, m, "withdraw")

HearDownUnknown(i, m) ==
  /\ Receive("NODE_DOWN", <<i, m>>)
  /\ <<i, m>> \notin cache
  /\ Resume
  /\ UNCHANGED <<cache, edit, excused>>

-----------------------------------------------------------------------------
(* Edits of the node_list.  By now the link of that name may be gone, or   *)
(* another: what is written then is no more than chance.                   *)

EditEnds(h, i, m) ==
  /\ pc \in {"publish", "withdraw"}
  /\ edit = <<h, i, m>>
  /\ edit' = <<>>
  /\ UNCHANGED <<kernelVars, queue, held, toFill, cache, listVars, unheard>>
  /\ Resume

(* cdb_edit_status makes the list this one.  The address comes out as      *)
(* text, which is right or not.                                            *)
cdb_edit_status(h, i, m, text, list) ==
  /\ EditEnds(h, i, m)
  /\ published' = [published EXCEPT ![h] = list]
  /\ excused' = IF text = m /\ index[h] = i
                  THEN excused \ {<<h, m>>} ELSE excused \cup {<<h, m>>}

\* Mutant: the index is published in place of the address.
add_node_to_list_PublishesIndex(h, i, m) ==
  /\ pc = "publish"
  /\ cdb_edit_status(h, i, m, m, published[h] \cup {i})

add_node_to_list(h, i, m) ==
  /\ pc = "publish"
  /\ \E text \in {m} \cup DeadStack :
       cdb_edit_status(h, i, m, text, published[h] \cup {text})

\* Mutant: the address is taken from the lists of all links.
delete_node_from_list_AnyLink(h, i, m) ==
  /\ pc = "withdraw"
  /\ EditEnds(h, i, m)
  /\ published' = [g \in Names |-> published[g] \ {m}]
  /\ UNCHANGED excused

delete_node_from_list(h, i, m) ==
  /\ pc = "withdraw"
  /\ \E text \in {m} \cup DeadStack :
       cdb_edit_status(h, i, m, text, published[h] \ {text})

(* json_pack or cdb_edit_status fails: the change is not published.        *)
EditFails(h, i, m) ==
  /\ EditEnds(h, i, m)
  /\ excused' = excused \cup {<<h, m>>}
  /\ UNCHANGED published

-----------------------------------------------------------------------------
(* Requests from confdb, as far as they concern the interface list.        *)

(* An index that is on the list changes nothing.  When it succeeds the     *)
(* socket stays open.                                                      *)
change_interface_list(by) ==
  /\ fds < FdLimit
  /\ fds' = fds + 1
  /\ \/ interfaces_size' = interfaces_size + by
     \/ interfaces_size > 0 /\ UNCHANGED interfaces_size

CfgSet ==
  /\ pc = "serve"
  /\ change_interface_list(1)
  /\ UNCHANGED <<kernelVars, queue, pc, held, toFill, cache, edit,
                 published, unheard, excused>>

(* The size is below 0: add_interface writes in front of its memory.       *)
CfgWritesOutside ==
  /\ pc = "serve"
  /\ interfaces_size < 0
  /\ pc' = "crashed"
  /\ UNCHANGED <<kernelVars, queue, held, toFill, cache, listVars, edit,
                 published, unheard, excused>>

(* No descriptor is left: the list stays as it is, and change_interface_   *)
(* list puts a link cache it never got.                                    *)
CfgNoSocket ==
  /\ pc = "serve"
  /\ fds = FdLimit
  /\ pc' = "crashed"
  /\ UNCHANGED <<kernelVars, queue, held, toFill, cache, listVars, edit,
                 published, unheard, excused>>

(* delete_hsr_interface_by_name, if it succeeds, ...                       *)
CfgDelete(h) ==
  /\ pc = "serve"
  /\ index[h] # 0
  /\ fds < FdLimit
  /\ Forget(h)
  /\ pc' = "unlist"
  /\ UNCHANGED <<queue, held, toFill, cache, listVars, edit,
                 published, unheard>>

(* ... and the interface list after that.                                  *)
Unlist ==
  /\ pc = "unlist"
  /\ pc' = "serve"
  /\ change_interface_list(-1)
  /\ UNCHANGED <<kernelVars, queue, held, toFill, cache, edit,
                 published, unheard, excused>>

-----------------------------------------------------------------------------
Create ==
  \/ CreateGenManager \/ AddNodeCache
  \/ CreateRouteManager \/ AddLinkCache
  \/ \E i \in Indexes : FillOne(i) \/ FillRefused(i)
  \/ CreateFails

Hear ==
  \E i \in Indexes, m \in Macs :
    \/ HearKnown(i, m) \/ HearNew(i, m)
    \/ HearDown(i, m) \/ HearDownUnknown(i, m)

Edit ==
  \E h \in Names, i \in Indexes, m \in Macs :
    \/ add_node_to_list(h, i, m)
    \/ delete_node_from_list(h, i, m)
    \/ EditFails(h, i, m)

Configuration ==
  \/ CfgSet \/ CfgWritesOutside \/ CfgNoSocket \/ Unlist
  \/ \E h \in Names : CfgDelete(h)

Next == Kernel \/ Create \/ Hear \/ Edit \/ Configuration \/ Stop

Spec == Init /\ [][Next]_vars

-----------------------------------------------------------------------------
(* Properties.                                                             *)

(* The change of this entry is in the cache and not yet in the list.       *)
BeingEdited(h, m) ==
  pc \in {"publish", "withdraw"} /\ edit = <<h, index[h], m>>

(* When all messages have been read, the cache has exactly the nodes of    *)
(* the existing links, except those that changed between the request that  *)
(* filled the cache and the manager's joining the group, and not since.    *)
CacheFollowsNodes ==
  Joined /\ queue = <<>> =>
    \A h \in Names, m \in Macs :
      index[h] # 0 /\ <<index[h], m>> \notin unheard =>
        (<<index[h], m>> \in cache <=> <<index[h], m>> \in nodes)

(* At every moment, whatever is queued about links that are gone: the      *)
(* node_list of an existing link has the nodes the cache has for it, but   *)
(* for the one being edited.  Not promised are nodes of the first fill,    *)
(* nodes that came or went while interfaces_size was not above 0, nodes    *)
(* whose address was read wrong or whose edit failed, entries left behind  *)
(* by an earlier link of that name, and the entry of an edit whose link    *)
(* was gone when it was made.                                              *)
NodeListMatchesCache ==
  Alive =>
    \A h \in Names, m \in Macs :
      /\ index[h] # 0
      /\ <<h, m>> \notin excused
      /\ ~ BeingEdited(h, m)
      => (m \in published[h] <=> <<index[h], m>> \in cache)

(* The daemon crashes for three reasons only: app_destroy meets a manager  *)
(* app_create has not got to, no descriptor is left for a handler, or an   *)
(* interface is added while the size of their list is below 0.             *)
CrashExplained ==
  pc = "crashed" =>
    "route_manager" \notin held \/ fds = FdLimit \/ interfaces_size < 0
=============================================================================

# Verification of the HSR daemon

The repository holds a configuration daemon for HSR interfaces
(`confdb-hsr`, about 1750 lines of C, a CLI module and a YANG model) and the
libnl fork it is built on (`libnl-master`). This directory holds TLA+ models of
the daemon, model-checked with TLC and partly proved with TLAPS. Source paths
below are relative to `src/`.

## The system

`confdb-hsr` subscribes to the configuration of HSR interfaces in confdb (name,
`slave-a`, `slave-b`) and makes the kernel agree with it. An interface that
cannot be created yet waits in a list until messages about links say that it
can. The daemon has one thread and no timers of its own.

| Component | State | Operations | Talks to |
| --- | --- | --- | --- |
| Wait list (`wait_list.c`) | ordered list of nodes: name, two slaves, five status bits | alloc, add, delete by name, `create_hif`, and one handler per kind of link message | called by the handlers; calls `create_hif_from_waitlist` |
| Handlers (`handlers.c`) | none | `hsr_handler` (confdb), `route_link_cache_change_cb`, `hnode_cache_change_cb` | confdb, cache manager |
| Configuration (`apply_conf.c`) | none; each call opens a socket and dumps all links | `initial_check`/`main_check`, create, delete, recreate | kernel, wait list |
| Interface list (`hsr_module.c`) | `interfaces[]`, `interfaces_size` | `change_interface_list` | kernel; its size gates the publishing of HSR nodes |
| Lifecycle (`hsr_module.c`, `main.c`) | `struct hsr_module` | `app_create`, `app_destroy`, select loop, signals | everything |
| HSR node status (`status.c`, libnl `genl/hsr_node.c`) | the `hsr_node` cache | publish or remove a node of an interface | confdb, generic netlink |
| CLI (`lib/hsr_cmds.lua`) | none (reads confdb) | `hsr interface`, `hsr interface delete`, show | confdb |
| Cache manager (`lib/cache_mngr.c`) | associations cache/callback, two sockets | add a cache (join groups, then fill), read events, resync | kernel, caches |
| Object cache (`lib/cache.c`, `cache_mngt.c`, `hashtable.c`) | list and hash of objects, reference counts, provided caches | include, refill, resync, provide/unprovide | cache manager |
| Sockets (`lib/socket.c`, `lib/nl.c`) | port map, sequence numbers | allocate/release ports, connect, send, receive | kernel |

Interaction. The main loop (`main.c:120-183`) waits in `select` for confdb, the
generic-netlink manager and the route manager. A readable route manager is read
until its socket is empty (`cache_mngr.c:555`); for each message the cache is
changed first and the callback run afterwards, so the callback looks masters up
in the new cache. confdb requests are handled between two such drains. Every
handler that touches the kernel uses a socket of its own and a fresh dump: what
it sees is *newer* than the cache, and the messages about the difference are
still queued when it decides.

What is hard here:

* decisions made from a fresh dump, followed by older messages about the same
  links;
* the kernel changing between the dump and the request;
* the order in which a new HSR link and its two slaves are announced, since
  masters are looked up in the cache;
* wake-ups: a node is started by a message about one of its slaves or about a
  deleted HSR link, and by nothing else, so that a bit left set, or a message
  that found the node not ready, makes it wait for ever;
* requests that fail half-way (delete, then create);
* libnl: dumps that are interrupted, sockets that overflow, ports that run out,
  partial failures of construction.

Below them, objects carry the reference counts all caches rely on (`object.c`), and
messages are built and read attribute by attribute (`msg.c`, `attr.c`).

What makes each component correct:

* wait list: one node per name; bits that agree with the kernel once
  everything has been heard; no node lost without its interface being created,
  reconfigured or deleted; no node waiting for ever while it could be created;
* configuration: an interface configured and possible is up in the end, and
  none exists that is not configured;
* interface list: not empty while something is configured, its size never below 0;
* lifecycle: whatever step of `app_create` fails, `app_destroy` only touches
  what exists;
* cache manager and cache: once the socket is empty the cache equals the
  kernel's table, through every dump, interruption and resync; every object
  freed once, when its last reference goes;
* sockets: no two sockets with one port, no port lost;
* receive loop: a request's answer ends with that request;
* messages: what was put into a message is what is read from it;
* CLI: two interfaces never share a slave.

`PROJECT.json` lists every hazard with its line, and the properties that would
catch it.

## Modules

| Module | Models | State | Extends / uses |
| --- | --- | --- | --- |
| `HsrWaitList` | operations and handlers of `wait_list.c`, as operators on a list | none | |
| `HsrKernel` | external: links, their masters, the messages about them | `master`, `queue` | |
| `HsrDaemon` | `handlers.c`, `apply_conf.c`, `change_interface_list`, the select loop, composed with the two above | `conf`, `cachedMaster`, `cachedHsr`, `waiting`, `interfaces`, `overdrawn`, `pc`, `job`, `seen` | `HsrKernel`, `HsrWaitList` |
| `HsrDaemonInv` | the inductive invariant of `HsrDaemon`, and those of the interface list and of the cache | | `HsrDaemon` |
| `HsrRaces` | history: were links changed since main_check's dump | `raced` | `HsrDaemonInv` |
| `HsrOutside` | history: what has happened outside that the daemon cannot undo or sees too late | `outside` | `HsrDaemonInv` |
| `HsrService` | abstract: what the daemon promises to those who configure interfaces | `conf`, `present`, `up`, `wanted`, `asking` | |
| `HsrDaemonService` | the refinement mappings from `HsrDaemon` to `HsrService`, and of its link cache to `NlCacheService` | | `HsrDaemon`, `HsrService`, `NlCacheService` |
| `MCHsrDaemon` | instance: limits the requests from confdb and the steps of the others | `requests`, `others` | `HsrOutside`, `HsrDaemonService` |
| `MCHsrPairs` | instance: many requests, for three pairs of slaves | | `MCHsrDaemon` |
| `MCHsrOne` | instance: one interface, no limit on the outside | | `HsrRaces` |
| `HsrNodes` | the node side of the daemon from start to end: `app_create`, `app_destroy`, the `hsr_node` cache, `status.c` | see below | |
| `HsrCli` | sessions of the command line: `hsr_cmds.lua` | see below | |
| `NlCacheMngr` | filling and updating a cache under a cache manager: `cache_mngr.c`, `cache.c`, `recvmsgs`, a kernel that writes dumps and messages | see below | |
| `NlCacheService` | abstract: what the user of a managed cache is promised | `table`, `pending`, `cache`, `managed` | |
| `NlCacheMngrInv` | inductive invariant of `NlCacheMngr`, and its refinement mapping to `NlCacheService` | | `NlCacheMngr`, `NlCacheService` |
| `NlObjects` | objects, caches, hash tables, the provided cache, and the references between them: `object.c`, `cache.c`, `hashtable.c`, `cache_mngt.c` | see below | |
| `NlMessage` | building a message: `msg.c`, `attr.c` | see below | |
| `NlMessageParts` | history: the attributes that were put, by the places they begin at | `attrs` | `NlMessage` |
| `NlMessageRead` | walking over it, and the refinement mapping to `NlAttrTree` | | `NlMessageParts`, `NlAttrTree` |
| `NlAttrTree` | abstract: the tree of attributes a program builds | `levels` | |
| `NlSocketPorts` | local ports: `socket.c`, `nl_connect`, `nl_close` | see below | |
| `NlPortPool` | abstract: what libnl promises about ports | `holder` | |
| `NlSocketPortsInv` | inductive invariant and refinement mapping to `NlPortPool` | | `NlSocketPorts`, `NlPortPool` |
| `MCHsrNodes`, `MCHsrCli`, `MCNlCacheMngr`, `MCNlObjects`, `MCNlMessage`, `MCNlSocketPorts` | instances for TLC; the last evaluates the walk in its real size | | |
| `HsrDaemon_proofs` | the theorems that rest on `IInv` alone, and the lemmas about lists, queues and beliefs | | `HsrDaemonInv` |
| `HsrPromises_proofs` | the refinement, and the theorems that need more than `IInv` | | `HsrDaemonService`, `HsrRaces`, `HsrOutside`, `HsrDaemon_proofs` |
| `HsrNodes_proofs`, `HsrCli_proofs`, `NlCacheMngr_proofs`, `NlObjects_proofs`, `NlMessage_proofs`, `NlSocketPorts_proofs` | theorems | | |

Operators whose comment says *mutant* are faulty variants of the definition that
follows them. Nothing uses them; each one, put in the place of that definition,
makes a property fail, and shows so what the property is sensitive to.

### The daemon: `HsrKernel`, `HsrWaitList`, `HsrDaemon`

| Code | Model |
| --- | --- |
| links and their `IFLA_MASTER` | `master[l]`: an HSR name, a bridge, `None`, or `Absent` for a link that does not exist. An HSR link exists while it has slaves |
| messages waiting on the route manager's socket | `queue` |
| the managed `route/link` cache | `cachedMaster`, `cachedHsr` |
| `app->wait_list_head` | `waiting`, a sequence of records; `SLAVEn_BUSY` and `SLAVEn_NOT_EXISTS` are the sets `busy` and `missing` |
| `app->interfaces` | `interfaces`; an index that is never given out again is `Stale`, 0 is `NoIndex` |
| `app->interfaces_size` | the length of `interfaces` less `overdrawn`, which is how far it is below 0 |
| what confdb last delivered | `conf` |
| `select`, `nl_cache_mngr_data_ready`, a handler under way | `pc` = `poll`, `drain`, or what is due next, with `job` (the interface it is about) and `seen` (links the dump showed) |
| a null pointer dereferenced, a write in front of the interface list | `pc = "crashed"` |

Actions. `LinkNew` (`link_new_handler` for Ethernet links), `LinkDel`,
`LinkGotBusy`, `LinkReleasedByBridge`, `LinkReleasedByHsr`, `LinkUnaffected` (the
outcomes of `link_changed_handler`), `HsrNew`, `HsrDel`: one message each, cache
first, callback second. `WaitListCreate`, `WaitListRecreate`: the request of
`create_hif_from_waitlist`, the kernel's answer and what the handler does with it.
`AddLink` to `AdminDel` in `HsrKernel`: everything outside.

Between two dumps, and between a dump and the request made because of it, the
kernel may change, and each of these is a step of its own. `hsr_handler` has several:

* a configuration: `CfgSet` (the dump of `change_interface_list`, the interface list,
  the old node freed), `CfgCheck` (the dump of `initial_check`, and what `main_check`
  makes of it), `CfgCreate` or `CfgReplace` if that is a request;
* one that is incomplete: `CfgIncomplete`, the interface list and nothing else;
* a deletion: `CfgDelete` (the dump that says whether there is a link), `CfgRemove`
  (the request), `CfgUnlist` (the dump of `change_interface_list`, and the list). In
  between another tool may have created the link again, under a new index.
* `CfgWritesOutside`: an entry added while the size is below 0.

Two merges remain. `get_master` dumps the links once more for each slave; these
dumps are taken with the one of `initial_check`. And `WaitListRecreate` deletes
and creates in one step: since it names one slave twice, the second request is
refused whatever happens before it.

Three things in the environment have more than one answer and are parameters or
choices: in which order an HSR link and its slaves are announced
(`AnnounceOrder`), in which order its slaves are let go (`DeleteEvents`), and
which links have no `IFLA_INFO_KIND` (`Kindless`).

Some properties excuse what the code gets wrong after an event it cannot see. What
has happened is history, kept beside the daemon and read by nothing in it:
`outside` of `HsrOutside` collects the kinds of events (a link `vanished`, an HSR link
was `deleted`, a link was `released` or taken (`bridged`) by a bridge, one was `raced`
away from main_check, an HSR link was `recreated` between its removal and the look at
its index, a `kindless` link appeared), `raced` of `HsrRaces` tells whether anything changed since
main_check's dump.

### What the daemon promises: `HsrService`

`HsrService` knows no messages, caches, status bits or wait list. Of every name it
has the configuration, the slaves of the link that is up, and the slaves still
wanted; `asking` is the interface whose configuration is being answered. The
mapping (`HsrDaemonService`): what is up is what the kernel has; what is wanted
of an interface is in its wait-list node or, while main_check makes a request, in
the arguments of that request.

| `HsrDaemon` | `HsrService` |
| --- | --- |
| `CfgSet`, `CfgIncomplete`, `CfgDelete` | `Configure`, `Misconfigure`, `Deconfigure` |
| `WaitListCreate`, `CfgCreate` that succeed | `SetUp` |
| `WaitListRecreate`, `CfgReplace`, `CfgRemove` that delete a link | `TakeDown` |
| `CfgCheck` that queues the interface | `Postpone` |
| `CfgCreate`, `CfgReplace`, `CfgRemove` that are refused | `GiveUp` |
| the same from the wait list, `CfgCheck` before a request, `CfgUnlist`, and all notifications | nothing |
| `AddLink`, `DelLink`, `AdminAdd`, `AdminDel` | `LinkAppears`, `LinkVanishes`, `OtherToolActs` |

So no handler of a notification may set up an interface with slaves it was not
configured with, or forget one. That a deleted configuration may stay
wanted is in `HsrService` because it is in the code; `deleted_comes_back` shows
where it contradicts what the command line promises.

### The node side of the daemon: `HsrNodes`

| Code | Model |
| --- | --- |
| interface indexes of the HSR links, never given out again | `index`, `lastIndex` |
| the node tables of the kernel | `nodes` |
| messages of the `hsr` generic netlink family that are not read yet | `queue` |
| what `app_create` has allocated: managers and caches | `held` |
| where `app_create`, the main loop and `hnode_alloc_cache` are | `pc`, `toFill` |
| the `hsr_node` cache: index and address | `cache` |
| `app->interfaces_size` | `interfaces_size`, which may be below 0; what is on the list is the subject of `HsrDaemon`, here a request changes the size or finds its index there |
| the edit of a `node_list` that is due | `edit`: the name the dump gave, index and address |
| sockets `change_interface_list` leaves open | `fds` |
| the `node_list` of each interface in confdb | `published` |

Actions: one per step of `app_create` (`CreateGenManager`, `FillOne` and
`FillRefused` for each HSR link, `AddNodeCache`, `CreateRouteManager`,
`AddLinkCache`), each of which may fail (`CreateFails`, into `app_destroy`);
`HearKnown`, `HearNew`, `HearDown`, `HearDownUnknown` for a message, cache first and
`hnode_cache_change_cb` second, up to the dump that makes a name of the index;
`add_node_to_list`, `delete_node_from_list` or `EditFails` for the edit of that name's
list, before which the link may have gone, and come back under the same name with
another index; `CfgSet`, and `CfgDelete` with `Unlist` after it, as far as they touch
links and the interface list, `CfgWritesOutside` and `CfgNoSocket` for the ways this
goes wrong; `Stop`; links and nodes that come and go. Two history variables:
`unheard`, the nodes that changed between the first fill and the joining of the
group, and `excused`, the entries of the published lists that are left to chance:
by a list that was empty, by a buffer on a dead stack frame, by an earlier link
of the same name, by an edit that failed or whose link was no longer the one of the
dump. The properties say that nothing else is ever wrong.

### Command line: `HsrCli`

`check_interfaces_begin` reads the list of interfaces, `check_interfaces_one` the
slaves of one of them in the order of `pairs()`, which is any, `set_hsr` and
`delete_hsr` make the one request that changes something. `todo[s]` is what
session `s` has still to read. What the other sessions did meanwhile is history:
`rivals`, `removed`, `raced`.

### The cache manager: `NlCacheMngr`

| Code | Model |
| --- | --- |
| the kernel's table of objects | `table` |
| `cm_sock`: membership, receive queue, the error a lost message leaves | `joined`, `events`, `overrun` |
| the dump the kernel is writing, and whether the table's set of objects changed since its last message (`NLM_F_DUMP_INTR`) | `dump` |
| `cm_sync_sock`: receive queue, `s_seq_next`, `s_seq_expect` | `sync`, `seqNext`, `seqExpect` |
| `interrupted` of `recvmsgs` | `interrupted` |
| `grp` of `nl_cache_refill` | `group` |
| where `nl_cache_mngr_add_cache`, `nl_cache_refill` and `recvmsgs` are | `phase` |
| the cache | `cache` |

Actions. `AddCache` (join, clear), `RequestDump` and `RequestUnsent`
(`link_request_update`), `ReceiveObject` and `ReceiveDone` (one message of
`recvmsgs` with the callbacks it runs), `DataReady` (one message of
`nl_cache_mngr_data_ready`), `Overrun`, `OtherFailure`, `Restart`; the kernel's are
`Change`, `DumpObject`, `DumpDone`. The kernel may write any part of a dump
between any two steps of the daemon and change the table between any two
messages.

`NlCacheService` says what remains of all this for the user of the cache: from the
moment it is `managed` it is the kernel's table as it was, and `pending` are the
messages that lead from it to the table as it is (`Leads`). A `Change` announces
itself behind them, `Read` changes the cache by the oldest one, `Fill` begins it and
`GiveUp` ends it. In the mapping `managed` is the phase of that name as long as no
message was dropped; `DataReady` maps to `Read`, the last `ReceiveDone` to `Fill`.

`HsrDaemon` starts where this module's phase `managed` begins, and its link cache is
a managed cache too: the same service is implemented by `cachedMaster` and
`cachedHsr`, with the messages of `queue` (`LinkCache` in `HsrDaemonService`). There a
step of the kernel may be several messages, and an HSR link is in the table without
its slaves. So what `HsrDaemon` assumes of libnl is what
`NlCacheMngr` was shown to do. It begins with an empty queue and a cache that is the
table, which the service allows and `FilledCacheIsTable` justifies once what was
queued during the dumps has been read.

### Objects and references: `NlObjects`

| Code | Model |
| --- | --- |
| `ce_refcnt`, `ce_cache`, `ce_list`, the identifying attributes | the functions of `heap` |
| `c_items`, `hashtable` | `Items(heap, c)`, `heap.table` |
| `c_refcnt`, `co_major_cache`, the cache of a cache manager | `c_refcnt`, `provided`, `managed` |
| pointers of the program, of a parser, of `cache_include` | `held`, `users` |

A reference is an element of a count, and its owner is what the properties are
about: `Counted` and `CachesCounted` add up the owners. `lost` and `overwritten` count
the references nobody can give back, after a `nl_cache_move` that was refused
(`cache.c:539`) and after a cache was provided over another (`cache_mngt.c:346`). The
change callback of `cache_include` runs between two halves of it and may do
whatever a program may; the second half, the put of the old object, is the action
`Put`. A failed allocation is a cache without hash table or an action not taken.

### Messages: `NlMessage` implements `NlAttrTree`

| Code | Model |
| --- | --- |
| the buffer, byte by byte; a header is the value of its first byte | `mem` |
| `nlmsg_len` without the message header | `len` |
| the containers the program has started and not ended | `open` |
| `BUG()` | `bug` |

`nla_put`, `nla_nest_start`, `nla_nest_end` and `nla_nest_end_keep_empty` (`nest_end`),
`nla_nest_cancel`, `nlmsg_append` with and without padding. In `NlMessageRead`, `Walk`
is a reader, `nla_ok` and `nla_next` over the lengths it finds. `NlAttrTree` puts nodes
into a tree; `TreeLevels` reads the tree back with `Walk`, and a step of one that is no
step of the other would be an attribute lost, cut short or read with another's bytes.

`NlMessageParts` says the same without recursion, so that it can be proved. Its history
`attrs` has for every place where an attribute begins the container it was put in
and what was put; nothing in the message reads it. `NothingCutOff`: at every level the
places `nla_next` leads to, from the bytes in the buffer alone, are those of the
attributes put at that level and the end of the level, and `nla_ok` accepts each of
them. `NothingChanged`: the bytes of each attribute are what was put. Both leave out
attributes too long for the 16 bits of `nla_len`, and levels that have one.

### Local ports: `NlSocketPorts` implements `NlPortPool`

| Code | Model |
| --- | --- |
| `used_ports_map`, `idx_state` | `usedPorts`, `idxState` |
| a socket's `s_local.nl_pid`, `NL_OWN_PORT` | `localPort`, `ownPort` |
| `used_ports` of `nl_connect` | `refused` |
| where a socket is in its life and in `nl_connect` | `phase` |
| bindings in the kernel | `bound` |

Each socket belongs to a thread. `generate_local_port` and
`release_local_port` run under a lock and are atomic; everything between two of
them, or between one of them and `bind`, is a step of its own. Refinement:
`Holder` says which socket a marked place of the map is marked for. A step that
generates a port maps to `Take`, one that gives ports back to `GiveBack`, all
others stutter.

## Runs

| Run | Instance | What it shows |
| --- | --- | --- |
| `links_come_and_go` | 2 interfaces, 4 links, one of them without kind; 5 requests from confdb, and at any moment one step of the others: a link appears or disappears, or another tool creates an HSR link | `TypeOK`, `NamesUnique`, `BusyFlagsSound`, `StillExistsSound`, `InterfaceListCoversConfig`, `CrashNeedsLostLink`, `LossNeedsLostLink`, `WaitingNeverDropped`, and the refinement `ServiceKept` |
| `one_interface` | 1 interface, 3 links, a bridge, other tools, left-over HSR links; no limit on the number of steps | `NothingStaleForGood`, `MissingFlagsExact`, `ForgottenOnlyByRace` |
| `links_appear` | 1 interface, 3 links that only appear; no limit; fairness | `NeverStarves`, `Converges` |
| `hsr_nodes` | 2 HSR links, 1 node, 3 indexes, 2 descriptors | `TypeOK`, `CacheFollowsNodes`, `NodeListMatchesCache`, `CrashExplained` |
| `cli_sessions` | 2 sessions, 2 interfaces, 4 links | `SharedOnlyByRace`, `ErrorsNeedRemoval` |
| `managed_cache` | 2 objects with 2 contents, 2 groups; room for 2 and 1 messages, sequence numbers modulo 2; fairness | `CacheIsTable`, `AnswersMatch`, `CacheSettles`, and the refinement `CacheServiceKept` |
| `objects` | 2 pieces of memory, 2 identities, a cache with and one without hash table | `TypeOK`, `Counted`, `CachesSound`, `CachesCounted` |
| `messages` | a buffer of 20 bytes, 2 types of attributes, payloads of 0, 1 and 4 bytes | `TypeOK`, `NothingCutOff`, `NothingChanged`, `ZeroBehind`, `PaddingFits`, and the refinement `TreeBuilt` |
| `local_ports` | 2 sockets, 3 words, 1 port outside the range | `MapExact`, `BlockZeroLast`, and the refinement `PortsPooled` |

Three runs look for, and find, a counterexample to something the repository says
of itself:

| Run | Property | What happens |
| --- | --- | --- |
| `deleted_comes_back` | `DeletedStaysDeleted` | deleting the configuration of an interface that exists and also waits leaves its node, which creates the interface again (`handlers.c:199`) |
| `created_while_old_exists` | `StillExistsRestricts` | the second loop of `hsr_link_deleted` starts a node whose `HSR_STILL_EXISTS` is set (`wait_list.c:284`); recreation then asks for the same slave twice (`apply_conf.c:142`), so that the old interface is gone and the new one refused |
| `released_without_slave` | `ReleasedNodeCanBeCreated` | a link released by a bridge starts a node whose other slave does not exist (`wait_list.c:185`) |

Where the code does go wrong and says nothing about it, a passing run states when:

* `CrashNeedsLostLink`: the daemon dereferences a null pointer, or writes in front of
  its interface list, only after a link has vanished, a bridge has let one go (the
  node waiting for it is started without a look at its other slave), a link has
  appeared that does not tell its kind (`strcmp` of a null pointer, `handlers.c:120`),
  or an HSR link came back while the daemon was removing it.
* `InterfaceListCoversConfig`: the interface list is empty while something is
  configured, or its size below 0, only after that last event. `change_interface_list`
  then finds an index that is not on the list, and drops the last entry, which may be
  that of another interface (`hsr_module.c:42`): no node is published any more, and the
  deletion of that other interface makes the size negative.
* `LossNeedsLostLink`: it forgets a configuration only after a link has vanished or
  joined a bridge, another process has deleted an HSR link, or one has taken a
  link that main_check had just found free. Each of these causes is needed: with
  one of them taken out, TLC finds a counterexample.
* `BusyFlagsSound` is checked where bridges do nothing, and proved until a bridge
  lets a link go. Then it is false: `link_changed_released` resets the link's
  `BUSY` bits only if no node that needs the link has its other slave free
  (`wait_list.c:209`); otherwise all of them keep theirs.
* `ForgottenOnlyByRace`: main_check forgets a configured interface only if links
  changed between its dump and its request, or a slave belongs to a bridge,
  which `get_master` takes for free.
* `CrashExplained`: the node side crashes only if `app_create` failed before the second
  manager was there, descriptors have run out, or the size of the interface list is
  below 0 when an entry is added.
* `NodeListMatchesCache`: a published list is wrong about a node only for the reasons
  `excused` names. Two come from the code between dump and edit: `json_pack` or the edit
  fails and nobody tries again (`status.c:34`, `status.c:90`), or the link goes and
  comes back under the same name, and a node of the old one is written to the list
  of the new one (`status.c:41`).
* `SharedOnlyByRace`, `ErrorsNeedRemoval`: two sessions at once can make two
  interfaces share a slave, or one of them fail; a single one cannot.
* `NeverStarves` holds for one interface. With `Names = {h1, h2}` in `Appear.cfg` it
  fails: main_check queues a node with two free slaves because another one waits
  (`apply_conf.c:326`), and nothing wakes it. So no property covers that hazard; the
  run shows that it takes two interfaces.

### Bounds, and why they are enough

* `MaxQueue` (4, 2 in `one_interface`) limits how far the daemon may be behind
  when the outside or confdb acts; requests of the daemon itself exceed it.
  Creating an HSR link sends three messages and deleting one three, so that with
  4 a whole creation or deletion is unread while something else happens.
* `MaxRequests` and `MaxOthers` (`MCHsrDaemon`) limit the requests from confdb and the
  steps of the others, not those of the daemon. In `links_come_and_go` they are 5 and 1:
  to empty the interface list while a name is configured takes two configurations, a
  deletion, and a tool that creates the link again in the middle of it; a second
  deletion makes the size negative, and one more configuration writes in front of the
  list. The run gets there, and to three of the four causes of `CrashNeedsLostLink`: with
  `vanished`, `kindless` or `recreated` taken out TLC finds a counterexample. It has no
  bridge ports, so that the fourth, `released`, is shown by `released_without_slave`. Its
  slaves are three pairs, of which the second has one link in common with each of the
  others, so that interfaces may be in each other's way, in part or altogether, or not
  at all; a configuration that is incomplete is left to `one_interface`. In the runs
  that look for a counterexample both bounds are 3. `MCHsrOne` has no such limit.
* `MaxInterfaces` limits the list of indexes, which otherwise grows with every
  request.
* Two names are needed for one interface to be in another's way; three links
  let two interfaces share a slave, four let them be up at once. One bridge is
  enough, since a link has one master.
* Runs differ in `AnnounceOrder` on purpose; the theorems hold for all three.
* `hsr_nodes`: three indexes let one of two names come back under a new index
  while messages about the old one are queued; `MaxQueue` 2; two descriptors, so
  that one request succeeds and a later one does not.
* `objects`: two objects with one identity make every replacement, merge and
  search possible, and a third would be one more of the same; `MaxRefs` and
  `MaxUsers` bound the references a program collects. The theorems have no bounds
  but these names, for any number of objects, caches and keys.
* `messages`: five words, enough for a container in a container that begins with
  a structure of 3 bytes, and an attribute behind it; 15 stands for `USHRT_MAX`, so
  that containers outgrow it.
* `cli_sessions`: two sessions race in every way two can; four links let two
  interfaces have nothing in common.
* `managed_cache`: two objects of one dump, so that it may be interrupted
  between them, with two contents, so that one may change without the dump being
  marked; a second, empty dump, as for links when no bridge has ports. The
  first socket overruns after two unread messages; in the second one the
  kernel is at most one message ahead of the daemon; numbers modulo 2 wrap with
  every second request. `CacheInv` is proved for every size and grouping.
* `local_ports`: three words of one bit are the smallest map in which a first
  word is spared and a walk has a choice. The bit walk is trivial then; that
  the walk visits every word and bit in the real map, for each start, is
  `RealWalkAssumption` in `MCNlSocketPorts`, which TLC evaluates with 32 and 32.
  Two retries instead of five; at most three ports are bound outside libnl.
* Symmetry is used in runs without liveness, over links, names, objects, keys,
  sessions and sockets that no configuration distinguishes (in
  `links_come_and_go` it is over names only; where it is used `Leftover` is empty or all
  of `Names`).

`CHECK_DEADLOCK FALSE` stands in the configurations of `HsrDaemon`, where the
daemon stops when nothing is left to read and the bounds stop the outside, or
when it has crashed; in `Nodes.cfg`, where it may have ended; and in `Objects.cfg`,
where the bounds leave a program that has lost every reference nothing to do. The
others check for deadlock.

### Fairness

`HsrDaemon` (`FairSpec`, and `FairRacesSpec` of `MCHsrOne`): weak fairness of `Daemon`,
nothing else: `select` returns when a
socket is readable, and a handler that has begun ends (`main.c:120-183`).
Whether links appear, or confdb delivers anything, is left open. `NlCacheMngr`: weak
fairness of `KernelDump` (the kernel goes on writing a dump while there is room)
and of `Daemon` (a blocking `recvmsgs` returns when there is something to read);
neither `Change` nor failures are fair. `CacheSettles` assumes that from some time
on the table does not change and no failure ends the daemon, since each of these
may postpone the end for ever, and that no request is lost by
`link_request_update`, after which the daemon waits for ever.

## Proofs

`tlapm` checks every theorem to the last leaf, for every value of the constants
that meets the assumptions: `LinksAssumption` (finitely many links),
`DistinctAssumption` and `DaemonAssumption` (kinds of values do not overlap),
`BoundsAssumption`; in `HsrNodes` `HsrNodesAssumption` (what a dead stack frame reads
as is no address of a node), in `HsrCli` `HsrCliAssumption`, in `NlObjects`
`NlObjectsAssumption`, in `NlCacheMngr` `SizesAssumption` (buffers and numbers have a
size) and `NoneAssumption`, in `NlMessage` `NlMessageAssumption` (the buffer is a
multiple of the alignment, `attr.c` demands it), in `NlSocketPorts` `SizesAssumption`
(at least two words), `PortsAssumption` and `WalkAssumption` (the walk visits every
place). TLC evaluates all of them on the instances.

| Theorem | States |
| --- | --- |
| `HsrDaemon_proofs!Invariant` | `[]IInv` |
| `TypeCorrect`, `NoNameWaitsTwice`, `BeliefsAreCorrected`, `MissingFlagsAreExact` | `TypeOK`, `NamesUnique`, `NothingStaleForGood`, `MissingFlagsExact` |
| `NoWaitingInterfaceIsLost` | `WaitingNeverDropped` |
| `HsrPromises_proofs!DaemonImplementsService` | `ServiceKept`, the refinement |
| `ListIndexesExist` | `ListHolds`, of `HsrDaemonInv` |
| `ListCoversConfig`, `StillExistsIsSound` | `InterfaceListCoversConfig`, `StillExistsSound` |
| `ForgettingNeedsARace` | `ForgottenOnlyByRace` |
| `LossHasACause`, `CrashHasACause` | `LossNeedsLostLink`, `CrashNeedsLostLink` |
| `BusyFlagsAreSound` | `BusyFlagsSound`, until a bridge lets a link go |
| `CacheFollowsKernel`, `MessagesAreRead` | `CacheIsKernel`, `NextMessageFits`, of `HsrDaemonInv` |
| `LinkCacheImplementsService` | `LinkCacheKept` of `HsrDaemonService`, the refinement of `NlCacheService` |
| `HsrNodes_proofs!NodesInvariant`, `TypeCorrect`, `CacheFollows`, `NodeListsMatch`, `CrashesExplained` | `NodesInv`, `TypeOK`, `CacheFollowsNodes`, `NodeListMatchesCache`, `CrashExplained` |
| `HsrCli_proofs!SessionsInvariant`, `TypeCorrect`, `SharingNeedsARace`, `ErrorsNeedARemoval` | `CliInv`, `TypeOK`, `SharedOnlyByRace`, `ErrorsNeedRemoval` |
| `NlCacheMngr_proofs!CacheInvariant`, `FilledCacheIsTable`, `AnswersAreRead` | `CacheInv`, `CacheIsTable`, `AnswersMatch` |
| `ManagerImplementsService` | `CacheServiceKept`, the refinement of `NlCacheService` |
| `ServiceSuffices` | `CacheServiceKept => []CacheIsTable` |
| `NlObjects_proofs!ObjectsInvariant`, `TypeCorrect`, `ObjectsCounted`, `CachesAgree`, `ReferencesCounted` | `ObjInv`, `TypeOK`, `Counted`, `CachesSound`, `CachesCounted` |
| `NlMessage_proofs!BufferInOrder`, `TypeCorrect`, `PaddingIsZero`, `PaddingHasRoom` | `Layout`, `TypeOK`, `ZeroBehind`, `PaddingFits` |
| `ReadersMissNothing`, `AttributesStay`, `PartsInOrder` | `NothingCutOff`, `NothingChanged`, `PartsInv` |
| `MessageUnderHistory` | `PartsSpec => Spec`: the four above hold of what the run checks |
| `NlSocketPorts_proofs!PortsInvariant`, `NoPortIsLost`, `FirstWordIsSpared` | `PortsInv`, `MapExact`, `BlockZeroLast` |
| `NlSocketPorts_proofs!PortsArePooled` | `PortsPooled`, the refinement |

**The daemon.** `MissingFlagsExact` speaks of the moments when everything has been
heard, and says nothing of what leads there. `IInv` does: the last queued
message about a link agrees with the kernel (`LastWordTrue`); what the cache says
of a link is true unless the opposite is queued (`CacheTrue`); a node's bits agree
with the cache unless a message will correct them (`NodesFollow`). The last is what
keeps a node right whose bits come from a dump newer than the cache: the
messages that made the difference are still to come, and each of them says what
the dump said. `JobFits` and `ReplacedSlavesHeardOf` tell what a handler knew when
it made its request; `NamesUnique` is needed because handlers find their node by
name. There is one lemma per action, and there are some about queues, which the others
share: appending a report of a change, and reading the oldest message, keep all
three beliefs.

**No waiting interface is lost.** A step that takes a node off the list is a
kernel answer that created the interface with the node's slaves, or a request
from confdb about that name; each action either keeps the names on the list or
is one of these.

**The daemon implements the service.** Each action maps to one of the service's or
to none (table above). What a wait list wants (`Wanted`) is kept by every handler
of a notification, loses one name's slaves with a deletion and gains one with a
node that joins; that it never wants two sets of slaves for one name is
`NamesUnique`, and that a request under way is about an interface that waits, or
about the configuration just delivered, is `JobFits`, both from `IInv`.

**The interface list.** `InterfaceListCoversConfig` says that the list is not empty
while something is configured, until another tool gives the link that is being
removed a new index. The list does not hold what one expects: it keeps indexes of
links that are gone, and all names without a link share the entry 0. What holds
always is `ListHolds`: an index of a link in it belongs to a name that is configured,
or is about to be removed, so that a name configured for the first time always adds
its own; and a size below 0 leaves nothing in the list. `ListCounts` adds, until that
event, one entry for each name that counts, or an entry 0, which is never dropped
since a link that was deleted has index 0 too when it is looked up.

**`HSR_STILL_EXISTS`.** `HsrGoneHeardOf` treats HSR links as `IInv` treats their
slaves: what cache, messages and bits say of an HSR link is true of the kernel, or
the message that it is gone is still queued. The bit is set by
`link_released_hsr_not`, whose message comes before that one in every order in
which the kernel lets slaves go.

**Nothing is forgotten without a race.** `MainCheckHolds` is what main_check has
found, and what a step of the kernel alone can spoil; from it follows that the
request succeeds, or the interface joins the wait list. For `LossNeedsLostLink` the
same must hold over the whole life of an interface: a node waits for the slaves
last configured (`NodesAsConfigured`), whatever is configured exists with its
slaves, waits or is being requested (`NothingLost`), and what main_check has decided
can be done until one of the named causes occurs (`MainCheckSucceeds`). A request
from the wait list may fail at any time: then the node stays.

**No crash without a cause.** The handlers dereference the result of three lookups:
of a new HSR link's first slave in the cache, of the slaves of a node that is
started in a fresh dump, and of the kind of a link that has appeared or gone. As long
as no link has vanished no withdrawal is queued, the first slave of each HSR link
announced is in the cache or announced before it (`FirstSlavesKnown`), and a node is
started when both bits are clear, which `NodesFollow` makes true of the kernel, so
that the dump shows its slaves (`DumpShowsSlaves`). `BridgePortsStay` is why bridges do
no harm until they let a link go, and `KindlessKnown` why a link without kind does
none while it is neither new nor gone. That nothing is written in front of the
interface list is `ListCounts`.

**`BUSY` bits.** Where bridges release nothing a bit is reset only by
`link_released_hsr_not`, which is called only if the cache has the HSR link the slave
was released by, and by a deletion. So
`Unreleased` has to follow the order of messages about different links.
`MastersTold`: of each link, the last message (or the cache) gives the master it
has (`MastersHeardOf`), every HSR link is known when all has been read
(`HsrLinksKnown`), and a message that a link has no master is read while the HSR link
that let it go is still in the cache, or the link is new, or about to vanish
(`FreedFromSome`). `link_new_handler` sets bits too, of the first slave an HSR link
names: it is a slave by then, or about to be (`FirstSlavesEnslaved`). Then a bit is
set only while the link has a master or such a release is still queued
(`BusyTrue`). The proof goes through the orders of announcement and of deletion one
by one.

**The link cache.** `IInv` says that what the cache holds is not wrong for good, but
not that anything is in it. `CacheCatchesUp` does, without the restriction on
bridges: the last message about a link, or the cache, gives its master; an HSR link
exists if and only if it is known when all has been read; and each queued message
fits what the cache will hold when it is read (`MessagesFit`). So the cache is the
kernel's table when nothing is queued (`CacheIsKernel`). The last part is about
the model as much as about the code: there is a notification action for each
message that `route_link_cache_change_cb` is called for, and none for one that libnl
would drop or report as a change of a link already there. `NextMessageFits` says
that no such message is ever the oldest, so that none is stuck in the queue, which a
run without a deadlock check would not show. Both are proved and no run repeats
them: the theorems hold for every instance, other tools, bridges, left-over links
and all three announcement orders included.

**Nodes.** `NodesInv` says what the cache owes to the kernel while messages are
queued: the last queued word about a node is true; of a node about which none is
queued the cache is right, unless it is `unheard`; while the cache is being filled
what has been asked for is right up to the same exception. Nodes of links that
are gone are never asked for again because no index is given out twice. `EditTrue`
carries a change from the dump to the edit: what is to be published is in the
cache, what is to be withdrawn is not, since no message is read in between. So the
edit makes the entry right if its index is still that of the link, and otherwise
the entry is `excused`.

**Sessions.** What a session has read is disjoint from the slaves it will set,
unless another session has set it since; what it has still to read is there,
unless another has deleted it (`CliInv`).

**Objects.** `ObjInv` adds to the properties that an object in a cache is linked and
alive, and that a table holds what its list holds. A step takes a reference and
records its owner, or gives one back; the lemmas have one case for each owner an
object may lose.

**The cache.** `Heard` is the heart of `CacheInv`: as long as nothing was dropped,
an object about which no message is queued is in the cache as it is in the
kernel, or not there yet because the dump that shows it is not over; and the last
queued message about an object says what has become of it. The first part is
true of an object that was there before an interrupted dump was repeated, and of
one that was not replaced because it was there: if either had changed since the
groups were joined a message would be queued. `OneDump` keeps the two ends of the
second socket together.

**The cache service.** `Leads` is `Heard` without dumps: a key no message is about is
as it was, and the last message about a key is true. So `CacheInv` gives the `Fill` of
the refinement, and its other steps follow from the actions alone: once managed,
nothing but `Change` and `DataReady` touches table, queue or cache. `ServiceSuffices`
shows the service worth implementing: `Leads` is kept by its two steps, since a
report of changes follows what is queued, and only a managed cache that has read
all is compared with the table. For the link cache the step is bigger. Every step of
the kernel *recounts* what it does (`Recounts`): the last message about a link gives
its master, an HSR link is announced if it comes or goes and then once, in each of
the orders of announcement and deletion. `ReportLeads` is that fact in the words of
the service, and `ReadingServes` says that a handler's step changes the cache by its
message and by nothing else.

**Messages.** `Layout` holds the message together: `len` lies less than one alignment
before the tail, which is aligned; containers begin at aligned places, each behind
the header of the one around it (`ContainersNested`); behind the tail all is zero.
A cancellation sets `len` back by too much (`clipped`), but never over the header
of the container around it, and what it leaves between `len` and the tail is the
only thing that may not be zero. `nla_put` and `nlmsg_reserve` ask for room for
the padded length, so that the padding at the end of a container was paid for
before.

**What a reader finds.** A walk is a recursion over data, but what it visits is a set
of places: `Chained` says that at each level the place behind the container's
header and structure, and the places the attributes that have ended lead on to, are
the places of the attributes and, where the level has one, its end. An end exists at
the innermost level, where the next attribute will be put (the tail), and at a container
that has ended; a level around an open container has none, since its last attribute
leads nowhere yet. So putting an attribute turns the end into a place and makes a new
end behind it; starting a container takes the end away and gives it to the new level;
ending it gives the end back. A cancelled container gives back the place it began at,
and everything put since then lies in it (`PartsNested`) and behind all that was put
before (`PartsEnd`), which is why clearing what is behind that place touches nothing
else. `OpenParts` links the stack of open containers to the history, and says when the
structure of a container may be missing. That headers hold the lengths `Chained` adds
up is `NothingChanged`, part of the same invariant `PartsInv`.

**Ports.** Every step of a socket is a *move*: it marks one free place for the
socket, or unmarks places of its own, or neither. `PortsInv` is kept by moves, and
moves are steps of the pool.

Model-checked only: the liveness properties (`Converges`, `NeverStarves`,
`CacheSettles`), which are outside what the provers do; the refinement `TreeBuilt`,
because its reader recurses over the data, which the provers cannot follow
(`ReadersMissNothing` and `AttributesStay` are what can be proved of it: each level is
read completely, with the bytes that were put); and `BusyFlagsSound` after a release
by a bridge, of which `links_come_and_go` has none because it is false then.

## Not modelled

The models follow the daemon and what it uses of libnl. Most of libnl (routes,
addresses, neighbours, queueing, link types other than HSR, netfilter, xfrm, idiag,
its CLI tools) is not used by anything else in the repository and consists of
parsing and building attributes; it has no state of its own that `NlObjects`,
`NlCacheMngr` and `NlMessage` do not have. The models therefore cover a few percent
of the repository's lines, and most of `confdb-hsr`.

* Memory exhaustion, failures to open a socket or to parse a dump in the
  handlers of `confdb-hsr`. In `NlCacheMngr` they are `OtherFailure`.
* Messages of family `AF_BRIDGE`. Bridges are masters and nothing more here. The
  cache has an entry for each bridge port of that family besides, without
  `IFLA_INFO_KIND`, which the handlers treat like a physical port's: see
  `Kindless` and the hazard at `handlers.c:120`.
* The connection to confdb and confdb itself, which is not in the repository.
* `nl_cache_resync`, which nothing calls. (Objects that `oo_update` merges would stay
  marked and be swept.) `add_interface_nodes_to_cache` and the `NL_ACT_CHANGE` branch
  for nodes, which nothing reaches.
* Acknowledgements, error answers and callbacks of `recvmsgs`: the requests of the
  daemon are answered or refused in one step.
* Leaks that change nothing a property is about: the `hsr_node` parser never puts
  the object it has parsed; `initial_check` and `create_hif_from_waitlist` keep
  references to slave links; sockets of handlers are closed and not freed, and
  keep their local port.
* `nlmsg_expand`, attribute policies, typed accessors. Attributes whose length does
  not fit into 16 bits are put with a wrapped length by `nla_reserve` (`attr.c:464`):
  `Lens` of the instance leaves them out. `nla_nest_cancel` subtracts a distance
  measured to the padded end from the length that is not padded (`attr.c:992`), so
  that after a structure whose end is not aligned the message ends up to three
  bytes before the container began, against the comment at `attr.c:984`: the history
  variable `clipped` excuses what follows until the next attribute is put.
* Logging and options; `part1`, which holds experiments and build files.

## Plan

Done: the link side of the daemon and its abstract service, the node side, the
command line, ports, the cache manager, objects and references, messages. Left, in
this order:

1. Answers: acknowledgements, error answers and callbacks in `recvmsgs`
   (`nl_wait_for_ack`, `nl_pickup`, `nl_send_sync`), composed with `NlSocketPorts`. What
   a request leaves unread the next one reads; a request that could not be sent
   leaves `s_seq_next` ahead, and all later answers are out of step.
2. `HsrDaemon` from the moment its cache is filled, with what was queued during the
   dumps still to be read: messages about links the cache has already as they are.
   `NlCacheService` allows that start, `HsrDaemon` leaves it out.
3. The cache of `HsrNodes` as a managed cache. It is asked for before its group is
   joined, so that the service has to be weakened by what is `unheard`.

## Running

    tlc -config Links.cfg MCHsrPairs.tla       # a run: module and cfg as in PROJECT.json
    tlapm HsrDaemon_proofs.tla                 # a proof module

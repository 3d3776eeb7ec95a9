---------------------------- MODULE NlCacheMngr ----------------------------
(***************************************************************************)
(* A cache of kernel objects under a libnl cache manager: how it is filled *)
(* from dumps (nl_cache_mngr_add_cache, nl_cache_refill, recvmsgs) and     *)
(* kept up to date from multicast messages (nl_cache_mngr_data_ready,      *)
(* event_input, cache_include), while the kernel's table goes on changing. *)
(*                                                                         *)
(* The manager has two sockets.  Changes arrive on the first one, from the *)
(* moment it has joined the groups of the cache.  Dumps arrive on the      *)
(* second one, one dump for each group of a cache with NL_CACHE_AF_ITER;   *)
(* the kernel writes a dump object by object, as far as the socket has     *)
(* room, and marks the first message after the table's set of objects      *)
(* changed.  A dump that was marked is made again.                         *)
(***************************************************************************)
EXTENDS Integers, Sequences

CONSTANTS
  Keys,       \* identities of objects: interface index and family
  Values,     \* what else there is to an object
  None,       \* no object
  NumGroups,  \* groups of the cache, each with a dump of its own
  GroupOf,    \* GroupOf[k]: the group whose dump shows k
  BufSize,    \* messages the first socket has room for
  SyncSize,   \* messages the second socket has room for
  SeqSize     \* sequence numbers (2^32)

ASSUME SizesAssumption ==
  /\ NumGroups \in Nat \ {0}
  /\ GroupOf \in [Keys -> 1 .. NumGroups]
  /\ BufSize \in Nat
  /\ SyncSize \in Nat \ {0}
  /\ SeqSize \in Nat \ {0}

ASSUME NoneAssumption == None \notin Values

VARIABLES
  table,        \* the kernel's objects
  joined,       \* the first socket is a member of the groups
  events,       \* multicast messages in the first socket
  overrun,      \* one of them was dropped, which the next read reports
  dump,         \* the dump the kernel is writing
  sync,         \* messages in the second socket
  phase,        \* where the daemon is
  error,        \* why it gave up, or waits for nothing
  group,        \* grp of nl_cache_refill
  interrupted,  \* of recvmsgs
  seqNext,      \* s_seq_next of the second socket
  seqExpect,    \* s_seq_expect of the second socket
  cache         \* the objects in the cache

kernelVars == <<table, events, overrun, dump>>
syncVars == <<sync, interrupted, seqNext, seqExpect>>
vars == <<table, joined, events, overrun, dump, sync, phase, error, group,
          interrupted, seqNext, seqExpect, cache>>

Content == [Keys -> Values \cup {None}]
Empty == [k \in Keys |-> None]
SeqNumbers == 0 .. SeqSize - 1

(* A multicast message: RTM_DELLINK when val is None, RTM_NEWLINK if not.  *)
Event == [key : Keys, val : Values \cup {None}]

(* A message of a dump, NLMSG_DONE included; intr is NLM_F_DUMP_INTR.      *)
SyncMsg ==
  [type : {"object"}, seq : SeqNumbers, key : Keys, val : Values,
   intr : BOOLEAN]
    \cup [type : {"done"}, seq : SeqNumbers, intr : BOOLEAN]

(* "off": no dump is being written; "fresh": nothing has been written yet; *)
(* "changed": the set of objects has changed since the last message.       *)
Dump ==
  [state : {"off", "fresh", "same", "changed"}, seq : SeqNumbers,
   todo : SUBSET Keys]

NoDump == [state |-> "off", seq |-> 0, todo |-> {}]

Phases == {"start", "request", "receive", "managed", "failed"}
Errors == {"none", "unsent", "mismatch", "overrun", "other"}

TypeOK ==
  /\ table \in Content
  /\ joined \in BOOLEAN
  /\ events \in Seq(Event)
  /\ overrun \in BOOLEAN
  /\ dump \in Dump
  /\ sync \in Seq(SyncMsg)
  /\ phase \in Phases
  /\ error \in Errors
  /\ group \in 1 .. NumGroups
  /\ interrupted \in BOOLEAN
  /\ seqNext \in SeqNumbers
  /\ seqExpect \in SeqNumbers
  /\ cache \in Content

(* A daemon that starts has new sockets, whose sequence numbers start      *)
(* anywhere, and an empty cache.                                           *)
FreshSockets ==
  /\ joined' = FALSE
  /\ events' = <<>>
  /\ overrun' = FALSE
  /\ dump' = NoDump
  /\ sync' = <<>>
  /\ seqNext' \in SeqNumbers
  /\ seqExpect' = seqNext'

Init ==
  /\ table \in Content
  /\ joined = FALSE
  /\ events = <<>>
  /\ overrun = FALSE
  /\ dump = NoDump
  /\ sync = <<>>
  /\ phase = "start"
  /\ error = "none"
  /\ group = 1
  /\ interrupted = FALSE
  /\ seqNext \in SeqNumbers
  /\ seqExpect = seqNext
  /\ cache = Empty

-----------------------------------------------------------------------------
(* The kernel.                                                             *)

(* An object appears, changes or disappears.  Members of its group are     *)
(* told; a message there is no room for, or that comes before the reader   *)
(* has noticed the loss of an earlier one, is dropped.                     *)
Change ==
  \E k \in Keys, v \in Values \cup {None} :
    /\ v # table[k]
    /\ table' = [table EXCEPT ![k] = v]
    /\ IF joined /\ ~ overrun /\ Len(events) < BufSize
         THEN events' = Append(events, [key |-> k, val |-> v])
         ELSE UNCHANGED events
    /\ overrun' = (overrun \/ (joined /\ Len(events) >= BufSize))
    /\ dump' = IF dump.state = "same" /\ None \in {v, table[k]}
                 THEN [dump EXCEPT !.state = "changed"] ELSE dump
    /\ UNCHANGED <<joined, syncVars, phase, error, group, cache>>

DumpObject ==
  \E k \in dump.todo :
    /\ dump.state # "off"
    /\ Len(sync) < SyncSize
    /\ IF table[k] = None
         THEN /\ dump' = [dump EXCEPT !.todo = @ \ {k}]
              /\ UNCHANGED sync
         ELSE /\ dump' = [dump EXCEPT !.todo = @ \ {k}, !.state = "same"]
              /\ sync' = Append(sync,
                   [type |-> "object", seq |-> dump.seq, key |-> k,
                    val |-> table[k], intr |-> dump.state = "changed"])
    /\ UNCHANGED <<table, joined, events, overrun, phase, error, group,
                   interrupted, seqNext, seqExpect, cache>>

DumpDone ==
  /\ dump.state # "off"
  /\ dump.todo = {}
  /\ Len(sync) < SyncSize
  /\ dump' = NoDump
  /\ sync' = Append(sync, [type |-> "done", seq |-> dump.seq,
                           intr |-> dump.state = "changed"])
  /\ UNCHANGED <<table, joined, events, overrun, phase, error, group,
                 interrupted, seqNext, seqExpect, cache>>

-----------------------------------------------------------------------------
(* nl_cache_mngr_add_cache: the groups are joined, then nl_cache_refill    *)
(* clears the cache and asks for the first dump.                           *)

AddCache_NotJoined ==   \* mutant: filled before the groups are joined
  /\ phase = "start"
  /\ phase' = "request"
  /\ group' = 1
  /\ cache' = Empty
  /\ UNCHANGED <<joined, kernelVars, syncVars, error>>

AddCache ==
  /\ phase = "start"
  /\ joined' = TRUE
  /\ phase' = "request"
  /\ group' = 1
  /\ cache' = Empty
  /\ UNCHANGED <<kernelVars, syncVars, error>>

(* nl_cache_request_full_dump; a socket carries one dump at a time.        *)
RequestDump ==
  /\ phase = "request"
  /\ dump.state = "off"
  /\ dump' = [state |-> "fresh", seq |-> seqNext,
              todo |-> {k \in Keys : GroupOf[k] = group}]
  /\ seqNext' = (seqNext + 1) % SeqSize
  /\ phase' = "receive"
  /\ UNCHANGED <<table, joined, events, overrun, sync, error, group,
                 interrupted, seqExpect, cache>>

(* link_request_update (route/link.c:811-815) returns 0 when the request   *)
(* could not be sent: its number is used up, and nl_cache_refill waits for *)
(* an answer.                                                              *)
RequestUnsent ==
  /\ phase = "request"
  /\ seqNext' = (seqNext + 1) % SeqSize
  /\ phase' = "receive"
  /\ error' = "unsent"
  /\ UNCHANGED <<kernelVars, joined, sync, group, interrupted, seqExpect,
                 cache>>

(* recvmsgs takes the next message of the answer; one with another number  *)
(* than expected ends it.                                                  *)
Receive(type) ==
  /\ phase = "receive"
  /\ sync # <<>>
  /\ Head(sync).type = type
  /\ sync' = Tail(sync)
  /\ UNCHANGED <<kernelVars, seqNext>>

(* An error while the cache is filled drops the membership again.          *)
FailWith(e) ==
  /\ phase' = "failed"
  /\ error' = e
  /\ joined' = (joined /\ phase = "managed")

Mismatch ==
  /\ FailWith("mismatch")
  /\ UNCHANGED <<group, interrupted, seqExpect, cache>>

(* nl_cache_add keeps an object that is there already (NLE_EXIST).         *)
Filled(m) ==
  IF cache[m.key] = None THEN [cache EXCEPT ![m.key] = m.val] ELSE cache

ReceiveObject_StopsEarly ==   \* mutant: the rest of the dump is not read
  LET m == Head(sync)
  IN  /\ Receive("object")
      /\ cache' = Filled(m)
      /\ phase' = IF m.intr THEN "request" ELSE phase
      /\ UNCHANGED <<joined, error, group, interrupted, seqExpect>>

ReceiveObject ==
  LET m == Head(sync)
  IN  /\ Receive("object")
      /\ IF m.seq # seqExpect
           THEN Mismatch
           ELSE /\ cache' = Filled(m)
                /\ interrupted' = (interrupted \/ m.intr)
                /\ UNCHANGED <<joined, phase, error, group, seqExpect>>

(* The end of a dump: again if it was interrupted, the next group if there *)
(* is one; after the last one the cache is associated with the manager.    *)
NextDump(again) ==
  /\ group' = IF again \/ group = NumGroups THEN group ELSE group + 1
  /\ phase' = IF ~ again /\ group = NumGroups THEN "managed" ELSE "request"

ReceiveDone_StaysInterrupted ==   \* mutant: interrupted is not reset
  LET m == Head(sync)
  IN  /\ Receive("done")
      /\ interrupted' = (interrupted \/ m.intr)
      /\ seqExpect' = (seqExpect + 1) % SeqSize
      /\ NextDump(interrupted')
      /\ UNCHANGED <<joined, error, cache>>

ReceiveDone ==
  LET m == Head(sync)
  IN  /\ Receive("done")
      /\ IF m.seq # seqExpect
           THEN Mismatch
           ELSE /\ seqExpect' = (seqExpect + 1) % SeqSize
                /\ interrupted' = FALSE
                /\ NextDump(interrupted \/ m.intr)
                /\ UNCHANGED <<joined, error, cache>>

-----------------------------------------------------------------------------
(* nl_cache_mngr_data_ready: the next read reports a loss before anything  *)
(* else; event_input hands the object to cache_include.                    *)

(* What becomes of the cached object; one that can be merged with the new  *)
(* one (nl_object_update) is as good as replaced.                          *)
cache_include(c, e) == [c EXCEPT ![e.key] = e.val]

DataReady_LossForgotten ==   \* mutant: the reported loss is passed over
  /\ phase = "managed"
  /\ events # <<>>
  /\ cache' = cache_include(cache, Head(events))
  /\ events' = Tail(events)
  /\ overrun' = FALSE
  /\ UNCHANGED <<table, joined, dump, syncVars, phase, error, group>>

DataReady ==
  /\ phase = "managed"
  /\ ~ overrun
  /\ events # <<>>
  /\ cache' = cache_include(cache, Head(events))
  /\ events' = Tail(events)
  /\ UNCHANGED <<table, joined, overrun, dump, syncVars, phase, error, group>>

-----------------------------------------------------------------------------
(* Failures.  Each one ends the daemon: app_create and the main loop hand  *)
(* an error of libnl on.                                                   *)

Fail(e) ==
  /\ FailWith(e)
  /\ UNCHANGED <<kernelVars, syncVars, group, cache>>

Overrun ==
  /\ phase = "managed"
  /\ overrun
  /\ Fail("overrun")

(* No memory, no socket, a message that cannot be parsed.                  *)
OtherFailure ==
  /\ phase \in {"start", "request", "receive", "managed"}
  /\ Fail("other")

(* A new daemon takes over.                                                *)
Restart ==
  /\ phase = "failed"
  /\ FreshSockets
  /\ phase' = "start"
  /\ error' = "none"
  /\ group' = 1
  /\ interrupted' = FALSE
  /\ cache' = Empty
  /\ UNCHANGED table

-----------------------------------------------------------------------------
KernelDump == DumpObject \/ DumpDone

Daemon ==
  \/ AddCache \/ RequestDump \/ ReceiveObject \/ ReceiveDone \/ DataReady
  \/ Overrun \/ Restart

Failure == RequestUnsent \/ OtherFailure

Next == Change \/ KernelDump \/ Daemon \/ Failure

Spec == Init /\ [][Next]_vars

(* The kernel goes on with a dump while there is room, and the daemon with *)
(* what it is doing; nothing has to change or to fail.                     *)
FairSpec == Spec /\ WF_vars(KernelDump) /\ WF_vars(Daemon)

-----------------------------------------------------------------------------
(* Properties.                                                             *)

(* When a managed cache has nothing left to read it is the kernel's table, *)
(* whatever changed, and however often, while its dumps were being written *)
(* and read.                                                               *)
CacheIsTable ==
  phase = "managed" /\ events = <<>> /\ ~ overrun => cache = table

(* A dump is read to its end: when the next one is asked for, and when the *)
(* cache is filled, nothing of an earlier one is left, in the socket or in *)
(* the kernel, and no answer is taken for another one.                     *)
AnswersMatch ==
  /\ error # "mismatch"
  /\ phase \in {"request", "managed"} => sync = <<>> /\ dump.state = "off"

(* Once the kernel's table stays as it is, no failure ends the daemon any  *)
(* more, and it does not wait for the answer to a request it never sent,   *)
(* the cache is filled and becomes the table for good; dumps are not       *)
(* repeated for ever.                                                      *)
CacheSettles ==
  <>[][UNCHANGED table /\ phase' # "failed"]_vars /\ <>[](error # "unsent") =>
    <>[](phase = "managed" /\ cache = table)
=============================================================================

--------------------------- MODULE NlCacheMngrInv ---------------------------
(***************************************************************************)
(* Why a filled cache can be trusted in NlCacheMngr: what is known of an   *)
(* object about which no change is queued, from the moment the groups are  *)
(* joined.  NlCacheMngr_proofs shows that this is an invariant, and that   *)
(* NlCacheMngr implements NlCacheService.                                  *)
(***************************************************************************)
EXTENDS NlCacheMngr

(* Sockets, kernel and daemon agree on the dump under way: the messages in *)
(* the socket belong to it, NLMSG_DONE is the last of them and comes when  *)
(* the kernel has nothing more to write.                                   *)
OneDump ==
  /\ phase \in {"start", "request", "managed"} =>
       sync = <<>> /\ dump.state = "off"
  /\ phase \in {"start", "request"} => seqNext = seqExpect
  /\ phase = "receive" =>
       /\ seqNext = (seqExpect + 1) % SeqSize
       /\ \A j \in DOMAIN sync : sync[j].seq = seqExpect
       /\ \A j \in DOMAIN sync :
            sync[j].type = "done" => j = Len(sync) /\ dump.state = "off"
       /\ dump.state # "off" => dump.seq = seqExpect
       /\ dump.state = "off" /\ error # "unsent" =>
            sync # <<>> /\ sync[Len(sync)].type = "done"
  /\ dump.state = "off" => dump.todo = {}
  /\ error = "unsent" => phase = "receive" /\ sync = <<>> /\ dump.state = "off"
  /\ error # "mismatch"

Unjoined == phase = "start" => ~ joined /\ events = <<>> /\ ~ overrun

(* No change of object k is queued, so that it is what it was when the     *)
(* groups were joined, or what the last message read said.                 *)
Silent(k) == \A j \in DOMAIN events : events[j].key # k

Shown(k) == \E j \in DOMAIN sync : sync[j].type = "object" /\ sync[j].key = k

Believed(k) ==
  /\ \A j \in DOMAIN sync :
       sync[j].type = "object" /\ sync[j].key = k => sync[j].val = table[k]
  /\ cache[k] \in {None, table[k]}
  /\ phase = "managed" \/ GroupOf[k] < group => cache[k] = table[k]
  /\ phase = "receive" /\ error # "unsent" /\ GroupOf[k] = group =>
       k \in dump.todo \/ Shown(k) \/ cache[k] = table[k]

(* The last message about an object tells what has become of it.           *)
LastWord ==
  \A j \in DOMAIN events :
    (\A i \in DOMAIN events : i > j => events[i].key # events[j].key) =>
      events[j].val = table[events[j].key]

(* As long as no message was dropped.                                      *)
Heard ==
  phase \in {"request", "receive", "managed"} /\ ~ overrun =>
    /\ joined
    /\ LastWord
    /\ \A k \in Keys : Silent(k) => Believed(k)

CacheInv == TypeOK /\ OneDump /\ Unjoined /\ Heard
-----------------------------------------------------------------------------
(* The cache as its user sees it.                                          *)

Service == INSTANCE NlCacheService WITH
  Contents <- Values \cup {None}, pending <- events,
  managed <- (phase = "managed" /\ ~ overrun)

(* From the moment a cache is handed to its user until a message is lost   *)
(* or the daemon gives up, every change of the kernel's table reaches it   *)
(* as one message, each message is read once and in order, and nothing of  *)
(* the dumps it was filled from is read later.                             *)
CacheServiceKept == Service!Spec
=============================================================================

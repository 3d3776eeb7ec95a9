-------------------------- MODULE HsrDaemonService --------------------------
(***************************************************************************)
(* HsrDaemon implements HsrService: what is wanted of an interface is in   *)
(* its wait-list node, or, while its configuration is being answered, in   *)
(* the arguments of the handler.                                           *)
(*                                                                         *)
(* Its link cache implements NlCacheService.                               *)
(***************************************************************************)
EXTENDS HsrDaemon

Answering == pc \in {"cfgCheck", "cfgCreate", "cfgReplace", "cfgRemove"}

Wanted(w, h) ==
  UNION {Slaves(w[k]) : k \in {j \in DOMAIN w : w[j].hsr_name = h}}

Present == {l \in Links : master[l] # Absent}

Up == [h \in Names |-> SlavesOf(master, h)]

AllWanted ==
  [h \in Names |->
     IF pc \in {"cfgCheck", "cfgCreate", "cfgReplace"} /\ job = h
       THEN {conf[h][1], conf[h][2]} ELSE Wanted(waiting, h)]

Asking == IF Answering THEN job ELSE None

Service == INSTANCE HsrService WITH
  present <- Present, up <- Up, wanted <- AllWanted, asking <- Asking,
  OtherTools <- EnvOps \cap {"adminAdd", "adminDel"} # {}

(* Every step of the daemon is one of the service's: an interface is set   *)
(* up with the slaves it was last configured with, taken down for a reason *)
(* of its own, and never forgotten on account of a link or of another      *)
(* interface.                                                              *)
ServiceKept == Service!Spec
-----------------------------------------------------------------------------
(* The daemon's link cache.                                                *)

(* An HSR link has itself as contents: its messages, and its place in the  *)
(* cache, say no more than that it is there.                               *)
MessageOf(e) ==
  [key |-> e.dev,
   val |-> IF e.type = "hsr" /\ e.up # Absent THEN e.dev ELSE e.up]

MessagesOf(q) == [k \in DOMAIN q |-> MessageOf(q[k])]

LinkTable(links, hsrs) ==
  [k \in Links \cup Names |->
     IF k \in Links THEN links[k] ELSE IF k \in hsrs THEN k ELSE Absent]

LinkCache == INSTANCE NlCacheService WITH
  Keys <- Links \cup Names, Contents <- LinkState,
  table <- LinkTable(master, {h \in Names : Exists(master, h)}),
  pending <- MessagesOf(queue),
  cache <- LinkTable(cachedMaster, cachedHsr),
  managed <- TRUE

(* The daemon's link cache is one that NlCacheMngr keeps, filled when the  *)
(* daemon starts: the cache a handler is called with is the kernel's table *)
(* of some time ago, one message further than in the call before.          *)
LinkCacheKept == LinkCache!Spec
=============================================================================

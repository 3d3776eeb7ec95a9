----------------------------- MODULE HsrOutside -----------------------------
(***************************************************************************)
(* HsrDaemon with a history variable: what has happened outside the daemon *)
(* that it cannot undo or does not see in time.                            *)
(***************************************************************************)
EXTENDS HsrDaemonInv

VARIABLE outside

Kinds == {"vanished", "deleted", "released", "bridged", "raced",
          "recreated", "kindless"}

Turns(from, to) == \E l \in Links : master[l] \in from /\ master'[l] \in to

(* A link vanishes; an HSR link is deleted and leaves its slaves; a link   *)
(* is let go by a bridge; one is taken by a bridge; one is taken by an HSR *)
(* link after main_check found it free and before it asked for it; an HSR  *)
(* link is there again after its removal and before its index is looked    *)
(* up; a link appears that does not tell its kind.                         *)
Happens(kind) ==
  \/ kind = "vanished" /\ Turns(LinkState \ {Absent}, {Absent})
  \/ kind = "deleted" /\ Turns(Names, {None})
  \/ kind = "released" /\ Turns(Bridges, {None})
  \/ kind = "bridged" /\ Turns({None}, Bridges)
  \/ kind = "raced" /\ pc \in {"cfgCreate", "cfgReplace"} /\ Turns({None}, Names)
  \/ kind = "recreated" /\ pc = "cfgUnlist" /\ Turns({None}, {job})
  \/ /\ kind = "kindless"
     /\ \E l \in Kindless : master[l] = Absent /\ master'[l] # Absent

OutsideInit ==
  /\ Init
  /\ outside = {kind \in {"bridged"} : \E l \in Links : master[l] \in Bridges}

(* The kernel and its other users act, confdb asks, and the daemon acts.   *)
OthersAct ==
  /\ Environment
  /\ outside' = outside \cup {kind \in Kinds : Happens(kind)}

ConfdbAsks == Configuration /\ UNCHANGED outside

Reacts == Daemon /\ UNCHANGED outside

OutsideNext == OthersAct \/ ConfdbAsks \/ Reacts

OutsideSpec == OutsideInit /\ [][OutsideNext]_<<vars, outside>>

-----------------------------------------------------------------------------
(* Properties.                                                             *)

(* No handler dereferences a link or a kind that is not there, or writes   *)
(* outside its list, until a link vanishes, a bridge lets one go (the node *)
(* that waits for it is started then without a look at its other slave),   *)
(* a link appears that does not tell its kind, or another process creates  *)
(* an HSR link again while the daemon removes it.                          *)
CrashNeedsLostLink ==
  outside \cap {"vanished", "released", "kindless", "recreated"} = {} =>
    NeverCrashed

(* hnode_cache_change_cb publishes nothing while interfaces_size is not    *)
(* above 0.  It is above 0 while something is configured or being removed, *)
(* and the entry a successful removal drops is there (the size never gets  *)
(* below 0), until another process creates an HSR link again between its   *)
(* removal and the look at its index: then the entry of another interface  *)
(* is dropped.                                                             *)
InterfaceListCoversConfig ==
  "recreated" \notin outside =>
    /\ overdrawn = 0
    /\ (\E h \in Names : conf[h] # None) \/ pc \in {"cfgRemove", "cfgUnlist"} =>
         interfaces # <<>>

(* Every configured interface exists with its slaves, waits for them, or   *)
(* has a request under way, until a link vanishes or is put into a bridge, *)
(* another process deletes an HSR link, or one takes a link that           *)
(* main_check has just found free.                                         *)
LossNeedsLostLink ==
  outside \cap {"vanished", "deleted", "bridged", "raced"} = {} =>
    ConfigurationNeverLost

-----------------------------------------------------------------------------
(* Why the daemon does not crash.                                          *)

(* The link a message about a new HSR link names is in the cache when the  *)
(* message is read.                                                        *)
FirstSlavesKnown ==
  \A h \in Names, s \in Links : \A k \in DOMAIN queue :
    queue[k] = HsrEvent(h, s) =>
      \/ cachedMaster[s] # Absent
      \/ \E j \in DOMAIN queue : j < k /\ Announces(queue[j], s)

(* Of a link in a bridge there is nothing more to hear.                    *)
BridgePortsStay ==
  \A l \in Links :
    /\ cachedMaster[l] \in Bridges =>
         /\ master[l] = cachedMaster[l]
         /\ \A k \in DOMAIN queue : ~ AboutLink(queue[k], l)
    /\ \A k \in DOMAIN queue :
         AboutLink(queue[k], l) /\ queue[k].up \in Bridges =>
           /\ master[l] = queue[k].up
           /\ \A j \in DOMAIN queue : j > k => ~ AboutLink(queue[j], l)

(* The dump before a request shows the slaves of the node it is made for.  *)
DumpShowsSlaves ==
  pc \in {"create", "recreate"} => Slaves(NodeNamed(waiting, job)) \subseteq seen

(* Links that do not tell their kind have been in the cache from the       *)
(* beginning.                                                              *)
KindlessKnown ==
  \A l \in Kindless : \A k \in DOMAIN queue :
    Announces(queue[k], l) => cachedMaster[l] # Absent

Uncrashed ==
  outside \cap {"vanished", "released", "kindless", "recreated"} = {} =>
    /\ pc # "crashed"
    /\ \A l \in Links : ~ Leaving(queue, l)
    /\ FirstSlavesKnown
    /\ BridgePortsStay
    /\ DumpShowsSlaves
    /\ KindlessKnown

-----------------------------------------------------------------------------
(* Why the interface list covers the configuration.                        *)

(* The names an entry is needed for: those configured, and the one whose   *)
(* removal is under way.                                                   *)
Counted ==
  {h \in Names :
     conf[h] # None \/ (pc \in {"cfgRemove", "cfgUnlist"} /\ job = h)}

(* There is an entry for each counted name.  The entry of one without a    *)
(* link stands for all later ones without a link; but it is never dropped, *)
(* since a link that was deleted, and has not come back, has no index      *)
(* either.                                                                 *)
Covers(list, S) ==
  Contains(list, NoIndex) \/ Len(list) >= Cardinality(S)

ListCounts ==
  "recreated" \notin outside =>
    /\ IsFiniteSet(Counted)
    /\ overdrawn = 0
    /\ Covers(interfaces, Counted)
    /\ pc = "cfgUnlist" => ~ Exists(master, job)

-----------------------------------------------------------------------------
(* Why no configured interface is lost.                                    *)

Configured(h) == conf[h] \in Pair

PairOf(h) == {conf[h][1], conf[h][2]}

(* A node waits for the slaves last configured.                            *)
NodesAsConfigured ==
  \A k \in DOMAIN waiting :
    Configured(waiting[k].hsr_name) =>
      Slaves(waiting[k]) = PairOf(waiting[k].hsr_name)

(* What main_check has decided can be done.                                *)
MainCheckSucceeds ==
  /\ pc = "cfgCreate" => CanCreate(master, job, conf[job][1], conf[job][2])
  /\ pc = "cfgReplace" => Exists(master, job)

NothingLost ==
  \A h \in Names :
    Configured(h) =>
      \/ Waits(waiting, h)
      \/ SlavesOf(master, h) = PairOf(h)
      \/ pc \in {"cfgCheck", "cfgCreate", "cfgReplace"} /\ job = h

Unlost ==
  outside \cap {"vanished", "deleted", "bridged", "raced"} = {} =>
    /\ \A l \in Links : master[l] \notin Bridges
    /\ MainCheckSucceeds
    /\ pc # "crashed" => NothingLost

-----------------------------------------------------------------------------
(* Why a BUSY bit is reset in time.                                        *)

Frees(e, l) == AboutLink(e, l) /\ e.up = None

(* A link without master is new, or comes from an HSR link the cache still *)
(* has, or from a bridge because it is about to vanish.                    *)
FreedFrom(q, cm, hs, l, k, up) ==
  /\ Before(q, cm, l, k, up)
  /\ \/ up = Absent
     \/ up \in Names /\ Known(q, hs, up, k)
     \/ up \in Bridges /\ \E j \in DOMAIN q : j > k /\ Withdraws(q[j], l)

HsrLinksKnown(q, hs, m) ==
  \A h \in Names : Exists(m, h) => Known(q, hs, h, Len(q) + 1)

FreedFromSome(q, cm, hs) ==
  \A l \in Links : \A k \in DOMAIN q :
    Frees(q[k], l) => \E up \in LinkState : FreedFrom(q, cm, hs, l, k, up)

(* The first slave of a new HSR link is its slave, or about to be.         *)
FirstSlavesEnslaved(q, cm) ==
  \A h \in Names, f \in Links : \A k \in DOMAIN q :
    q[k] = HsrEvent(h, f) =>
      \/ Before(q, cm, f, k, h)
      \/ \E j \in DOMAIN q : j > k /\ q[j] = LinkEvent(f, h)

(* A message after which no BUSY bit of l is set.                          *)
Resets(q, cm, l) ==
  \E k \in DOMAIN q :
    \/ Withdraws(q[k], l)
    \/ Frees(q[k], l) /\ \E h \in Names : Before(q, cm, l, k, h)

BusyTrue(w, q, cm, m) ==
  \A k \in DOMAIN w : \A l \in w[k].busy : m[l] \in Masters \/ Resets(q, cm, l)

MastersTold ==
  /\ MastersHeardOf(queue, cachedMaster, master)
  /\ HsrLinksKnown(queue, cachedHsr, master)
  /\ FreedFromSome(queue, cachedMaster, cachedHsr)
  /\ FirstSlavesEnslaved(queue, cachedMaster)

Unreleased ==
  "released" \notin outside =>
    /\ MastersTold
    /\ pc # "crashed" => BusyTrue(waiting, queue, cachedMaster, master)
=============================================================================

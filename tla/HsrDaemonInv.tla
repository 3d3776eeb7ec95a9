---------------------------- MODULE HsrDaemonInv ----------------------------
(***************************************************************************)
(* Why the bits of a waiting node and the interface list of HsrDaemon can  *)
(* be trusted: what the kernel, the messages it has sent, the cache and    *)
(* the wait list have to do with each other at every moment, and not only  *)
(* when everything has been heard.  HsrDaemon_proofs shows that these are  *)
(* invariants.                                                             *)
(***************************************************************************)
EXTENDS HsrDaemon

(* A message that brings l into the cache (or keeps it there) and one that *)
(* removes it.                                                             *)
Announces(e, l) == e.type = "link" /\ e.dev = l /\ e.up # Absent
Withdraws(e, l) == e.type = "link" /\ e.dev = l /\ e.up = Absent

Coming(q, l) == \E k \in DOMAIN q : Announces(q[k], l)
Leaving(q, l) == \E k \in DOMAIN q : Withdraws(q[k], l)

(* The last message about a link says whether the kernel m has it.         *)
LastWordTrue(q, m) ==
  /\ \A l \in Links : \A k \in DOMAIN q :
       /\ Announces(q[k], l)
       /\ \A j \in DOMAIN q : j > k => ~ Withdraws(q[j], l)
       => m[l] # Absent
  /\ \A l \in Links : \A k \in DOMAIN q :
       /\ Withdraws(q[k], l)
       /\ \A j \in DOMAIN q : j > k => ~ Announces(q[j], l)
       => m[l] = Absent

(* What the cache says of a link holds in the kernel, unless the opposite  *)
(* is on its way.                                                          *)
CacheTrue(cm, q, m) ==
  \A l \in Links :
    /\ cm[l] # Absent /\ ~ Leaving(q, l) => m[l] # Absent
    /\ cm[l] = Absent /\ ~ Coming(q, l) => m[l] = Absent

(* A node's bits agree with the cache, unless they come from a dump that   *)
(* is newer than the cache; then a message is on its way.                  *)
NodesFollow(w, cm, q) ==
  \A k \in DOMAIN w : \A l \in Slaves(w[k]) :
    /\ cm[l] # Absent /\ ~ Leaving(q, l) => l \notin w[k].missing
    /\ cm[l] = Absent /\ ~ Coming(q, l) => l \in w[k].missing

(* The request under way concerns an interface that waits, one that is     *)
(* configured and does not wait, or one that is not configured any more,   *)
(* as the request needs it.                                                *)
JobFits ==
  /\ pc \in {"create", "recreate"} => job \in Names /\ Waits(waiting, job)
  /\ pc \in {"cfgCheck", "cfgCreate", "cfgReplace"} =>
       job \in Names /\ conf[job] \in Pair /\ ~ Waits(waiting, job)
  /\ pc \in {"cfgRemove", "cfgUnlist"} => job \in Names /\ conf[job] = None

(* main_check found both slaves; if one is gone since, or was not in the   *)
(* cache, a message says so.                                               *)
ReplacedSlavesHeardOf ==
  pc = "cfgReplace" =>
    \A l \in {conf[job][1], conf[job][2]} :
      cachedMaster[l] # Absent \/ Coming(queue, l)

(* Every message about a link agrees with the ones before it and the cache *)
(* agrees with all of them: at no moment, whatever is queued, does the     *)
(* daemon hold a belief about a link's existence that the kernel denies    *)
(* and no message still to be read will correct.                           *)
NothingStaleForGood ==
  /\ LastWordTrue(queue, master)
  /\ CacheTrue(cachedMaster, queue, master)
  /\ pc # "crashed" => NodesFollow(waiting, cachedMaster, queue)

IInv ==
  /\ TypeOK
  /\ NamesUnique
  /\ JobFits
  /\ NothingStaleForGood
  /\ ReplacedSlavesHeardOf
-----------------------------------------------------------------------------
(* What the interface list holds, whatever other tools do.                 *)

(* The names whose index may be in it: those configured, and the one that  *)
(* is to be removed and still has its index.                               *)
Named == {h \in Names : conf[h] # None \/ (pc = "cfgRemove" /\ job = h)}

(* An index in the list is that of a link which exists and of such a name: *)
(* configuring a name anew finds its index in the list only if it has been *)
(* counted before.                                                         *)
IndexesOf(list, m, S) ==
  \A k \in DOMAIN list :
    list[k] \in Names => Exists(m, list[k]) /\ list[k] \in S

ListHolds ==
  /\ IndexesOf(interfaces, master, Named)
  /\ overdrawn > 0 => interfaces = <<>>

-----------------------------------------------------------------------------
(* Why HSR_STILL_EXISTS is reset in time.                                  *)

Creates(e, h) == e.type = "hsr" /\ e.dev = h /\ e.up # Absent
Deletes(e, h) == e.type = "hsr" /\ e.dev = h /\ e.up = Absent

Going(q, h) == \E k \in DOMAIN q : Deletes(q[k], h)

(* What the cache and the messages say of an HSR link holds in the kernel, *)
(* unless its deletion is on its way.                                      *)
HsrWordTrue(q, m) ==
  \A h \in Names : \A k \in DOMAIN q :
    /\ Creates(q[k], h)
    /\ \A j \in DOMAIN q : j > k => ~ Deletes(q[j], h)
    => Exists(m, h)

HsrCacheTrue(hs, q, m) == \A h \in hs : Going(q, h) \/ Exists(m, h)

StillExistsTrue(w, q, m) ==
  \A k \in DOMAIN w :
    w[k].hsrStillExists =>
      Going(q, w[k].hsr_name) \/ Exists(m, w[k].hsr_name)

HsrGoneHeardOf ==
  /\ HsrWordTrue(queue, master)
  /\ HsrCacheTrue(cachedHsr, queue, master)
  /\ StillExistsTrue(waiting, queue, master)
-----------------------------------------------------------------------------
(* Why the cache is the kernel's table again when all has been heard, and  *)
(* what a message finds in it before.                                      *)

AboutLink(e, l) == e.type = "link" /\ e.dev = l

(* up is the master l has when the k-th message is read: that of the last  *)
(* message about l before it, or that in the cache.                        *)
Before(q, cm, l, k, up) ==
  \/ /\ cm[l] = up
     /\ \A j \in DOMAIN q : j < k => ~ AboutLink(q[j], l)
  \/ \E j \in DOMAIN q :
       /\ j < k
       /\ AboutLink(q[j], l)
       /\ q[j].up = up
       /\ \A i \in DOMAIN q : j < i /\ i < k => ~ AboutLink(q[i], l)

(* HSR link h is in the cache when the k-th message is read.               *)
Known(q, hs, h, k) ==
  \/ /\ h \in hs
     /\ \A j \in DOMAIN q : j < k => ~ Deletes(q[j], h)
  \/ \E j \in DOMAIN q :
       /\ j < k
       /\ Creates(q[j], h)
       /\ \A i \in DOMAIN q : j < i /\ i < k => ~ Deletes(q[i], h)

MastersHeardOf(q, cm, m) == \A l \in Links : Before(q, cm, l, Len(q) + 1, m[l])

HsrLinksHeardOf(q, hs, m) ==
  \A h \in Names : Exists(m, h) <=> Known(q, hs, h, Len(q) + 1)

(* Only what is there is deleted, and only an HSR link that is not there   *)
(* is announced as new.                                                    *)
MessagesFit(q, cm, hs) ==
  \A k \in DOMAIN q :
    /\ \A l \in Links : Withdraws(q[k], l) => ~ Before(q, cm, l, k, Absent)
    /\ \A h \in Names :
         /\ Creates(q[k], h) => ~ Known(q, hs, h, k)
         /\ Deletes(q[k], h) => Known(q, hs, h, k)

CacheCatchesUp ==
  /\ MastersHeardOf(queue, cachedMaster, master)
  /\ HsrLinksHeardOf(queue, cachedHsr, master)
  /\ MessagesFit(queue, cachedMaster, cachedHsr)

(* When all has been heard, the cache has the links of the kernel, with    *)
(* their masters.                                                          *)
CacheIsKernel ==
  queue = <<>> =>
    /\ cachedMaster = master
    /\ cachedHsr = {h \in Names : Exists(master, h)}

(* The oldest message is one that route_link_cache_change_cb is called     *)
(* for, as new, changed or deleted: one of the handlers' actions can read  *)
(* it.  (A message that deleted what the cache does not have would be      *)
(* dropped by libnl, and one about a new HSR link the cache has would be a *)
(* change; there are no actions for those.)                                *)
NextMessageFits ==
  queue # <<>> =>
    LET e == Head(queue)
    IN  /\ \A l \in Links : Withdraws(e, l) => cachedMaster[l] # Absent
        /\ \A h \in Names : Creates(e, h) => h \notin cachedHsr
        /\ \A h \in Names : Deletes(e, h) => h \in cachedHsr
=============================================================================

----------------------------- MODULE HsrKernel -----------------------------
(***************************************************************************)
(* The kernel's view of network links, as far as the HSR daemon relies on  *)
(* it: which links exist, which master each one is enslaved to, and the    *)
(* RTNLGRP_LINK messages every change multicasts to the socket of the      *)
(* daemon's route/link cache manager.  The kernel is not part of the       *)
(* repository: everything here is read off how confdb-hsr and libnl use    *)
(* it.                                                                     *)
(*                                                                         *)
(* An HSR link is known by its slaves: it exists while at least one link   *)
(* has it as master, which is what becomes of it when its slaves go.       *)
(***************************************************************************)
EXTENDS Naturals, Sequences, FiniteSets, SequencesExt

CONSTANTS
  Links,          \* Ethernet links that can become slaves
  Names,          \* names of HSR interfaces
  Bridges,        \* masters of another kind, present all the time; what a
                  \* bridge sends as AF_BRIDGE is left out
  None,           \* a link without master (IFLA_MASTER absent)
  Absent,         \* a link that does not exist; as a message: RTM_DELLINK
  AnnounceOrder,  \* in which order the creation of an HSR link is announced
  EnvOps,         \* what is allowed to happen outside the daemon
  MaxQueue        \* bound: the outside acts only while fewer messages wait

EnvOpKinds == {"addLink", "delLink", "enslave", "release",
               "adminAdd", "adminDel"}

ASSUME LinksAssumption == IsFiniteSet(Links)

ASSUME DistinctAssumption ==
  /\ Links \cap Names = {}
  /\ Bridges \cap Names = {}
  /\ {None, Absent} \cap (Links \cup Names \cup Bridges) = {}
  /\ None # Absent

ASSUME BoundsAssumption ==
  /\ AnnounceOrder \in {"hsrFirst", "between", "slavesFirst"}
  /\ EnvOps \subseteq EnvOpKinds
  /\ MaxQueue \in Nat

VARIABLES
  master,   \* master[l]: the master of l, None, or Absent
  queue     \* messages multicast to the daemon's socket, not read yet

kernelVars == <<master, queue>>

Masters == Names \cup Bridges
LinkState == Masters \cup {None, Absent}

(***************************************************************************)
(* A "link" message carries the master the link has at that moment; an     *)
(* "hsr" message carries IFLA_LINK, the first slave.  Absent in that place *)
(* stands for RTM_DELLINK.                                                 *)
(***************************************************************************)
LinkEvent(l, m) == [type |-> "link", dev |-> l, up |-> m]
HsrEvent(h, s) == [type |-> "hsr", dev |-> h, up |-> s]

Event ==
  [type : {"link"}, dev : Links, up : LinkState]
    \cup [type : {"hsr"}, dev : Names, up : Links \cup {Absent}]

KernelTypeOK ==
  /\ master \in [Links -> LinkState]
  /\ queue \in Seq(Event)

-----------------------------------------------------------------------------
(* What the kernel holds when its links are as m says.                     *)

SlavesOf(m, h) == {l \in Links : m[l] = h}
Exists(m, h) == SlavesOf(m, h) # {}

(* rtnl_newlink refuses an existing name (HSR has no changelink), a slave  *)
(* given twice, and a slave that is missing or has a master already.       *)
CanCreate(m, h, a, b) ==
  /\ ~ Exists(m, h)
  /\ a # b
  /\ m[a] = None
  /\ m[b] = None

Enslaved(m, h, a, b) == [m EXCEPT ![a] = h, ![b] = h]
Released(m, h) == [l \in Links |-> IF m[l] = h THEN None ELSE m[l]]

CreateEvents(h, a, b) ==
  CASE AnnounceOrder = "hsrFirst" ->
         <<HsrEvent(h, a), LinkEvent(a, h), LinkEvent(b, h)>>
    [] AnnounceOrder = "between" ->
         <<LinkEvent(a, h), HsrEvent(h, a), LinkEvent(b, h)>>
    [] OTHER ->
         <<LinkEvent(a, h), LinkEvent(b, h), HsrEvent(h, a)>>

(* The slaves are let go, in any order, before the HSR link disappears.    *)
DeleteEvents(m, h) ==
  { [k \in DOMAIN order |-> LinkEvent(order[k], None)]
      \o <<HsrEvent(h, Absent)>> : order \in SetToSeqs(SlavesOf(m, h)) }

-----------------------------------------------------------------------------
(* What happens outside the daemon.                                        *)

Outside(op) == op \in EnvOps /\ Len(queue) < MaxQueue

AddLink(l) ==
  /\ Outside("addLink")
  /\ master[l] = Absent
  /\ master' = [master EXCEPT ![l] = None]
  /\ queue' = Append(queue, LinkEvent(l, None))

(* A deleted link leaves its master first; an HSR link that loses its last *)
(* slave goes with it.                                                     *)
DelLink(l) ==
  /\ Outside("delLink")
  /\ master[l] # Absent
  /\ master' = [master EXCEPT ![l] = Absent]
  /\ queue' =
       queue
         \o (IF master[l] = None THEN <<>> ELSE <<LinkEvent(l, None)>>)
         \o <<LinkEvent(l, Absent)>>
         \o (IF master[l] \in Names /\ ~ Exists(master', master[l])
               THEN <<HsrEvent(master[l], Absent)>> ELSE <<>>)

Enslave(l, b) ==
  /\ Outside("enslave")
  /\ master[l] = None
  /\ master' = [master EXCEPT ![l] = b]
  /\ queue' = Append(queue, LinkEvent(l, b))

Release(l) ==
  /\ Outside("release")
  /\ master[l] \in Bridges
  /\ master' = [master EXCEPT ![l] = None]
  /\ queue' = Append(queue, LinkEvent(l, None))

(* Another process creates or deletes an HSR link with the same tools.     *)
AdminAdd(h, a, b) ==
  /\ Outside("adminAdd")
  /\ CanCreate(master, h, a, b)
  /\ master' = Enslaved(master, h, a, b)
  /\ queue' = queue \o CreateEvents(h, a, b)

AdminDel(h) ==
  /\ Outside("adminDel")
  /\ Exists(master, h)
  /\ master' = Released(master, h)
  /\ \E events \in DeleteEvents(master, h) : queue' = queue \o events

KernelStep ==
  \/ \E l \in Links : AddLink(l) \/ DelLink(l) \/ Release(l)
  \/ \E l \in Links, b \in Bridges : Enslave(l, b)
  \/ \E h \in Names, a, b \in Links : AdminAdd(h, a, b)
  \/ \E h \in Names : AdminDel(h)
=============================================================================

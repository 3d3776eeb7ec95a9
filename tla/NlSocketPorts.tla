---------------------------- MODULE NlSocketPorts ----------------------------
(***************************************************************************)
(* The local ports of libnl sockets (lib/socket.c, nl_connect and nl_close *)
(* in lib/nl.c).  A process has one map of the ports it has generated,     *)
(* guarded by a lock; a socket that has generated its port clears          *)
(* NL_OWN_PORT and gives the port back when it is freed or set to another  *)
(* port.  nl_connect binds what it generates and, as other users of the    *)
(* process may have bound the same port, tries a few times; the refused    *)
(* ports stay marked until it leaves the loop.                             *)
(*                                                                         *)
(* Each socket belongs to one thread; threads interleave wherever no lock  *)
(* is held, so that generating a port, binding it and giving refused ports *)
(* back are steps of their own.                                            *)
(***************************************************************************)
EXTENDS Integers, FiniteSets

CONSTANTS
  Sockets,
  NumBlocks,     \* words of used_ports_map (32)
  NumBits,       \* bits of a word (32)
  IdxSize,       \* values of idx_state (2^16)
  IdxStep,       \* what idx_state grows by (20011)
  MaxRetries,    \* nl_connect generates at most MaxRetries + 1 ports (5)
  KernelPorts,   \* ports outside libnl's range that the kernel can assign
  Unspecified,   \* port 0
  MaxPort,       \* UINT32_MAX, of a socket that could not generate one
  Nobody,        \* a port nobody has bound
  Other,         \* a socket outside libnl
  MaxOthers      \* bound: ports bound outside libnl at a time

Blocks == 0 .. NumBlocks - 1
Bits == 0 .. NumBits - 1

(* A port that libnl can generate is its place in used_ports_map.          *)
Slots == Blocks \X Bits
Ports == Slots \cup KernelPorts \cup {MaxPort}

ASSUME SizesAssumption ==
  /\ NumBlocks \in Nat \ {0, 1} /\ NumBits \in Nat \ {0}
  /\ IdxSize \in Nat \ {0} /\ IdxStep \in Nat
  /\ MaxRetries \in Nat /\ MaxOthers \in Nat

ASSUME PortsAssumption ==
  /\ {Unspecified, MaxPort} \cap Slots = {}
  /\ KernelPorts \cap (Slots \cup {Unspecified, MaxPort}) = {}
  /\ Unspecified # MaxPort
  /\ Nobody \notin Sockets /\ Other \notin Sockets /\ Nobody # Other

VARIABLES
  usedPorts,   \* used_ports_map, as a set of places
  idxState,    \* idx_state of generate_local_port
  phase,       \* phase[s]: where socket s is in its life and in nl_connect
  localPort,   \* localPort[s]: s_local.nl_pid
  ownPort,     \* ownPort[s]: NL_OWN_PORT is set
  refused,     \* refused[s]: used_ports of nl_connect
  bound        \* bound[p]: who has bound p in the kernel

vars == <<usedPorts, idxState, phase, localPort, ownPort, refused, bound>>

(* "try": at the head of nl_connect's loop; "bind": with a port generated  *)
(* there; "bound", "failed", "gaveUp": out of the loop, refused ports not  *)
(* given back yet; "last": about to bind outside the loop.                 *)
Phases == {"none", "closed", "try", "bind", "bound", "failed", "gaveUp",
           "last", "open"}

TypeOK ==
  /\ usedPorts \subseteq Slots
  /\ idxState \in 0 .. IdxSize - 1
  /\ phase \in [Sockets -> Phases]
  /\ localPort \in [Sockets -> Ports \cup {Unspecified}]
  /\ ownPort \in [Sockets -> BOOLEAN]
  /\ refused \in [Sockets -> SUBSET Slots]
  /\ bound \in [Ports -> Sockets \cup {Nobody, Other}]

Init ==
  /\ usedPorts = {}
  /\ idxState = 0
  /\ phase = [s \in Sockets |-> "none"]
  /\ localPort = [s \in Sockets |-> Unspecified]
  /\ ownPort = [s \in Sockets |-> TRUE]
  /\ refused = [s \in Sockets |-> {}]
  /\ bound = [p \in Ports |-> Nobody]

-----------------------------------------------------------------------------
(* generate_local_port and release_local_port.                             *)

(* The j-th block and the m-th bit of the walk that starts at index i in a *)
(* map of nb words of w bits: block 0 comes last.                          *)
BlockAt_NoneSpared(nb, w, i, j) == ((i \div w) + 7 * j) % nb   \* mutant

BlockAt(nb, w, i, j) ==
  IF j = nb - 1 THEN 0 ELSE (((i \div w) - 1 + 7 * (j + 1)) % (nb - 1)) + 1

BitAt(w, i, m) == (i + 13 * (m + 1)) % w

Walk(i, j, m) == <<BlockAt(NumBlocks, NumBits, i, j), BitAt(NumBits, i, m)>>

ASSUME WalkAssumption ==
  \A i \in 0 .. IdxSize - 1 :
    /\ \A b \in Blocks : \E j \in Blocks : BlockAt(NumBlocks, NumBits, i, j) = b
    /\ \A n \in Bits : \E m \in Bits : BitAt(NumBits, i, m) = n

(* A state of 0 is seeded anew from the clock.                             *)
IdxStates ==
  IF idxState = 0 THEN 0 .. IdxSize - 1 ELSE {(idxState + IdxStep) % IdxSize}

FirstFree_Unchecked(i, p) == p = Walk(i, 0, 0)   \* mutant: map not looked at

(* p is the first free place of the walk from i.                           *)
FirstFree(i, p) ==
  \E j \in Blocks, m \in Bits :
    /\ p = Walk(i, j, m)
    /\ p \notin usedPorts
    /\ \A k \in Blocks, n \in Bits : k < j => Walk(i, k, n) \in usedPorts
    /\ \A n \in Bits : n < m => Walk(i, j, n) \in usedPorts

AllUsed == usedPorts = Slots

(* The socket gets a generated port, which is marked.                      *)
Generated(s) ==
  \E i \in IdxStates, p \in Slots :
    /\ FirstFree(i, p)
    /\ idxState' = i
    /\ usedPorts' = usedPorts \cup {p}
    /\ localPort' = [localPort EXCEPT ![s] = p]
    /\ ownPort' = [ownPort EXCEPT ![s] = FALSE]

(* There is none left: the walk returns 0 and the socket gets port p.      *)
NoneLeft(s, p) ==
  /\ AllUsed
  /\ idxState' \in IdxStates
  /\ localPort' = [localPort EXCEPT ![s] = p]
  /\ ownPort' = [ownPort EXCEPT ![s] = TRUE]
  /\ UNCHANGED usedPorts

(* The generated port a socket gives up, if it has one.                    *)
Generation(s) == IF ownPort[s] THEN {} ELSE {localPort[s]}

(* close() takes the binding of s away in the kernel.                      *)
Unbound(s) == [p \in Ports |-> IF bound[p] = s THEN Nobody ELSE bound[p]]

-----------------------------------------------------------------------------
(* nl_socket_alloc, nl_socket_free and what sets or reads the port.        *)

Alloc(s) ==
  /\ phase[s] = "none"
  /\ phase' = [phase EXCEPT ![s] = "closed"]
  /\ UNCHANGED <<usedPorts, idxState, localPort, ownPort, refused, bound>>

Free(s) ==
  /\ phase[s] \in {"closed", "open"}
  /\ phase' = [phase EXCEPT ![s] = "none"]
  /\ usedPorts' = usedPorts \ Generation(s)
  /\ localPort' = [localPort EXCEPT ![s] = Unspecified]
  /\ ownPort' = [ownPort EXCEPT ![s] = TRUE]
  /\ bound' = Unbound(s)
  /\ UNCHANGED <<idxState, refused>>

GetLocalPort(s) ==
  /\ phase[s] \in {"closed", "open"}
  /\ localPort[s] = Unspecified
  /\ Generated(s) \/ NoneLeft(s, MaxPort)
  /\ UNCHANGED <<phase, refused, bound>>

PortSet_NoRelease(s, p) ==   \* mutant: the old port stays marked
  /\ localPort' = [localPort EXCEPT ![s] = p]
  /\ ownPort' = [ownPort EXCEPT ![s] = TRUE]
  /\ UNCHANGED usedPorts

(* The port is given back and another one taken as it is, connected or not.*)
PortSet(s, p) ==
  /\ usedPorts' = usedPorts \ Generation(s)
  /\ localPort' = [localPort EXCEPT ![s] = p]
  /\ ownPort' = [ownPort EXCEPT ![s] = TRUE]

SetLocalPort(s) ==
  /\ phase[s] \in {"closed", "open"}
  /\ \E p \in Ports \cup {Unspecified} : PortSet(s, p)
  /\ UNCHANGED <<idxState, phase, refused, bound>>

(* nl_socket_set_fd: a descriptor the application has bound itself.        *)
SetFd(s) ==
  /\ phase[s] = "closed"
  /\ \E p \in Ports :
       /\ bound[p] = Other
       /\ PortSet(s, p)
       /\ bound' = [bound EXCEPT ![p] = s]
  /\ phase' = [phase EXCEPT ![s] = "open"]
  /\ UNCHANGED <<idxState, refused>>

-----------------------------------------------------------------------------
(* nl_connect and nl_close.                                                *)

(* A failure before bind leaves the socket as it was.                      *)
Connect(s) ==
  /\ phase[s] = "closed"
  /\ phase' = [phase EXCEPT
                 ![s] = IF localPort[s] = Unspecified THEN "try" ELSE "last"]
  /\ UNCHANGED <<usedPorts, idxState, localPort, ownPort, refused, bound>>

TryPort(s) ==
  /\ phase[s] = "try"
  /\ Cardinality(refused[s]) <= MaxRetries
  /\ \/ /\ Generated(s)
        /\ phase' = [phase EXCEPT ![s] = "bind"]
     \/ /\ NoneLeft(s, Unspecified)
        /\ phase' = [phase EXCEPT ![s] = "gaveUp"]
  /\ UNCHANGED <<refused, bound>>

TriedEnough(s) ==
  /\ phase[s] = "try"
  /\ Cardinality(refused[s]) > MaxRetries
  /\ phase' = [phase EXCEPT ![s] = "gaveUp"]
  /\ localPort' = [localPort EXCEPT ![s] = Unspecified]
  /\ ownPort' = [ownPort EXCEPT ![s] = TRUE]
  /\ UNCHANGED <<usedPorts, idxState, refused, bound>>

(* A port in use: it stays marked, and another one is tried.               *)
BindRefused(s) ==
  /\ phase[s] = "bind"
  /\ bound[localPort[s]] # Nobody
  /\ phase' = [phase EXCEPT ![s] = "try"]
  /\ refused' = [refused EXCEPT ![s] = @ \cup {localPort[s]}]
  /\ UNCHANGED <<usedPorts, idxState, localPort, ownPort, bound>>

BindPort(s) ==
  /\ phase[s] = "bind"
  /\ \/ /\ bound[localPort[s]] = Nobody
        /\ bound' = [bound EXCEPT ![localPort[s]] = s]
        /\ phase' = [phase EXCEPT ![s] = "bound"]
     \/ /\ phase' = [phase EXCEPT ![s] = "failed"]
        /\ UNCHANGED bound
  /\ UNCHANGED <<usedPorts, idxState, localPort, ownPort, refused>>

(* _nl_socket_used_ports_release_all; after a success getsockname confirms *)
(* the port or fails, after a failure the descriptor is closed.            *)
ReleaseRefused(s) ==
  /\ phase[s] \in {"bound", "failed", "gaveUp"}
  /\ usedPorts' = usedPorts \ refused[s]
  /\ refused' = [refused EXCEPT ![s] = {}]
  /\ \/ /\ phase[s] = "bound"
        /\ phase' = [phase EXCEPT ![s] = "open"]
        /\ UNCHANGED bound
     \/ /\ phase[s] \in {"bound", "failed"}
        /\ phase' = [phase EXCEPT ![s] = "closed"]
        /\ bound' = Unbound(s)
     \/ /\ phase[s] = "gaveUp"
        /\ phase' = [phase EXCEPT ![s] = "last"]
        /\ UNCHANGED bound
  /\ UNCHANGED <<idxState, localPort, ownPort>>

(* The ports the kernel assigns to a socket that does not ask for one: the *)
(* process's identifier, which is libnl's first place, or a port outside.  *)
Assignable == {p \in KernelPorts \cup {<<0, 0>>} : bound[p] = Nobody}

BindLast(s) ==
  /\ phase[s] = "last"
  /\ \E p \in Ports :
       /\ IF localPort[s] = Unspecified THEN p \in Assignable
                                        ELSE p = localPort[s] /\ bound[p] = Nobody
       /\ bound' = [bound EXCEPT ![p] = s]
       /\ localPort' = [localPort EXCEPT ![s] = p]
  /\ phase' = [phase EXCEPT ![s] = "open"]
  /\ UNCHANGED <<usedPorts, idxState, ownPort, refused>>

(* bind or getsockname fails; the socket keeps the port it had.            *)
BindLastFails(s) ==
  /\ phase[s] = "last"
  /\ phase' = [phase EXCEPT ![s] = "closed"]
  /\ UNCHANGED <<usedPorts, idxState, localPort, ownPort, refused, bound>>

Close(s) ==
  /\ phase[s] = "open"
  /\ phase' = [phase EXCEPT ![s] = "closed"]
  /\ bound' = Unbound(s)
  /\ UNCHANGED <<usedPorts, idxState, localPort, ownPort, refused>>

-----------------------------------------------------------------------------
(* Sockets outside libnl take and leave any port of the process.           *)

OthersPorts == {p \in Ports : bound[p] = Other}

OtherBinds ==
  /\ Cardinality(OthersPorts) < MaxOthers
  /\ \E p \in Ports :
       /\ bound[p] = Nobody
       /\ bound' = [bound EXCEPT ![p] = Other]
  /\ UNCHANGED <<usedPorts, idxState, phase, localPort, ownPort, refused>>

OtherCloses ==
  /\ \E p \in OthersPorts : bound' = [bound EXCEPT ![p] = Nobody]
  /\ UNCHANGED <<usedPorts, idxState, phase, localPort, ownPort, refused>>

Use(s) ==
  \/ Alloc(s) \/ Free(s) \/ GetLocalPort(s) \/ SetLocalPort(s) \/ SetFd(s)
  \/ Connect(s) \/ TryPort(s) \/ TriedEnough(s) \/ BindRefused(s)
  \/ BindPort(s) \/ ReleaseRefused(s) \/ BindLast(s) \/ BindLastFails(s)
  \/ Close(s)

Next == (\E s \in Sockets : Use(s)) \/ OtherBinds \/ OtherCloses

Spec == Init /\ [][Next]_vars
=============================================================================

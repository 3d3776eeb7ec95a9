------------------------ MODULE NlSocketPorts_proofs ------------------------
(***************************************************************************)
(* No generated port of libnl is lost or held twice, the first word of the *)
(* map is the last resort, and the ports are handed out as NlPortPool      *)
(* promises: for every number of sockets, words, bits and retries.         *)
(*                                                                         *)
(* Every step of a socket either adds one free port to what that socket    *)
(* holds, or takes some of its ports away and out of the map, and leaves   *)
(* what the others hold alone (EveryMove); the results follow from that.   *)
(***************************************************************************)
EXTENDS NlSocketPortsInv, TLAPS

OthersKeep(s) == \A t \in Sockets : t # s => Held(t)' = Held(t)

Gains(s, p) ==
  /\ p \in Slots \ usedPorts
  /\ usedPorts' = usedPorts \cup {p}
  /\ Held(s)' = Held(s) \cup {p}
  /\ OthersKeep(s)

Loses(s, ps) ==
  /\ ps \subseteq Held(s)
  /\ usedPorts' = usedPorts \ ps
  /\ Held(s)' = Held(s) \ ps
  /\ OthersKeep(s)

Moves(s) == (\E p \in Slots : Gains(s, p)) \/ (\E ps \in SUBSET Slots : Loses(s, ps))

-----------------------------------------------------------------------------
(* A seed or the next state of the walk is a state of the walk.            *)
LEMMA IdxStatesType ==
  ASSUME idxState \in 0 .. IdxSize - 1
  PROVE  IdxStates \subseteq 0 .. IdxSize - 1
BY SizesAssumption DEF IdxStates

(* What a socket holds are ports of the map.                               *)
LEMMA HeldSlots ==
  ASSUME TypeOK, PhaseFits, NEW s \in Sockets
  PROVE  Held(s) \subseteq Slots
BY DEF TypeOK, PhaseFits, Held, Generation

(* The initial state holds nothing.                                        *)
LEMMA InitPorts == Init => PortsInv
<1> SUFFICES ASSUME Init PROVE PortsInv
  OBVIOUS
<1>1. TypeOK
  BY SizesAssumption DEF Init, TypeOK, Ports, Phases
<1>2. PhaseFits
  BY DEF Init, PhaseFits
<1>3. \A s \in Sockets : Held(s) = {}
  BY DEF Init, Held, Generation
<1>4. HeldOnce /\ MapExact
  BY <1>3 DEF HeldOnce, MapExact, Init
<1> QED
  BY <1>1, <1>2, <1>4 DEF PortsInv

-----------------------------------------------------------------------------
(* A socket that gains a free port or loses some of its own leaves the map *)
(* exact and every port with one holder.                                   *)
LEMMA MovesKeep ==
  ASSUME HeldOnce, MapExact, NEW s \in Sockets, Moves(s)
  PROVE  HeldOnce' /\ MapExact'
<1>1. ASSUME NEW p \in Slots, Gains(s, p) PROVE HeldOnce' /\ MapExact'
  <2>1. \A t \in Sockets : p \notin Held(t)
    BY <1>1 DEF Gains, MapExact
  <2>2. \A t \in Sockets : t # s => Held(t)' = Held(t)
    BY <1>1 DEF Gains, OthersKeep
  <2>3. Held(s)' = Held(s) \cup {p}
    BY <1>1 DEF Gains
  <2>4. HeldOnce'
    BY <2>1, <2>2, <2>3 DEF HeldOnce
  <2>5. \A q : (\E t \in Sockets : q \in Held(t)')
                <=> q = p \/ \E t \in Sockets : q \in Held(t)
    BY <2>2, <2>3
  <2>6. MapExact'
    BY <1>1, <2>5 DEF Gains, MapExact
  <2> QED
    BY <2>4, <2>6
<1>2. ASSUME NEW ps \in SUBSET Slots, Loses(s, ps) PROVE HeldOnce' /\ MapExact'
  <2>1. \A t \in Sockets : t # s => Held(t) \cap ps = {}
    BY <1>2 DEF Loses, HeldOnce
  <2>2. \A t \in Sockets : t # s => Held(t)' = Held(t)
    BY <1>2 DEF Loses, OthersKeep
  <2>3. Held(s)' = Held(s) \ ps
    BY <1>2 DEF Loses
  <2>4. HeldOnce'
    BY <2>2, <2>3 DEF HeldOnce
  <2>5. \A q : (\E t \in Sockets : q \in Held(t)')
                <=> q \notin ps /\ \E t \in Sockets : q \in Held(t)
    BY <2>1, <2>2, <2>3
  <2>6. MapExact'
    BY <1>2, <2>5 DEF Loses, MapExact
  <2> QED
    BY <2>4, <2>6
<1> QED
  BY <1>1, <1>2 DEF Moves

(* A socket that changes neither its ports nor the map makes a move too.   *)
LEMMA StaysMoves ==
  ASSUME NEW s \in Sockets, UNCHANGED <<usedPorts, localPort, ownPort, refused>>
  PROVE  Moves(s)
<1>1. \A t \in Sockets : Held(t)' = Held(t)
  BY DEF Held, Generation
<1>2. Loses(s, {})
  BY <1>1 DEF Loses, OthersKeep
<1> QED
  BY <1>2 DEF Moves

(* A generated port is one more for a socket that had none of its own, or  *)
(* one that was refused.                                                   *)
LEMMA GeneratedMoves ==
  ASSUME PortsInv, NEW s \in Sockets, Generated(s), UNCHANGED refused,
         ownPort[s] \/ localPort[s] \in refused[s]
  PROVE  /\ Moves(s)
         /\ usedPorts' \subseteq Slots
         /\ idxState' \in 0 .. IdxSize - 1
         /\ \E p \in Slots \ refused[s] :
              /\ localPort' = [localPort EXCEPT ![s] = p]
              /\ ownPort' = [ownPort EXCEPT ![s] = FALSE]
<1>1. PICK i \in IdxStates, p \in Slots :
        /\ FirstFree(i, p)
        /\ idxState' = i
        /\ usedPorts' = usedPorts \cup {p}
        /\ localPort' = [localPort EXCEPT ![s] = p]
        /\ ownPort' = [ownPort EXCEPT ![s] = FALSE]
  BY DEF Generated
<1>2. p \notin usedPorts
  BY <1>1 DEF FirstFree
<1>3. Held(s)' = Held(s) \cup {p}
  BY <1>1 DEF PortsInv, TypeOK, Held, Generation
<1>4. OthersKeep(s)
  BY <1>1 DEF PortsInv, TypeOK, OthersKeep, Held, Generation
<1>5. Gains(s, p)
  BY <1>1, <1>2, <1>3, <1>4 DEF Gains
<1>6. p \notin refused[s]
  BY <1>2 DEF PortsInv, MapExact, Held
<1>7. idxState' \in 0 .. IdxSize - 1
  BY <1>1, IdxStatesType DEF PortsInv, TypeOK
<1>8. usedPorts' \subseteq Slots
  BY <1>1 DEF PortsInv, TypeOK
<1> QED
  BY <1>1, <1>5, <1>6, <1>7, <1>8 DEF Moves

(* With no port left a socket holds no more than before, and no less than  *)
(* what was refused.                                                       *)
LEMMA NoneLeftMoves ==
  ASSUME PortsInv, NEW s \in Sockets, NEW q, NoneLeft(s, q), UNCHANGED refused,
         ownPort[s] \/ localPort[s] \in refused[s]
  PROVE  /\ Moves(s)
         /\ usedPorts' \subseteq Slots
         /\ idxState' \in 0 .. IdxSize - 1
<1>1. \A t \in Sockets : Held(t)' = Held(t)
  BY DEF PortsInv, TypeOK, NoneLeft, Held, Generation
<1>2. Loses(s, {})
  BY <1>1 DEF Loses, OthersKeep, NoneLeft
<1>3. idxState' \in 0 .. IdxSize - 1
  BY IdxStatesType DEF PortsInv, TypeOK, NoneLeft
<1> QED
  BY <1>2, <1>3 DEF Moves, PortsInv, TypeOK, NoneLeft

(* A socket outside nl_connect that gives its port back loses just that.   *)
LEMMA GivenBackMoves ==
  ASSUME PortsInv, NEW s \in Sockets, NEW q, PortSet(s, q), UNCHANGED refused,
         refused[s] = {}
  PROVE  Moves(s) /\ usedPorts' \subseteq Slots
<1>1. Held(s)' = Held(s) \ Generation(s)
  BY DEF PortsInv, TypeOK, PortSet, Held, Generation
<1>2. OthersKeep(s)
  BY DEF PortsInv, TypeOK, PortSet, OthersKeep, Held, Generation
<1>3. Generation(s) \in SUBSET Slots /\ Generation(s) \subseteq Held(s)
  BY DEF PortsInv, PhaseFits, Generation, Held
<1>4. Loses(s, Generation(s))
  BY <1>1, <1>2, <1>3 DEF Loses, PortSet
<1> QED
  BY <1>3, <1>4 DEF Moves, PortsInv, TypeOK, PortSet

-----------------------------------------------------------------------------
(* One lemma per action: what it leaves of the types and the phases, and   *)
(* the move it is.                                                         *)

Kept(s) == TypeOK' /\ PhaseFits' /\ Moves(s)

(* nl_socket_alloc.                                                        *)
LEMMA AllocKeeps ==
  ASSUME PortsInv, NEW s \in Sockets, Alloc(s)
  PROVE  Kept(s)
<1>1. Moves(s)
  BY StaysMoves DEF Alloc
<1>2. TypeOK'
  BY DEF PortsInv, TypeOK, Alloc, Phases
<1>3. PhaseFits'
  BY DEF PortsInv, TypeOK, PhaseFits, Alloc
<1> QED
  BY <1>1, <1>2, <1>3 DEF Kept

(* close() leaves a binding per port.                                      *)
LEMMA UnboundType ==
  ASSUME TypeOK, NEW s \in Sockets
  PROVE  Unbound(s) \in [Ports -> Sockets \cup {Nobody, Other}]
BY DEF TypeOK, Unbound

(* nl_socket_free.                                                         *)
LEMMA FreeKeeps ==
  ASSUME PortsInv, NEW s \in Sockets, Free(s)
  PROVE  Kept(s)
<1>1. PortSet(s, Unspecified) /\ refused[s] = {}
  BY DEF Free, PortSet, PortsInv, PhaseFits
<1>2. Moves(s) /\ usedPorts' \subseteq Slots
  BY <1>1, GivenBackMoves DEF Free
<1>3. TypeOK'
  BY <1>2, UnboundType DEF PortsInv, TypeOK, Free, Phases
<1>4. PhaseFits'
  BY <1>1 DEF PortsInv, TypeOK, PhaseFits, Free
<1> QED
  BY <1>2, <1>3, <1>4 DEF Kept

(* nl_socket_get_local_port.                                               *)
LEMMA GetLocalPortKeeps ==
  ASSUME PortsInv, NEW s \in Sockets, GetLocalPort(s)
  PROVE  Kept(s)
<1>0. phase[s] \in {"closed", "open"} /\ ownPort[s] /\ refused[s] = {}
  BY DEF GetLocalPort, PortsInv, PhaseFits
<1>1. CASE Generated(s)
  <2>1. /\ Moves(s)
        /\ usedPorts' \subseteq Slots
        /\ idxState' \in 0 .. IdxSize - 1
        /\ \E p \in Slots \ refused[s] :
             /\ localPort' = [localPort EXCEPT ![s] = p]
             /\ ownPort' = [ownPort EXCEPT ![s] = FALSE]
    BY <1>0, <1>1, GeneratedMoves DEF GetLocalPort
  <2>2. TypeOK'
    BY <2>1 DEF PortsInv, TypeOK, GetLocalPort, Ports
  <2>3. PhaseFits'
    BY <1>0, <2>1, PortsAssumption DEF PortsInv, TypeOK, PhaseFits, GetLocalPort
  <2> QED
    BY <2>1, <2>2, <2>3 DEF Kept
<1>2. CASE NoneLeft(s, MaxPort)
  <2>1. /\ Moves(s)
        /\ usedPorts' \subseteq Slots
        /\ idxState' \in 0 .. IdxSize - 1
    BY <1>0, <1>2, NoneLeftMoves DEF GetLocalPort
  <2>2. TypeOK'
    BY <1>2, <2>1 DEF PortsInv, TypeOK, GetLocalPort, NoneLeft, Ports
  <2>3. PhaseFits'
    BY <1>0, <1>2, PortsAssumption
    DEF PortsInv, TypeOK, PhaseFits, GetLocalPort, NoneLeft
  <2> QED
    BY <2>1, <2>2, <2>3 DEF Kept
<1> QED
  BY <1>1, <1>2 DEF GetLocalPort

(* nl_socket_set_local_port.                                               *)
LEMMA SetLocalPortKeeps ==
  ASSUME PortsInv, NEW s \in Sockets, SetLocalPort(s)
  PROVE  Kept(s)
<1>1. PICK p \in Ports \cup {Unspecified} : PortSet(s, p)
  BY DEF SetLocalPort
<1>2. refused[s] = {}
  BY DEF SetLocalPort, PortsInv, PhaseFits
<1>3. Moves(s) /\ usedPorts' \subseteq Slots
  BY <1>1, <1>2, GivenBackMoves DEF SetLocalPort
<1>4. TypeOK'
  BY <1>1, <1>3 DEF PortsInv, TypeOK, SetLocalPort, PortSet
<1>5. PhaseFits'
  BY <1>1, <1>2 DEF PortsInv, TypeOK, PhaseFits, SetLocalPort, PortSet
<1> QED
  BY <1>3, <1>4, <1>5 DEF Kept

(* nl_socket_set_fd.                                                       *)
LEMMA SetFdKeeps ==
  ASSUME PortsInv, NEW s \in Sockets, SetFd(s)
  PROVE  Kept(s)
<1>1. PICK p \in Ports : PortSet(s, p) /\ bound' = [bound EXCEPT ![p] = s]
  BY DEF SetFd
<1>2. refused[s] = {}
  BY DEF SetFd, PortsInv, PhaseFits
<1>3. Moves(s) /\ usedPorts' \subseteq Slots
  BY <1>1, <1>2, GivenBackMoves DEF SetFd
<1>4. TypeOK'
  BY <1>1, <1>3 DEF PortsInv, TypeOK, SetFd, PortSet, Phases
<1>5. p # Unspecified
  BY PortsAssumption DEF Ports
<1>6. PhaseFits'
  BY <1>1, <1>2, <1>5 DEF PortsInv, TypeOK, PhaseFits, SetFd, PortSet
<1> QED
  BY <1>3, <1>4, <1>6 DEF Kept

(* nl_connect up to its loop.                                              *)
LEMMA ConnectKeeps ==
  ASSUME PortsInv, NEW s \in Sockets, Connect(s)
  PROVE  Kept(s)
<1>1. Moves(s)
  BY StaysMoves DEF Connect
<1>2. TypeOK'
  BY DEF PortsInv, TypeOK, Connect, Phases
<1>3. PhaseFits'
  BY DEF PortsInv, TypeOK, PhaseFits, Connect
<1> QED
  BY <1>1, <1>2, <1>3 DEF Kept

(* The loop of nl_connect generates a port, or finds none.                 *)
LEMMA TryPortKeeps ==
  ASSUME PortsInv, NEW s \in Sockets, TryPort(s)
  PROVE  Kept(s)
<1>0. phase[s] = "try" /\ (ownPort[s] \/ localPort[s] \in refused[s])
  BY DEF TryPort, PortsInv, PhaseFits
<1>1. CASE Generated(s) /\ phase' = [phase EXCEPT ![s] = "bind"]
  <2>1. /\ Moves(s)
        /\ usedPorts' \subseteq Slots
        /\ idxState' \in 0 .. IdxSize - 1
        /\ \E p \in Slots \ refused[s] :
             /\ localPort' = [localPort EXCEPT ![s] = p]
             /\ ownPort' = [ownPort EXCEPT ![s] = FALSE]
    BY <1>0, <1>1, GeneratedMoves DEF TryPort
  <2>2. TypeOK'
    BY <1>1, <2>1 DEF PortsInv, TypeOK, TryPort, Ports, Phases
  <2>3. PhaseFits'
    BY <1>0, <1>1, <2>1, PortsAssumption DEF PortsInv, TypeOK, PhaseFits, TryPort
  <2> QED
    BY <2>1, <2>2, <2>3 DEF Kept
<1>2. CASE NoneLeft(s, Unspecified) /\ phase' = [phase EXCEPT ![s] = "gaveUp"]
  <2>1. /\ Moves(s)
        /\ usedPorts' \subseteq Slots
        /\ idxState' \in 0 .. IdxSize - 1
    BY <1>0, <1>2, NoneLeftMoves DEF TryPort
  <2>2. TypeOK'
    BY <1>2, <2>1 DEF PortsInv, TypeOK, TryPort, NoneLeft, Phases
  <2>3. PhaseFits'
    BY <1>0, <1>2 DEF PortsInv, TypeOK, PhaseFits, TryPort, NoneLeft
  <2> QED
    BY <2>1, <2>2, <2>3 DEF Kept
<1> QED
  BY <1>1, <1>2 DEF TryPort

(* ... or has tried often enough: what it held is among the refused.       *)
LEMMA TriedEnoughKeeps ==
  ASSUME PortsInv, NEW s \in Sockets, TriedEnough(s)
  PROVE  Kept(s)
<1>1. \A t \in Sockets : Held(t)' = Held(t)
  BY DEF PortsInv, TypeOK, PhaseFits, TriedEnough, Held, Generation
<1>2. Loses(s, {})
  BY <1>1 DEF Loses, OthersKeep, TriedEnough
<1>3. TypeOK'
  BY DEF PortsInv, TypeOK, TriedEnough, Phases
<1>4. PhaseFits'
  BY DEF PortsInv, TypeOK, PhaseFits, TriedEnough
<1> QED
  BY <1>2, <1>3, <1>4 DEF Kept, Moves

(* bind finds the port in use: it is held as a refused one from now on.    *)
LEMMA BindRefusedKeeps ==
  ASSUME PortsInv, NEW s \in Sockets, BindRefused(s)
  PROVE  Kept(s)
<1>0. ~ ownPort[s] /\ localPort[s] \in Slots
  BY DEF BindRefused, PortsInv, PhaseFits
<1>1. \A t \in Sockets : Held(t)' = Held(t)
  BY <1>0 DEF PortsInv, TypeOK, BindRefused, Held, Generation
<1>2. Loses(s, {})
  BY <1>1 DEF Loses, OthersKeep, BindRefused
<1>3. TypeOK'
  BY <1>0 DEF PortsInv, TypeOK, BindRefused, Phases
<1>4. PhaseFits'
  BY <1>0 DEF PortsInv, TypeOK, PhaseFits, BindRefused
<1> QED
  BY <1>2, <1>3, <1>4 DEF Kept, Moves

(* bind succeeds, or fails for another reason.                             *)
LEMMA BindPortKeeps ==
  ASSUME PortsInv, NEW s \in Sockets, BindPort(s)
  PROVE  Kept(s)
<1>1. Moves(s)
  BY StaysMoves DEF BindPort
<1>2. TypeOK'
  BY DEF PortsInv, TypeOK, BindPort, Phases
<1>3. PhaseFits'
  BY DEF PortsInv, TypeOK, PhaseFits, BindPort
<1> QED
  BY <1>1, <1>2, <1>3 DEF Kept

(* The refused ports are given back, the socket's own one is not among     *)
(* them.                                                                   *)
LEMMA ReleaseRefusedKeeps ==
  ASSUME PortsInv, NEW s \in Sockets, ReleaseRefused(s)
  PROVE  Kept(s)
<1>1. Held(s)' = Held(s) \ refused[s]
  BY DEF PortsInv, TypeOK, PhaseFits, ReleaseRefused, Held, Generation
<1>2. OthersKeep(s)
  BY DEF PortsInv, TypeOK, ReleaseRefused, OthersKeep, Held, Generation
<1>3. Loses(s, refused[s]) /\ refused[s] \in SUBSET Slots
  BY <1>1, <1>2 DEF Loses, ReleaseRefused, Held, PortsInv, TypeOK
<1>4. TypeOK'
  BY UnboundType DEF PortsInv, TypeOK, ReleaseRefused, Phases
<1>5. PhaseFits'
  BY DEF PortsInv, TypeOK, PhaseFits, ReleaseRefused
<1> QED
  BY <1>3, <1>4, <1>5 DEF Kept, Moves

(* The bind outside the loop.                                              *)
LEMMA BindLastKeeps ==
  ASSUME PortsInv, NEW s \in Sockets, BindLast(s)
  PROVE  Kept(s)
<1>1. PICK p \in Ports :
        /\ IF localPort[s] = Unspecified THEN p \in Assignable
                                         ELSE p = localPort[s] /\ bound[p] = Nobody
        /\ bound' = [bound EXCEPT ![p] = s]
        /\ localPort' = [localPort EXCEPT ![s] = p]
  BY DEF BindLast
<1>2. Generation(s)' = Generation(s)
  BY <1>1 DEF PortsInv, TypeOK, PhaseFits, BindLast, Generation
<1>3. \A t \in Sockets : Held(t)' = Held(t)
  BY <1>1, <1>2 DEF PortsInv, TypeOK, BindLast, Held, Generation
<1>4. Loses(s, {})
  BY <1>3 DEF Loses, OthersKeep, BindLast
<1>5. TypeOK'
  BY <1>1 DEF PortsInv, TypeOK, BindLast, Phases
<1>6. p # Unspecified
  BY PortsAssumption DEF Ports
<1>7. PhaseFits'
  BY <1>1, <1>6 DEF PortsInv, TypeOK, PhaseFits, BindLast
<1> QED
  BY <1>4, <1>5, <1>7 DEF Kept, Moves

(* ... and its failure.                                                    *)
LEMMA BindLastFailsKeeps ==
  ASSUME PortsInv, NEW s \in Sockets, BindLastFails(s)
  PROVE  Kept(s)
<1>1. Moves(s)
  BY StaysMoves DEF BindLastFails
<1>2. TypeOK'
  BY DEF PortsInv, TypeOK, BindLastFails, Phases
<1>3. PhaseFits'
  BY DEF PortsInv, TypeOK, PhaseFits, BindLastFails
<1> QED
  BY <1>1, <1>2, <1>3 DEF Kept

(* nl_close.                                                               *)
LEMMA CloseKeeps ==
  ASSUME PortsInv, NEW s \in Sockets, Close(s)
  PROVE  Kept(s)
<1>1. Moves(s)
  BY StaysMoves DEF Close
<1>2. TypeOK'
  BY UnboundType DEF PortsInv, TypeOK, Close, Phases
<1>3. PhaseFits'
  BY DEF PortsInv, TypeOK, PhaseFits, Close
<1> QED
  BY <1>1, <1>2, <1>3 DEF Kept

-----------------------------------------------------------------------------
(* Every step of a socket keeps the types and phases and is a move.        *)
LEMMA EveryMove ==
  ASSUME PortsInv, NEW s \in Sockets, Use(s)
  PROVE  Kept(s)
BY AllocKeeps, FreeKeeps, GetLocalPortKeeps, SetLocalPortKeeps, SetFdKeeps,
   ConnectKeeps, TryPortKeeps, TriedEnoughKeeps, BindRefusedKeeps, BindPortKeeps,
   ReleaseRefusedKeeps, BindLastKeeps, BindLastFailsKeeps, CloseKeeps
DEF Use

(* What happens outside libnl only touches the kernel's bindings.          *)
LEMMA OutsideKeeps ==
  ASSUME PortsInv, OtherBinds \/ OtherCloses
  PROVE  PortsInv'
<1>0. /\ UNCHANGED <<usedPorts, idxState, phase, localPort, ownPort, refused>>
      /\ bound' \in [Ports -> Sockets \cup {Nobody, Other}]
  BY DEF PortsInv, TypeOK, OtherBinds, OtherCloses, OthersPorts
<1>1. TypeOK'
  BY <1>0 DEF PortsInv, TypeOK
<1>2. PhaseFits'
  BY <1>0 DEF PortsInv, PhaseFits
<1>3. HeldOnce' /\ MapExact'
  BY <1>0 DEF PortsInv, HeldOnce, MapExact, Held, Generation
<1> QED
  BY <1>1, <1>2, <1>3 DEF PortsInv

(* No step breaks the invariant.                                           *)
LEMMA PortsStep ==
  ASSUME PortsInv, [Next]_vars
  PROVE  PortsInv'
<1>1. ASSUME NEW s \in Sockets, Use(s) PROVE PortsInv'
  <2>1. Kept(s)
    BY <1>1, EveryMove
  <2>2. HeldOnce' /\ MapExact'
    BY <2>1, MovesKeep DEF Kept, PortsInv
  <2> QED
    BY <2>1, <2>2 DEF Kept, PortsInv
<1>2. CASE UNCHANGED vars
  BY <1>2 DEF vars, PortsInv, TypeOK, PhaseFits, HeldOnce, MapExact, Held, Generation
<1> QED
  BY <1>1, <1>2, OutsideKeeps DEF Next

(* At every moment the map marks exactly the ports that are held, each by  *)
(* one socket, and every phase of nl_connect finds what it relies on.      *)
THEOREM PortsInvariant == Spec => []PortsInv
<1>1. Init => PortsInv
  BY InitPorts
<1>2. PortsInv /\ [Next]_vars => PortsInv'
  BY PortsStep
<1> QED
  BY <1>1, <1>2, PTL DEF Spec

(* No generated port is lost, and none is released that is not marked: the *)
(* BUG_ONs of socket.c never fire, however the threads interleave and      *)
(* whatever bind returns.                                                  *)
THEOREM NoPortIsLost == Spec => []MapExact
<1>1. PortsInv => MapExact
  BY DEF PortsInv
<1> QED
  BY <1>1, PortsInvariant, PTL

-----------------------------------------------------------------------------
(* The walk reaches the first word only when it has found all the others   *)
(* full.                                                                   *)
LEMMA FirstWordLast ==
  ASSUME NEW i \in 0 .. IdxSize - 1, NEW p \in Slots, FirstFree(i, p), p[1] = 0,
         NEW q \in Slots, q[1] # 0
  PROVE  q \in usedPorts
<1>1. PICK j \in Blocks, m \in Bits :
        /\ p = Walk(i, j, m)
        /\ \A k \in Blocks, n \in Bits : k < j => Walk(i, k, n) \in usedPorts
  BY DEF FirstFree
<1>2. BlockAt(NumBlocks, NumBits, i, j) = 0
  BY <1>1 DEF Walk
<1>3. j = NumBlocks - 1
  <2>1. SUFFICES ASSUME j # NumBlocks - 1 PROVE FALSE
    OBVIOUS
  <2>2. ((i \div NumBits) - 1 + 7 * (j + 1)) \in Int /\ NumBlocks - 1 \in Nat \ {0}
    BY SizesAssumption DEF Blocks
  <2>3. \A x \in Int, y \in Nat \ {0} : x % y \in Nat
    OBVIOUS
  <2>4. ((i \div NumBits) - 1 + 7 * (j + 1)) % (NumBlocks - 1) \in Nat
    BY <2>2, <2>3
  <2> QED
    BY <1>2, <2>1, <2>4 DEF BlockAt
<1>4. PICK b \in Blocks, n \in Bits : q = <<b, n>> /\ b # 0
  BY DEF Slots
<1>5. PICK k \in Blocks : BlockAt(NumBlocks, NumBits, i, k) = b
  BY WalkAssumption
<1>6. PICK o \in Bits : BitAt(NumBits, i, o) = n
  BY WalkAssumption
<1>7. k # NumBlocks - 1
  BY <1>4, <1>5 DEF BlockAt
<1>8. k < j
  BY <1>3, <1>7, SizesAssumption DEF Blocks
<1>9. Walk(i, k, o) = q
  BY <1>4, <1>5, <1>6 DEF Walk
<1> QED
  BY <1>1, <1>8, <1>9

(* Only generating a port marks one.                                       *)
LEMMA OnlyGenerated ==
  ASSUME NEW s \in Sockets, Use(s)
  PROVE  Generated(s) \/ usedPorts' \subseteq usedPorts
BY DEF Use, Alloc, Free, GetLocalPort, SetLocalPort, SetFd, PortSet, Connect,
       TryPort, TriedEnough, NoneLeft, BindRefused, BindPort, ReleaseRefused,
       BindLast, BindLastFails, Close

(* The ports libnl-1 starts with are taken last.                           *)
THEOREM FirstWordIsSpared == Spec => BlockZeroLast
<1>1. ASSUME PortsInv, [Next]_vars
      PROVE  [\A p \in usedPorts' \ usedPorts :
                p[1] = 0 => \A q \in Slots : q[1] # 0 => q \in usedPorts]_vars
  <2>1. SUFFICES ASSUME NEW p \in usedPorts' \ usedPorts, p[1] = 0,
                        NEW q \in Slots, q[1] # 0
                 PROVE  q \in usedPorts
    OBVIOUS
  <2>2. PICK s \in Sockets : Use(s)
    BY <1>1, <2>1 DEF Next, vars, OtherBinds, OtherCloses
  <2>3. Generated(s)
    BY <2>1, <2>2, OnlyGenerated
  <2>4. PICK i \in IdxStates, r \in Slots :
          FirstFree(i, r) /\ usedPorts' = usedPorts \cup {r}
    BY <2>3 DEF Generated
  <2>5. i \in 0 .. IdxSize - 1
    BY <1>1, IdxStatesType DEF PortsInv, TypeOK
  <2>6. p = r
    BY <2>1, <2>4
  <2> QED
    BY <2>1, <2>4, <2>5, <2>6, FirstWordLast
<1> QED
  BY <1>1, PortsInvariant, PTL DEF Spec, BlockZeroLast

-----------------------------------------------------------------------------
(* A port held once has that holder, one that is not held has none.        *)
LEMMA HolderSays ==
  ASSUME NEW H \in [Sockets -> SUBSET Slots],
         \A s, t \in Sockets : s # t => H[s] \cap H[t] = {}
  PROVE  /\ HolderIn(H) \in [Slots -> Sockets \cup {Nobody}]
         /\ \A p \in Slots, s \in Sockets : p \in H[s] => HolderIn(H)[p] = s
         /\ \A p \in Slots :
              (\A s \in Sockets : p \notin H[s]) => HolderIn(H)[p] = Nobody
<1>1. ASSUME NEW p \in Slots, NEW s \in Sockets, p \in H[s]
      PROVE  HolderIn(H)[p] = s
  <2>1. (CHOOSE t \in Sockets : p \in H[t]) \in {t \in Sockets : p \in H[t]}
    BY <1>1
  <2>2. HolderIn(H)[p] = CHOOSE t \in Sockets : p \in H[t]
    BY <1>1 DEF HolderIn
  <2> QED
    BY <1>1, <2>1, <2>2
<1>2. ASSUME NEW p \in Slots, \A s \in Sockets : p \notin H[s]
      PROVE  HolderIn(H)[p] = Nobody
  BY <1>2 DEF HolderIn
<1>3. HolderIn(H) = [p \in Slots |-> HolderIn(H)[p]]
  BY DEF HolderIn
<1>4. \A p \in Slots : HolderIn(H)[p] \in Sockets \cup {Nobody}
  BY <1>1, <1>2
<1> QED
  BY <1>1, <1>2, <1>3, <1>4

(* A socket that gains a port takes it from the pool.                      *)
LEMMA GainTakes ==
  ASSUME PortsInv, PortsInv', NEW s \in Sockets, NEW p \in Slots, Gains(s, p)
  PROVE  Pool!Take(s)
<1> DEFINE H == [t \in Sockets |-> Held(t)]
           G == [t \in Sockets |-> Held(t)']
<1>1. H \in [Sockets -> SUBSET Slots] /\ G \in [Sockets -> SUBSET Slots]
  BY HeldSlots DEF PortsInv, TypeOK, PhaseFits, Held, Generation
<1>2. /\ \A t, u \in Sockets : t # u => H[t] \cap H[u] = {}
      /\ \A t, u \in Sockets : t # u => G[t] \cap G[u] = {}
  BY DEF PortsInv, HeldOnce
<1>3. Holder = HolderIn(H) /\ Holder' = HolderIn(G)
  BY DEF Holder, HolderIn
<1>4. G[s] = H[s] \cup {p} /\ \A t \in Sockets : t # s => G[t] = H[t]
  BY DEF Gains, OthersKeep
<1>5. \A t \in Sockets : p \notin H[t]
  BY DEF Gains, PortsInv, MapExact
<1> HIDE DEF H, G
<1>6. /\ HolderIn(H) \in [Slots -> Sockets \cup {Nobody}]
      /\ \A q \in Slots, t \in Sockets : q \in H[t] => HolderIn(H)[q] = t
      /\ \A q \in Slots :
           (\A t \in Sockets : q \notin H[t]) => HolderIn(H)[q] = Nobody
  BY <1>1, <1>2, HolderSays
<1>7. /\ HolderIn(G) \in [Slots -> Sockets \cup {Nobody}]
      /\ \A q \in Slots, t \in Sockets : q \in G[t] => HolderIn(G)[q] = t
      /\ \A q \in Slots :
           (\A t \in Sockets : q \notin G[t]) => HolderIn(G)[q] = Nobody
  BY <1>1, <1>2, HolderSays
<1>8. HolderIn(G)[p] = s
  BY <1>4, <1>7
<1>9. \A q \in Slots \ {p} : HolderIn(G)[q] = HolderIn(H)[q]
  BY <1>4, <1>6, <1>7
<1>10. HolderIn(G) = [HolderIn(H) EXCEPT ![p] = s]
  BY <1>6, <1>7, <1>8, <1>9
<1> QED
  BY <1>3, <1>5, <1>6, <1>10 DEF Pool!Take

(* A socket that loses ports gives them back to the pool.                  *)
LEMMA LossGivesBack ==
  ASSUME PortsInv, PortsInv', NEW s \in Sockets, NEW ps \in SUBSET Slots,
         Loses(s, ps)
  PROVE  Pool!GiveBack(s)
<1> DEFINE H == [t \in Sockets |-> Held(t)]
           G == [t \in Sockets |-> Held(t)']
<1>1. H \in [Sockets -> SUBSET Slots] /\ G \in [Sockets -> SUBSET Slots]
  BY HeldSlots DEF PortsInv, TypeOK, PhaseFits, Held, Generation
<1>2. /\ \A t, u \in Sockets : t # u => H[t] \cap H[u] = {}
      /\ \A t, u \in Sockets : t # u => G[t] \cap G[u] = {}
  BY DEF PortsInv, HeldOnce
<1>3. Holder = HolderIn(H) /\ Holder' = HolderIn(G)
  BY DEF Holder, HolderIn
<1>4. /\ ps \subseteq H[s]
      /\ G[s] = H[s] \ ps
      /\ \A t \in Sockets : t # s => G[t] = H[t]
  BY DEF Loses, OthersKeep
<1> HIDE DEF H, G
<1>6. /\ HolderIn(H) \in [Slots -> Sockets \cup {Nobody}]
      /\ \A q \in Slots, t \in Sockets : q \in H[t] => HolderIn(H)[q] = t
      /\ \A q \in Slots :
           (\A t \in Sockets : q \notin H[t]) => HolderIn(H)[q] = Nobody
  BY <1>1, <1>2, HolderSays
<1>7. /\ HolderIn(G) \in [Slots -> Sockets \cup {Nobody}]
      /\ \A q \in Slots, t \in Sockets : q \in G[t] => HolderIn(G)[q] = t
      /\ \A q \in Slots :
           (\A t \in Sockets : q \notin G[t]) => HolderIn(G)[q] = Nobody
  BY <1>1, <1>2, HolderSays
<1>8. ps \subseteq {q \in Slots : HolderIn(H)[q] = s}
  BY <1>4, <1>6
<1>9. \A q \in ps : \A t \in Sockets : q \notin G[t]
  BY <1>2, <1>4
<1>10. \A q \in ps : HolderIn(G)[q] = Nobody
  BY <1>7, <1>9
<1>11. \A q \in Slots \ ps : HolderIn(G)[q] = HolderIn(H)[q]
  BY <1>4, <1>6, <1>7
<1>12. HolderIn(G) =
         [q \in Slots |-> IF q \in ps THEN Nobody ELSE HolderIn(H)[q]]
  BY <1>7, <1>10, <1>11
<1> QED
  BY <1>3, <1>8, <1>12 DEF Pool!GiveBack

(* libnl's sockets implement the pool: what a socket holds is what it has  *)
(* taken and not given back, through every retry and failure of nl_connect *)
(* and whatever the threads do in between.                                 *)
THEOREM PortsArePooled == Spec => PortsPooled
<1>1. Init => Pool!PoolInit
  <2>1. SUFFICES ASSUME Init PROVE Pool!PoolInit
    OBVIOUS
  <2>2. \A s \in Sockets : Held(s) = {}
    BY <2>1 DEF Init, Held, Generation
  <2> QED
    BY <2>2 DEF Holder, HolderIn, Pool!PoolInit
<1>2. ASSUME PortsInv, PortsInv', [Next]_vars
      PROVE  [Pool!PoolNext]_Holder
  <2>1. ASSUME NEW s \in Sockets, Use(s) PROVE Pool!PoolNext
    <3>1. Moves(s)
      BY <1>2, <2>1, EveryMove DEF Kept
    <3>2. Pool!Take(s) \/ Pool!GiveBack(s)
      BY <1>2, <3>1, GainTakes, LossGivesBack DEF Moves
    <3> QED
      BY <3>2 DEF Pool!PoolNext
  <2>2. ASSUME UNCHANGED <<localPort, ownPort, refused>> PROVE UNCHANGED Holder
    BY <2>2 DEF Holder, HolderIn, Held, Generation
  <2> QED
    BY <1>2, <2>1, <2>2 DEF Next, vars, OtherBinds, OtherCloses
<1> QED
  BY <1>1, <1>2, PortsInvariant, PTL DEF Spec, PortsPooled, Pool!PoolSpec
=============================================================================

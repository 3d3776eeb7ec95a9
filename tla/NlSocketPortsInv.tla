-------------------------- MODULE NlSocketPortsInv --------------------------
(***************************************************************************)
(* Who holds which port in NlSocketPorts, what has to be true of that, and *)
(* the promise of NlPortPool it implements.                                *)
(***************************************************************************)
EXTENDS NlSocketPorts

(* The ports that are marked on behalf of s: the one it generated and the  *)
(* refused ones of the nl_connect under way.                               *)
Held(s) == Generation(s) \cup refused[s]

HolderIn(held) ==
  [p \in Slots |-> IF \E s \in Sockets : p \in held[s]
                     THEN CHOOSE s \in Sockets : p \in held[s] ELSE Nobody]

Holder == HolderIn([s \in Sockets |-> Held(s)])

(* A marked port is held by a socket and a held one is marked: no port is  *)
(* lost for good to the process, and no BUG_ON of release_local_port or    *)
(* _nl_socket_used_ports_release_all fires.                                *)
MapExact == usedPorts = {p \in Slots : \E s \in Sockets : p \in Held(s)}

(* Two sockets never hold the same port.                                   *)
HeldOnce == \A s, t \in Sockets : s # t => Held(s) \cap Held(t) = {}

(* In each phase of nl_connect the port and the refused ports are apart    *)
(* where the refused ones are given back and the other one stays.          *)
PhaseFits ==
  \A s \in Sockets :
    /\ ~ ownPort[s] => localPort[s] \in Slots
    /\ localPort[s] = Unspecified => ownPort[s]
    /\ phase[s] \in {"none", "gaveUp"} => ownPort[s]
    /\ phase[s] \in {"bind", "bound", "failed"} =>
         ~ ownPort[s] /\ localPort[s] \notin refused[s]
    /\ phase[s] = "try" => ownPort[s] \/ localPort[s] \in refused[s]
    /\ phase[s] \in {"none", "closed", "last", "open"} => refused[s] = {}

PortsInv == TypeOK /\ PhaseFits /\ HeldOnce /\ MapExact

(* The first word of the map, which libnl-1 uses, is touched only when all *)
(* other words are full.                                                   *)
BlockZeroLast ==
  [][\A p \in usedPorts' \ usedPorts :
       p[1] = 0 => \A q \in Slots : q[1] # 0 => q \in usedPorts]_vars

(* A port has one holder at a time, and goes from one to another only by   *)
(* way of being given back by the first.                                   *)
Pool == INSTANCE NlPortPool WITH holder <- Holder
PortsPooled == Pool!PoolSpec
=============================================================================

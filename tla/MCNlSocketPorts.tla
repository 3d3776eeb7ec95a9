-------------------------- MODULE MCNlSocketPorts --------------------------
(***************************************************************************)
(* An instance of NlSocketPorts for TLC, and the walk in its real size.    *)
(***************************************************************************)
EXTENDS NlSocketPortsInv, TLC

(* The walk of generate_local_port visits all of the 32 words of 32 bits,  *)
(* whatever idx_state.                                                     *)
ASSUME RealWalkAssumption ==
  /\ \A i \in 0 .. 65535 : i % 32 = 0 =>
       {BlockAt(32, 32, i, j) : j \in 0 .. 31} = 0 .. 31
  /\ \A i \in 0 .. 31 : {BitAt(32, i, m) : m \in 0 .. 31} = 0 .. 31

Symmetry == Permutations(Sockets)
=============================================================================

----------------------------- MODULE NlPortPool -----------------------------
(***************************************************************************)
(* What libnl promises about the local ports it generates: a port has at   *)
(* most one holder, it changes hands only by way of being free, and a      *)
(* socket gives back its own ports and nobody else's.                      *)
(***************************************************************************)
CONSTANTS
  Slots,     \* the ports libnl can generate
  Sockets,
  Nobody     \* holder of a free port

VARIABLE holder

PoolInit == holder = [p \in Slots |-> Nobody]

Take(s) ==
  \E p \in Slots :
    /\ holder[p] = Nobody
    /\ holder' = [holder EXCEPT ![p] = s]

GiveBack(s) ==
  \E given \in SUBSET {p \in Slots : holder[p] = s} :
    holder' = [p \in Slots |-> IF p \in given THEN Nobody ELSE holder[p]]

PoolNext == \E s \in Sockets : Take(s) \/ GiveBack(s)

PoolSpec == PoolInit /\ [][PoolNext]_holder
=============================================================================

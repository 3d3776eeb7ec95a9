----------------------------- MODULE MCHsrPairs -----------------------------
(***************************************************************************)
(* An instance of HsrDaemon with many requests: two interfaces can be up   *)
(* at once, be removed, and be configured again.  To keep it small, HSR    *)
(* links have one of three pairs of slaves.                                *)
(***************************************************************************)
EXTENDS MCHsrDaemon

CONSTANTS eth0, eth1, eth2, eth3   \* the links

(* Two of them have no link in common, the third one has with both.        *)
Offered == {<<eth0, eth1>>, <<eth1, eth2>>, <<eth2, eth3>>}

(* The first two links may be missing when the daemon starts.              *)
PairsInit ==
  /\ MCInit
  /\ master[eth0] = master[eth1]
  /\ master[eth2] = None /\ master[eth3] = None

(* A deletion of links may leave less than a pair.                         *)
LinksOfPairs ==
  \A h \in Names :
    \/ SlavesOf(master', h) \subseteq SlavesOf(master, h)
    \/ \E p \in Offered : SlavesOf(master', h) = {p[1], p[2]}

PairsNext ==
  \/ Asks /\ \A h \in Names : conf'[h] \in Offered \cup {None, Incomplete}
  \/ Act /\ LinksOfPairs
  \/ React

PairsSpec ==
  PairsInit /\ [][PairsNext]_<<vars, outside, requests, others>>

NamesSymmetry == Permutations(Names)
=============================================================================

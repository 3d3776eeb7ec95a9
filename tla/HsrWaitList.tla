---------------------------- MODULE HsrWaitList ----------------------------
(***************************************************************************)
(* The wait list of confdb-hsr (wait_list.c): HSR interfaces that are      *)
(* configured but cannot be created yet, in the order they were added.     *)
(*                                                                         *)
(* The five status bits of a node become two sets and a Boolean: a slave   *)
(* is in "busy" when its SLAVEn_BUSY bit is set, in "missing" when its     *)
(* SLAVEn_NOT_EXISTS bit is set.  That is the same information because the *)
(* configuration model forbids equal slaves, so a name is slave 1 or       *)
(* slave 2 of a node and never both.                                       *)
(***************************************************************************)
EXTENDS Naturals, Sequences, SequencesExt

(* A node: its name, its slaves, and the status bits.                      *)
WaitListNode(links, names) ==
  [hsr_name : names, slave1 : links, slave2 : links,
   busy : SUBSET links, missing : SUBSET links, hsrStillExists : BOOLEAN]

Slaves(n) == {n.slave1, n.slave2}

wait_list_node_alloc_Swapped(h, a, b) ==   \* mutant: arguments swapped
  [hsr_name |-> a, slave1 |-> h, slave2 |-> b,
   busy |-> {}, missing |-> {}, hsrStillExists |-> FALSE]

(* A node as wait_list_node_alloc leaves it: no bit set.                   *)
wait_list_node_alloc(h, a, b) ==
  [hsr_name |-> h, slave1 |-> a, slave2 |-> b,
   busy |-> {}, missing |-> {}, hsrStillExists |-> FALSE]

Waits(w, h) == \E k \in DOMAIN w : w[k].hsr_name = h

delete_wait_list_node_Noop(w, h) == w   \* mutant: nothing is taken off

(* The first node of that name leaves the list, if there is one.           *)
delete_wait_list_node(w, h) ==
  IF Waits(w, h)
    THEN RemoveAt(w, Min({k \in DOMAIN w : w[k].hsr_name = h}))
    ELSE w

create_hif_AlwaysFrees(w, h, created) == delete_wait_list_node(w, h) \* mutant

create_hif_FreesHead(w, h, created) ==   \* mutant: the wrong node leaves
  IF created THEN Tail(w) ELSE w

(* What create_hif does with the node it was given: it leaves the list     *)
(* only if the interface was created.                                      *)
create_hif(w, h, created) ==
  IF created THEN delete_wait_list_node(w, h) ELSE w

-----------------------------------------------------------------------------
(* What each notification does to the status bits of the nodes.            *)

link_changed_got_busy(w, l) ==
  [k \in DOMAIN w |-> [w[k] EXCEPT !.busy = @ \cup ({l} \cap Slaves(w[k]))]]

link_deleted_FirstSlaveOnly(w, l) ==   \* mutant: SLAVE2_NOT_EXISTS not set
  [k \in DOMAIN w |->
     [w[k] EXCEPT !.missing = @ \cup ({l} \cap {w[k].slave1}),
                  !.busy = @ \ {l}]]

link_deleted(w, l) ==
  [k \in DOMAIN w |->
     [w[k] EXCEPT !.missing = @ \cup ({l} \cap Slaves(w[k])),
                  !.busy = @ \ {l}]]

LinkAppeared_WrongBit(w, l) ==   \* mutant: SLAVE2_NOT_EXISTS not reset
  [k \in DOMAIN w |-> [w[k] EXCEPT !.missing = @ \ ({l} \cap {w[k].slave1})]]

(* The loop new_link ends with.                                            *)
LinkAppeared(w, l) == [k \in DOMAIN w |-> [w[k] EXCEPT !.missing = @ \ {l}]]

(* The loop link_changed_released ends with when no node was met.          *)
LinkReleased(w, l) == [k \in DOMAIN w |-> [w[k] EXCEPT !.busy = @ \ {l}]]

link_released_hsr_not_KeepsBusy(w, l, m) ==   \* mutant: bit not reset
  [k \in DOMAIN w |->
     [w[k] EXCEPT !.hsrStillExists = @ \/ w[k].hsr_name = m]]

link_released_hsr_not(w, l, m) ==
  [k \in DOMAIN w |->
     [w[k] EXCEPT !.busy = @ \ {l},
                  !.hsrStillExists = @ \/ w[k].hsr_name = m]]

NoSlaveFlag(n) == n.busy = {} /\ n.missing = {}

HsrGone_IfReady(w, h) ==   \* mutant: reset only on a node that can be created
  [k \in DOMAIN w |->
     [w[k] EXCEPT !.hsrStillExists =
                    @ /\ (w[k].hsr_name # h \/ ~ NoSlaveFlag(w[k]))]]

(* The bit hsr_link_deleted resets.                                        *)
HsrGone(w, h) ==
  [k \in DOMAIN w |->
     [w[k] EXCEPT !.hsrStillExists = @ /\ w[k].hsr_name # h]]

-----------------------------------------------------------------------------
(* The positions a notification may start an interface from; the code      *)
(* takes the first one.                                                    *)

NewLinkMet_IgnoresMissing(w, l) ==   \* mutant: SLAVEn_NOT_EXISTS unchecked
  {k \in DOMAIN w :
     /\ l \in Slaves(w[k])
     /\ (Slaves(w[k]) \ {l}) \cap w[k].busy = {}
     /\ ~ w[k].hsrStillExists}

NewLinkMet_ChecksItself(w, l) ==   \* mutant: l's own bit, not reset yet
  {k \in DOMAIN w :
     /\ l \in Slaves(w[k])
     /\ NoSlaveFlag(w[k])
     /\ ~ w[k].hsrStillExists}

NewLinkMet(w, l) ==
  {k \in DOMAIN w :
     /\ l \in Slaves(w[k])
     /\ (Slaves(w[k]) \ {l}) \cap (w[k].busy \cup w[k].missing) = {}
     /\ ~ w[k].hsrStillExists}

ReleasedMet(w, l) ==
  {k \in DOMAIN w :
     /\ l \in Slaves(w[k])
     /\ (Slaves(w[k]) \ {l}) \cap w[k].busy = {}}

HsrDeletedMet_Others(w, h) ==   \* mutant: strcmp not negated
  {k \in DOMAIN w : NoSlaveFlag(w[k]) /\ w[k].hsr_name # h}

(* The node of the deleted interface if it is ready (w has its             *)
(* HSR_STILL_EXISTS bit reset already), otherwise any ready node.          *)
HsrDeletedMet(w, h) ==
  LET ready == {k \in DOMAIN w : NoSlaveFlag(w[k])}
      same == {k \in ready : w[k].hsr_name = h}
  IN  IF same # {} THEN same ELSE ready
=============================================================================

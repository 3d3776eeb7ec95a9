--------------------------- MODULE NlMessageRead ---------------------------
(***************************************************************************)
(* Reading the message NlMessage builds (attr.c).  Everything a reader     *)
(* finds is found by walking over the lengths in the headers, so a length  *)
(* or a padding that is wrong loses what comes after it.                   *)
(***************************************************************************)
EXTENDS NlMessageParts

(* Reading: nla_for_each_attr, with nla_parse_nested for containers.       *)

Data(from, n) == [b \in 1..n |-> mem[from + b - 1]]

RECURSIVE Walk(_, _)
Walk(nla, end) ==
  IF ~ nla_ok(nla, end - nla) THEN <<>>
  ELSE LET h == mem[nla]
           n == h.nla_len - Align
           raw == IF RawLen[h.nla_type] <= n THEN RawLen[h.nla_type] ELSE 0
           node == IF h.nested
                     THEN [type |-> h.nla_type, len |-> h.nla_len,
                           raw |-> Data(nla + Align, raw),
                           kids |-> Walk(nla + Align + Aligned(raw),
                                         nla + h.nla_len)]
                     ELSE [type |-> h.nla_type, len |-> h.nla_len,
                           data |-> Data(nla + Align, n)]
       IN <<node>> \o Walk(nla_next(nla), end)

-----------------------------------------------------------------------------
(* Properties.                                                             *)

(* The levels of the tree: what is found in the message before the first   *)
(* open container, and in each open container before the next one.         *)
LevelEnd(i) == IF i < Len(open) THEN open[i + 1] ELSE nlmsg_tail

OpenLevel(i) ==
  LET start == open[i]
      t == mem[start].nla_type
      raw == IF start + Align + RawLen[t] <= LevelEnd(i) THEN RawLen[t] ELSE 0
  IN [type |-> t, raw |-> Data(start + Align, raw),
      kids |-> Walk(start + Align + Aligned(raw), LevelEnd(i))]

TreeLevels ==
  <<[type |-> "message", raw |-> <<>>, kids |-> Walk(0, LevelEnd(0))]>>
    \o [i \in 1..Len(open) |-> OpenLevel(i)]

Tree == INSTANCE NlAttrTree WITH levels <- TreeLevels

(* Whoever walks over the message finds exactly the attributes that were   *)
(* put and the containers that were ended, with their structures; putting, *)
(* ending or cancelling something changes nothing of what was there.       *)
TreeBuilt == Tree!Spec
=============================================================================

----------------------------- MODULE NlAttrTree -----------------------------
(***************************************************************************)
(* What the functions of attr.c that build a message promise: a tree of    *)
(* attributes.  levels[1] is the message, the others are the containers    *)
(* that have been started and not ended, each in the one before it.        *)
(* A container may begin with a structure that is no attribute.            *)
(***************************************************************************)
EXTENDS Naturals, Sequences, SequencesExt

CONSTANTS
  Types,    \* attribute types
  RawLen,   \* RawLen[t]: length of the structure a container t begins with
  Values,   \* what the bytes of a payload may be
  Lens,     \* lengths of payloads
  Align,    \* NLA_ALIGNTO, and the length of a header
  MaxLen    \* the greatest length an attribute may have

VARIABLE levels

Aligned(n) == ((n + Align - 1) \div Align) * Align

Bytes(n, v) == [b \in 1..n |-> v]
Leaf(t, n, v) == [type |-> t, len |-> Align + n, data |-> Bytes(n, v)]
Level(t) == [type |-> t, raw |-> <<>>, kids |-> <<>>]

(* The length of a container: its header, structure and attributes.        *)
LevelLen(l) ==
  FoldLeft(LAMBDA n, k : n + Aligned(k.len), Align + Aligned(Len(l.raw)), l.kids)

Container(l) ==
  [type |-> l.type, len |-> LevelLen(l), raw |-> l.raw, kids |-> l.kids]

Inner == levels[Len(levels)]
AddTo(ls, node) == [ls EXCEPT ![Len(ls)].kids = Append(@, node)]

Init == levels = <<Level("message")>>

Put ==
  \E t \in Types, n \in Lens, v \in Values :
    levels' = AddTo(levels, Leaf(t, n, v))

Start == \E t \in Types : levels' = Append(levels, Level(t))

Structure ==
  /\ Len(levels) > 1
  /\ Inner.raw = <<>> /\ Inner.kids = <<>> /\ RawLen[Inner.type] > 0
  /\ \E v \in Values :
       levels' = [levels EXCEPT ![Len(levels)].raw = Bytes(RawLen[Inner.type], v)]

(* A container becomes an attribute of the one around it.                  *)
End ==
  /\ Len(levels) > 1
  /\ LevelLen(Inner) <= MaxLen
  /\ levels' = AddTo(Front(levels), Container(Inner))

(* It is dropped when it is empty, too long, or no longer wanted.          *)
Drop == Len(levels) > 1 /\ levels' = Front(levels)

Renew == levels' = <<Level("message")>>

Next == Put \/ Start \/ Structure \/ End \/ Drop \/ Renew

Spec == Init /\ [][Next]_levels
=============================================================================

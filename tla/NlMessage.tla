----------------------------- MODULE NlMessage -----------------------------
(***************************************************************************)
(* Building a netlink message in a buffer of fixed size (msg.c, attr.c):   *)
(* attributes, containers that are started, ended or cancelled, and        *)
(* structures appended without padding.                                    *)
(*                                                                         *)
(* Offsets count from the end of the message header, whose own fields are  *)
(* of no interest here.  nlmsg_expand, which makes every pointer into the  *)
(* buffer stale, is called by nothing in the repository.                   *)
(***************************************************************************)
EXTENDS Integers, Sequences, SequencesExt

CONSTANTS
  Types,    \* attribute types
  RawLen,   \* RawLen[t]: length of the structure a container t begins with
  Values,   \* what the bytes of a payload may be
  Lens,     \* lengths of payloads
  Zero,     \* a byte that is zero
  Rest,     \* a byte of an attribute header after the first
  Align,    \* NLMSG_ALIGNTO, NLA_ALIGNTO and NLA_HDRLEN
  MaxLen,   \* USHRT_MAX, what nla_len can hold
  Size      \* nm_size

(* "the allocate message buffer must be a multiple of NLMSG_ALIGNTO"       *)
(* (attr.c); the default, the size of a page, is.                          *)
ASSUME NlMessageAssumption ==
  /\ Align \in Nat \ {0}
  /\ Size \in Nat /\ Size % Align = 0
  /\ MaxLen \in Nat
  /\ RawLen \in [Types -> Nat]
  /\ Lens \subseteq Nat
  /\ Zero \notin Values

VARIABLES
  len,      \* nlmsg_len
  mem,      \* the bytes of the buffer
  open,     \* where the containers begin that are started and not ended
  bug,      \* BUG() was reached
  clipped   \* history: a container was cancelled, nothing has been put since,
            \* and the message ends before the place where it began

vars == <<len, mem, open, bug, clipped>>

Offsets == 0 .. Size - 1
Header == [nla_len : 0..MaxLen, nla_type : Types, nested : BOOLEAN]

TypeOK ==
  /\ len \in 1 - Align .. Size
  /\ mem \in [Offsets -> Header \cup Values \cup {Zero, Rest}]
  /\ open \in Seq(Offsets)
  /\ bug \in BOOLEAN
  /\ clipped \in BOOLEAN

(* __nlmsg_alloc: the buffer comes from calloc.                            *)
Init ==
  /\ len = 0
  /\ mem = [b \in Offsets |-> Zero]
  /\ open = <<>>
  /\ bug = FALSE
  /\ clipped = FALSE

-----------------------------------------------------------------------------
(* Sizes and bytes.                                                        *)

Aligned(n) == ((n + Align - 1) \div Align) * Align
nlmsg_tail == Aligned(len)
nla_attr_size(n) == Align + n
nla_total_size(n) == Aligned(nla_attr_size(n))

Fill(m, from, n, c) ==
  [b \in Offsets |-> IF b \in from .. from + n - 1 THEN c ELSE m[b]]

Innermost == Last(open)

(* A header, then zeros where the padding is, then the payload.            *)
WithAttr(t, nested, n, v) ==
  LET nla == nlmsg_tail
      h == [nla_len |-> nla_attr_size(n) % (MaxLen + 1),
            nla_type |-> t, nested |-> nested]
      headed == [Fill(mem, nla, Align, Rest) EXCEPT ![nla] = h]
      padded == Fill(headed, nla + h.nla_len,
                     nla_total_size(n) - nla_attr_size(n), Zero)
  IN Fill(padded, nla + Align, n, v)

(* nla_reserve and the copy of nla_put.  With no room for the attribute    *)
(* and its padding nothing is changed.                                     *)
Reserve(t, nested, n, v) ==
  /\ nlmsg_tail + nla_total_size(n) <= Size
  /\ len' = nlmsg_tail + nla_total_size(n)
  /\ mem' = WithAttr(t, nested, n, v)
  /\ clipped' = FALSE

-----------------------------------------------------------------------------
(* What a caller may do.                                                   *)

(* Whether what comes next in the innermost container is its structure.    *)
StructureNext ==
  /\ open # <<>>
  /\ len = Innermost + Align
  /\ RawLen[mem[Innermost].nla_type] > 0

nla_put(t, n, v) ==
  /\ ~ StructureNext
  /\ Reserve(t, FALSE, n, v)
  /\ UNCHANGED <<open, bug>>

nla_nest_start(t) ==
  /\ ~ StructureNext
  /\ Reserve(t, TRUE, 0, Zero)
  /\ open' = Append(open, nlmsg_tail)
  /\ UNCHANGED bug

(* Mutant: room is looked for before the length is added.                  *)
nlmsg_append_NoRoom(v) ==
  /\ StructureNext
  /\ LET n == RawLen[mem[Innermost].nla_type]
     IN /\ len <= Size
        /\ mem' = Fill(mem, len, n, v)
        /\ len' = len + n
  /\ UNCHANGED <<open, bug, clipped>>

(* nlmsg_append without padding (NL_DONTPAD), as the queueing disciplines  *)
(* and extended matches use it.                                            *)
nlmsg_append(v) ==
  /\ StructureNext
  /\ LET n == RawLen[mem[Innermost].nla_type]
     IN /\ len + n <= Size
        /\ mem' = Fill(mem, len, n, v)
        /\ len' = len + n
  /\ UNCHANGED <<open, bug, clipped>>

(* Mutant: what has been written stays.                                    *)
Cancel_KeepsBytes ==
  LET n == nlmsg_tail - Innermost
  IN /\ len' = len - n
     /\ clipped' = (len - n < Innermost)
     /\ open' = Front(open)
     /\ UNCHANGED <<mem, bug>>

(* Mutant: the cleared bytes begin at the new length, not at its padded    *)
(* end.                                                                    *)
Cancel_Unaligned ==
  LET n == nlmsg_tail - Innermost
  IN /\ len' = len - n
     /\ mem' = Fill(mem, len - n, n, Zero)
     /\ clipped' = (len - n < Innermost)
     /\ open' = Front(open)
     /\ UNCHANGED bug

(* The message shrinks by the distance from the container to its own       *)
(* padded end, and as much is cleared behind its new one.                  *)
Cancel ==
  LET n == nlmsg_tail - Innermost
  IN /\ len' = len - n
     /\ mem' = Fill(mem, Aligned(len - n), n, Zero)
     /\ clipped' = (len - n < Innermost)
     /\ open' = Front(open)
     /\ UNCHANGED bug

nla_nest_cancel == open # <<>> /\ Cancel

(* Mutant: the container is not padded.                                    *)
Pad_Forgotten == UNCHANGED <<len, bug>>

(* Mutant: the last byte of the buffer is never given out.                 *)
Pad_OffByOne ==
  IF nlmsg_tail < Size THEN len' = nlmsg_tail /\ UNCHANGED bug
                       ELSE bug' = TRUE /\ UNCHANGED len

(* nlmsg_reserve for the padding of a container that ends with its         *)
(* structure.                                                              *)
Pad ==
  IF nlmsg_tail <= Size THEN len' = nlmsg_tail /\ UNCHANGED bug
                        ELSE bug' = TRUE /\ UNCHANGED len

(* Mutant: the limit of 16 bits is not looked at.                          *)
Dropped_NoLimit(n, keep_empty) == ~ keep_empty /\ n = Align

(* Which containers are trimmed off again when they are ended.             *)
Dropped(n, keep_empty) == n > MaxLen \/ (~ keep_empty /\ n = Align)

(* _nest_end: nla_nest_end, or nla_nest_end_keep_empty.                    *)
nest_end(keep_empty) ==
  LET n == nlmsg_tail - Innermost
  IN /\ open # <<>>
     /\ IF Dropped(n, keep_empty)
          THEN Cancel
          ELSE /\ mem' = [mem EXCEPT ![Innermost].nla_len = n % (MaxLen + 1)]
               /\ Pad
               /\ open' = Front(open)
               /\ clipped' = FALSE

(* nlmsg_free, and another message.                                        *)
Renew ==
  /\ len' = 0
  /\ mem' = [b \in Offsets |-> Zero]
  /\ open' = <<>>
  /\ clipped' = FALSE
  /\ UNCHANGED bug

Next ==
  /\ ~ bug
  /\ \/ \E t \in Types, n \in Lens, v \in Values : nla_put(t, n, v)
     \/ \E t \in Types : nla_nest_start(t)
     \/ \E v \in Values : nlmsg_append(v)
     \/ \E keep_empty \in BOOLEAN : nest_end(keep_empty)
     \/ nla_nest_cancel
     \/ Renew

Spec == Init /\ [][Next]_vars

-----------------------------------------------------------------------------
(* Properties.                                                             *)

(* Behind the message the buffer is zero, so that padding that is not      *)
(* written (that of a container that ends with a structure) is zero too.   *)
ZeroBehind == \A b \in Offsets : b >= len /\ ~ clipped => mem[b] = Zero

(* nlmsg_reserve never fails for the padding of a container.               *)
PaddingFits == ~ bug

-----------------------------------------------------------------------------
(* Why the buffer is always in order.                                      *)

(* A container begins at a multiple of Align, behind the header of the one *)
(* around it and before the end of the message.                            *)
ContainersNested ==
  \A i \in DOMAIN open :
    /\ Aligned(open[i]) = open[i]
    /\ mem[open[i]] \in Header
    /\ open[i] + Align <= nlmsg_tail
    /\ \A j \in DOMAIN open : i < j => open[i] + Align <= open[j]

(* Even where the message ends too early, nothing is left behind its       *)
(* padded end.                                                             *)
Layout ==
  /\ TypeOK
  /\ nlmsg_tail \in 0 .. Size
  /\ ContainersNested
  /\ clipped => len < nlmsg_tail
  /\ \A b \in Offsets : b >= nlmsg_tail => mem[b] = Zero
  /\ ZeroBehind
  /\ ~ bug
=============================================================================

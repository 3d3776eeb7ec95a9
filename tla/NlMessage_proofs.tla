-------------------------- MODULE NlMessage_proofs --------------------------
(***************************************************************************)
(* The buffer of NlMessage, whatever its size, the alignment, the greatest *)
(* length of an attribute, and the attributes and structures put into it,  *)
(* and what a reader finds in it, with the history of NlMessageParts.      *)
(***************************************************************************)
EXTENDS NlMessageParts, TLAPS

-----------------------------------------------------------------------------
(* Alignment.                                                              *)

Multiple(x) == \E k \in Int : x = k * Align

LEMMA Division ==
  ASSUME NEW a \in Int, a > 0, NEW x \in Int
  PROVE  /\ x \div a \in Int
         /\ (x \div a) * a <= x /\ x < (x \div a) * a + a
<1>1. x \div a \in Int
  OBVIOUS
<1>2. x = (x \div a) * a + (x % a)
  OBVIOUS
<1>3. x % a \in 0 .. a - 1
  OBVIOUS
<1> DEFINE p == (x \div a) * a
           r == x % a
<1>4. p \in Int
  BY <1>1
<1>5. x = p + r /\ r \in 0 .. a - 1
  BY <1>2, <1>3
<1> HIDE DEF p, r
<1>6. p <= x /\ x < p + a
  BY <1>4, <1>5
<1> QED BY <1>1, <1>6 DEF p

LEMMA Remainder ==
  ASSUME NEW a \in Int, a > 0, NEW x \in Nat
  PROVE  x % a \in 0 .. a - 1 /\ x % a <= x
<1> DEFINE q == x \div a
           r == x % a
<1>1. r \in 0 .. a - 1
  OBVIOUS
<1>2. q \in Int /\ x = q * a + r
  OBVIOUS
<1> HIDE DEF q, r
<1>3. q * a \in Int /\ q * a > - a
  BY <1>1, <1>2
<1>4. q >= 0
  <2>1. q <= -1 => q * a <= - a
    BY <1>2
  <2> QED BY <1>2, <1>3, <2>1
<1>5. q * a >= 0
  BY <1>2, <1>4
<1> QED BY <1>1, <1>2, <1>3, <1>5 DEF r

LEMMA SmallRemainder ==
  ASSUME NEW a \in Int, NEW x \in Nat, x < a
  PROVE  x % a = x
<1> DEFINE q == x \div a
           r == x % a
<1>1. r \in 0 .. a - 1 /\ q \in Int /\ x = q * a + r
  OBVIOUS
<1> HIDE DEF q, r
<1>2. q = 0
  <2>1. q >= 1 => q * a >= a
    BY <1>1
  <2>2. q <= -1 => q * a <= - a
    BY <1>1
  <2>3. q * a \in Int
    BY <1>1
  <2> QED BY <1>1, <2>1, <2>2, <2>3
<1>3. x = r
  BY <1>1, <1>2
<1> QED BY <1>3 DEF r

LEMMA Quotient ==
  ASSUME NEW n \in Int
  PROVE  /\ Aligned(n) \in Int /\ Multiple(Aligned(n))
         /\ n <= Aligned(n) /\ Aligned(n) < n + Align
<1> DEFINE x == n + Align - 1
           q == x \div Align
           p == q * Align
<1>1. Align \in Int /\ Align > 0 /\ x \in Int
  BY NlMessageAssumption
<1>2. q \in Int /\ p <= x /\ x < p + Align
  BY <1>1, Division
<1>3. Aligned(n) = p
  BY DEF Aligned
<1>4. p \in Int /\ Multiple(p)
  BY <1>1, <1>2 DEF Multiple
<1> HIDE DEF q, p
<1>5. n <= p /\ p < n + Align
  BY <1>1, <1>2, <1>4
<1> QED BY <1>3, <1>4, <1>5

(* Multiples less than Align apart are the same.                           *)
LEMMA MultiplesApart ==
  ASSUME NEW x \in Int, NEW y \in Int, Multiple(x), Multiple(y), x < y
  PROVE  x + Align <= y
<1>1. Align \in Int /\ Align > 0
  BY NlMessageAssumption
<1>2. PICK i \in Int : x = i * Align
  BY DEF Multiple
<1>3. PICK k \in Int : y = k * Align
  BY DEF Multiple
<1>4. i < k
  <2>1. SUFFICES ASSUME k <= i PROVE FALSE
    BY <1>2, <1>3
  <2>2. k * Align <= i * Align
    BY <1>1, <2>1
  <2> QED BY <1>2, <1>3, <2>2
<1>5. (i + 1) * Align <= k * Align
  BY <1>1, <1>4
<1>6. (i + 1) * Align = i * Align + Align
  BY <1>1
<1> QED BY <1>2, <1>3, <1>5, <1>6

LEMMA MultipleSum ==
  ASSUME NEW x, NEW y, Multiple(x), Multiple(y)
  PROVE  Multiple(x + y)
<1>1. Align \in Int
  BY NlMessageAssumption
<1>2. PICK i \in Int : x = i * Align
  BY DEF Multiple
<1>3. PICK k \in Int : y = k * Align
  BY DEF Multiple
<1>4. x + y = (i + k) * Align
  BY <1>1, <1>2, <1>3
<1> QED BY <1>4 DEF Multiple

LEMMA MultipleConstants == Multiple(0) /\ Multiple(Align) /\ Multiple(Size)
<1>1. Align \in Int /\ Align > 0 /\ Size \in Int /\ Size % Align = 0
  BY NlMessageAssumption
<1>2. 0 = 0 * Align /\ Align = 1 * Align
  BY <1>1
<1>3. Size \div Align \in Int /\ Size = (Size \div Align) * Align
  <2>1. Size \div Align \in Int
    BY <1>1
  <2>2. Size = (Size \div Align) * Align + (Size % Align)
    BY <1>1
  <2>3. (Size \div Align) * Align \in Int
    BY <1>1, <2>1
  <2> QED BY <1>1, <2>1, <2>2, <2>3
<1> QED BY <1>2, <1>3 DEF Multiple

(* Aligned(n) is the least multiple that is not less than n.               *)
LEMMA AlignedLeast ==
  ASSUME NEW n \in Int, NEW x \in Int, Multiple(x), n <= x
  PROVE  Aligned(n) <= x
<1>1. /\ Aligned(n) \in Int /\ Multiple(Aligned(n))
      /\ Aligned(n) < n + Align /\ Align \in Int
  BY Quotient, NlMessageAssumption
<1>2. x < Aligned(n) => x + Align <= Aligned(n)
  BY <1>1, MultiplesApart
<1> QED BY <1>1, <1>2

LEMMA AlignedSame ==
  ASSUME NEW x \in Int
  PROVE  Multiple(x) <=> Aligned(x) = x
<1>1. Aligned(x) \in Int /\ Multiple(Aligned(x)) /\ x <= Aligned(x)
  BY Quotient
<1>2. Multiple(x) => Aligned(x) <= x
  BY AlignedLeast
<1> QED BY <1>1, <1>2

(* Less than Align short of a multiple one is in its padding.              *)
LEMMA AlignedUp ==
  ASSUME NEW x \in Int, NEW o \in Int, Aligned(o) = o, x <= o, o < x + Align
  PROVE  Aligned(x) = o
<1>1. Align \in Int /\ Aligned(x) \in Int /\ x <= Aligned(x) /\ Multiple(Aligned(x))
  BY Quotient, NlMessageAssumption
<1>2. Multiple(o)
  BY AlignedSame
<1>3. Aligned(x) <= o
  BY <1>2, AlignedLeast
<1>4. Aligned(x) < o => Aligned(x) + Align <= o
  BY <1>1, <1>2, MultiplesApart
<1> QED BY <1>1, <1>3, <1>4

-----------------------------------------------------------------------------
(* The bytes.                                                              *)

Byte == Header \cup Values \cup {Zero, Rest}

LEMMA FillProperties ==
  ASSUME NEW m \in [Offsets -> Byte], NEW from \in Int, NEW n \in Int,
         NEW c \in Byte
  PROVE  /\ Fill(m, from, n, c) \in [Offsets -> Byte]
         /\ \A b \in Offsets :
              Fill(m, from, n, c)[b] =
                IF from <= b /\ b < from + n THEN c ELSE m[b]
<1>1. \A b \in Offsets : b \in Int
  BY NlMessageAssumption DEF Offsets
<1>2. \A b \in Offsets : b \in from .. from + n - 1 <=> from <= b /\ b < from + n
  BY <1>1
<1> QED BY <1>2 DEF Fill

(* The room an attribute takes.                                            *)
LEMMA RoomNeeded ==
  ASSUME NEW n \in Nat
  PROVE  /\ nla_total_size(n) \in Int /\ Multiple(nla_total_size(n))
         /\ nla_attr_size(n) = Align + n
         /\ nla_attr_size(n) <= nla_total_size(n)
         /\ Align <= nla_total_size(n)
         /\ n = 0 => nla_total_size(n) = Align
<1>1. Align \in Int /\ Align > 0
  BY NlMessageAssumption
<1>2. Aligned(Align) = Align
  BY <1>1, AlignedSame, MultipleConstants
<1>3. Align + n \in Int /\ Align <= Align + n /\ Align + 0 = Align
  BY <1>1
<1>4. /\ Aligned(Align + n) \in Int /\ Multiple(Aligned(Align + n))
      /\ Align + n <= Aligned(Align + n)
  BY <1>3, Quotient
<1> QED BY <1>1, <1>2, <1>3, <1>4 DEF nla_total_size, nla_attr_size

(* An attribute is written to its own room only.                           *)
LEMMA AttrWritten ==
  ASSUME mem \in [Offsets -> Byte], nlmsg_tail \in Nat,
         NEW t \in Types, NEW nested \in BOOLEAN, NEW n \in Nat,
         NEW v \in Values \cup {Zero},
         nlmsg_tail + nla_total_size(n) <= Size
  PROVE  /\ WithAttr(t, nested, n, v) \in [Offsets -> Byte]
         /\ \A b \in Offsets :
              b < nlmsg_tail \/ nlmsg_tail + nla_total_size(n) <= b =>
                WithAttr(t, nested, n, v)[b] = mem[b]
         /\ nlmsg_tail \in Offsets
         /\ n = 0 =>
              /\ WithAttr(t, nested, n, v)[nlmsg_tail] \in Header
              /\ WithAttr(t, nested, n, v)[nlmsg_tail].nla_type = t
              /\ WithAttr(t, nested, n, v)[nlmsg_tail].nested = nested
         /\ nla_attr_size(n) <= MaxLen =>
              WithAttr(t, nested, n, v)[nlmsg_tail] =
                [nla_len |-> nla_attr_size(n), nla_type |-> t, nested |-> nested]
         /\ \A b \in Offsets :
              nlmsg_tail + Align <= b /\ b < nlmsg_tail + Align + n =>
                WithAttr(t, nested, n, v)[b] = v
<1> DEFINE nla == nlmsg_tail
           size == nla_attr_size(n)
           total == nla_total_size(n)
           cutlen == size % (MaxLen + 1)
           h == [nla_len |-> cutlen, nla_type |-> t, nested |-> nested]
           filled == Fill(mem, nla, Align, Rest)
           headed == [filled EXCEPT ![nla] = h]
           padded == Fill(headed, nla + h.nla_len, total - size, Zero)
           whole == Fill(padded, nla + Align, n, v)
<1>1. /\ Align \in Int /\ Align > 0 /\ Size \in Int /\ MaxLen \in Nat /\ nla \in Nat
      /\ size = Align + n /\ total \in Int /\ size <= total /\ Align <= total
      /\ n = 0 => total = Align
      /\ nla + total <= Size
  BY RoomNeeded, NlMessageAssumption
<1>2. WithAttr(t, nested, n, v) = whole
  BY DEF WithAttr
<1>3. cutlen \in 0 .. MaxLen /\ cutlen <= size /\ (size <= MaxLen => cutlen = size)
  <2>1. size \in Nat /\ MaxLen + 1 \in Int /\ MaxLen + 1 > 0
    BY <1>1
  <2>2. size % (MaxLen + 1) \in 0 .. (MaxLen + 1) - 1 /\ size % (MaxLen + 1) <= size
    BY <2>1, Remainder
  <2>3. (MaxLen + 1) - 1 = MaxLen
    BY <1>1
  <2>4. size <= MaxLen => size % (MaxLen + 1) = size
    <3>1. size <= MaxLen => size < MaxLen + 1
      BY <1>1
    <3> QED BY <2>1, <3>1, SmallRemainder
  <2> QED BY <2>2, <2>3, <2>4
<1> HIDE DEF nla, size, total, cutlen
<1>4. /\ h \in Header /\ h.nla_len = cutlen /\ h.nla_type = t /\ h.nested = nested
      /\ h = [nla_len |-> cutlen, nla_type |-> t, nested |-> nested]
  BY <1>3 DEF Header
<1>5. h \in Byte /\ v \in Byte /\ Zero \in Byte /\ Rest \in Byte
  BY <1>4 DEF Byte
<1>6. nla \in Offsets
  BY <1>1 DEF Offsets
<1>7. \A b \in Offsets : b \in Int
  BY NlMessageAssumption DEF Offsets
<1> HIDE DEF h
<1>8. /\ filled \in [Offsets -> Byte]
      /\ \A b \in Offsets : filled[b] =
           IF nla <= b /\ b < nla + Align THEN Rest ELSE mem[b]
  BY <1>1, <1>5, FillProperties
<1> HIDE DEF filled
<1>9. /\ headed \in [Offsets -> Byte] /\ headed[nla] = h
      /\ \A b \in Offsets : b # nla => headed[b] = filled[b]
  BY <1>5, <1>6, <1>8
<1> HIDE DEF headed
<1>10. /\ padded \in [Offsets -> Byte]
       /\ \A b \in Offsets : padded[b] =
            IF nla + cutlen <= b /\ b < nla + cutlen + (total - size)
              THEN Zero ELSE headed[b]
  <2>1. nla + h.nla_len \in Int /\ total - size \in Int
    BY <1>1, <1>3, <1>4
  <2> QED BY <1>4, <1>5, <1>9, <2>1, FillProperties
<1> HIDE DEF padded
<1>11. /\ whole \in [Offsets -> Byte]
       /\ \A b \in Offsets : whole[b] =
            IF nla + Align <= b /\ b < nla + Align + n THEN v ELSE padded[b]
  BY <1>1, <1>5, <1>10, FillProperties
<1> HIDE DEF whole
<1>12. ASSUME NEW b \in Offsets, b < nla \/ nla + total <= b
       PROVE  whole[b] = mem[b]
  <2>1. b \in Int
    BY <1>7
  <2>2. whole[b] = padded[b]
    BY <1>1, <1>11, <1>12, <2>1
  <2>3. padded[b] = headed[b]
    BY <1>1, <1>3, <1>10, <1>12, <2>1
  <2>4. b # nla /\ ~ (nla <= b /\ b < nla + Align)
    BY <1>1, <1>12, <2>1
  <2> QED BY <1>8, <1>9, <2>2, <2>3, <2>4
<1>13. ASSUME n = 0 \/ size <= MaxLen PROVE whole[nla] = h
  <2>2. whole[nla] = padded[nla]
    BY <1>1, <1>6, <1>11
  <2>3. ~ (nla + cutlen <= nla /\ nla < nla + cutlen + (total - size))
    BY <1>1, <1>3, <1>13
  <2>4. padded[nla] = headed[nla]
    BY <1>6, <1>10, <2>3
  <2> QED BY <1>9, <2>2, <2>4
<1> QED BY <1>2, <1>3, <1>4, <1>6, <1>11, <1>12, <1>13 DEF nla, total, size

-----------------------------------------------------------------------------
(* The buffer stays in order.                                              *)

LEMMA LayoutInit == ASSUME Init PROVE Layout
<1>1. /\ Align \in Int /\ Align > 0 /\ Size \in Nat /\ 0 \in Int
      /\ 1 - Align <= 0
  BY NlMessageAssumption
<1>2. Aligned(0) = 0
  BY AlignedSame, MultipleConstants
<1>3. nlmsg_tail = 0
  BY <1>2 DEF Init, nlmsg_tail
<1>4. TypeOK
  <2>1. mem \in [Offsets -> Header \cup Values \cup {Zero, Rest}]
    BY DEF Init
  <2>2. len \in 1 - Align .. Size
    BY <1>1 DEF Init
  <2>3. open \in Seq(Offsets)
    BY DEF Init
  <2>4. bug \in BOOLEAN
    BY DEF Init
  <2>5. clipped \in BOOLEAN
    BY DEF Init
  <2> QED BY <2>1, <2>2, <2>3, <2>4, <2>5 DEF TypeOK
<1> QED
  BY <1>1, <1>3, <1>4 DEF Init, Layout, ContainersNested, ZeroBehind

LEMMA Shape ==
  ASSUME Layout
  PROVE  /\ Align \in Int /\ Align > 0 /\ Size \in Int
         /\ len \in Int /\ nlmsg_tail \in Int
         /\ len <= nlmsg_tail /\ nlmsg_tail < len + Align
         /\ 0 <= nlmsg_tail /\ nlmsg_tail <= Size
         /\ Aligned(nlmsg_tail) = nlmsg_tail /\ Multiple(nlmsg_tail)
         /\ mem \in [Offsets -> Byte] /\ open \in Seq(Offsets)
         /\ \A b \in Offsets : b \in Int
<1>1. /\ Align \in Int /\ Align > 0 /\ Size \in Int
      /\ \A b \in Offsets : b \in Int
  BY NlMessageAssumption DEF Offsets
<1>2. /\ len \in Int /\ mem \in [Offsets -> Byte] /\ open \in Seq(Offsets)
      /\ nlmsg_tail \in 0 .. Size
  BY <1>1 DEF Layout, TypeOK, Byte
<1>3. /\ nlmsg_tail \in Int /\ Multiple(nlmsg_tail)
      /\ len <= nlmsg_tail /\ nlmsg_tail < len + Align
  BY <1>2, Quotient DEF nlmsg_tail
<1>4. Aligned(nlmsg_tail) = nlmsg_tail
  BY <1>3, AlignedSame
<1> QED BY <1>1, <1>2, <1>3, <1>4

(* The innermost container, and those around it.                           *)
LEMMA FrontParts ==
  ASSUME Layout, open # <<>>
  PROVE  /\ Innermost \in Offsets /\ mem[Innermost] \in Header
         /\ Aligned(Innermost) = Innermost
         /\ Innermost + Align <= nlmsg_tail
         /\ Front(open) \in Seq(Offsets)
         /\ \A i \in DOMAIN Front(open) :
              /\ i \in DOMAIN open /\ Front(open)[i] = open[i]
              /\ open[i] + Align <= Innermost
<1>1. open \in Seq(Offsets)
  BY Shape
<1>2. /\ Len(open) \in Nat /\ DOMAIN open = 1 .. Len(open)
      /\ Len(open) \in DOMAIN open
  BY <1>1
<1>3. Innermost = open[Len(open)]
  BY DEF Innermost, Last
<1>4. Front(open) \in Seq(Offsets) /\ DOMAIN Front(open) = 1 .. Len(open) - 1
      /\ \A i \in 1 .. Len(open) - 1 : Front(open)[i] = open[i]
  BY <1>1, <1>2 DEF Front
<1>5. \A i \in 1 .. Len(open) - 1 : i \in DOMAIN open /\ i < Len(open)
  BY <1>2
<1>6. open[Len(open)] \in Offsets
  BY <1>1, <1>2
<1> QED BY <1>2, <1>3, <1>4, <1>5, <1>6 DEF Layout, ContainersNested

(* What is written behind the end of the message disturbs no container.    *)
LEMMA NestedStays ==
  ASSUME Layout, UNCHANGED open, nlmsg_tail' \in Int, nlmsg_tail <= nlmsg_tail',
         \A b \in Offsets : b < nlmsg_tail => mem'[b] = mem[b]
  PROVE  ContainersNested'
<1>1. ASSUME NEW i \in DOMAIN open
      PROVE  /\ open[i] < nlmsg_tail /\ open[i] + Align <= nlmsg_tail'
             /\ open[i] \in Offsets
  <2>1. open[i] \in Offsets /\ open[i] + Align <= nlmsg_tail
    BY Shape DEF Layout, ContainersNested
  <2> QED BY <2>1, Shape
<1> QED BY <1>1 DEF Layout, ContainersNested

LEMMA ReserveKeeps ==
  ASSUME Layout, NEW t \in Types, NEW nested \in BOOLEAN, NEW n \in Nat,
         NEW v \in Values \cup {Zero}, Reserve(t, nested, n, v), UNCHANGED bug
  PROVE  /\ len' \in 0 .. Size /\ nlmsg_tail' = len'
         /\ nlmsg_tail + Align <= len'
         /\ mem' \in [Offsets -> Byte]
         /\ \A b \in Offsets : b < nlmsg_tail => mem'[b] = mem[b]
         /\ \A b \in Offsets : b >= len' => mem'[b] = Zero
         /\ nlmsg_tail \in Offsets
         /\ n = 0 =>
              /\ mem'[nlmsg_tail] \in Header
              /\ mem'[nlmsg_tail].nla_type = t /\ mem'[nlmsg_tail].nested = nested
         /\ nla_attr_size(n) <= MaxLen =>
              mem'[nlmsg_tail] =
                [nla_len |-> nla_attr_size(n), nla_type |-> t, nested |-> nested]
         /\ \A b \in Offsets :
              nlmsg_tail + Align <= b /\ b < nlmsg_tail + Align + n => mem'[b] = v
         /\ len' = nlmsg_tail + nla_total_size(n)
         /\ clipped' = FALSE /\ bug' = FALSE
<1> DEFINE tail == nlmsg_tail
           total == nla_total_size(n)
           w == WithAttr(t, nested, n, v)
<1>1. /\ tail \in Int /\ 0 <= tail /\ tail \in Nat
      /\ Multiple(tail) /\ mem \in [Offsets -> Byte]
      /\ \A b \in Offsets : b \in Int
  BY Shape
<1>2. total \in Int /\ Multiple(total) /\ Align <= total /\ Align \in Int /\ Align > 0
  BY RoomNeeded, NlMessageAssumption
<1>3. /\ tail + total <= Size /\ len' = tail + total /\ mem' = w
      /\ clipped' = FALSE /\ bug' = FALSE
  BY DEF Reserve, Layout
<1>4. /\ w \in [Offsets -> Byte]
      /\ \A b \in Offsets : b < tail \/ tail + total <= b => w[b] = mem[b]
      /\ tail \in Offsets
      /\ n = 0 =>
           /\ w[tail] \in Header /\ w[tail].nla_type = t /\ w[tail].nested = nested
      /\ nla_attr_size(n) <= MaxLen =>
           w[tail] = [nla_len |-> nla_attr_size(n), nla_type |-> t, nested |-> nested]
      /\ \A b \in Offsets :
           tail + Align <= b /\ b < tail + Align + n => w[b] = v
  BY <1>1, <1>3, AttrWritten
<1>5. \A b \in Offsets : tail <= b => mem[b] = Zero
  BY <1>1 DEF Layout
<1> HIDE DEF tail, total, w
<1>6. len' \in 0 .. Size /\ tail + Align <= len' /\ tail + total \in Int
  BY <1>1, <1>2, <1>3, NlMessageAssumption
<1>7. nlmsg_tail' = len'
  <2>1. Aligned(tail + total) = tail + total
    BY <1>1, <1>2, <1>6, MultipleSum, AlignedSame
  <2> QED BY <1>3, <2>1 DEF nlmsg_tail
<1>8. \A b \in Offsets : b >= len' => mem'[b] = Zero
  BY <1>1, <1>2, <1>3, <1>4, <1>5
<1> QED BY <1>3, <1>4, <1>6, <1>7, <1>8 DEF tail, total

(* An attribute is put.                                                    *)
LEMMA PutKeeps ==
  ASSUME Layout, NEW t \in Types, NEW n \in Lens, NEW v \in Values, nla_put(t, n, v)
  PROVE  Layout'
<1>1. /\ Reserve(t, FALSE, n, v) /\ UNCHANGED <<open, bug>>
      /\ n \in Nat /\ v \in Values \cup {Zero}
  BY NlMessageAssumption DEF nla_put
<1>2. /\ len' \in 0 .. Size /\ nlmsg_tail' = len'
      /\ nlmsg_tail + Align <= len'
      /\ mem' \in [Offsets -> Byte]
      /\ \A b \in Offsets : b < nlmsg_tail => mem'[b] = mem[b]
      /\ \A b \in Offsets : b >= len' => mem'[b] = Zero
      /\ clipped' = FALSE /\ bug' = FALSE
  BY <1>1, ReserveKeeps
<1>3. TypeOK'
  <2>1. len' \in 1 - Align .. Size
    BY <1>2, Shape
  <2> QED BY <1>1, <1>2, <2>1 DEF Layout, TypeOK, Byte
<1>4. ContainersNested'
  <2>1. nlmsg_tail' \in Int /\ nlmsg_tail <= nlmsg_tail'
    BY <1>2, Shape
  <2> QED BY <1>1, <1>2, <2>1, NestedStays
<1> QED BY <1>2, <1>3, <1>4 DEF Layout, ZeroBehind

(* A container is started.                                                 *)
LEMMA NestStartKeeps ==
  ASSUME Layout, NEW t \in Types, nla_nest_start(t)
  PROVE  Layout'
<1>1. /\ Reserve(t, TRUE, 0, Zero) /\ UNCHANGED bug
      /\ open' = Append(open, nlmsg_tail)
  BY DEF nla_nest_start
<1>2. /\ len' \in 0 .. Size /\ nlmsg_tail' = len'
      /\ nlmsg_tail + Align <= len'
      /\ mem' \in [Offsets -> Byte]
      /\ \A b \in Offsets : b < nlmsg_tail => mem'[b] = mem[b]
      /\ \A b \in Offsets : b >= len' => mem'[b] = Zero
      /\ nlmsg_tail \in Offsets /\ mem'[nlmsg_tail] \in Header
      /\ clipped' = FALSE /\ bug' = FALSE
  BY <1>1, ReserveKeeps
<1>3. /\ open' \in Seq(Offsets) /\ Len(open) \in Nat
      /\ DOMAIN open' = 1 .. Len(open) + 1 /\ DOMAIN open = 1 .. Len(open)
      /\ open'[Len(open) + 1] = nlmsg_tail
      /\ \A i \in DOMAIN open : open'[i] = open[i]
  BY <1>1, <1>2, Shape
<1>4. TypeOK'
  <2>1. len' \in 1 - Align .. Size
    BY <1>2, Shape
  <2> QED BY <1>2, <1>3, <2>1 DEF TypeOK, Byte
<1>5. ASSUME NEW i \in DOMAIN open
      PROVE  /\ Aligned(open'[i]) = open'[i]
             /\ mem'[open'[i]] \in Header
             /\ open'[i] + Align <= nlmsg_tail /\ open'[i] + Align <= nlmsg_tail'
             /\ \A j \in DOMAIN open : i < j => open'[i] + Align <= open'[j]
  <2>1. /\ Aligned(open[i]) = open[i] /\ mem[open[i]] \in Header
        /\ open[i] + Align <= nlmsg_tail /\ open[i] \in Offsets
        /\ \A j \in DOMAIN open : i < j => open[i] + Align <= open[j]
    BY Shape DEF Layout, ContainersNested
  <2>2. open[i] < nlmsg_tail /\ open[i] + Align <= len'
    BY <1>2, <2>1, Shape
  <2> QED BY <1>2, <1>3, <2>1, <2>2
<1>6. ContainersNested'
  <2>1. \A i \in DOMAIN open' : i \in DOMAIN open \/ i = Len(open) + 1
    BY <1>3
  <2>2. \A i \in DOMAIN open' : ~ (Len(open) + 1 < i)
    BY <1>3
  <2>3. Aligned(nlmsg_tail) = nlmsg_tail /\ nlmsg_tail + Align <= nlmsg_tail'
    BY <1>2, Shape
  <2> QED BY <1>2, <1>3, <1>5, <2>1, <2>2, <2>3 DEF ContainersNested
<1> QED BY <1>2, <1>4, <1>6 DEF Layout, ZeroBehind

(* The structure a container begins with is appended.                      *)
LEMMA AppendKeeps ==
  ASSUME Layout, NEW v \in Values, nlmsg_append(v)
  PROVE  Layout'
<1> DEFINE n == RawLen[mem[Innermost].nla_type]
<1>1. /\ open # <<>> /\ len = Innermost + Align /\ len + n <= Size
      /\ mem' = Fill(mem, len, n, v) /\ len' = len + n
      /\ UNCHANGED <<open, bug, clipped>>
  BY DEF nlmsg_append, StructureNext
<1>2. n \in Nat
  BY <1>1, FrontParts, NlMessageAssumption DEF Header
<1> HIDE DEF n
<1>3. nlmsg_tail = len /\ clipped = FALSE
  <2>1. Aligned(Innermost + Align) = Innermost + Align
    <3>1. Innermost \in Int /\ Multiple(Innermost) /\ Align \in Int
      BY <1>1, FrontParts, Shape, AlignedSame
    <3>2. Multiple(Innermost + Align) /\ Innermost + Align \in Int
      BY <3>1, MultipleConstants, MultipleSum
    <3> QED BY <3>2, AlignedSame
  <2>2. nlmsg_tail = len
    BY <1>1, <2>1 DEF nlmsg_tail
  <2> QED BY <2>2, Shape DEF Layout, TypeOK
<1>4. /\ mem' \in [Offsets -> Byte]
      /\ \A b \in Offsets :
           mem'[b] = IF len <= b /\ b < len + n THEN v ELSE mem[b]
  <2>1. v \in Byte /\ mem \in [Offsets -> Byte] /\ len \in Int /\ n \in Int
    BY <1>2, Shape DEF Byte
  <2> QED BY <1>1, <2>1, FillProperties
<1>5. len' \in Int /\ len <= len' /\ len' \in 1 - Align .. Size
  <2>1. len \in 1 - Align .. Size
    BY DEF Layout, TypeOK
  <2> QED BY <1>1, <1>2, <2>1, Shape
<1>6. /\ nlmsg_tail' \in Int /\ nlmsg_tail <= nlmsg_tail' /\ len' <= nlmsg_tail'
      /\ nlmsg_tail' \in 0 .. Size
  <2>1. Aligned(len') \in Int /\ len' <= Aligned(len') /\ Aligned(len') <= Size
    BY <1>5, Quotient, AlignedLeast, MultipleConstants, Shape
  <2>2. nlmsg_tail' = Aligned(len')
    BY DEF nlmsg_tail
  <2> QED BY <1>3, <1>5, <2>1, <2>2, Shape
<1>7. TypeOK'
  BY <1>1, <1>4, <1>5 DEF Layout, TypeOK, Byte
<1>8. ContainersNested'
  <2>1. \A b \in Offsets : b < nlmsg_tail => mem'[b] = mem[b]
    BY <1>3, <1>4, Shape
  <2> QED BY <1>1, <1>6, <2>1, NestedStays
<1>9. \A b \in Offsets : b >= len' => mem'[b] = Zero
  <2>1. \A b \in Offsets : b >= len => mem[b] = Zero
    BY <1>3 DEF Layout
  <2>2. \A b \in Offsets : b >= len' => b >= len /\ ~ (b < len + n)
    BY <1>1, <1>5, Shape
  <2> QED BY <1>4, <2>1, <2>2
<1>10. \A b \in Offsets : b >= nlmsg_tail' => mem'[b] = Zero
  BY <1>5, <1>6, <1>9, Shape
<1> QED
  BY <1>1, <1>3, <1>6, <1>7, <1>8, <1>9, <1>10 DEF Layout, ZeroBehind

LEMMA Comparison ==
  ASSUME NEW a \in Int, NEW b \in Int, NEW c, c = (a < b)
  PROVE  c \in BOOLEAN /\ (c <=> a < b)
<1>1. c \in BOOLEAN
  OBVIOUS
<1>2. c <=> a < b
  OBVIOUS
<1> QED BY <1>1, <1>2

(* A container is cancelled, or dropped when it is ended.                  *)
LEMMA CancelWrites ==
  ASSUME Layout, open # <<>>, Cancel, NEW o, o = Innermost
  PROVE  /\ o \in Offsets /\ o \in Int /\ o + Align <= nlmsg_tail
         /\ nlmsg_tail' = o
         /\ len' \in 1 - Align .. Size /\ len' \in Int /\ len' <= o
         /\ clipped' \in BOOLEAN /\ (clipped' <=> len' < o)
         /\ open' = Front(open) /\ UNCHANGED bug
         /\ mem' \in [Offsets -> Byte]
         /\ \A b \in Offsets : b < o => mem'[b] = mem[b]
         /\ \A b \in Offsets : b >= o => mem'[b] = Zero
<1> DEFINE n == nlmsg_tail - o
<1>1. /\ len' = len - n /\ mem' = Fill(mem, Aligned(len - n), n, Zero)
      /\ clipped' = (len - n < o)
      /\ open' = Front(open) /\ UNCHANGED bug
  BY DEF Cancel
<1>2. /\ o \in Offsets /\ o \in Int /\ Aligned(o) = o /\ o + Align <= nlmsg_tail
      /\ 0 <= o /\ o <= Size
  BY FrontParts, Shape DEF Offsets
<1>3. /\ len - n \in Int /\ n \in Int /\ 0 <= n /\ o + n = nlmsg_tail
      /\ len - n <= o /\ o < (len - n) + Align
      /\ len - n \in 1 - Align .. Size
      /\ Align \in Int /\ Align > 0 /\ \A b \in Offsets : b \in Int
  BY <1>2, Shape
<1>4. Aligned(len - n) = o
  BY <1>2, <1>3, AlignedUp
<1> HIDE DEF n
<1>5. clipped' \in BOOLEAN /\ (clipped' <=> len - n < o)
  <2>1. clipped' = (len - n < o) /\ len - n \in Int /\ o \in Int
    BY <1>1, <1>2, <1>3, Zenon
  <2> QED BY <2>1, Comparison, Zenon
<1>6. nlmsg_tail' = o
  BY <1>1, <1>4 DEF nlmsg_tail
<1>7. /\ mem' \in [Offsets -> Byte]
      /\ \A b \in Offsets :
           mem'[b] = IF o <= b /\ b < nlmsg_tail THEN Zero ELSE mem[b]
  <2>1. Zero \in Byte /\ mem \in [Offsets -> Byte]
    BY Shape DEF Byte
  <2> QED BY <1>1, <1>2, <1>3, <1>4, <2>1, FillProperties
<1>8. \A b \in Offsets : b >= o => mem'[b] = Zero
  <2>1. \A b \in Offsets : b >= nlmsg_tail => mem[b] = Zero
    BY DEF Layout
  <2> QED BY <1>2, <1>7, <2>1, Shape
<1>9. \A b \in Offsets : b < o => mem'[b] = mem[b]
  BY <1>2, <1>7, Shape
<1> QED BY <1>1, <1>2, <1>3, <1>5, <1>6, <1>7, <1>8, <1>9

LEMMA CancelKeeps ==
  ASSUME Layout, open # <<>>, Cancel
  PROVE  Layout'
<1> SUFFICES ASSUME NEW o, o = Innermost
             PROVE  Layout'
  OBVIOUS
<1>1. /\ o \in Offsets /\ o \in Int /\ o + Align <= nlmsg_tail
      /\ nlmsg_tail' = o
      /\ len' \in 1 - Align .. Size /\ len' \in Int /\ len' <= o
      /\ clipped' \in BOOLEAN /\ (clipped' <=> len' < o)
      /\ open' = Front(open) /\ UNCHANGED bug
      /\ mem' \in [Offsets -> Byte]
      /\ \A b \in Offsets : b < o => mem'[b] = mem[b]
      /\ \A b \in Offsets : b >= o => mem'[b] = Zero
  BY CancelWrites
<1>2. TypeOK'
  BY <1>1, FrontParts DEF Layout, TypeOK, Byte
<1>3. ContainersNested'
  <2>1. ASSUME NEW i \in DOMAIN open'
        PROVE  /\ i \in DOMAIN open /\ open'[i] = open[i] /\ open[i] \in Offsets
               /\ open[i] + Align <= o /\ open[i] < o
               /\ mem'[open[i]] = mem[open[i]]
    <3>1. i \in DOMAIN open /\ open'[i] = open[i] /\ open[i] + Align <= o
      BY <1>1, FrontParts
    <3>2. open[i] \in Offsets /\ open[i] \in Int
      BY <3>1, Shape
    <3>3. open[i] < o
      BY <1>1, <3>1, <3>2, Shape
    <3> QED BY <1>1, <3>1, <3>2, <3>3
  <2> QED BY <1>1, <2>1 DEF Layout, ContainersNested
<1>4. ZeroBehind'
  BY <1>1 DEF ZeroBehind
<1>5. nlmsg_tail' \in 0 .. Size /\ ~ bug'
  BY <1>1, NlMessageAssumption DEF Layout, Offsets
<1> QED
  BY <1>1, <1>2, <1>3, <1>4, <1>5 DEF Layout

(* A container is ended.                                                   *)
LEMMA NestEndKeeps ==
  ASSUME Layout, NEW keep_empty \in BOOLEAN, nest_end(keep_empty)
  PROVE  Layout'
<1> DEFINE o == Innermost
           n == nlmsg_tail - o
           c == n % (MaxLen + 1)
<1>1. open # <<>>
  BY DEF nest_end
<1>2. CASE Cancel
  BY <1>1, <1>2, CancelKeeps
<1>3. CASE ~ Cancel
  <2>1. /\ mem' = [mem EXCEPT ![o].nla_len = c] /\ Pad
        /\ open' = Front(open) /\ clipped' = FALSE
    BY <1>3 DEF nest_end
  <2>2. /\ o \in Offsets /\ o \in Int /\ mem[o] \in Header
        /\ o + Align <= nlmsg_tail /\ 0 <= o
    BY <1>1, FrontParts, Shape DEF Offsets
  <2>3. c \in 0 .. MaxLen
    <3>1. n \in Nat /\ MaxLen + 1 \in Int /\ MaxLen + 1 > 0 /\ (MaxLen + 1) - 1 = MaxLen
      BY <2>2, Shape, NlMessageAssumption
    <3> HIDE DEF n
    <3> QED BY <3>1, Remainder
  <2>4. len' = nlmsg_tail /\ UNCHANGED bug
    BY <2>1, Shape DEF Pad
  <2>5. nlmsg_tail' = nlmsg_tail
    BY <2>4, Shape DEF nlmsg_tail
  <2> HIDE DEF o, n, c
  <2>6. /\ mem' \in [Offsets -> Byte] /\ mem'[o] \in Header
        /\ \A b \in Offsets : b # o => mem'[b] = mem[b]
    <3>1. [mem[o] EXCEPT !.nla_len = c] \in Header
      BY <2>2, <2>3 DEF Header
    <3>2. mem \in [Offsets -> Byte]
      BY Shape
    <3> QED BY <2>1, <2>2, <3>1, <3>2 DEF Byte
  <2>7. TypeOK'
    <3>1. len' \in 1 - Align .. Size
      BY <2>4, Shape
    <3> QED BY <1>1, <2>1, <2>4, <2>6, <3>1, FrontParts DEF Layout, TypeOK, Byte
  <2>8. ContainersNested'
    <3>1. ASSUME NEW i \in DOMAIN open'
          PROVE  /\ i \in DOMAIN open /\ open'[i] = open[i] /\ open[i] \in Offsets
                 /\ open[i] # o
      <4>1. i \in DOMAIN open /\ open'[i] = open[i] /\ open[i] + Align <= o
        BY <1>1, <2>1, FrontParts DEF o
      <4>2. open[i] \in Offsets
        BY <4>1, Shape
      <4> QED BY <2>2, <4>1, <4>2, Shape
    <3> QED BY <2>5, <2>6, <3>1 DEF Layout, ContainersNested
  <2>9. \A b \in Offsets : b >= nlmsg_tail => mem'[b] = Zero
    <3>1. \A b \in Offsets : b >= nlmsg_tail => b # o /\ mem[b] = Zero
      BY <2>2, Shape DEF Layout
    <3> QED BY <2>6, <3>1
  <2> QED
    BY <2>1, <2>4, <2>5, <2>7, <2>8, <2>9 DEF Layout, ZeroBehind
<1> QED BY <1>2, <1>3

LEMMA LayoutStep == ASSUME Layout, [Next]_vars PROVE Layout'
<1>1. CASE Renew
  <2>1. Init'
    BY <1>1 DEF Renew, Init, Layout
  <2> QED BY <2>1, LayoutInit, PTL
<1>2. CASE UNCHANGED vars
  BY <1>2 DEF vars, Layout, TypeOK, ContainersNested, ZeroBehind, nlmsg_tail
<1> QED
  BY <1>1, <1>2, PutKeeps, NestStartKeeps, AppendKeeps, NestEndKeeps, CancelKeeps
     DEF Next, nla_nest_cancel

-----------------------------------------------------------------------------
(* Whatever is put, started, ended and cancelled, the containers lie one   *)
(* in the other and the buffer is zero behind the end of the message.      *)
THEOREM BufferInOrder == Spec => []Layout
BY LayoutInit, LayoutStep, PTL DEF Spec

(* The length stays within the buffer, and so does every byte written.     *)
THEOREM TypeCorrect == Spec => []TypeOK
<1>1. Layout => TypeOK
  BY DEF Layout
<1> QED BY <1>1, BufferInOrder, PTL

(* The padding a container's end leaves unwritten is zero.                 *)
THEOREM PaddingIsZero == Spec => []ZeroBehind
<1>1. Layout => ZeroBehind
  BY DEF Layout
<1> QED BY <1>1, BufferInOrder, PTL

(* nlmsg_reserve has room for the padding of every container: BUG() in     *)
(* _nest_end is not reached.                                               *)
THEOREM PaddingHasRoom == Spec => []PaddingFits
<1>1. Layout => PaddingFits
  BY DEF Layout, PaddingFits
<1> QED BY <1>1, BufferInOrder, PTL

-----------------------------------------------------------------------------
(* Attributes and their places.                                            *)

LEMMA MultipleDifference ==
  ASSUME NEW x, NEW y, Multiple(x), Multiple(y)
  PROVE  Multiple(x - y)
<1>1. Align \in Int
  BY NlMessageAssumption
<1>2. PICK i \in Int : x = i * Align
  BY DEF Multiple
<1>3. PICK k \in Int : y = k * Align
  BY DEF Multiple
<1>4. x - y = (i - k) * Align
  BY <1>1, <1>2, <1>3
<1> QED BY <1>4 DEF Multiple

LEMMA MultipleInt == ASSUME NEW x, Multiple(x) PROVE x \in Int
BY NlMessageAssumption DEF Multiple

(* Behind a header comes the payload, padded as if it began at 0.          *)
LEMMA AlignedBehindHeader ==
  ASSUME NEW n \in Nat
  PROVE  Align + Aligned(n) <= Aligned(Align + n)
<1>1. Align \in Int /\ n \in Int /\ Align + n \in Int
  BY NlMessageAssumption
<1>2. /\ Aligned(Align + n) \in Int /\ Multiple(Aligned(Align + n))
      /\ Align + n <= Aligned(Align + n) /\ Aligned(n) \in Int
  BY <1>1, Quotient
<1>3. /\ Multiple(Aligned(Align + n) - Align) /\ Aligned(Align + n) - Align \in Int
      /\ n <= Aligned(Align + n) - Align
  BY <1>1, <1>2, MultipleDifference, MultipleConstants
<1>4. Aligned(n) <= Aligned(Align + n) - Align
  BY <1>1, <1>3, AlignedLeast
<1> QED BY <1>1, <1>2, <1>4

LEMMA Place ==
  ASSUME Layout, PartsInv, NEW s \in DOMAIN attrs
  PROVE  /\ s \in Offsets /\ s \in Int /\ 0 <= s /\ s # Message
         /\ Multiple(s) /\ s < nlmsg_tail /\ s + Align <= nlmsg_tail
         /\ attrs[s].size \in Nat /\ attrs[s].data \in Nat
         /\ attrs[s].parent \in Levels /\ attrs[s].parent \in Int
         /\ attrs[s].parent < s
         /\ Following(s) \in Int /\ Multiple(Following(s))
         /\ s + attrs[s].size <= Following(s) /\ s + Align <= Following(s)
         /\ First(s) = s + Align + Aligned(attrs[s].data)
         /\ First(s) \in Int /\ Multiple(First(s))
         /\ s + Align + attrs[s].data <= First(s) /\ s + Align <= First(s)
<1>1. /\ Align \in Int /\ Align > 0 /\ nlmsg_tail \in Int /\ Multiple(nlmsg_tail)
      /\ \A b \in Offsets : b \in Int /\ 0 <= b
  BY Shape DEF Offsets
<1>2. /\ s \in Offsets /\ attrs[s].size \in Nat /\ attrs[s].data \in Nat
      /\ attrs[s].parent \in Offsets \cup {Message}
  BY DEF PartsInv, PartsTypeOK
<1>3. s \in Int /\ 0 <= s /\ Message \in Int /\ s # Message
  BY <1>1, <1>2 DEF Message
<1>4. /\ attrs[s].parent \in Levels /\ attrs[s].parent < s
      /\ Aligned(s) = s /\ s < nlmsg_tail /\ Align <= attrs[s].size
  BY DEF PartsInv, PartsNested
<1>5. attrs[s].parent \in Int
  BY <1>1, <1>2, <1>3
<1>6. Multiple(s) /\ s + Align <= nlmsg_tail
  <2>1. Multiple(s)
    BY <1>3, <1>4, AlignedSame
  <2> QED BY <1>1, <1>3, <1>4, <2>1, MultiplesApart
<1>7. /\ Following(s) \in Int /\ Multiple(Following(s))
      /\ s + attrs[s].size <= Following(s)
  <2> DEFINE z == attrs[s].size
  <2>1. z \in Int /\ Aligned(z) \in Int /\ Multiple(Aligned(z)) /\ z <= Aligned(z)
    BY <1>2, Quotient
  <2>2. Following(s) = s + Aligned(z)
    BY DEF Following
  <2> HIDE DEF z
  <2>3. Multiple(s + Aligned(z)) /\ s + Aligned(z) \in Int /\ s + z <= s + Aligned(z)
    BY <1>3, <1>6, <2>1, MultipleSum
  <2> QED BY <2>2, <2>3 DEF z
<1>8. s + Align <= Following(s)
  BY <1>1, <1>2, <1>3, <1>4, <1>7
<1>9. /\ First(s) = s + Align + Aligned(attrs[s].data)
      /\ First(s) \in Int /\ Multiple(First(s))
      /\ s + Align + attrs[s].data <= First(s) /\ s + Align <= First(s)
  <2> DEFINE d == attrs[s].data
  <2>1. d \in Nat /\ Aligned(d) \in Int /\ Multiple(Aligned(d)) /\ d <= Aligned(d)
    BY <1>2, Quotient
  <2>2. First(s) = s + Align + Aligned(d)
    BY <1>3 DEF First
  <2> HIDE DEF d
  <2>3. Multiple(s + Align + Aligned(d))
    BY <1>6, <2>1, MultipleConstants, MultipleSum
  <2>4. /\ s + Align + Aligned(d) \in Int
        /\ s + Align + d <= s + Align + Aligned(d)
        /\ s + Align <= s + Align + Aligned(d)
    BY <1>1, <1>3, <2>1
  <2> QED BY <2>2, <2>3, <2>4 DEF d
<1> QED BY <1>2, <1>3, <1>4, <1>5, <1>6, <1>7, <1>8, <1>9

(* What is open, and in what.                                              *)
LEMMA OpenPlace ==
  ASSUME Layout, PartsInv, NEW s, IsOpen(s)
  PROVE  /\ s \in DOMAIN attrs /\ attrs[s].nested /\ s \in Levels
         /\ open # <<>> /\ s <= Innermost
         /\ attrs[s].parent = Message \/ IsOpen(attrs[s].parent)
         /\ First(s) <= nlmsg_tail
         /\ \A r : IsOpen(r) /\ attrs[r].parent = attrs[s].parent => r = s
<1>1. PICK i \in DOMAIN open : open[i] = s
  BY DEF IsOpen
<1>2. /\ open \in Seq(Offsets) /\ Len(open) \in Nat /\ DOMAIN open = 1 .. Len(open)
      /\ Align \in Int /\ Align > 0 /\ \A b \in Offsets : b \in Int /\ b # Message
  BY Shape DEF Message, Offsets
<1>3. \A k \in DOMAIN open :
        /\ open[k] \in DOMAIN attrs /\ attrs[open[k]].nested
        /\ attrs[open[k]].parent = IF k = 1 THEN Message ELSE open[k - 1]
        /\ First(open[k]) <= nlmsg_tail
  BY DEF PartsInv, OpenParts
<1>4. \A k, m \in DOMAIN open : k < m => open[k] < open[m]
  <2>1. \A k, m \in DOMAIN open : k < m => open[k] + Align <= open[m]
    BY DEF Layout, ContainersNested
  <2>2. \A k \in DOMAIN open : open[k] \in Int
    BY <1>2
  <2> QED BY <1>2, <2>1, <2>2
<1>5. s <= Innermost
  <2>1. Len(open) \in DOMAIN open /\ Innermost = open[Len(open)]
    BY <1>1, <1>2 DEF Innermost, Last
  <2>2. open[i] \in Int /\ open[Len(open)] \in Int
    BY <1>1, <1>2, <2>1
  <2>3. i = Len(open) \/ i < Len(open)
    BY <1>1, <1>2
  <2> QED BY <1>1, <1>4, <2>1, <2>2, <2>3
<1>6. attrs[s].parent = Message \/ IsOpen(attrs[s].parent)
  <2>1. i = 1 \/ i - 1 \in DOMAIN open
    BY <1>1, <1>2
  <2> QED BY <1>1, <1>3, <2>1 DEF IsOpen
<1>7. ASSUME NEW r, IsOpen(r), attrs[r].parent = attrs[s].parent PROVE r = s
  <2>1. PICK k \in DOMAIN open : open[k] = r
    BY <1>7 DEF IsOpen
  <2>2. \A m \in DOMAIN open : m # 1 => m - 1 \in DOMAIN open /\ open[m - 1] # Message
    BY <1>2
  <2>3. i = 1 <=> k = 1
    BY <1>1, <1>3, <1>7, <2>1, <2>2
  <2>4. CASE i = 1
    BY <1>1, <2>1, <2>3, <2>4
  <2>5. CASE i # 1
    <3>1. /\ i - 1 \in DOMAIN open /\ k - 1 \in DOMAIN open
          /\ open[i - 1] = open[k - 1]
      BY <1>1, <1>3, <1>7, <2>1, <2>2, <2>3, <2>5
    <3>2. ~ (i - 1 < k - 1) /\ ~ (k - 1 < i - 1)
      <4>1. open[i - 1] \in Int /\ open[k - 1] \in Int
        BY <1>2, <3>1
      <4> QED BY <1>4, <3>1, <4>1
    <3>3. i \in Int /\ k \in Int
      BY <1>2
    <3> QED BY <1>1, <2>1, <3>2, <3>3
  <2> QED BY <2>4, <2>5
<1> QED BY <1>1, <1>3, <1>5, <1>6, <1>7 DEF Levels

(* The level at which the next attribute is put.                           *)
LEMMA CurrentLevel ==
  ASSUME Layout, PartsInv
  PROVE  /\ Current \in Levels /\ Current \in Int /\ Current < nlmsg_tail
         /\ First(Current) <= nlmsg_tail
         /\ Current # Message => IsOpen(Current) /\ open # <<>> /\ Current = Innermost
         /\ Current = Message => open = <<>>
         /\ \A s : IsOpen(s) => s <= Current /\ s \in DOMAIN attrs /\ s # nlmsg_tail
<1>1. CASE open = <<>>
  <2>1. Current = Message /\ Message \in Int /\ Message < nlmsg_tail
    BY <1>1, Shape DEF Current, Message
  <2>2. First(Message) = 0 /\ 0 <= nlmsg_tail
    BY Shape DEF First
  <2>3. \A s : ~ IsOpen(s)
    BY <1>1 DEF IsOpen
  <2> QED BY <1>1, <2>1, <2>2, <2>3 DEF Levels
<1>2. CASE open # <<>>
  <2>1. Current = Innermost
    BY <1>2 DEF Current
  <2>2. IsOpen(Innermost)
    <3>1. Len(open) \in DOMAIN open
      BY <1>2, Shape
    <3> QED BY <3>1 DEF IsOpen, Innermost, Last
  <2>3. /\ Innermost \in DOMAIN attrs /\ Innermost \in Levels
        /\ First(Innermost) <= nlmsg_tail
    BY <2>2, OpenPlace
  <2>4. Innermost \in Int /\ Innermost < nlmsg_tail /\ Innermost # Message
    BY <2>3, Place
  <2>5. \A s : IsOpen(s) => s <= Innermost /\ s \in DOMAIN attrs /\ s # nlmsg_tail
    <3>1. ASSUME NEW s, IsOpen(s)
          PROVE  s <= Innermost /\ s \in DOMAIN attrs /\ s # nlmsg_tail
      <4>1. s <= Innermost /\ s \in DOMAIN attrs
        BY <3>1, OpenPlace
      <4> QED BY <4>1, Place, Shape
    <3> QED BY <3>1
  <2> QED BY <1>2, <2>1, <2>2, <2>3, <2>4, <2>5
<1> QED BY <1>1, <1>2

(* Everything lies before the end of the message.                          *)
LEMMA PartsBelow ==
  ASSUME Layout, PartsInv, NEW s \in DOMAIN attrs
  PROVE  First(s) <= nlmsg_tail /\ s + Align + attrs[s].data <= nlmsg_tail
<1>1. /\ First(s) \in Int /\ s + Align + attrs[s].data <= First(s)
      /\ s \in Int /\ attrs[s].data \in Nat /\ Following(s) \in Int
      /\ Align \in Int /\ nlmsg_tail \in Int
  BY Place, Shape
<1>2. CASE IsOpen(s)
  BY <1>1, <1>2, OpenPlace
<1>3. CASE ~ IsOpen(s)
  <2>1. First(s) <= Following(s) /\ Following(s) <= nlmsg_tail
    BY <1>3 DEF PartsInv, PartsEnd, Ended
  <2> QED BY <1>1, <2>1
<1> QED BY <1>2, <1>3

-----------------------------------------------------------------------------
(* Attributes are added.                                                   *)

(* The step adds attribute a, in container c, and leaves the others alone. *)
AttributeAdded(a, c, t, nested, n, v) ==
  /\ DOMAIN attrs' = DOMAIN attrs \cup {a}
  /\ a \notin DOMAIN attrs /\ ~ IsOpen(a)
  /\ \A s \in DOMAIN attrs : attrs'[s] = attrs[s]
  /\ attrs'[a].parent = c /\ attrs'[a].type = t /\ attrs'[a].nested = nested
  /\ attrs'[a].size = Align + n /\ attrs'[a].data = n /\ attrs'[a].fill = v
  /\ PartsTypeOK'
  /\ \A p : Kids(p)' = IF p = c THEN Kids(p) \cup {a} ELSE Kids(p)
  /\ \A s \in DOMAIN attrs : Following(s)' = Following(s)
  /\ \A p \in Levels : First(p)' = First(p)
  /\ Following(a)' = a + nla_total_size(n)
  /\ First(a)' = a + Align + Aligned(n)

LEMMA Adding ==
  ASSUME Layout, PartsInv, NEW a \in Offsets, a = nlmsg_tail,
         NEW c, c = Current,
         NEW t \in Types, NEW nested \in BOOLEAN, NEW n \in Nat,
         NEW v \in Values \cup {Zero},
         attrs' = Added(t, nested, n, v)
  PROVE  AttributeAdded(a, c, t, nested, n, v)
<1>1. a \notin DOMAIN attrs
  <2>1. \A s \in DOMAIN attrs : s < a
    BY Place
  <2> QED BY <2>1, Shape
<1>2. /\ DOMAIN attrs' = DOMAIN attrs \cup {a}
      /\ \A s \in DOMAIN attrs : attrs'[s] = attrs[s]
      /\ attrs'[a] = [parent |-> c, type |-> t, nested |-> nested,
                      size |-> Align + n, data |-> n, fill |-> v]
  BY <1>1 DEF Added, nla_attr_size
<1>3. ~ IsOpen(a)
  BY CurrentLevel, Shape
<1>4. PartsTypeOK'
  <2>1. c \in Offsets \cup {Message}
    BY CurrentLevel DEF Levels, PartsInv, PartsTypeOK
  <2>2. Align + n \in Nat
    BY NlMessageAssumption
  <2>3. attrs'[a] \in [parent : Offsets \cup {Message}, type : Types,
                       nested : BOOLEAN, size : Nat, data : Nat,
                       fill : Values \cup {Zero}]
    BY <1>2, <2>1, <2>2
  <2> QED BY <1>2, <2>3 DEF PartsInv, PartsTypeOK
<1>5. \A p : Kids(p)' = IF p = c THEN Kids(p) \cup {a} ELSE Kids(p)
  <2>1. ASSUME NEW p
        PROVE  Kids(p)' = IF p = c THEN Kids(p) \cup {a} ELSE Kids(p)
    <3>1. Kids(p)' = {s \in DOMAIN attrs' : attrs'[s].parent = p}
      BY DEF Kids
    <3>2. attrs'[a].parent = c
      BY <1>2
    <3> QED BY <1>2, <3>1, <3>2 DEF Kids
  <2> QED BY <2>1
<1>6. \A s \in DOMAIN attrs : Following(s)' = Following(s)
  BY <1>2 DEF Following
<1>7. \A p \in Levels : First(p)' = First(p)
  BY <1>2 DEF First, Levels
<1>8. Following(a)' = a + nla_total_size(n)
  BY <1>2 DEF Following, nla_total_size, nla_attr_size
<1>9. First(a)' = a + Align + Aligned(n)
  <2>1. a # Message
    BY Shape DEF Message
  <2> QED BY <1>2, <2>1 DEF First
<1> QED
  BY <1>1, <1>2, <1>3, <1>4, <1>5, <1>6, <1>7, <1>8, <1>9 DEF AttributeAdded

(* What is written behind the end of the message changes nothing in it.    *)
LEMMA OldUnchanged ==
  ASSUME Layout, PartsInv, NEW s \in DOMAIN attrs,
         attrs'[s] = attrs[s], ~ IsOpen(s)' => ~ IsOpen(s),
         \A b \in Offsets : b < nlmsg_tail => mem'[b] = mem[b]
  PROVE  /\ Fits(s)' /\ ~ IsOpen(s)' => mem'[s] = HeaderOf(s)'
         /\ \A b \in Offsets :
              s + Align <= b /\ b < s + Align + attrs'[s].data =>
                mem'[b] = attrs'[s].fill
<1>1. s \in Offsets /\ s < nlmsg_tail
  BY Place
<1>2. Fits(s)' /\ ~ IsOpen(s)' => mem'[s] = HeaderOf(s)'
  <2>1. (Fits(s)' <=> Fits(s)) /\ HeaderOf(s)' = HeaderOf(s)
    BY DEF Fits, HeaderOf
  <2> QED BY <1>1, <2>1 DEF PartsInv, NothingChanged
<1>3. \A b \in Offsets : b < s + Align + attrs[s].data => b < nlmsg_tail
  BY Place, PartsBelow, Shape
<1> QED BY <1>2, <1>3 DEF PartsInv, NothingChanged

(* When the next attribute is put, every open container has its structure. *)
LEMMA OpenDone ==
  ASSUME Layout, PartsInv, ~ StructureNext,
         NEW i \in DOMAIN open, NEW o, o = open[i]
  PROVE  /\ o \in DOMAIN attrs /\ attrs[o].nested
         /\ attrs[o].parent = IF i = 1 THEN Message ELSE open[i - 1]
         /\ mem[o].nla_type = attrs[o].type /\ mem[o].nested
         /\ First(o) <= nlmsg_tail
         /\ attrs[o].data = RawLen[attrs[o].type]
         /\ RawLen[attrs[o].type] \in Nat
<1>1. /\ o \in DOMAIN attrs /\ attrs[o].nested
      /\ attrs[o].parent = IF i = 1 THEN Message ELSE open[i - 1]
      /\ mem[o].nla_type = attrs[o].type /\ mem[o].nested
      /\ First(o) <= nlmsg_tail
      /\ attrs[o].data \in {0, RawLen[attrs[o].type]}
      /\ attrs[o].data = 0 /\ RawLen[attrs[o].type] > 0 =>
           o = Innermost /\ len = o + Align
  BY DEF PartsInv, OpenParts
<1>2. ~ (attrs[o].data = 0 /\ RawLen[attrs[o].type] > 0)
  <2>1. SUFFICES ASSUME attrs[o].data = 0, RawLen[attrs[o].type] > 0
                 PROVE  StructureNext
    OBVIOUS
  <2>2. open # <<>>
    OBVIOUS
  <2> QED BY <1>1, <2>1, <2>2 DEF StructureNext
<1>3. RawLen[attrs[o].type] \in Nat
  BY <1>1, NlMessageAssumption DEF PartsInv, PartsTypeOK
<1> QED BY <1>1, <1>2, <1>3

LEMMA PutParts ==
  ASSUME Layout, PartsInv, NEW t \in Types, NEW n \in Lens, NEW v \in Values,
         Put(t, n, v)
  PROVE  PartsInv'
<1> SUFFICES ASSUME NEW a, a = nlmsg_tail, NEW c, c = Current
             PROVE  PartsInv'
  OBVIOUS
<1>1. /\ ~ StructureNext /\ Reserve(t, FALSE, n, v) /\ UNCHANGED <<open, bug>>
      /\ attrs' = Added(t, FALSE, n, v)
      /\ n \in Nat /\ v \in Values \cup {Zero}
  BY NlMessageAssumption DEF Put, nla_put
<1>2. /\ nlmsg_tail' = len' /\ a + Align <= len'
      /\ \A b \in Offsets : b < a => mem'[b] = mem[b]
      /\ a \in Offsets
      /\ \A b \in Offsets : a + Align <= b /\ b < a + Align + n => mem'[b] = v
      /\ len' = a + nla_total_size(n)
  <2>1. /\ Reserve(t, FALSE, n, v) /\ UNCHANGED bug /\ FALSE \in BOOLEAN
        /\ n \in Nat /\ v \in Values \cup {Zero}
    BY <1>1
  <2>2. /\ nlmsg_tail' = len' /\ nlmsg_tail + Align <= len'
        /\ \A b \in Offsets : b < nlmsg_tail => mem'[b] = mem[b]
        /\ nlmsg_tail \in Offsets
        /\ \A b \in Offsets :
             nlmsg_tail + Align <= b /\ b < nlmsg_tail + Align + n => mem'[b] = v
        /\ len' = nlmsg_tail + nla_total_size(n)
    BY <2>1, ReserveKeeps, Zenon
  <2> QED BY <2>2
<1>3. /\ DOMAIN attrs' = DOMAIN attrs \cup {a}
      /\ a \notin DOMAIN attrs /\ ~ IsOpen(a)
      /\ \A s \in DOMAIN attrs : attrs'[s] = attrs[s]
      /\ attrs'[a].parent = c /\ attrs'[a].type = t /\ attrs'[a].nested = FALSE
      /\ attrs'[a].size = Align + n /\ attrs'[a].data = n /\ attrs'[a].fill = v
      /\ PartsTypeOK'
      /\ \A p : Kids(p)' = IF p = c THEN Kids(p) \cup {a} ELSE Kids(p)
      /\ \A s \in DOMAIN attrs : Following(s)' = Following(s)
      /\ \A p \in Levels : First(p)' = First(p)
      /\ Following(a)' = a + nla_total_size(n)
      /\ First(a)' = a + Align + Aligned(n)
  <2>1. /\ a \in Offsets /\ FALSE \in BOOLEAN /\ n \in Nat /\ v \in Values \cup {Zero}
        /\ attrs' = Added(t, FALSE, n, v)
    BY <1>1, <1>2
  <2>2. AttributeAdded(a, c, t, FALSE, n, v)
    BY <2>1, Adding, Zenon
  <2> QED BY <2>2, Zenon DEF AttributeAdded
<1>4. /\ c \in Levels /\ c \in Int /\ c < a /\ First(c) <= a
      /\ c # Message => IsOpen(c)
      /\ \A s : IsOpen(s) => s <= c /\ s \in DOMAIN attrs
  BY CurrentLevel
<1>5. /\ a \in Int /\ Align \in Int /\ Align > 0 /\ Aligned(a) = a
      /\ Aligned(n) \in Int /\ nla_total_size(n) \in Int
      /\ Align + Aligned(n) <= nla_total_size(n) /\ a < nlmsg_tail'
      /\ nlmsg_tail' \in Int
  <2>1. nla_total_size(n) = Aligned(Align + n) /\ nla_total_size(n) \in Int
    BY <1>1, RoomNeeded DEF nla_total_size, nla_attr_size
  <2>2. Aligned(n) \in Int
    BY <1>1, Quotient
  <2>3. a \in Int /\ Align \in Int /\ Align > 0 /\ Aligned(a) = a
    BY Shape
  <2>4. Align + Aligned(n) <= nla_total_size(n)
    BY <1>1, <2>1, AlignedBehindHeader
  <2>5. nlmsg_tail' = a + nla_total_size(n) /\ a + Align <= nlmsg_tail'
    BY <1>2
  <2> QED BY <2>1, <2>2, <2>3, <2>4, <2>5
<1>6. /\ \A s : IsOpen(s)' <=> IsOpen(s)
      /\ Current' = c
  BY <1>1 DEF IsOpen, Current, Innermost
<1>7. Levels' = Levels
  BY <1>3 DEF Levels
<1>8. PartsNested'
  <2>1. ASSUME NEW s \in DOMAIN attrs
        PROVE  /\ attrs[s].parent \in Levels /\ attrs[s].parent < s
               /\ First(attrs[s].parent) <= s
               /\ Aligned(s) = s /\ s < a
               /\ Align <= attrs[s].size
               /\ \A o \in DOMAIN attrs : IsOpen(o) /\ o < s => o <= attrs[s].parent
    BY DEF PartsInv, PartsNested
  <2>2. \A s \in DOMAIN attrs : s < nlmsg_tail' /\ s \in Int /\ ~ (a < s)
    BY <1>5, <2>1, Place
  <2>3. ASSUME NEW s \in DOMAIN attrs'
        PROVE  /\ attrs'[s].parent \in Levels /\ attrs'[s].parent < s
               /\ First(attrs'[s].parent) <= s
               /\ Aligned(s) = s /\ s < nlmsg_tail'
               /\ Align <= attrs'[s].size
               /\ \A o \in DOMAIN attrs : IsOpen(o) /\ o < s => o <= attrs'[s].parent
    <3>1. CASE s \in DOMAIN attrs
      BY <1>3, <2>1, <2>2, <3>1
    <3>2. CASE s = a
      <4>1. Align <= attrs'[a].size /\ attrs'[a].parent = c
        <5>1. attrs'[a].size = Align + n /\ attrs'[a].parent = c
          BY <1>3
        <5>2. n \in Nat
          BY <1>1
        <5> QED BY <1>5, <5>1, <5>2
      <4> QED BY <1>4, <1>5, <3>2, <4>1
    <3> QED BY <1>3, <3>1, <3>2
  <2>4. ASSUME NEW s \in DOMAIN attrs', NEW o \in DOMAIN attrs', IsOpen(o)', o < s
        PROVE  o <= attrs'[s].parent
    BY <1>3, <1>6, <2>3, <2>4
  <2>5. ASSUME NEW s \in DOMAIN attrs', NEW p, p = attrs'[s].parent
        PROVE  First(p)' <= s
    BY <1>3, <2>3, <2>5
  <2>6. \A s \in DOMAIN attrs' : First(attrs[s].parent)' <= s
    BY <2>5
  <2> QED BY <1>7, <2>3, <2>4, <2>6 DEF PartsNested
<1>9. PartsEnd'
  <2>1. ASSUME NEW s \in DOMAIN attrs, ~ IsOpen(s)
        PROVE  /\ First(s) <= Following(s) /\ Following(s) <= a
               /\ attrs[s].nested => Aligned(attrs[s].size) = attrs[s].size
               /\ \A o \in DOMAIN attrs : IsOpen(o) /\ s < o => Following(s) <= o
               /\ attrs[s].parent # Message /\ ~ IsOpen(attrs[s].parent) =>
                    Following(s) <= attrs[s].parent + attrs[attrs[s].parent].size
    BY <2>1 DEF PartsInv, PartsEnd, Ended
  <2>2. ASSUME NEW s \in DOMAIN attrs', ~ IsOpen(s)'
        PROVE  /\ First(s)' <= Following(s)' /\ Following(s)' <= nlmsg_tail'
               /\ attrs'[s].nested => Aligned(attrs'[s].size) = attrs'[s].size
               /\ \A o \in DOMAIN attrs' : IsOpen(o)' /\ s < o => Following(s)' <= o
               /\ attrs'[s].parent # Message /\ ~ IsOpen(attrs[s].parent)' =>
                    Following(s)' <= attrs'[s].parent + attrs'[attrs'[s].parent].size
    <3>1. CASE s \in DOMAIN attrs
      <4>1. First(s)' = First(s)
        <5>1. s # Message
          BY <3>1, Place
        <5> QED BY <1>3, <3>1, <5>1 DEF First
      <4>2. Following(s)' = Following(s) /\ Following(s) \in Int /\ attrs'[s] = attrs[s]
        BY <1>3, <3>1, Place
      <4>3. Following(s) <= nlmsg_tail'
        BY <1>5, <1>6, <2>1, <2>2, <3>1, <4>2
      <4>4. attrs[s].parent # Message =>
              attrs[s].parent \in DOMAIN attrs
              /\ attrs'[attrs[s].parent] = attrs[attrs[s].parent]
        BY <1>3, <3>1, Place DEF Levels
      <4> QED BY <1>3, <1>6, <2>1, <2>2, <3>1, <4>1, <4>2, <4>3, <4>4
    <3>2. CASE s = a
      <4>1. \A o : IsOpen(o)' => ~ (a < o)
        <5>1. \A o : IsOpen(o) => o \in Int /\ o < a
          BY <1>4, Place
        <5> QED BY <1>5, <1>6, <5>1
      <4>2. ~ attrs'[a].nested /\ attrs'[a].parent = c
        BY <1>3
      <4>3. First(a)' <= Following(a)' /\ Following(a)' <= nlmsg_tail'
        BY <1>2, <1>3, <1>5
      <4> QED BY <1>4, <1>6, <3>2, <4>1, <4>2, <4>3
    <3> QED BY <1>3, <3>1, <3>2
  <2> QED BY <2>2 DEF PartsEnd, Ended
<1>10. OpenParts'
  <2>1. ASSUME NEW i \in DOMAIN open, NEW o, o = open[i]
        PROVE  /\ mem'[o] = mem[o] /\ attrs'[o] = attrs[o] /\ First(o)' <= nlmsg_tail'
               /\ o \in DOMAIN attrs
    <3>1. /\ o \in DOMAIN attrs /\ o \in Offsets /\ o < a /\ o \in Levels
          /\ First(o) \in Int /\ First(o) <= a
      <4>1. ~ StructureNext
        BY <1>1
      <4>2. o \in DOMAIN attrs /\ First(o) <= a /\ attrs[o].nested
        BY <2>1, <4>1, OpenDone
      <4> QED BY <4>2, Place DEF Levels
    <3>2. First(o)' <= nlmsg_tail'
      BY <1>3, <1>5, <3>1
    <3> QED BY <1>2, <1>3, <3>1, <3>2
  <2>4. ASSUME NEW i \in DOMAIN open', NEW o, o = open'[i]
        PROVE  /\ o \in DOMAIN attrs' /\ attrs'[o].nested
               /\ attrs'[o].parent = IF i = 1 THEN Message ELSE open'[i - 1]
               /\ mem'[o].nla_type = attrs'[o].type /\ mem'[o].nested
               /\ First(o)' <= nlmsg_tail'
               /\ attrs'[o].data = RawLen[attrs'[o].type]
               /\ RawLen[attrs'[o].type] \in Nat
    <3>1. open' = open
      BY <1>1
    <3>2. ~ StructureNext
      BY <1>1
    <3> QED BY <1>3, <2>1, <2>4, <3>1, <3>2, OpenDone
  <2>5. \A i \in DOMAIN open' : First(open[i])' <= nlmsg_tail'
    BY <2>4
  <2>6. \A x : ~ (x = 0 /\ x > 0)
    OBVIOUS
  <2> QED BY <2>4, <2>5, <2>6 DEF OpenParts
<1>11. Chained'
  <2>1. ASSUME NEW p \in Levels
        PROVE  Visited(p)' = (Kids(p) \cup Limit(p))'
    <3>1. Visited(p) = Kids(p) \cup Limit(p)
      BY DEF PartsInv, Chained
    <3>2. Visited(p)' = {First(p)} \cup {Following(s)' : s \in Ended(Kids(p))'}
      BY <1>3 DEF Visited
    <3>3. \A s \in Kids(p) : Following(s)' = Following(s)
      BY <1>3 DEF Kids
    <3>4. CASE p = c
      <4>1. Ended(Kids(p))' = Ended(Kids(p)) \cup {a}
        BY <1>3, <1>6, <3>4 DEF Ended
      <4>2. Visited(p)' = Visited(p) \cup {len'}
        BY <1>2, <1>3, <3>2, <3>3, <4>1 DEF Visited, Ended
      <4>3. Limit(p) = {a} /\ Limit(p)' = {len'}
        BY <1>2, <1>4, <1>6, <3>4 DEF Limit
      <4> QED BY <1>3, <3>1, <3>4, <4>2, <4>3
    <3>5. CASE p # c
      <4>1. Ended(Kids(p))' = Ended(Kids(p))
        BY <1>3, <1>6, <3>5 DEF Ended
      <4>2. Visited(p)' = Visited(p)
        BY <3>2, <3>3, <4>1 DEF Visited, Ended
      <4>3. Limit(p)' = Limit(p)
        <5>1. p # Message => attrs'[p] = attrs[p]
          BY <1>3 DEF Levels
        <5> QED BY <1>6, <3>5, <5>1 DEF Limit
      <4> QED BY <1>3, <3>1, <3>5, <4>2, <4>3
    <3> QED BY <3>4, <3>5
  <2> QED BY <1>7, <2>1 DEF Chained
<1>12. NothingChanged'
  <2>1. ASSUME NEW s \in DOMAIN attrs'
        PROVE  /\ Fits(s)' /\ ~ IsOpen(s)' => mem'[s] = HeaderOf(s)'
               /\ \A b \in Offsets :
                    s + Align <= b /\ b < s + Align + attrs'[s].data =>
                      mem'[b] = attrs'[s].fill
    <3>1. CASE s \in DOMAIN attrs
      BY <1>2, <1>3, <1>6, <3>1, OldUnchanged
    <3>2. CASE s = a
      <4>1. Fits(a)' => mem'[a] = HeaderOf(a)'
        <5>1. nla_attr_size(n) <= MaxLen =>
                mem'[nlmsg_tail] =
                  [nla_len |-> nla_attr_size(n), nla_type |-> t, nested |-> FALSE]
          <6>1. /\ Reserve(t, FALSE, n, v) /\ UNCHANGED bug /\ FALSE \in BOOLEAN
                /\ n \in Nat /\ v \in Values \cup {Zero}
            BY <1>1
          <6> QED BY <6>1, ReserveKeeps, Zenon
        <5>2. nla_attr_size(n) = Align + n
          BY DEF nla_attr_size
        <5>3. HeaderOf(a)' = [nla_len |-> Align + n, nla_type |-> t, nested |-> FALSE]
          BY <1>3, Zenon DEF HeaderOf
        <5>4. Fits(a)' => Align + n <= MaxLen
          BY <1>3 DEF Fits
        <5> QED BY <5>1, <5>2, <5>3, <5>4, Zenon
      <4>2. \A b \in Offsets :
              a + Align <= b /\ b < a + Align + attrs'[a].data =>
                mem'[b] = attrs'[a].fill
        BY <1>2, <1>3
      <4> QED BY <3>2, <4>1, <4>2
    <3> QED BY <1>3, <3>1, <3>2
  <2> QED BY <2>1 DEF NothingChanged
<1> QED
  BY <1>2, <1>3, <1>8, <1>9, <1>10, <1>11, <1>12 DEF PartsInv

LEMMA NestStartParts ==
  ASSUME Layout, PartsInv, NEW t \in Types, NestStart(t)
  PROVE  PartsInv'
<1> SUFFICES ASSUME NEW a, a = nlmsg_tail, NEW c, c = Current
             PROVE  PartsInv'
  OBVIOUS
<1>1. /\ ~ StructureNext /\ UNCHANGED bug
      /\ Reserve(t, TRUE, 0, Zero)
      /\ open' = Append(open, a)
      /\ attrs' = Added(t, TRUE, 0, Zero)
  BY DEF NestStart, nla_nest_start
<1>2. /\ nlmsg_tail' = len' /\ a + Align = len' /\ a + Align = nlmsg_tail'
      /\ \A b \in Offsets : b < a => mem'[b] = mem[b]
      /\ a \in Offsets
      /\ mem'[a].nla_type = t /\ mem'[a].nested = TRUE
  <2>1. /\ Reserve(t, TRUE, 0, Zero) /\ UNCHANGED bug /\ TRUE \in BOOLEAN
        /\ 0 \in Nat /\ Zero \in Values \cup {Zero}
    BY <1>1
  <2>2. /\ nlmsg_tail' = len'
        /\ \A b \in Offsets : b < nlmsg_tail => mem'[b] = mem[b]
        /\ nlmsg_tail \in Offsets
        /\ 0 = 0 => mem'[nlmsg_tail].nla_type = t /\ mem'[nlmsg_tail].nested = TRUE
        /\ len' = nlmsg_tail + nla_total_size(0)
    BY <2>1, ReserveKeeps, Zenon
  <2>3. nla_total_size(0) = Align
    BY RoomNeeded
  <2> QED BY <2>2, <2>3
<1>3. /\ DOMAIN attrs' = DOMAIN attrs \cup {a}
      /\ a \notin DOMAIN attrs /\ ~ IsOpen(a)
      /\ \A s \in DOMAIN attrs : attrs'[s] = attrs[s]
      /\ attrs'[a].parent = c /\ attrs'[a].type = t /\ attrs'[a].nested = TRUE
      /\ attrs'[a].size = Align + 0 /\ attrs'[a].data = 0 /\ attrs'[a].fill = Zero
      /\ PartsTypeOK'
      /\ \A p : Kids(p)' = IF p = c THEN Kids(p) \cup {a} ELSE Kids(p)
      /\ \A s \in DOMAIN attrs : Following(s)' = Following(s)
      /\ \A p \in Levels : First(p)' = First(p)
      /\ First(a)' = a + Align + Aligned(0)
  <2>1. /\ a \in Offsets /\ TRUE \in BOOLEAN /\ 0 \in Nat /\ Zero \in Values \cup {Zero}
        /\ attrs' = Added(t, TRUE, 0, Zero)
    BY <1>1, <1>2
  <2>2. AttributeAdded(a, c, t, TRUE, 0, Zero)
    BY <2>1, Adding, Zenon
  <2> QED BY <2>2, Zenon DEF AttributeAdded
<1>4. /\ c \in Levels /\ c \in Int /\ c < a /\ First(c) <= a
      /\ c # Message => IsOpen(c) /\ open # <<>> /\ c = Innermost
      /\ c = Message => open = <<>>
      /\ \A s : IsOpen(s) => s <= c /\ s \in DOMAIN attrs
  BY CurrentLevel
<1>5. /\ a \in Int /\ Align \in Int /\ Align > 0 /\ Aligned(a) = a
      /\ First(a)' = a + Align /\ a < nlmsg_tail' /\ nlmsg_tail' \in Int
      /\ attrs'[a].size = Align
  <2>1. a \in Int /\ Align \in Int /\ Align > 0 /\ Aligned(a) = a
    BY Shape
  <2>2. Aligned(0) = 0
    BY AlignedSame, MultipleConstants
  <2>3. First(a)' = a + Align + Aligned(0) /\ attrs'[a].size = Align + 0
    BY <1>3
  <2>4. nlmsg_tail' = a + Align
    BY <1>2
  <2> QED BY <2>1, <2>2, <2>3, <2>4
<1>6. /\ Len(open) \in Nat /\ DOMAIN open = 1 .. Len(open)
      /\ DOMAIN open' = 1 .. Len(open) + 1 /\ Len(open') = Len(open) + 1
      /\ open'[Len(open) + 1] = a
      /\ \A i \in DOMAIN open : open'[i] = open[i] /\ i \in DOMAIN open'
      /\ \A i \in DOMAIN open' : i \in DOMAIN open \/ i = Len(open) + 1
      /\ open' # <<>>
  <2>1. open \in Seq(Offsets) /\ a \in Offsets
    BY <1>2, Shape
  <2>2. open' = Append(open, a)
    BY <1>1
  <2> QED BY <2>1, <2>2
<1>7. /\ \A s : IsOpen(s)' <=> IsOpen(s) \/ s = a
      /\ Current' = a /\ Innermost' = a
  <2>1. \A s : IsOpen(s)' <=> \E i \in DOMAIN open' : open'[i] = s
    BY DEF IsOpen
  <2>2. \A s : IsOpen(s)' <=> IsOpen(s) \/ s = a
    <3>1. ASSUME NEW s PROVE IsOpen(s)' <=> IsOpen(s) \/ s = a
      <4>1. IsOpen(s)' => IsOpen(s) \/ s = a
        BY <1>6, <2>1 DEF IsOpen
      <4>2. IsOpen(s) => IsOpen(s)'
        BY <1>6, <2>1 DEF IsOpen
      <4>3. Len(open) + 1 \in DOMAIN open'
        BY <1>6
      <4> QED BY <1>6, <2>1, <4>1, <4>2, <4>3
    <3> QED BY <3>1
  <2>3. Innermost' = a
    BY <1>6 DEF Innermost, Last
  <2> QED BY <1>6, <2>2, <2>3 DEF Current
<1>8. Levels' = Levels \cup {a}
  <2>1. \A s \in DOMAIN attrs' : attrs'[s].nested <=>
          (s \in DOMAIN attrs /\ attrs[s].nested) \/ s = a
    BY <1>3
  <2> QED BY <1>3, <2>1 DEF Levels
<1>9. PartsNested'
  <2>1. ASSUME NEW s \in DOMAIN attrs
        PROVE  /\ attrs[s].parent \in Levels /\ attrs[s].parent < s
               /\ First(attrs[s].parent) <= s
               /\ Aligned(s) = s /\ s < a
               /\ Align <= attrs[s].size
               /\ \A o \in DOMAIN attrs : IsOpen(o) /\ o < s => o <= attrs[s].parent
    BY DEF PartsInv, PartsNested
  <2>2. \A s \in DOMAIN attrs : s < nlmsg_tail' /\ s \in Int /\ ~ (a < s)
    BY <1>5, <2>1, Place
  <2>3. ASSUME NEW s \in DOMAIN attrs'
        PROVE  /\ attrs'[s].parent \in Levels /\ attrs'[s].parent < s
               /\ First(attrs'[s].parent) <= s
               /\ Aligned(s) = s /\ s < nlmsg_tail' /\ ~ (a < s)
               /\ Align <= attrs'[s].size
               /\ \A o \in DOMAIN attrs : IsOpen(o) /\ o < s => o <= attrs'[s].parent
    <3>1. CASE s \in DOMAIN attrs
      BY <1>3, <2>1, <2>2, <3>1
    <3>2. CASE s = a
      <4>1. attrs'[a].size = Align /\ attrs'[a].parent = c
        BY <1>3, <1>5
      <4> QED BY <1>4, <1>5, <3>2, <4>1
    <3> QED BY <1>3, <3>1, <3>2
  <2>4. ASSUME NEW s \in DOMAIN attrs', NEW o \in DOMAIN attrs', IsOpen(o)', o < s
        PROVE  o <= attrs'[s].parent
    BY <1>3, <1>7, <2>3, <2>4
  <2>5. ASSUME NEW s \in DOMAIN attrs', NEW p, p = attrs'[s].parent
        PROVE  First(p)' <= s
    BY <1>3, <2>3, <2>5
  <2>6. \A s \in DOMAIN attrs' : First(attrs[s].parent)' <= s
    BY <2>5
  <2> QED BY <1>8, <2>3, <2>4, <2>6 DEF PartsNested
<1>10. PartsEnd'
  <2>1. ASSUME NEW s \in DOMAIN attrs, ~ IsOpen(s)
        PROVE  /\ First(s) <= Following(s) /\ Following(s) <= a
               /\ attrs[s].nested => Aligned(attrs[s].size) = attrs[s].size
               /\ \A o \in DOMAIN attrs : IsOpen(o) /\ s < o => Following(s) <= o
               /\ attrs[s].parent # Message /\ ~ IsOpen(attrs[s].parent) =>
                    Following(s) <= attrs[s].parent + attrs[attrs[s].parent].size
    BY <2>1 DEF PartsInv, PartsEnd, Ended
  <2>2. ASSUME NEW s \in DOMAIN attrs', ~ IsOpen(s)'
        PROVE  /\ First(s)' <= Following(s)' /\ Following(s)' <= nlmsg_tail'
               /\ attrs'[s].nested => Aligned(attrs'[s].size) = attrs'[s].size
               /\ \A o \in DOMAIN attrs' : IsOpen(o)' /\ s < o => Following(s)' <= o
               /\ attrs'[s].parent # Message /\ ~ IsOpen(attrs[s].parent)' =>
                    Following(s)' <= attrs'[s].parent + attrs'[attrs'[s].parent].size
    <3>1. s \in DOMAIN attrs /\ ~ IsOpen(s)
      BY <1>3, <1>7, <2>2
    <3>2. First(s)' = First(s)
      <4>1. s # Message
        BY <3>1, Place
      <4> QED BY <1>3, <3>1, <4>1 DEF First
    <3>3. Following(s)' = Following(s) /\ Following(s) \in Int /\ attrs'[s] = attrs[s]
      BY <1>3, <3>1, Place
    <3>4. Following(s) <= nlmsg_tail'
      BY <1>5, <2>1, <3>1, <3>3
    <3>5. attrs[s].parent # Message =>
            attrs[s].parent \in DOMAIN attrs
            /\ attrs'[attrs[s].parent] = attrs[attrs[s].parent]
      BY <1>3, <3>1, Place DEF Levels
    <3>6. ASSUME NEW p, p = attrs'[s].parent, p # Message, ~ IsOpen(p)'
          PROVE  Following(s)' <= p + attrs'[p].size
      BY <1>7, <2>1, <3>1, <3>3, <3>5, <3>6
    <3> QED BY <1>3, <1>7, <2>1, <3>1, <3>2, <3>3, <3>4, <3>6
  <2> QED BY <2>2 DEF PartsEnd, Ended
<1>11. OpenParts'
  <2>1. ~ StructureNext
    BY <1>1
  <2>2. ASSUME NEW i \in DOMAIN open', NEW o, o = open'[i]
        PROVE  /\ o \in DOMAIN attrs' /\ attrs'[o].nested
               /\ attrs'[o].parent = IF i = 1 THEN Message ELSE open'[i - 1]
               /\ mem'[o].nla_type = attrs'[o].type /\ mem'[o].nested
               /\ First(o)' <= nlmsg_tail'
               /\ attrs'[o].data \in {0, RawLen[attrs'[o].type]}
               /\ Kids(o)' # {} => attrs'[o].data = RawLen[attrs'[o].type]
               /\ attrs'[o].data = 0 /\ RawLen[attrs'[o].type] > 0 =>
                    o = a /\ len' = o + Align
    <3>1. CASE i \in DOMAIN open
      <4>1. o = open[i]
        BY <1>6, <2>2, <3>1
      <4>2. /\ o \in DOMAIN attrs /\ attrs[o].nested
            /\ attrs[o].parent = IF i = 1 THEN Message ELSE open[i - 1]
            /\ mem[o].nla_type = attrs[o].type /\ mem[o].nested
            /\ First(o) <= a
            /\ attrs[o].data = RawLen[attrs[o].type]
            /\ RawLen[attrs[o].type] \in Nat
        BY <2>1, <3>1, <4>1, OpenDone
      <4>3. /\ o \in Offsets /\ o < a /\ o \in Levels /\ First(o) \in Int
        BY <4>2, Place DEF Levels
      <4>4. First(o)' <= nlmsg_tail'
        BY <1>3, <1>5, <4>2, <4>3
      <4>5. mem'[o] = mem[o] /\ attrs'[o] = attrs[o]
        BY <1>2, <1>3, <4>2, <4>3
      <4>6. i = 1 \/ open'[i - 1] = open[i - 1]
        BY <1>6, <3>1
      <4> QED BY <1>3, <4>2, <4>4, <4>5, <4>6
    <3>2. CASE i = Len(open) + 1
      <4>1. o = a
        BY <1>6, <2>2, <3>2
      <4>2. c = IF i = 1 THEN Message ELSE open'[i - 1]
        <5>1. CASE open = <<>>
          BY <1>4, <3>2, <5>1
        <5>2. CASE open # <<>>
          <6>1. i # 1 /\ i - 1 \in DOMAIN open /\ i - 1 = Len(open)
            BY <1>6, <3>2, <5>2
          <6>2. c = open[Len(open)]
            BY <5>2 DEF Current, Innermost, Last
          <6> QED BY <1>6, <6>1, <6>2
        <5> QED BY <5>1, <5>2
      <4>3. Kids(a)' = {}
        <5>1. Kids(a)' = Kids(a)
          BY <1>3, <1>4, <1>5
        <5>2. \A s \in DOMAIN attrs : attrs[s].parent # a
          BY <1>5, Place
        <5> QED BY <5>1, <5>2 DEF Kids
      <4>4. a \in DOMAIN attrs' /\ attrs'[a].nested /\ mem'[a].nested
        BY <1>2, <1>3
      <4>5. attrs'[a].parent = c /\ mem'[a].nla_type = attrs'[a].type /\ attrs'[a].data = 0
        BY <1>2, <1>3
      <4>6. First(a)' <= nlmsg_tail' /\ len' = a + Align
        BY <1>2, <1>5
      <4> QED BY <4>1, <4>2, <4>3, <4>4, <4>5, <4>6
    <3> QED BY <1>6, <3>1, <3>2
  <2>3. \A i \in DOMAIN open' :
          /\ First(open[i])' <= nlmsg_tail'
          /\ Kids(open[i])' # {} =>
               attrs'[open'[i]].data = RawLen[attrs'[open'[i]].type]
    BY <2>2
  <2> QED BY <1>7, <2>2, <2>3 DEF OpenParts
<1>12. Chained'
  <2>1. ASSUME NEW p \in Levels
        PROVE  Visited(p)' = (Kids(p) \cup Limit(p))'
    <3>1. Visited(p) = Kids(p) \cup Limit(p)
      BY DEF PartsInv, Chained
    <3>2. Visited(p)' = {First(p)} \cup {Following(s)' : s \in Ended(Kids(p))'}
      BY <1>3 DEF Visited
    <3>3. \A s \in Kids(p) : Following(s)' = Following(s) /\ s # a
      BY <1>3 DEF Kids
    <3>4. Ended(Kids(p))' = Ended(Kids(p))
      BY <1>3, <1>7, <3>3 DEF Ended
    <3>5. Visited(p)' = Visited(p)
      BY <3>2, <3>3, <3>4 DEF Visited, Ended
    <3>6. p # a
      <4>1. a # Message
        BY <1>5, Shape DEF Message
      <4> QED BY <1>3, <4>1 DEF Levels
    <3>7. CASE p = c
      <4>1. Limit(p) = {a} /\ Limit(p)' = {}
        BY <1>4, <1>7, <3>6, <3>7 DEF Limit
      <4> QED BY <1>3, <3>1, <3>5, <3>7, <4>1
    <3>8. CASE p # c
      <4>1. Limit(p)' = Limit(p)
        <5>1. p # Message => attrs'[p] = attrs[p]
          BY <1>3 DEF Levels
        <5> QED BY <1>7, <3>6, <3>8, <5>1 DEF Limit
      <4> QED BY <1>3, <3>1, <3>5, <3>8, <4>1
    <3> QED BY <3>7, <3>8
  <2>2. Visited(a)' = (Kids(a) \cup Limit(a))'
    <3>1. Kids(a)' = {}
      <4>1. Kids(a)' = Kids(a)
        BY <1>3, <1>4, <1>5
      <4>2. \A s \in DOMAIN attrs : attrs[s].parent # a
        BY <1>5, Place
      <4> QED BY <4>1, <4>2 DEF Kids
    <3>2. Visited(a)' = {nlmsg_tail'}
      <4>1. First(a)' = nlmsg_tail'
        BY <1>2, <1>5
      <4>2. Ended(Kids(a))' = {}
        BY <3>1 DEF Ended
      <4> QED BY <4>1, <4>2 DEF Visited
    <3>3. Limit(a)' = {nlmsg_tail'}
      BY <1>7 DEF Limit
    <3> QED BY <3>1, <3>2, <3>3
  <2> QED BY <1>8, <2>1, <2>2 DEF Chained
<1>13. NothingChanged'
  <2>1. ASSUME NEW s \in DOMAIN attrs'
        PROVE  /\ Fits(s)' /\ ~ IsOpen(s)' => mem'[s] = HeaderOf(s)'
               /\ \A b \in Offsets :
                    s + Align <= b /\ b < s + Align + attrs'[s].data =>
                      mem'[b] = attrs'[s].fill
    <3>1. CASE s \in DOMAIN attrs
      BY <1>2, <1>3, <1>7, <3>1, OldUnchanged
    <3>2. CASE s = a
      <4>1. \A b \in Offsets : ~ (a + Align <= b /\ b < a + Align + 0)
        BY <1>5, Shape
      <4>2. attrs'[a].data = 0
        BY <1>3
      <4> QED BY <1>7, <3>2, <4>1, <4>2
    <3> QED BY <1>3, <3>1, <3>2
  <2> QED BY <2>1 DEF NothingChanged
<1> QED
  BY <1>3, <1>6, <1>9, <1>10, <1>11, <1>12, <1>13 DEF PartsInv

-----------------------------------------------------------------------------
(* Containers get their structure, and are ended or cancelled.             *)

LEMMA AlignedShift ==
  ASSUME NEW x \in Int, Multiple(x), NEW n \in Nat
  PROVE  Aligned(x + n) = x + Aligned(n)
<1>1. /\ Aligned(n) \in Int /\ Multiple(Aligned(n)) /\ n <= Aligned(n)
      /\ Aligned(x + n) \in Int /\ Multiple(Aligned(x + n)) /\ x + n <= Aligned(x + n)
      /\ n \in Int
  BY Quotient
<1>2. Aligned(x + n) <= x + Aligned(n)
  <2>1. /\ x + Aligned(n) \in Int /\ x + n <= x + Aligned(n) /\ x + n \in Int
        /\ Multiple(x + Aligned(n))
    BY <1>1, MultipleSum
  <2> QED BY <2>1, AlignedLeast
<1>3. Aligned(n) <= Aligned(x + n) - x
  <2>1. /\ Aligned(x + n) - x \in Int /\ n <= Aligned(x + n) - x
        /\ Multiple(Aligned(x + n) - x)
    BY <1>1, MultipleDifference
  <2> QED BY <1>1, <2>1, AlignedLeast
<1> QED BY <1>1, <1>2, <1>3

LEMMA AppendStructureParts ==
  ASSUME Layout, PartsInv, NEW v \in Values, AppendStructure(v)
  PROVE  PartsInv'
<1> SUFFICES ASSUME NEW o, o = Innermost, NEW a, a = nlmsg_tail,
                    NEW raw, raw = RawLen[attrs[o].type]
             PROVE  PartsInv'
  OBVIOUS
<1>1. /\ open # <<>> /\ len = o + Align
      /\ RawLen[mem[o].nla_type] > 0
      /\ mem' = Fill(mem, len, RawLen[mem[o].nla_type], v)
      /\ len' = len + RawLen[mem[o].nla_type]
      /\ open' = open
      /\ attrs' = [attrs EXCEPT ![o].data = raw, ![o].fill = v]
  BY DEF AppendStructure, nlmsg_append, StructureNext
<1>2. /\ o \in DOMAIN attrs /\ IsOpen(o) /\ Current = o /\ o \in Levels
      /\ \A s : IsOpen(s) => s <= o /\ s \in DOMAIN attrs
      /\ mem[o].nla_type = attrs[o].type
  <2>1. IsOpen(o) /\ Current = o
    <3>1. Current = o /\ Innermost # Message
      BY <1>1, FrontParts DEF Current, Message, Offsets
    <3> QED BY <3>1, CurrentLevel
  <2>2. \A i \in DOMAIN open : mem[open[i]].nla_type = attrs[open[i]].type
    BY DEF PartsInv, OpenParts
  <2>3. mem[o].nla_type = attrs[o].type
    BY <2>1, <2>2 DEF IsOpen
  <2> QED BY <2>1, <2>3, CurrentLevel, OpenPlace
<1>3. /\ o \in Int /\ Multiple(o) /\ o < a /\ Align \in Int /\ Align > 0
      /\ a \in Int /\ o + Align <= First(o) /\ First(o) \in Int
      /\ attrs[o].type \in Types /\ raw \in Nat /\ raw > 0
      /\ o # Message
  <2>1. attrs[o].type \in Types
    BY <1>2 DEF PartsInv, PartsTypeOK
  <2>2. raw \in Nat /\ raw > 0
    BY <1>1, <1>2, <2>1, NlMessageAssumption
  <2> QED BY <1>2, <2>1, <2>2, Place, Shape
<1>4. a = o + Align /\ len = a /\ Multiple(a)
  <2>1. o + Align \in Int /\ Multiple(o + Align)
    BY <1>3, MultipleConstants, MultipleSum
  <2>2. Aligned(o + Align) = o + Align
    BY <2>1, AlignedSame
  <2>3. a = Aligned(o + Align)
    BY <1>1 DEF nlmsg_tail
  <2> QED BY <1>1, <2>1, <2>2, <2>3
<1>5. Kids(o) = {}
  <2>1. ASSUME NEW s \in DOMAIN attrs, attrs[s].parent = o PROVE FALSE
    <3>1. First(o) <= s /\ s < a /\ s \in Int
      BY <2>1, Place DEF PartsInv, PartsNested
    <3> QED BY <1>3, <1>4, <3>1
  <2> QED BY <2>1 DEF Kids
<1>6. /\ DOMAIN attrs' = DOMAIN attrs
      /\ \A s \in DOMAIN attrs : s # o => attrs'[s] = attrs[s]
      /\ attrs'[o] = [attrs[o] EXCEPT !.data = raw, !.fill = v]
  BY <1>1, <1>2
<1>7. /\ attrs'[o].data = raw /\ attrs'[o].fill = v
      /\ attrs'[o].parent = attrs[o].parent /\ attrs'[o].type = attrs[o].type
      /\ attrs'[o].size = attrs[o].size /\ attrs'[o].nested = attrs[o].nested
      /\ attrs'[o] \in [parent : Offsets \cup {Message}, type : Types,
                        nested : BOOLEAN, size : Nat, data : Nat,
                        fill : Values \cup {Zero}]
  <2>1. attrs[o] \in [parent : Offsets \cup {Message}, type : Types,
                      nested : BOOLEAN, size : Nat, data : Nat,
                      fill : Values \cup {Zero}]
    BY <1>2 DEF PartsInv, PartsTypeOK
  <2> QED BY <1>3, <1>6, <2>1
<1>8. /\ PartsTypeOK'
      /\ \A s \in DOMAIN attrs :
           /\ attrs'[s].parent = attrs[s].parent /\ attrs'[s].type = attrs[s].type
           /\ attrs'[s].size = attrs[s].size /\ attrs'[s].nested = attrs[s].nested
  BY <1>6, <1>7 DEF PartsInv, PartsTypeOK
<1>9. /\ \A s : IsOpen(s)' <=> IsOpen(s)
      /\ Current' = o /\ Innermost' = o
      /\ Levels' = Levels
      /\ \A p : Kids(p)' = Kids(p)
      /\ \A s \in DOMAIN attrs : Following(s)' = Following(s)
      /\ \A p \in Levels : p # o => First(p)' = First(p)
  <2>1. \A s : IsOpen(s)' <=> IsOpen(s)
    BY <1>1 DEF IsOpen
  <2>2. Current' = o /\ Innermost' = o
    BY <1>1, <1>2 DEF Current, Innermost
  <2>3. Levels' = Levels
    BY <1>6, <1>8 DEF Levels
  <2>4. \A p : Kids(p)' = Kids(p)
    BY <1>6, <1>8 DEF Kids
  <2>5. \A s \in DOMAIN attrs : Following(s)' = Following(s)
    BY <1>8 DEF Following
  <2>6. \A p \in Levels : p # o => First(p)' = First(p)
    BY <1>6 DEF First, Levels
  <2> QED BY <2>1, <2>2, <2>3, <2>4, <2>5, <2>6
<1>10. /\ nlmsg_tail' = a + Aligned(raw) /\ First(o)' = nlmsg_tail'
       /\ nlmsg_tail' \in Int /\ a <= nlmsg_tail'
  <2>1. /\ Aligned(raw) \in Int /\ raw <= Aligned(raw)
        /\ Aligned(a + raw) = a + Aligned(raw)
    <3>1. raw \in Nat /\ raw \in Int /\ a \in Int /\ Multiple(a)
      BY <1>3, <1>4
    <3>2. Aligned(raw) \in Int /\ raw <= Aligned(raw)
      BY <3>1, Quotient
    <3>3. Aligned(a + raw) = a + Aligned(raw)
      BY <3>1, AlignedShift
    <3> QED BY <3>2, <3>3
  <2>2. nlmsg_tail' = Aligned(a + raw)
    BY <1>1, <1>2, <1>4 DEF nlmsg_tail
  <2>3. First(o)' = o + Align + Aligned(raw)
    BY <1>3, <1>7 DEF First
  <2> QED BY <1>3, <1>4, <2>1, <2>2, <2>3
<1>11. \A b \in Offsets :
         mem'[b] = IF len <= b /\ b < len + raw THEN v ELSE mem[b]
  <2>1. v \in Byte /\ mem \in [Offsets -> Byte] /\ len \in Int /\ raw \in Int
    BY <1>3, Shape DEF Byte
  <2>2. mem' = Fill(mem, len, raw, v)
    BY <1>1, <1>2
  <2> QED BY <2>1, <2>2, FillProperties
<1>12. \A b \in Offsets : b < a => mem'[b] = mem[b]
  BY <1>4, <1>11, Shape
<1>13. PartsNested'
  <2>1. ASSUME NEW s \in DOMAIN attrs', NEW p, p = attrs'[s].parent
        PROVE  /\ p \in Levels /\ p < s /\ First(p)' <= s
               /\ Aligned(s) = s /\ s < nlmsg_tail'
               /\ Align <= attrs'[s].size
               /\ \A x \in DOMAIN attrs : IsOpen(x) /\ x < s => x <= p
    <3>1. s \in DOMAIN attrs /\ p = attrs[s].parent /\ attrs'[s].size = attrs[s].size
      BY <1>6, <1>8, <2>1
    <3>2. /\ p \in Levels /\ p < s /\ First(p) <= s
          /\ Aligned(s) = s /\ s < a /\ s \in Int
          /\ Align <= attrs[s].size
          /\ \A x \in DOMAIN attrs : IsOpen(x) /\ x < s => x <= p
      BY <3>1, Place DEF PartsInv, PartsNested
    <3>3. p # o
      BY <1>5, <3>1 DEF Kids
    <3> QED BY <1>3, <1>9, <1>10, <3>1, <3>2, <3>3
  <2>2. \A s \in DOMAIN attrs' : First(attrs[s].parent)' <= s
    BY <2>1
  <2> QED BY <1>6, <1>9, <2>1, <2>2 DEF PartsNested
<1>14. PartsEnd'
  <2>1. ASSUME NEW s \in DOMAIN attrs', ~ IsOpen(s)', NEW p, p = attrs'[s].parent
        PROVE  /\ First(s)' <= Following(s)' /\ Following(s)' <= nlmsg_tail'
               /\ attrs'[s].nested => Aligned(attrs'[s].size) = attrs'[s].size
               /\ \A x \in DOMAIN attrs : IsOpen(x) /\ s < x => Following(s)' <= x
               /\ p # Message /\ ~ IsOpen(p)' => Following(s)' <= p + attrs'[p].size
    <3>1. /\ s \in DOMAIN attrs /\ p = attrs[s].parent /\ ~ IsOpen(s) /\ s # o
          /\ attrs'[s].size = attrs[s].size /\ attrs'[s].nested = attrs[s].nested
      BY <1>2, <1>6, <1>8, <1>9, <2>1
    <3>2. /\ First(s) <= Following(s) /\ Following(s) <= a
          /\ attrs[s].nested => Aligned(attrs[s].size) = attrs[s].size
          /\ \A x \in DOMAIN attrs : IsOpen(x) /\ s < x => Following(s) <= x
          /\ p # Message /\ ~ IsOpen(p) => Following(s) <= p + attrs[p].size
      BY <3>1 DEF PartsInv, PartsEnd, Ended
    <3>3. Following(s)' = Following(s) /\ Following(s) \in Int /\ s # Message
      BY <1>9, <3>1, Place
    <3>4. First(s)' = First(s)
      BY <1>6, <3>1, <3>3 DEF First
    <3>5. p # Message => p \in DOMAIN attrs
      BY <3>1, Place DEF Levels
    <3>6. p # Message => attrs'[p].size = attrs[p].size
      BY <1>8, <3>5
    <3>7. Following(s)' <= nlmsg_tail'
      BY <1>3, <1>10, <3>2, <3>3
    <3> QED BY <1>9, <3>1, <3>2, <3>3, <3>4, <3>6, <3>7
  <2>2. \A s \in DOMAIN attrs' :
          ~ IsOpen(s)' /\ attrs'[s].parent # Message /\ ~ IsOpen(attrs[s].parent)' =>
            Following(s)' <= attrs'[s].parent + attrs'[attrs'[s].parent].size
    BY <2>1
  <2> QED BY <1>6, <1>9, <2>1, <2>2 DEF PartsEnd, Ended
<1>15. OpenParts'
  <2>1. ASSUME NEW i \in DOMAIN open', NEW x, x = open'[i]
        PROVE  /\ x \in DOMAIN attrs' /\ attrs'[x].nested
               /\ attrs'[x].parent = IF i = 1 THEN Message ELSE open'[i - 1]
               /\ mem'[x].nla_type = attrs'[x].type /\ mem'[x].nested
               /\ First(x)' <= nlmsg_tail'
               /\ attrs'[x].data \in {0, RawLen[attrs'[x].type]}
               /\ Kids(x)' # {} => attrs'[x].data = RawLen[attrs'[x].type]
               /\ ~ (attrs'[x].data = 0 /\ RawLen[attrs'[x].type] > 0)
    <3>1. i \in DOMAIN open /\ x = open[i]
      BY <1>1, <2>1
    <3>2. /\ x \in DOMAIN attrs /\ attrs[x].nested
          /\ attrs[x].parent = IF i = 1 THEN Message ELSE open[i - 1]
          /\ mem[x].nla_type = attrs[x].type /\ mem[x].nested
          /\ First(x) <= a
          /\ attrs[x].data \in {0, RawLen[attrs[x].type]}
          /\ Kids(x) # {} => attrs[x].data = RawLen[attrs[x].type]
          /\ attrs[x].data = 0 /\ RawLen[attrs[x].type] > 0 => x = o
      BY <3>1 DEF PartsInv, OpenParts
    <3>3. mem'[x] = mem[x] /\ First(x) \in Int /\ x \in Levels
      BY <1>12, <3>2, Place DEF Levels
    <3>4. CASE x = o
      <4>1. raw # 0 /\ First(x)' <= nlmsg_tail'
        BY <1>3, <1>10, <3>4
      <4>2. /\ attrs'[x].data = raw /\ RawLen[attrs'[x].type] = raw
            /\ attrs'[x].nested = attrs[x].nested /\ attrs'[x].type = attrs[x].type
            /\ attrs'[x].parent = attrs[x].parent
        BY <1>7, <3>4
      <4> QED BY <1>1, <1>6, <3>2, <3>3, <4>1, <4>2
    <3>5. CASE x # o
      <4>1. attrs'[x] = attrs[x] /\ First(x)' = First(x)
        BY <1>6, <1>9, <3>2, <3>3, <3>5
      <4>2. First(x)' <= nlmsg_tail'
        BY <1>3, <1>10, <3>2, <3>3, <4>1
      <4> QED BY <1>1, <1>6, <1>9, <3>2, <3>3, <3>5, <4>1, <4>2
    <3> QED BY <3>4, <3>5
  <2>2. \A i \in DOMAIN open' :
          /\ First(open[i])' <= nlmsg_tail'
          /\ Kids(open[i])' # {} =>
               attrs'[open'[i]].data = RawLen[attrs'[open'[i]].type]
    BY <2>1
  <2> QED BY <2>1, <2>2 DEF OpenParts
<1>16. Chained'
  <2>1. ASSUME NEW p \in Levels
        PROVE  Visited(p)' = (Kids(p) \cup Limit(p))'
    <3>1. Visited(p) = Kids(p) \cup Limit(p)
      BY DEF PartsInv, Chained
    <3>2. Visited(p)' = {First(p)'} \cup {Following(s)' : s \in Ended(Kids(p))'}
      BY DEF Visited
    <3>3. \A s \in Kids(p) : Following(s)' = Following(s)
      BY <1>9 DEF Kids
    <3>4. Ended(Kids(p))' = Ended(Kids(p))
      BY <1>9 DEF Ended
    <3>5. CASE p = o
      <4>1. Ended(Kids(p))' = {}
        BY <1>5, <3>4, <3>5 DEF Ended
      <4>2. Limit(p)' = {nlmsg_tail'}
        BY <1>2, <1>9, <3>5 DEF Limit
      <4> QED BY <1>5, <1>9, <1>10, <3>2, <3>5, <4>1, <4>2
    <3>6. CASE p # o
      <4>1. Visited(p)' = Visited(p)
        BY <1>9, <3>2, <3>3, <3>4, <3>6 DEF Visited, Ended
      <4>2. Limit(p)' = Limit(p)
        <5>1. p # Message => attrs'[p] = attrs[p]
          BY <1>6, <3>6 DEF Levels
        <5> QED BY <1>2, <1>9, <3>6, <5>1 DEF Limit
      <4> QED BY <1>9, <3>1, <4>1, <4>2
    <3> QED BY <3>5, <3>6
  <2> QED BY <1>9, <2>1 DEF Chained
<1>17. NothingChanged'
  <2>1. ASSUME NEW s \in DOMAIN attrs'
        PROVE  /\ Fits(s)' /\ ~ IsOpen(s)' => mem'[s] = HeaderOf(s)'
               /\ \A b \in Offsets :
                    s + Align <= b /\ b < s + Align + attrs'[s].data =>
                      mem'[b] = attrs'[s].fill
    <3>1. CASE s # o
      BY <1>6, <1>9, <1>12, <2>1, <3>1, OldUnchanged
    <3>2. CASE s = o
      <4>1. \A b \in Offsets :
              o + Align <= b /\ b < o + Align + raw => mem'[b] = v
        BY <1>1, <1>11
      <4> QED BY <1>2, <1>7, <1>9, <3>2, <4>1
    <3> QED BY <3>1, <3>2
  <2> QED BY <2>1 DEF NothingChanged
<1> QED
  BY <1>1, <1>8, <1>13, <1>14, <1>15, <1>16, <1>17 DEF PartsInv

LEMMA Closing ==
  ASSUME Layout, PartsInv, open # <<>>, open' = Front(open),
         NEW o, o = Innermost, NEW q, q = attrs[o].parent
  PROVE  /\ o \in DOMAIN attrs /\ IsOpen(o) /\ o \in Levels /\ attrs[o].nested
         /\ \A s : IsOpen(s)' <=> IsOpen(s) /\ s # o
         /\ \A s : IsOpen(s) => s <= o /\ s \in DOMAIN attrs
         /\ Current = o /\ Current' = q
         /\ q \in Levels /\ q \in Int /\ q < o /\ q # o
         /\ q = Message \/ IsOpen(q)
         /\ First(o) <= nlmsg_tail
         /\ mem[o].nla_type = attrs[o].type /\ mem[o].nested
         /\ \A i \in DOMAIN open' :
              /\ i \in DOMAIN open /\ open'[i] = open[i] /\ open[i] < o
              /\ i = 1 \/ open'[i - 1] = open[i - 1]
<1> DEFINE n == Len(open)
<1>1. /\ open \in Seq(Offsets) /\ n \in Nat /\ n > 0 /\ DOMAIN open = 1 .. n
      /\ n \in DOMAIN open /\ o = open[n]
      /\ \A b \in Offsets : b \in Int
      /\ Align \in Int /\ Align > 0
  BY Shape DEF Innermost, Last
<1>2. /\ open' \in Seq(Offsets) /\ DOMAIN open' = 1 .. n - 1 /\ Len(open') = n - 1
      /\ \A i \in 1 .. n - 1 : open'[i] = open[i]
  BY <1>1 DEF Front
<1> HIDE DEF n
<1>3. \A i \in DOMAIN open :
        /\ open[i] \in DOMAIN attrs /\ attrs[open[i]].nested
        /\ attrs[open[i]].parent = IF i = 1 THEN Message ELSE open[i - 1]
        /\ mem[open[i]].nla_type = attrs[open[i]].type /\ mem[open[i]].nested
        /\ First(open[i]) <= nlmsg_tail
  BY DEF PartsInv, OpenParts
<1>4. /\ o \in DOMAIN attrs /\ IsOpen(o) /\ o \in Levels /\ attrs[o].nested
      /\ First(o) <= nlmsg_tail
      /\ mem[o].nla_type = attrs[o].type /\ mem[o].nested
  BY <1>1, <1>3 DEF IsOpen, Levels
<1>5. \A i \in DOMAIN open' :
        /\ i \in DOMAIN open /\ open'[i] = open[i] /\ open[i] < o
        /\ i = 1 \/ open'[i - 1] = open[i - 1]
  <2>1. ASSUME NEW i \in DOMAIN open'
        PROVE  /\ i \in DOMAIN open /\ open'[i] = open[i] /\ open[i] < o
               /\ i = 1 \/ open'[i - 1] = open[i - 1]
    <3>1. i \in DOMAIN open /\ i < n /\ open'[i] = open[i]
      BY <1>1, <1>2
    <3>2. open[i] + Align <= open[n]
      BY <1>1, <3>1 DEF Layout, ContainersNested
    <3>3. open[i] < o
      BY <1>1, <3>1, <3>2
    <3>4. i = 1 \/ i - 1 \in 1 .. n - 1
      BY <1>1, <1>2, <3>1
    <3> QED BY <1>2, <3>1, <3>3, <3>4
  <2> QED BY <2>1
<1>6. \A s : IsOpen(s)' <=> IsOpen(s) /\ s # o
  <2>1. ASSUME NEW s PROVE IsOpen(s)' <=> IsOpen(s) /\ s # o
    <3>1. IsOpen(s)' => IsOpen(s) /\ s # o
      <4>1. ASSUME NEW i \in DOMAIN open', open'[i] = s PROVE s # o /\ IsOpen(s)
        <5>1. i \in DOMAIN open /\ open'[i] = open[i] /\ open[i] < o /\ open[i] \in Int
          BY <1>1, <1>5
        <5> QED BY <1>1, <4>1, <5>1 DEF IsOpen
      <4> QED BY <4>1 DEF IsOpen
    <3>2. ASSUME NEW i \in DOMAIN open, open[i] = s, s # o PROVE IsOpen(s)'
      <4>1. i \in 1 .. n - 1
        BY <1>1, <3>2
      <4> QED BY <1>2, <3>2, <4>1 DEF IsOpen
    <3> QED BY <3>1, <3>2 DEF IsOpen
  <2> QED BY <2>1
<1>7. \A s : IsOpen(s) => s <= o /\ s \in DOMAIN attrs
  BY OpenPlace
<1>8. Current = o /\ Current' = q
  <2>1. Current = o
    BY DEF Current
  <2>2. q = IF n = 1 THEN Message ELSE open[n - 1]
    BY <1>1, <1>3
  <2>3. CASE n = 1
    <3>1. open' = <<>>
      BY <1>2, <2>3
    <3> QED BY <2>1, <2>2, <2>3, <3>1 DEF Current
  <2>4. CASE n # 1
    <3>1. open' # <<>> /\ open'[Len(open')] = open[n - 1]
      BY <1>1, <1>2, <2>4
    <3> QED BY <2>1, <2>2, <2>4, <3>1 DEF Current, Innermost, Last
  <2> QED BY <2>3, <2>4
<1>9. q \in Levels /\ q \in Int /\ q < o /\ q # o
  BY <1>4, Place
<1>10. q = Message \/ IsOpen(q)
  BY <1>4, OpenPlace
<1> QED BY <1>4, <1>5, <1>6, <1>7, <1>8, <1>9, <1>10

(* What was put before the innermost container lies before it.             *)
LEMMA DataApart ==
  ASSUME Layout, PartsInv, open # <<>>, NEW o, o = Innermost,
         NEW s \in DOMAIN attrs, s < o
  PROVE  First(s) <= o /\ s + Align + attrs[s].data <= o
<1>1. o \in DOMAIN attrs /\ IsOpen(o)
  <2>1. Len(open) \in DOMAIN open /\ o = open[Len(open)]
    BY Shape DEF Innermost, Last
  <2>2. IsOpen(o)
    BY <2>1 DEF IsOpen
  <2> QED BY <2>2, OpenPlace
<1>2. /\ s \in Int /\ First(s) \in Int /\ s + Align + attrs[s].data <= First(s)
      /\ attrs[s].data \in Nat /\ o \in Int /\ Align \in Int
  BY <1>1, Place, Shape
<1>3. CASE ~ IsOpen(s)
  <2>1. First(s) <= Following(s) /\ Following(s) <= o
    BY <1>1, <1>3 DEF PartsInv, PartsEnd, Ended
  <2>2. Following(s) \in Int
    BY Place
  <2> QED BY <1>2, <2>1, <2>2
<1>4. CASE IsOpen(s)
  <2>1. PICK i \in DOMAIN open : open[i] = s
    BY <1>4 DEF IsOpen
  <2>2. /\ DOMAIN open = 1 .. Len(open) /\ Len(open) \in Nat
        /\ o = open[Len(open)]
    BY Shape DEF Innermost, Last
  <2>3. i + 1 \in DOMAIN open /\ i + 1 # 1 /\ (i + 1) - 1 = i
    <3>1. i # Len(open)
      BY <1>2, <2>1, <2>2
    <3> QED BY <2>2, <3>1
  <2>4. PICK r \in DOMAIN attrs : r = open[i + 1] /\ attrs[r].parent = s
    BY <2>1, <2>3 DEF PartsInv, OpenParts
  <2>5. First(s) <= r /\ r \in Int
    BY <2>4, Place DEF PartsInv, PartsNested
  <2>6. r <= o
    BY <2>3, <2>4, OpenPlace DEF IsOpen
  <2> QED BY <1>2, <2>5, <2>6
<1> QED BY <1>3, <1>4

(* What a container that is ended or cancelled leaves open.                *)
LEMMA ParentsOfOpen ==
  ASSUME Layout, PartsInv, open # <<>>, open' = Front(open),
         NEW o, o = Innermost, NEW q, q = attrs[o].parent,
         NEW p \in Levels, p # o
  PROVE  IF p = q THEN Limit(p) = {} /\ Limit(p)' = {nlmsg_tail'}
         ELSE (p # Message => attrs'[p] = attrs[p]) => Limit(p)' = Limit(p)
<1>1. /\ \A s : IsOpen(s)' <=> IsOpen(s) /\ s # o
      /\ Current = o /\ Current' = q /\ q # o
      /\ q = Message \/ IsOpen(q)
  BY Closing
<1>2. CASE p = q
  BY <1>1, <1>2 DEF Limit
<1>3. CASE p # q
  BY <1>1, <1>3 DEF Limit
<1> QED BY <1>2, <1>3

LEMMA CancelParts ==
  ASSUME Layout, PartsInv, open # <<>>, Cancel, attrs' = Before(Innermost)
  PROVE  PartsInv'
<1> SUFFICES ASSUME NEW o, o = Innermost, NEW q, q = attrs[o].parent
             PROVE  PartsInv'
  OBVIOUS
<1>1. /\ o \in Offsets /\ o \in Int /\ nlmsg_tail' = o
      /\ len' \in Int /\ len' <= o /\ (clipped' <=> len' < o)
      /\ open' = Front(open)
      /\ \A b \in Offsets : b < o => mem'[b] = mem[b]
  BY CancelWrites
<1>2. /\ o \in DOMAIN attrs /\ IsOpen(o)
      /\ \A s : IsOpen(s)' <=> IsOpen(s) /\ s # o
      /\ q \in Levels /\ q \in Int /\ q < o /\ q # o
      /\ \A i \in DOMAIN open' :
           /\ i \in DOMAIN open /\ open'[i] = open[i] /\ open[i] < o
           /\ i = 1 \/ open'[i - 1] = open[i - 1]
  BY <1>1, Closing
<1>3. /\ DOMAIN attrs' = {s \in DOMAIN attrs : s < o}
      /\ \A s \in DOMAIN attrs' : attrs'[s] = attrs[s]
  BY DEF Before
<1>4. ASSUME NEW s \in DOMAIN attrs'
      PROVE  /\ s \in DOMAIN attrs /\ s < o /\ s # o /\ attrs'[s] = attrs[s]
             /\ s \in Int /\ s \in Offsets /\ s # Message /\ attrs[s].data \in Nat
             /\ First(s)' = First(s) /\ Following(s)' = Following(s)
             /\ First(s) <= o /\ s + Align + attrs[s].data <= o
             /\ (IsOpen(s)' <=> IsOpen(s))
  <2>1. /\ s \in DOMAIN attrs /\ s < o /\ attrs'[s] = attrs[s]
        /\ s \in Int /\ s \in Offsets /\ s # Message /\ attrs[s].data \in Nat
    BY <1>3, Place
  <2>2. First(s)' = First(s) /\ Following(s)' = Following(s)
    BY <2>1 DEF First, Following
  <2>3. First(s) <= o /\ s + Align + attrs[s].data <= o
    BY <2>1, DataApart
  <2>4. s # o
    BY <1>1, <2>1
  <2> QED BY <1>2, <2>1, <2>2, <2>3, <2>4
<1>5. /\ Levels' = {p \in Levels : p < o}
      /\ \A p \in Levels' : p = Message \/ p \in DOMAIN attrs'
      /\ \A p \in Levels' : First(p)' = First(p) /\ p # o
  <2>1. Message < o /\ Message # o
    BY <1>1 DEF Message, Offsets
  <2>2. Levels' = {p \in Levels : p < o}
    BY <1>3, <2>1 DEF Levels
  <2>3. \A p \in Levels' : p = Message \/ p \in DOMAIN attrs'
    BY DEF Levels
  <2>4. First(Message)' = First(Message)
    BY DEF First
  <2> QED BY <1>4, <2>1, <2>2, <2>3, <2>4
<1>6. PartsTypeOK'
  BY <1>3 DEF PartsInv, PartsTypeOK
<1>7. PartsNested'
  <2>1. ASSUME NEW s \in DOMAIN attrs', NEW p, p = attrs'[s].parent
        PROVE  /\ p \in Levels' /\ p < s /\ First(p)' <= s
               /\ Aligned(s) = s /\ s < nlmsg_tail'
               /\ Align <= attrs'[s].size
               /\ \A x \in DOMAIN attrs' : IsOpen(x)' /\ x < s => x <= p
    <3>1. /\ p \in Levels /\ p < s /\ First(p) <= s
          /\ Aligned(s) = s /\ p \in Int
          /\ Align <= attrs[s].size
          /\ \A x \in DOMAIN attrs : IsOpen(x) /\ x < s => x <= p
      BY <1>4, <2>1, Place DEF PartsInv, PartsNested
    <3>2. p \in Levels'
      BY <1>1, <1>4, <1>5, <3>1
    <3>3. First(p)' <= s
      BY <1>5, <3>1, <3>2
    <3> QED BY <1>1, <1>4, <3>1, <3>2, <3>3
  <2>2. \A s \in DOMAIN attrs' : First(attrs[s].parent)' <= s
    BY <1>4, <2>1
  <2>3. \A s \in DOMAIN attrs' : attrs'[s].parent = attrs[s].parent
    BY <1>4
  <2> QED BY <2>1, <2>2, <2>3 DEF PartsNested
<1>8. PartsEnd'
  <2>1. ASSUME NEW s \in DOMAIN attrs', ~ IsOpen(s)', NEW p, p = attrs'[s].parent
        PROVE  /\ First(s)' <= Following(s)' /\ Following(s)' <= nlmsg_tail'
               /\ attrs'[s].nested => Aligned(attrs'[s].size) = attrs'[s].size
               /\ \A x \in DOMAIN attrs' : IsOpen(x)' /\ s < x => Following(s)' <= x
               /\ p # Message /\ ~ IsOpen(p)' => Following(s)' <= p + attrs'[p].size
    <3>1. /\ First(s) <= Following(s)
          /\ attrs[s].nested => Aligned(attrs[s].size) = attrs[s].size
          /\ \A x \in DOMAIN attrs : IsOpen(x) /\ s < x => Following(s) <= x
          /\ p # Message /\ ~ IsOpen(p) => Following(s) <= p + attrs[p].size
      BY <1>4, <2>1 DEF PartsInv, PartsEnd, Ended
    <3>2. Following(s) <= o
      BY <1>2, <1>4, <3>1
    <3>3. p # Message => p \in DOMAIN attrs'
      <4>1. p \in Levels /\ p < s /\ p \in Int
        BY <1>4, <2>1, Place
      <4>2. p \in Levels'
        BY <1>1, <1>4, <1>5, <4>1
      <4> QED BY <1>5, <4>2
    <3> QED BY <1>1, <1>4, <3>1, <3>2, <3>3
  <2>2. ASSUME NEW s \in DOMAIN attrs', ~ IsOpen(s)', attrs'[s].parent # Message,
               ~ IsOpen(attrs[s].parent)'
        PROVE  Following(s)' <= attrs'[s].parent + attrs'[attrs'[s].parent].size
    BY <1>4, <2>1, <2>2
  <2>3. \A s \in DOMAIN attrs' : attrs'[s].parent = attrs[s].parent
    BY <1>4
  <2> QED BY <2>1, <2>2, <2>3 DEF PartsEnd, Ended
<1>9. \A p \in Levels : p < o =>
        /\ Kids(p)' = IF p = q THEN Kids(p) \ {o} ELSE Kids(p)
        /\ Ended(Kids(p))' = Ended(Kids(p))
  <2>1. ASSUME NEW p \in Levels, p < o
        PROVE  Kids(p)' = IF p = q THEN Kids(p) \ {o} ELSE Kids(p)
    <3>1. Kids(p)' = {s \in DOMAIN attrs : s < o /\ attrs[s].parent = p}
      BY <1>3 DEF Kids
    <3>2. \A s \in DOMAIN attrs : o < s => attrs[s].parent # p
      <4>1. ASSUME NEW s \in DOMAIN attrs, o < s PROVE attrs[s].parent # p
        <5>1. o <= attrs[s].parent /\ attrs[s].parent \in Int
          BY <1>2, <4>1, Place DEF PartsInv, PartsNested
        <5>2. p \in Int
          BY <2>1, Place DEF Levels, Message
        <5> QED BY <1>1, <2>1, <5>1, <5>2
      <4> QED BY <4>1
    <3>3. \A s \in DOMAIN attrs : s < o \/ s = o \/ o < s
      BY <1>1, Place
    <3>4. ~ (o < o)
      BY <1>1
    <3> QED BY <1>2, <3>1, <3>2, <3>3, <3>4 DEF Kids
  <2>2. ASSUME NEW p \in Levels, p < o
        PROVE  Ended(Kids(p))' = Ended(Kids(p))
    <3>1. Ended(Kids(p))' = {s \in Kids(p)' : ~ IsOpen(s)'}
      BY DEF Ended
    <3>2. Ended(Kids(p)) = {s \in Kids(p) : ~ IsOpen(s)}
      BY DEF Ended
    <3>3. Kids(p)' = Kids(p) \/ Kids(p)' = Kids(p) \ {o}
      BY <2>1, <2>2
    <3>4. IsOpen(o) /\ \A s : IsOpen(s)' <=> IsOpen(s) /\ s # o
      BY <1>2
    <3>5. CASE Kids(p)' = Kids(p) /\ o \notin Kids(p)
      BY <3>1, <3>2, <3>4, <3>5
    <3>6. CASE Kids(p)' = Kids(p) \ {o}
      BY <3>1, <3>2, <3>4, <3>6
    <3>7. o \notin Kids(p)'
      BY <1>1, <1>4 DEF Kids
    <3> QED BY <3>3, <3>5, <3>6, <3>7
  <2> QED BY <2>1, <2>2
<1>10. OpenParts'
  <2>1. ASSUME NEW i \in DOMAIN open', NEW x, x = open'[i]
        PROVE  /\ x \in DOMAIN attrs' /\ attrs'[x].nested
               /\ attrs'[x].parent = IF i = 1 THEN Message ELSE open'[i - 1]
               /\ mem'[x].nla_type = attrs'[x].type /\ mem'[x].nested
               /\ First(x)' <= nlmsg_tail'
               /\ attrs'[x].data \in {0, RawLen[attrs'[x].type]}
               /\ Kids(x)' # {} => attrs'[x].data = RawLen[attrs'[x].type]
               /\ ~ (attrs'[x].data = 0 /\ RawLen[attrs'[x].type] > 0)
    <3>1. /\ i \in DOMAIN open /\ x = open[i] /\ x < o
          /\ i = 1 \/ open'[i - 1] = open[i - 1]
      BY <1>2, <2>1
    <3>2. /\ x \in DOMAIN attrs /\ attrs[x].nested
          /\ attrs[x].parent = IF i = 1 THEN Message ELSE open[i - 1]
          /\ mem[x].nla_type = attrs[x].type /\ mem[x].nested
          /\ attrs[x].data \in {0, RawLen[attrs[x].type]}
          /\ Kids(x) # {} => attrs[x].data = RawLen[attrs[x].type]
          /\ attrs[x].data = 0 /\ RawLen[attrs[x].type] > 0 => x = o
      BY <3>1 DEF PartsInv, OpenParts
    <3>3. x \in DOMAIN attrs'
      BY <1>3, <3>1, <3>2
    <3>4. /\ attrs'[x] = attrs[x] /\ First(x)' <= nlmsg_tail' /\ x # o
          /\ x \in Offsets
      BY <1>1, <1>4, <3>3
    <3>5. mem'[x] = mem[x]
      BY <1>1, <3>1, <3>4
    <3>6. Kids(x)' # {} => Kids(x) # {}
      <4>1. x \in Levels
        BY <3>2 DEF Levels
      <4> QED BY <1>9, <3>1, <4>1
    <3> QED BY <3>1, <3>2, <3>3, <3>4, <3>5, <3>6
  <2>2. \A i \in DOMAIN open' : First(open[i])' <= nlmsg_tail'
    BY <1>2, <2>1
  <2>3. \A i \in DOMAIN open' :
          Kids(open[i])' # {} => attrs'[open[i]].data = RawLen[attrs'[open[i]].type]
    BY <1>2, <2>1
  <2>4. \A i \in DOMAIN open' : open'[i] = open[i]
    BY <1>2
  <2> QED BY <2>1, <2>2, <2>3, <2>4 DEF OpenParts
<1>11. Chained'
  <2>1. ASSUME NEW p \in Levels'
        PROVE  Visited(p)' = (Kids(p) \cup Limit(p))'
    <3>1. p \in Levels /\ p < o /\ p # o
      BY <1>5
    <3>2. /\ Kids(p)' = IF p = q THEN Kids(p) \ {o} ELSE Kids(p)
          /\ Ended(Kids(p))' = Ended(Kids(p))
      BY <1>9, <3>1
    <3>3. Visited(p)' = Visited(p)
      <4>1. Visited(p)' = {First(p)'} \cup {Following(s)' : s \in Ended(Kids(p))'}
        BY DEF Visited
      <4>2. \A s \in Ended(Kids(p)) : Following(s)' = Following(s)
        <5>1. \A s \in Ended(Kids(p))' : s \in DOMAIN attrs'
          BY DEF Ended, Kids
        <5> QED BY <1>4, <3>2, <5>1
      <4> QED BY <1>5, <3>2, <4>1, <4>2 DEF Visited
    <3>4. Visited(p) = Kids(p) \cup Limit(p)
      BY <3>1 DEF PartsInv, Chained
    <3>5. IF p = q THEN Limit(p) = {} /\ Limit(p)' = {o}
          ELSE Limit(p)' = Limit(p)
      <4>1. p # Message => attrs'[p] = attrs[p]
        BY <1>4, <1>5
      <4> QED BY <1>1, <3>1, <4>1, ParentsOfOpen
    <3>6. p = q => o \in Kids(p)
      BY <1>2 DEF Kids
    <3> QED BY <3>2, <3>3, <3>4, <3>5, <3>6
  <2> QED BY <2>1 DEF Chained
<1>12. NothingChanged'
  <2>1. ASSUME NEW s \in DOMAIN attrs'
        PROVE  /\ Fits(s)' /\ ~ IsOpen(s)' => mem'[s] = HeaderOf(s)'
               /\ \A b \in Offsets :
                    s + Align <= b /\ b < s + Align + attrs'[s].data =>
                      mem'[b] = attrs'[s].fill
    <3>1. (Fits(s)' <=> Fits(s)) /\ HeaderOf(s)' = HeaderOf(s) /\ mem'[s] = mem[s]
      BY <1>1, <1>4 DEF Fits, HeaderOf
    <3>2. \A b \in Offsets : b < s + Align + attrs[s].data => mem'[b] = mem[b]
      <4>1. /\ s \in Int /\ attrs[s].data \in Int /\ Align \in Int /\ o \in Int
            /\ s + Align + attrs[s].data <= o
        BY <1>1, <1>4, Shape
      <4>2. \A b \in Offsets : b < s + Align + attrs[s].data => b < o
        BY <4>1, Shape
      <4> QED BY <1>1, <4>2
    <3> QED BY <1>4, <3>1, <3>2 DEF PartsInv, NothingChanged
  <2> QED BY <2>1 DEF NothingChanged
<1>13. open' = <<>> /\ ~ clipped' => len' = nlmsg_tail'
  BY <1>1
<1> QED
  BY <1>6, <1>7, <1>8, <1>10, <1>11, <1>12, <1>13 DEF PartsInv

(* nla_len is all that is written when a container is ended.               *)
LEMMA LengthWritten ==
  ASSUME NEW h \in [nla_len : 0 .. MaxLen, nla_type : Types, nested : BOOLEAN],
         h.nested = TRUE, NEW n
  PROVE  [h EXCEPT !.nla_len = n] =
           [nla_len |-> n, nla_type |-> h.nla_type, nested |-> TRUE]
<1> DEFINE e == [h EXCEPT !.nla_len = n]
<1>1. DOMAIN e = {"nla_len", "nla_type", "nested"}
  OBVIOUS
<1>2. e.nla_len = n /\ e.nla_type = h.nla_type /\ e.nested = TRUE
  OBVIOUS
<1>3. e = [f \in {"nla_len", "nla_type", "nested"} |-> e[f]]
  BY <1>1
<1> HIDE DEF e
<1>4. e = [nla_len |-> n, nla_type |-> h.nla_type, nested |-> TRUE]
  BY <1>2, <1>3
<1> QED BY <1>4 DEF e

LEMMA NestEndParts ==
  ASSUME Layout, PartsInv, NEW keep_empty \in BOOLEAN, NestEnd(keep_empty)
  PROVE  PartsInv'
<1> SUFFICES ASSUME NEW o, o = Innermost, NEW q, q = attrs[o].parent,
                    NEW a, a = nlmsg_tail, NEW n, n = a - o
             PROVE  PartsInv'
  OBVIOUS
<1>1. open # <<>>
  BY DEF NestEnd, nest_end
<1>2. CASE Dropped(n, keep_empty)
  <2>1. Cancel /\ attrs' = Before(Innermost)
    BY <1>2 DEF NestEnd, nest_end
  <2> QED BY <1>1, <2>1, CancelParts
<1>3. CASE ~ Dropped(n, keep_empty)
  <2>1. /\ mem' = [mem EXCEPT ![o].nla_len = n % (MaxLen + 1)]
        /\ Pad /\ open' = Front(open) /\ clipped' = FALSE
        /\ attrs' = [attrs EXCEPT ![o].size = n]
    BY <1>3 DEF NestEnd, nest_end
  <2>2. /\ o \in DOMAIN attrs /\ IsOpen(o) /\ o \in Levels /\ attrs[o].nested
        /\ \A s : IsOpen(s)' <=> IsOpen(s) /\ s # o
        /\ \A s : IsOpen(s) => s <= o /\ s \in DOMAIN attrs
        /\ Current = o /\ Current' = q
        /\ q \in Levels /\ q \in Int /\ q < o /\ q # o
        /\ q = Message \/ IsOpen(q)
        /\ First(o) <= a
        /\ mem[o].nla_type = attrs[o].type /\ mem[o].nested
        /\ \A i \in DOMAIN open' :
             /\ i \in DOMAIN open /\ open'[i] = open[i] /\ open[i] < o
             /\ i = 1 \/ open'[i - 1] = open[i - 1]
    BY <1>1, <2>1, Closing
  <2>3. /\ o \in Int /\ o \in Offsets /\ o # Message /\ Multiple(o)
        /\ a \in Int /\ Multiple(a) /\ o + Align <= a /\ Align \in Int /\ Align > 0
        /\ mem \in [Offsets -> Byte] /\ mem[o] \in Header
        /\ MaxLen \in Nat
    BY <1>1, <2>2, Place, Shape, FrontParts, NlMessageAssumption
  <2>4. /\ n \in Nat /\ n \in Int /\ Align <= n /\ Aligned(n) = n /\ o + n = a
        /\ n <= MaxLen /\ n % (MaxLen + 1) = n
    <3>1. n \in Nat /\ n \in Int /\ Align <= n /\ o + n = a
      BY <2>3
    <3>2. n <= MaxLen
      BY <1>3, <2>3, <3>1 DEF Dropped
    <3>3. n % (MaxLen + 1) = n
      <4>1. n < MaxLen + 1 /\ MaxLen + 1 \in Int
        BY <2>3, <3>1, <3>2
      <4> QED BY <3>1, <4>1, SmallRemainder
    <3>4. Multiple(n)
      BY <2>3, MultipleDifference
    <3>5. Aligned(n) = n
      BY <3>1, <3>4, AlignedSame
    <3> QED BY <3>1, <3>2, <3>3, <3>5
  <2>5. len' = a /\ nlmsg_tail' = a
    <3>1. len' = a
      BY <2>1, Shape DEF Pad
    <3> QED BY <3>1, Shape DEF nlmsg_tail
  <2>6. /\ DOMAIN attrs' = DOMAIN attrs
        /\ \A s \in DOMAIN attrs : s # o => attrs'[s] = attrs[s]
        /\ attrs'[o] = [attrs[o] EXCEPT !.size = n]
    BY <2>1, <2>2
  <2>7. /\ attrs'[o].size = n /\ attrs'[o].data = attrs[o].data
        /\ attrs'[o].fill = attrs[o].fill
        /\ attrs'[o].parent = attrs[o].parent /\ attrs'[o].type = attrs[o].type
        /\ attrs'[o].nested = attrs[o].nested
        /\ attrs'[o] \in [parent : Offsets \cup {Message}, type : Types,
                          nested : BOOLEAN, size : Nat, data : Nat,
                          fill : Values \cup {Zero}]
    <3>1. attrs[o] \in [parent : Offsets \cup {Message}, type : Types,
                        nested : BOOLEAN, size : Nat, data : Nat,
                        fill : Values \cup {Zero}]
      BY <2>2 DEF PartsInv, PartsTypeOK
    <3> QED BY <2>4, <2>6, <3>1
  <2>8. /\ PartsTypeOK'
        /\ \A s \in DOMAIN attrs :
             /\ attrs'[s].parent = attrs[s].parent /\ attrs'[s].type = attrs[s].type
             /\ attrs'[s].nested = attrs[s].nested /\ attrs'[s].data = attrs[s].data
             /\ attrs'[s].fill = attrs[s].fill
    BY <2>6, <2>7 DEF PartsInv, PartsTypeOK
  <2>9. /\ Levels' = Levels
        /\ \A p : Kids(p)' = Kids(p)
        /\ \A p \in Levels : First(p)' = First(p)
        /\ \A s \in DOMAIN attrs : First(s)' = First(s)
        /\ \A s \in DOMAIN attrs : s # o => Following(s)' = Following(s)
        /\ Following(o)' = a
    <3>1. Levels' = Levels
      BY <2>6, <2>8 DEF Levels
    <3>2. \A p : Kids(p)' = Kids(p)
      BY <2>6, <2>8 DEF Kids
    <3>3. \A p \in Levels : First(p)' = First(p)
      BY <2>8 DEF First, Levels
    <3>4. \A s \in DOMAIN attrs : First(s)' = First(s)
      BY <2>8 DEF First
    <3>5. \A s \in DOMAIN attrs : s # o => Following(s)' = Following(s)
      BY <2>6 DEF Following
    <3>6. Following(o)' = a
      BY <2>4, <2>7 DEF Following
    <3> QED BY <3>1, <3>2, <3>3, <3>4, <3>5, <3>6
  <2>10. /\ mem'[o] = [mem[o] EXCEPT !.nla_len = n]
         /\ \A b \in Offsets : b # o => mem'[b] = mem[b]
    BY <2>1, <2>3, <2>4
  <2>11. PartsNested'
    <3>1. ASSUME NEW s \in DOMAIN attrs', NEW p, p = attrs'[s].parent
          PROVE  /\ p \in Levels /\ p < s /\ First(p)' <= s
                 /\ Aligned(s) = s /\ s < a
                 /\ Align <= attrs'[s].size
                 /\ \A x \in DOMAIN attrs : IsOpen(x) /\ x < s => x <= p
      <4>1. /\ s \in DOMAIN attrs /\ p = attrs[s].parent
            /\ p \in Levels /\ p < s /\ First(p) <= s
            /\ Aligned(s) = s /\ s < a
            /\ Align <= attrs[s].size
            /\ \A x \in DOMAIN attrs : IsOpen(x) /\ x < s => x <= p
        BY <2>6, <2>8, <3>1 DEF PartsInv, PartsNested
      <4>2. Align <= attrs'[s].size
        BY <2>4, <2>6, <2>7, <4>1
      <4> QED BY <2>9, <4>1, <4>2
    <3>2. \A s \in DOMAIN attrs' : First(attrs[s].parent)' <= s
      BY <2>6, <2>8, <3>1
    <3> QED BY <2>2, <2>5, <2>6, <2>8, <2>9, <3>1, <3>2 DEF PartsNested
  <2>12. PartsEnd'
    <3>1. ASSUME NEW s \in DOMAIN attrs', ~ IsOpen(s)', NEW p, p = attrs'[s].parent
          PROVE  /\ First(s)' <= Following(s)' /\ Following(s)' <= a
                 /\ attrs'[s].nested => Aligned(attrs'[s].size) = attrs'[s].size
                 /\ \A x \in DOMAIN attrs : IsOpen(x)' /\ s < x => Following(s)' <= x
                 /\ p # Message /\ ~ IsOpen(p)' => Following(s)' <= p + attrs'[p].size
      <4>1. s \in DOMAIN attrs /\ p = attrs[s].parent /\ attrs'[s].nested = attrs[s].nested
        BY <2>6, <2>8, <3>1
      <4>2. CASE s = o
        <5>1. \A x \in DOMAIN attrs : ~ (IsOpen(x) /\ o < x)
          <6>1. ASSUME NEW x \in DOMAIN attrs, IsOpen(x) PROVE ~ (o < x)
            BY <2>2, <2>3, <6>1, Place
          <6> QED BY <6>1
        <5>2. a <= a
          BY <2>3
        <5>3. p = Message \/ IsOpen(p)'
          BY <2>2, <4>1, <4>2
        <5> QED BY <2>2, <2>4, <2>7, <2>9, <4>2, <5>1, <5>2, <5>3
      <4>3. CASE s # o
        <5>1. /\ ~ IsOpen(s)
              /\ First(s) <= Following(s) /\ Following(s) <= a
              /\ attrs[s].nested => Aligned(attrs[s].size) = attrs[s].size
              /\ \A x \in DOMAIN attrs : IsOpen(x) /\ s < x => Following(s) <= x
              /\ p # Message /\ ~ IsOpen(p) => Following(s) <= p + attrs[p].size
          BY <2>2, <3>1, <4>1, <4>3 DEF PartsInv, PartsEnd, Ended
        <5>2. /\ First(s)' = First(s) /\ Following(s)' = Following(s)
              /\ attrs'[s].size = attrs[s].size
          BY <2>6, <2>9, <4>1, <4>3
        <5>3. p # Message /\ ~ IsOpen(p)' => Following(s) <= p + attrs'[p].size
          <6>1. CASE p = o
            BY <2>4, <2>7, <5>1, <6>1
          <6>2. CASE p # o /\ p # Message
            <7>1. p \in DOMAIN attrs
              BY <4>1, <6>2, Place DEF Levels
            <7> QED BY <2>2, <2>6, <5>1, <6>2, <7>1
          <6> QED BY <6>1, <6>2
        <5> QED BY <2>2, <4>1, <5>1, <5>2, <5>3
      <4> QED BY <4>2, <4>3
    <3>2. ASSUME NEW s \in DOMAIN attrs', ~ IsOpen(s)', attrs'[s].parent # Message,
                 ~ IsOpen(attrs[s].parent)'
          PROVE  Following(s)' <= attrs'[s].parent + attrs'[attrs'[s].parent].size
      BY <2>6, <2>8, <3>1, <3>2
    <3>3. \A s \in DOMAIN attrs' : attrs'[s].parent = attrs[s].parent
      BY <2>6, <2>8
    <3> QED BY <2>5, <2>6, <3>1, <3>2, <3>3 DEF PartsEnd, Ended
  <2>13. OpenParts'
    <3>1. ASSUME NEW i \in DOMAIN open', NEW x, x = open'[i]
          PROVE  /\ x \in DOMAIN attrs /\ attrs'[x].nested
                 /\ attrs'[x].parent = IF i = 1 THEN Message ELSE open'[i - 1]
                 /\ mem'[x].nla_type = attrs'[x].type /\ mem'[x].nested
                 /\ First(x)' <= a
                 /\ attrs'[x].data \in {0, RawLen[attrs'[x].type]}
                 /\ Kids(x) # {} => attrs'[x].data = RawLen[attrs'[x].type]
                 /\ ~ (attrs'[x].data = 0 /\ RawLen[attrs'[x].type] > 0)
      <4>1. /\ i \in DOMAIN open /\ x = open[i] /\ x < o
            /\ i = 1 \/ open'[i - 1] = open[i - 1]
        BY <2>2, <3>1
      <4>2. /\ x \in DOMAIN attrs /\ attrs[x].nested
            /\ attrs[x].parent = IF i = 1 THEN Message ELSE open[i - 1]
            /\ mem[x].nla_type = attrs[x].type /\ mem[x].nested
            /\ First(x) <= a
            /\ attrs[x].data \in {0, RawLen[attrs[x].type]}
            /\ Kids(x) # {} => attrs[x].data = RawLen[attrs[x].type]
            /\ attrs[x].data = 0 /\ RawLen[attrs[x].type] > 0 => x = o
        BY <4>1 DEF PartsInv, OpenParts
      <4>3. x # o /\ x \in Offsets
        BY <2>3, <4>1, <4>2, Place
      <4>4. mem'[x] = mem[x] /\ attrs'[x] = attrs[x] /\ First(x)' = First(x)
        BY <2>6, <2>9, <2>10, <4>2, <4>3
      <4> QED BY <4>1, <4>2, <4>3, <4>4
    <3>2. \A i \in DOMAIN open' : First(open[i])' <= nlmsg_tail'
      BY <2>2, <2>5, <3>1
    <3>3. \A i \in DOMAIN open' : open'[i] = open[i]
      BY <2>2
    <3> QED BY <2>6, <2>9, <3>1, <3>2, <3>3 DEF OpenParts
  <2>14. Chained'
    <3>1. ASSUME NEW p \in Levels
          PROVE  Visited(p)' = (Kids(p) \cup Limit(p))'
      <4>1. Visited(p) = Kids(p) \cup Limit(p)
        BY DEF PartsInv, Chained
      <4>2. Ended(Kids(p)) = {s \in Kids(p) : ~ IsOpen(s)}
        BY DEF Ended
      <4>3. Ended(Kids(p))' = {s \in Kids(p) : ~ IsOpen(s) \/ s = o}
        BY <2>2, <2>9 DEF Ended
      <4>4. Visited(p)' = {First(p)} \cup {Following(s)' : s \in Ended(Kids(p))'}
        BY <2>9 DEF Visited
      <4>5. \A s \in Ended(Kids(p)) : Following(s)' = Following(s)
        BY <2>2, <2>9, <4>2 DEF Kids
      <4>6. CASE p = q
        <5>1. o \in Kids(p)
          BY <2>2, <4>6 DEF Kids
        <5>2. Ended(Kids(p))' = Ended(Kids(p)) \cup {o}
          BY <2>2, <4>2, <4>3, <5>1
        <5>3. Visited(p)' = Visited(p) \cup {a}
          BY <2>9, <4>4, <4>5, <5>2 DEF Visited
        <5>4. Limit(p) = {} /\ Limit(p)' = {a}
          BY <1>1, <2>1, <2>2, <2>5, <4>6, ParentsOfOpen
        <5> QED BY <2>9, <4>1, <5>3, <5>4
      <4>7. CASE p # q
        <5>1. Ended(Kids(p))' = Ended(Kids(p))
          BY <4>2, <4>3, <4>7 DEF Kids
        <5>2. Visited(p)' = Visited(p)
          BY <4>4, <4>5, <5>1 DEF Visited
        <5>3. CASE p = o
          <6>1. Limit(o) = {a}
            BY <2>2 DEF Limit
          <6>2. Limit(o)' = {a}
            BY <2>2, <2>3, <2>4, <2>7 DEF Limit
          <6> QED BY <2>9, <4>1, <5>2, <5>3, <6>1, <6>2
        <5>4. CASE p # o
          <6>1. p # Message => attrs'[p] = attrs[p]
            BY <2>6, <5>4 DEF Levels
          <6>2. Limit(p)' = Limit(p)
            BY <1>1, <2>1, <4>7, <5>4, <6>1, ParentsOfOpen
          <6> QED BY <2>9, <4>1, <5>2, <6>2
        <5> QED BY <5>3, <5>4
      <4> QED BY <4>6, <4>7
    <3> QED BY <2>9, <3>1 DEF Chained
  <2>15. NothingChanged'
    <3>1. ASSUME NEW s \in DOMAIN attrs', Fits(s)', ~ IsOpen(s)'
          PROVE  mem'[s] = HeaderOf(s)'
      <4>1. s \in DOMAIN attrs
        BY <2>6
      <4>2. CASE s = o
        <5>1. /\ mem[o] \in [nla_len : 0..MaxLen, nla_type : Types, nested : BOOLEAN]
              /\ mem[o].nested = TRUE
          BY <2>2, <2>3 DEF Header
        <5>2. [mem[o] EXCEPT !.nla_len = n] =
                [nla_len |-> n, nla_type |-> attrs[o].type, nested |-> TRUE]
          <6>1. mem[o].nla_type = attrs[o].type
            BY <2>2
          <6>2. [mem[o] EXCEPT !.nla_len = n] =
                  [nla_len |-> n, nla_type |-> mem[o].nla_type, nested |-> TRUE]
            BY <5>1, LengthWritten, Zenon
          <6> QED BY <6>1, <6>2
        <5>3. attrs'[o].nested = TRUE
          BY <2>2, <2>7, <4>1 DEF PartsInv, PartsTypeOK
        <5> QED BY <2>7, <2>10, <4>2, <5>2, <5>3 DEF HeaderOf
      <4>3. CASE s # o
        <5>1. /\ Fits(s) /\ ~ IsOpen(s) /\ HeaderOf(s)' = HeaderOf(s)
              /\ s \in Offsets
          BY <2>2, <2>6, <3>1, <4>1, <4>3, Place DEF Fits, HeaderOf
        <5> QED BY <2>10, <4>1, <4>3, <5>1 DEF PartsInv, NothingChanged
      <4> QED BY <4>2, <4>3
    <3>2. ASSUME NEW s \in DOMAIN attrs', NEW b \in Offsets,
                 s + Align <= b, b < s + Align + attrs'[s].data
          PROVE  mem'[b] = attrs'[s].fill
      <4>1. /\ s \in DOMAIN attrs /\ attrs'[s].data = attrs[s].data
            /\ attrs'[s].fill = attrs[s].fill
        BY <2>6, <2>8
      <4>2. mem[b] = attrs[s].fill
        BY <3>2, <4>1 DEF PartsInv, NothingChanged
      <4>3. b # o
        <5>1. s \in Int /\ attrs[s].data \in Int /\ b \in Int
          BY <4>1, Place, Shape
        <5>2. CASE s < o
          <6>1. s + Align + attrs[s].data <= o
            BY <1>1, <4>1, <5>2, DataApart
          <6> QED BY <2>3, <3>2, <4>1, <5>1, <6>1
        <5>3. CASE ~ (s < o)
          BY <2>3, <3>2, <5>1, <5>3
        <5> QED BY <5>2, <5>3
      <4> QED BY <2>10, <4>1, <4>2, <4>3
    <3> QED BY <3>1, <3>2 DEF NothingChanged
  <2> QED
    BY <2>5, <2>8, <2>11, <2>12, <2>13, <2>14, <2>15 DEF PartsInv
<1> QED BY <1>2, <1>3

-----------------------------------------------------------------------------
(* Every step of the message with its history.                             *)

LEMMA PartsStart ==
  ASSUME PartsInit
  PROVE  PartsInv
<1>1. DOMAIN attrs = {} /\ open = <<>>
  BY DEF PartsInit, Init
<1>2. len = 0 /\ nlmsg_tail = 0
  <2>1. Aligned(0) = 0
    BY AlignedSame, MultipleConstants
  <2> QED BY <2>1 DEF PartsInit, Init, nlmsg_tail
<1>3. PartsTypeOK /\ PartsNested /\ PartsEnd /\ OpenParts /\ NothingChanged
  BY <1>1 DEF PartsTypeOK, PartsNested, PartsEnd, OpenParts, NothingChanged, Ended
<1>4. Chained
  <2>1. Levels = {Message} /\ Kids(Message) = {}
    BY <1>1 DEF Levels, Kids
  <2>2. Visited(Message) = {0}
    BY <2>1 DEF Visited, First, Ended
  <2>3. Limit(Message) = {0}
    BY <1>1, <1>2 DEF Limit, Current
  <2> QED BY <2>1, <2>2, <2>3 DEF Chained
<1> QED BY <1>2, <1>3, <1>4 DEF PartsInv

LEMMA PartsStep ==
  ASSUME Layout, PartsInv, [PartsNext]_allVars
  PROVE  PartsInv'
<1>1. ASSUME NEW t \in Types, NEW n \in Lens, NEW v \in Values, Put(t, n, v)
      PROVE  PartsInv'
  BY <1>1, PutParts
<1>2. ASSUME NEW t \in Types, NestStart(t) PROVE PartsInv'
  BY <1>2, NestStartParts
<1>3. ASSUME NEW v \in Values, AppendStructure(v) PROVE PartsInv'
  BY <1>3, AppendStructureParts
<1>4. ASSUME NEW keep_empty \in BOOLEAN, NestEnd(keep_empty) PROVE PartsInv'
  BY <1>4, NestEndParts
<1>5. CASE NestCancel
  BY <1>5, CancelParts DEF NestCancel, nla_nest_cancel
<1>6. CASE Again
  <2>1. PartsInit'
    BY <1>6 DEF Again, Renew, PartsInit, Init, Layout
  <2> QED BY <2>1, PartsStart, PTL
<1>7. CASE UNCHANGED allVars
  <2>1. /\ attrs' = attrs /\ open' = open /\ mem' = mem /\ len' = len
        /\ clipped' = clipped
    BY <1>7 DEF allVars, vars
  <2>2. PartsTypeOK' /\ NothingChanged'
    BY <2>1 DEF PartsInv, PartsTypeOK, NothingChanged, Fits, IsOpen, HeaderOf
  <2>3. PartsNested'
    BY <2>1 DEF PartsInv, PartsNested, Levels, First, IsOpen, nlmsg_tail
  <2>4. PartsEnd'
    BY <2>1 DEF PartsInv, PartsEnd, Ended, First, Following, IsOpen, nlmsg_tail
  <2>5. OpenParts'
    BY <2>1 DEF PartsInv, OpenParts, Kids, First, Innermost, nlmsg_tail
  <2>6. Chained'
    <3>1. \A p : Kids(p)' = Kids(p) /\ Ended(Kids(p))' = Ended(Kids(p))
      BY <2>1 DEF Kids, Ended, IsOpen
    <3>2. \A p : First(p)' = First(p) /\ Following(p)' = Following(p)
      BY <2>1 DEF First, Following
    <3>3. \A p : Visited(p)' = Visited(p)
      BY <3>1, <3>2 DEF Visited
    <3>4. \A p : Limit(p)' = Limit(p)
      BY <2>1 DEF Limit, IsOpen, Current, Innermost, nlmsg_tail
    <3>5. Levels' = Levels
      BY <2>1 DEF Levels
    <3> QED BY <3>1, <3>3, <3>4, <3>5 DEF PartsInv, Chained
  <2> QED BY <2>1, <2>2, <2>3, <2>4, <2>5, <2>6 DEF PartsInv, nlmsg_tail
<1> QED BY <1>1, <1>2, <1>3, <1>4, <1>5, <1>6, <1>7 DEF PartsNext

(* The history follows the message and holds back none of its steps.       *)
LEMMA StepOfMessage == [PartsNext]_allVars => [Next]_vars
BY DEF PartsNext, Next, allVars, Put, NestStart, AppendStructure, NestEnd, NestCancel,
       Again

(* The attributes lie one in the other or one behind the other, and what a *)
(* reader visits at each level are their places and where the level ends.  *)
THEOREM PartsInOrder == PartsSpec => [](Layout /\ PartsInv)
<1>1. PartsInit => Layout /\ PartsInv
  BY LayoutInit, PartsStart DEF PartsInit
<1>2. Layout /\ PartsInv /\ [PartsNext]_allVars => (Layout /\ PartsInv)'
  BY PartsStep, LayoutStep, StepOfMessage
<1> QED BY <1>1, <1>2, PTL DEF PartsSpec

(* Whatever is put, a reader of the message, or of a container that was    *)
(* ended, comes to all of it and to nothing else: nla_ok never tells it    *)
(* too early that nothing is left.                                         *)
THEOREM ReadersMissNothing == PartsSpec => []NothingCutOff
<1>1. Layout /\ PartsInv => NothingCutOff
  <2> SUFFICES ASSUME Layout, PartsInv, NEW p \in Levels, Readable(p)
               PROVE  /\ {First(p)} \cup {nla_next(s) : s \in Kids(p)} =
                           Kids(p) \cup {ReadEnd(p)}
                      /\ \A s \in Kids(p) : nla_ok(s, ReadEnd(p) - s)
    BY DEF NothingCutOff
  <2>1. /\ p = Message => open = <<>> /\ ~ clipped
        /\ p # Message => ~ IsOpen(p) /\ Fits(p)
        /\ \A s \in Kids(p) : Fits(s)
    BY DEF Readable
  <2>2. ASSUME NEW s \in Kids(p)
        PROVE  /\ s \in DOMAIN attrs /\ attrs[s].parent = p /\ ~ IsOpen(s)
               /\ mem[s] = HeaderOf(s) /\ mem[s].nla_len = attrs[s].size
               /\ nla_next(s) = Following(s)
    <3>1. s \in DOMAIN attrs /\ attrs[s].parent = p
      BY DEF Kids
    <3>2. ~ IsOpen(s)
      <4>1. IsOpen(s) => open # <<>> /\ (p = Message \/ IsOpen(p))
        BY <3>1, OpenPlace
      <4> QED BY <2>1, <4>1
    <3>3. mem[s] = HeaderOf(s)
      BY <2>1, <3>1, <3>2 DEF PartsInv, NothingChanged
    <3>4. mem[s].nla_len = attrs[s].size
      BY <3>3 DEF HeaderOf
    <3> QED BY <3>1, <3>2, <3>3, <3>4 DEF nla_next, Following
  <2>3. Limit(p) = {ReadEnd(p)} /\ ReadEnd(p) \in Int
    <3>1. CASE p = Message
      BY <2>1, <3>1, Shape DEF PartsInv, Limit, ReadEnd, Current
    <3>2. CASE p # Message
      <4>1. p \in DOMAIN attrs
        BY <3>2 DEF Levels
      <4>2. p \in Int /\ attrs[p].size \in Int
        BY <4>1, Place
      <4>3. mem[p].nla_len = attrs[p].size
        <5>1. mem[p] = HeaderOf(p)
          BY <2>1, <3>2, <4>1 DEF PartsInv, NothingChanged
        <5> QED BY <5>1 DEF HeaderOf
      <4> QED BY <2>1, <3>2, <4>2, <4>3 DEF ReadEnd, Limit
    <3> QED BY <3>1, <3>2
  <2>4. ASSUME NEW s \in Kids(p)
        PROVE  nla_ok(s, ReadEnd(p) - s)
    <3>1. Following(s) <= ReadEnd(p)
      <4>1. CASE p = Message
        BY <2>1, <2>2, <4>1 DEF PartsInv, PartsEnd, Ended, ReadEnd
      <4>2. CASE p # Message
        <5>1. ReadEnd(p) = p + attrs[p].size
          BY <2>1, <2>3, <4>2 DEF Limit
        <5> QED BY <2>1, <2>2, <4>2, <5>1 DEF PartsInv, PartsEnd, Ended
      <4> QED BY <4>1, <4>2
    <3>2. /\ s \in Int /\ Following(s) \in Int /\ attrs[s].size \in Int
          /\ s + attrs[s].size <= Following(s) /\ s + Align <= Following(s)
          /\ Align \in Int /\ Align > 0
      BY <2>2, Place, Shape
    <3>3. Align <= attrs[s].size
      BY <2>2 DEF PartsInv, PartsNested
    <3>4. mem[s] \in Header
      <4>1. /\ attrs[s].size \in 0 .. MaxLen
            /\ attrs[s].type \in Types /\ attrs[s].nested \in BOOLEAN
        BY <2>1, <2>2, NlMessageAssumption DEF PartsInv, PartsTypeOK, Fits
      <4>2. HeaderOf(s) \in Header
        BY <4>1, Zenon DEF HeaderOf, Header
      <4> QED BY <2>2, <4>2, Zenon
    <3> QED BY <2>2, <2>3, <3>1, <3>2, <3>3, <3>4 DEF nla_ok
  <2>5. /\ Visited(p) = Kids(p) \cup {ReadEnd(p)}
        /\ Ended(Kids(p)) = Kids(p)
    BY <2>2, <2>3 DEF PartsInv, Chained, Ended
  <2>6. {nla_next(s) : s \in Kids(p)} = {Following(s) : s \in Kids(p)}
    BY <2>2
  <2> QED BY <2>4, <2>5, <2>6 DEF Visited
<1> QED BY <1>1, PartsInOrder, PTL

(* No later call reaches into an attribute: its header and its bytes stay  *)
(* as they were written until it is cancelled.                             *)
THEOREM AttributesStay == PartsSpec => []NothingChanged
<1>1. PartsInv => NothingChanged
  BY DEF PartsInv
<1> QED BY <1>1, PartsInOrder, PTL

(* With the history nothing happens that does not happen without it.       *)
THEOREM MessageUnderHistory == PartsSpec => Spec
<1>1. PartsInit => Init
  BY DEF PartsInit
<1> QED BY <1>1, StepOfMessage, PTL DEF PartsSpec, Spec
=============================================================================

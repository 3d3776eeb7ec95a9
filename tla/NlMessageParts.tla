--------------------------- MODULE NlMessageParts ---------------------------
(***************************************************************************)
(* NlMessage with a history variable: the attributes that were put, by the *)
(* places they begin at, and what of them is in the message still.  With   *)
(* it, what a reader finds is stated place by place instead of by walking  *)
(* over the message.                                                       *)
(***************************************************************************)
EXTENDS NlMessage

VARIABLE attrs

allVars == <<vars, attrs>>

Message == -1   \* the level above the outermost attributes

Current == IF open = <<>> THEN Message ELSE Innermost

(* data and fill are the length and the bytes of the payload or, in a      *)
(* container, of the structure.  The size of a container is known when it  *)
(* is ended.                                                               *)
Added(t, nested, n, v) ==
  [s \in DOMAIN attrs \cup {nlmsg_tail} |->
     IF s = nlmsg_tail
       THEN [parent |-> Current, type |-> t, nested |-> nested,
             size |-> nla_attr_size(n), data |-> n, fill |-> v]
       ELSE attrs[s]]

Before(o) == [s \in {a \in DOMAIN attrs : a < o} |-> attrs[s]]

Put(t, n, v) ==
  nla_put(t, n, v) /\ attrs' = Added(t, FALSE, n, v)

NestStart(t) ==
  nla_nest_start(t) /\ attrs' = Added(t, TRUE, 0, Zero)

AppendStructure(v) ==
  /\ nlmsg_append(v)
  /\ attrs' = [attrs EXCEPT ![Innermost].data = RawLen[attrs[Innermost].type],
                            ![Innermost].fill = v]

NestEnd(keep_empty) ==
  /\ nest_end(keep_empty)
  /\ LET n == nlmsg_tail - Innermost
     IN attrs' = IF Dropped(n, keep_empty)
                   THEN Before(Innermost)
                   ELSE [attrs EXCEPT ![Innermost].size = n]

NestCancel == nla_nest_cancel /\ attrs' = Before(Innermost)

Again == Renew /\ attrs' = <<>>

PartsInit == Init /\ attrs = <<>>

PartsNext ==
  /\ ~ bug
  /\ \/ \E t \in Types, n \in Lens, v \in Values : Put(t, n, v)
     \/ \E t \in Types : NestStart(t)
     \/ \E v \in Values : AppendStructure(v)
     \/ \E keep_empty \in BOOLEAN : NestEnd(keep_empty)
     \/ NestCancel
     \/ Again

PartsSpec == PartsInit /\ [][PartsNext]_allVars

-----------------------------------------------------------------------------
(* Where attributes begin and end, as they were put.                       *)

IsOpen(s) == \E i \in DOMAIN open : open[i] = s

Levels == {Message} \cup {s \in DOMAIN attrs : attrs[s].nested}
Kids(p) == {s \in DOMAIN attrs : attrs[s].parent = p}
Ended(S) == {s \in S : ~ IsOpen(s)}

(* Behind the header and the structure, as nla_parse_nested is called.     *)
First(p) == IF p = Message THEN 0 ELSE p + Align + Aligned(attrs[p].data)

Following(s) == s + Aligned(attrs[s].size)

Visited(p) == {First(p)} \cup {Following(s) : s \in Ended(Kids(p))}

(* Where the attributes of a level end: at the end of its container, or    *)
(* where the next one is put; a level around an open container has no end. *)
Limit(p) ==
  IF p # Message /\ ~ IsOpen(p) THEN {p + attrs[p].size}
  ELSE IF p = Current THEN {nlmsg_tail}
  ELSE {}

(* Whether nla_len can hold it: nla_reserve does not look.                 *)
Fits(s) == attrs[s].size <= MaxLen

HeaderOf(s) ==
  [nla_len |-> attrs[s].size, nla_type |-> attrs[s].type,
   nested |-> attrs[s].nested]

-----------------------------------------------------------------------------
(* What a reader does, who has the bytes only.                             *)

nla_ok(nla, remaining) ==
  /\ remaining >= Align
  /\ mem[nla] \in Header
  /\ mem[nla].nla_len >= Align
  /\ mem[nla].nla_len <= remaining

nla_next(nla) == nla + Aligned(mem[nla].nla_len)

(* Where a message without open containers, or a container that was ended, *)
(* ends for him.                                                           *)
ReadEnd(p) == IF p = Message THEN len ELSE p + mem[p].nla_len

Readable(p) ==
  /\ IF p = Message THEN open = <<>> /\ ~ clipped ELSE ~ IsOpen(p) /\ Fits(p)
  /\ \A s \in Kids(p) : Fits(s)

-----------------------------------------------------------------------------
(* Properties.                                                             *)

(* A reader comes to every attribute that was put at a level and to        *)
(* nothing else, accepts each, and the last step takes it to the very end. *)
NothingCutOff ==
  \A p \in Levels : Readable(p) =>
    /\ {First(p)} \cup {nla_next(s) : s \in Kids(p)} = Kids(p) \cup {ReadEnd(p)}
    /\ \A s \in Kids(p) : nla_ok(s, ReadEnd(p) - s)

(* Whatever is put, ended or cancelled later, an attribute keeps its       *)
(* header and its bytes.                                                   *)
NothingChanged ==
  \A s \in DOMAIN attrs :
    /\ Fits(s) /\ ~ IsOpen(s) => mem[s] = HeaderOf(s)
    /\ \A b \in Offsets :
         s + Align <= b /\ b < s + Align + attrs[s].data => mem[b] = attrs[s].fill

-----------------------------------------------------------------------------
(* Why it is so.                                                           *)

PartsTypeOK ==
  /\ DOMAIN attrs \subseteq Offsets
  /\ \A s \in DOMAIN attrs :
       attrs[s] \in [parent : Offsets \cup {Message}, type : Types,
                     nested : BOOLEAN, size : Nat, data : Nat,
                     fill : Values \cup {Zero}]

(* An attribute lies in its container, behind the structure, and what was  *)
(* put since a container was started lies in that container.               *)
PartsNested ==
  \A s \in DOMAIN attrs :
    LET p == attrs[s].parent
    IN  /\ p \in Levels /\ p < s /\ First(p) <= s
        /\ Aligned(s) = s /\ s < nlmsg_tail
        /\ Align <= attrs[s].size
        /\ \A o \in DOMAIN attrs : IsOpen(o) /\ o < s => o <= p

(* An attribute that has ended does so before what follows it begins.      *)
PartsEnd ==
  \A s \in Ended(DOMAIN attrs) :
    LET p == attrs[s].parent
    IN  /\ First(s) <= Following(s) /\ Following(s) <= nlmsg_tail
        /\ attrs[s].nested => Aligned(attrs[s].size) = attrs[s].size
        /\ \A o \in DOMAIN attrs : IsOpen(o) /\ s < o => Following(s) <= o
        /\ p # Message /\ ~ IsOpen(p) => Following(s) <= p + attrs[p].size

(* The open containers are attributes, each in the one before it.          *)
OpenParts ==
  \A i \in DOMAIN open :
    LET o == open[i]
        raw == RawLen[attrs[o].type]
    IN  /\ o \in DOMAIN attrs /\ attrs[o].nested
        /\ attrs[o].parent = IF i = 1 THEN Message ELSE open[i - 1]
        /\ mem[o].nla_type = attrs[o].type /\ mem[o].nested
        /\ First(o) <= nlmsg_tail
        /\ attrs[o].data \in {0, raw}
        /\ Kids(o) # {} => attrs[o].data = raw
        /\ attrs[o].data = 0 /\ raw > 0 => o = Innermost /\ len = o + Align

Chained == \A p \in Levels : Visited(p) = Kids(p) \cup Limit(p)

PartsInv ==
  /\ PartsTypeOK
  /\ PartsNested
  /\ PartsEnd
  /\ OpenParts
  /\ Chained
  /\ NothingChanged
  /\ open = <<>> /\ ~ clipped => len = nlmsg_tail
=============================================================================

-------------------------- MODULE NlObjects_proofs --------------------------
(***************************************************************************)
(* The counts of objects and caches are the references there are, and      *)
(* caches, hash tables and objects agree, for any objects, caches and      *)
(* identities.                                                             *)
(***************************************************************************)
EXTENDS NlObjects, Integers, TLAPS

LiveCaches == {c \in Caches : Live(c)}

(* References to each object that are held outside the caches, or lost.    *)
Own == [o \in Objects |-> held[o] + lost[o]]

Plus(own, o) == [own EXCEPT ![o] = @ + 1]
Minus(own, o) == [own EXCEPT ![o] = @ - 1]

(* The references the caches have to an object: of the list, of the table. *)
CacheRefs(h, o) ==
  IF h.ce_cache[o] = None THEN 0 ELSE IF h.ce_cache[o] \in Hashed THEN 2 ELSE 1

(* What the operators on the heap keep: "own" counts the references that   *)
(* are not the caches', "live" are the caches that may have objects.  An   *)
(* object in a cache is known to be on a list, which is why it is never    *)
(* put into a second cache without being cloned or removed.                *)
CountOK(h, own) ==
  \A o \in Objects : h.refcnt[o] = own[o] + CacheRefs(h, o)

PlaceOK(h, live) ==
  \A o \in Objects :
    h.ce_cache[o] \in live \cup {None} /\ (h.ce_cache[o] # None => o \in h.linked)

TableOK(h) ==
  \A c \in Caches :
    /\ h.table[c] = IF c \in Hashed THEN Items(h, c) ELSE {}
    /\ \A o1, o2 \in h.table[c] : h.key[o1] = h.key[o2] => o1 = o2

HeapOK(h, own, live) ==
  /\ h \in Heap
  /\ own \in [Objects -> Nat]
  /\ CountOK(h, own)
  /\ PlaceOK(h, live)
  /\ TableOK(h)

(* The inductive invariant.                                                *)
ObjInv ==
  /\ TypeOK
  /\ HeapOK(heap, Own, LiveCaches)
  /\ CachesCounted

-----------------------------------------------------------------------------
(* Operators on the heap.                                                  *)

LEMMA NoneIsNoCache == None \notin Caches /\ None \notin Hashed
BY NlObjectsAssumption

LEMMA HeapParts ==
  ASSUME NEW h \in Heap
  PROVE  /\ h.refcnt \in [Objects -> Nat]
         /\ h.key \in [Objects -> Keys \cup {None}]
         /\ h.ce_cache \in [Objects -> Caches \cup {None}]
         /\ h.linked \subseteq Objects
         /\ h.table \in [Caches -> SUBSET Objects]
BY DEF Heap

(* Parts of a heap replaced by parts of their kind leave a heap.           *)
LEMMA HeapWith ==
  ASSUME NEW h \in Heap, NEW r \in [Objects -> Nat],
         NEW t \in [Caches -> SUBSET Objects]
  PROVE  [h EXCEPT !.refcnt = r, !.table = t] \in Heap
BY DEF Heap

(* Tables are about the list, the keys and the tables only.                *)
LEMMA TablesAlike ==
  ASSUME NEW h, NEW g, TableOK(h), g.table = h.table, g.ce_cache = h.ce_cache,
         \A c \in Caches : \A x \in h.table[c] : g.key[x] = h.key[x]
  PROVE  TableOK(g)
<1>1. \A c \in Caches : Items(g, c) = Items(h, c)
  BY DEF Items
<1> QED BY <1>1 DEF TableOK

(* Objects in a table are in its cache.                                    *)
LEMMA TabledIsListed ==
  ASSUME NEW h, TableOK(h), NEW c \in Caches, NEW x \in h.table[c]
  PROVE  x \in Objects /\ h.ce_cache[x] = c /\ c # None
BY NoneIsNoCache DEF TableOK, Items

(* A new object is in no cache, and has one reference.                     *)
LEMMA AllocKeeps ==
  ASSUME NEW h, NEW own, NEW live, HeapOK(h, own, live),
         NEW o \in Objects, h.refcnt[o] = 0, NEW k \in Keys \cup {None}
  PROVE  /\ HeapOK(nl_object_alloc(h, o, k), Plus(own, o), live)
         /\ nl_object_alloc(h, o, k).ce_cache[o] = None
         /\ nl_object_alloc(h, o, k).table = h.table
         /\ nl_object_alloc(h, o, k).key = [h.key EXCEPT ![o] = k]
<1> DEFINE g == nl_object_alloc(h, o, k)
           q == Plus(own, o)
<1>1. /\ g.refcnt = [h.refcnt EXCEPT ![o] = 1]
      /\ g.key = [h.key EXCEPT ![o] = k]
      /\ g.ce_cache = h.ce_cache /\ g.linked = h.linked /\ g.table = h.table
  BY DEF HeapOK, Heap, nl_object_alloc
<1>2. g \in Heap
  BY DEF HeapOK, Heap, nl_object_alloc
<1>3. q \in [Objects -> Nat] /\ q = [own EXCEPT ![o] = own[o] + 1]
  BY DEF HeapOK, Plus
<1>4. own[o] = 0 /\ h.ce_cache[o] = None
  BY DEF HeapOK, CountOK, CacheRefs
<1> HIDE DEF g, q
<1>5. CountOK(g, q)
  BY <1>1, <1>3, <1>4, HeapParts DEF HeapOK, CountOK, CacheRefs
<1>6. PlaceOK(g, live)
  BY <1>1 DEF HeapOK, PlaceOK
<1>7. \A c \in Caches : \A x \in h.table[c] : g.key[x] = h.key[x]
  BY <1>1, <1>4, TabledIsListed, HeapParts DEF HeapOK
<1>8. TableOK(g)
  BY <1>1, <1>7, TablesAlike DEF HeapOK
<1> QED BY <1>1, <1>2, <1>3, <1>4, <1>5, <1>6, <1>8 DEF HeapOK, g, q

(* nl_object_get adds a reference of its own.                              *)
LEMMA GetKeeps ==
  ASSUME NEW h, NEW own, NEW live, HeapOK(h, own, live), NEW o \in Objects
  PROVE  /\ HeapOK(nl_object_get(h, o), Plus(own, o), live)
         /\ nl_object_get(h, o).refcnt = [h.refcnt EXCEPT ![o] = @ + 1]
         /\ nl_object_get(h, o).ce_cache = h.ce_cache
         /\ nl_object_get(h, o).key = h.key
         /\ nl_object_get(h, o).linked = h.linked
         /\ nl_object_get(h, o).table = h.table
<1> DEFINE g == nl_object_get(h, o)
           q == Plus(own, o)
<1>1. /\ g.refcnt = [h.refcnt EXCEPT ![o] = @ + 1]
      /\ g.key = h.key
      /\ g.ce_cache = h.ce_cache /\ g.linked = h.linked /\ g.table = h.table
  BY DEF HeapOK, Heap, nl_object_get
<1>2. g \in Heap
  BY DEF HeapOK, Heap, nl_object_get
<1>3. q \in [Objects -> Nat] /\ q = [own EXCEPT ![o] = own[o] + 1]
  BY DEF HeapOK, Plus
<1> HIDE DEF g, q
<1>4. CountOK(g, q)
  BY <1>1, <1>3, HeapParts DEF HeapOK, CountOK, CacheRefs
<1>5. PlaceOK(g, live)
  BY <1>1 DEF HeapOK, PlaceOK
<1>6. TableOK(g)
  BY <1>1, TablesAlike DEF HeapOK
<1> QED BY <1>1, <1>2, <1>3, <1>4, <1>5, <1>6 DEF HeapOK, g, q

(* nl_object_put gives one back, and frees the object with the last.       *)
LEMMA PutKeeps ==
  ASSUME NEW h, NEW own, NEW live, HeapOK(h, own, live),
         NEW o \in Objects, own[o] > 0
  PROVE  HeapOK(nl_object_put(h, o), Minus(own, o), live)
<1> DEFINE g == nl_object_put(h, o)
           q == Minus(own, o)
<1>1. /\ h.refcnt \in [Objects -> Nat] /\ own \in [Objects -> Nat]
      /\ h.refcnt[o] > 0 /\ (h.refcnt[o] = 1 => h.ce_cache[o] = None)
  BY HeapParts DEF HeapOK, CountOK, CacheRefs
<1>2. /\ g.refcnt = [h.refcnt EXCEPT ![o] = h.refcnt[o] - 1]
      /\ g.ce_cache = h.ce_cache /\ g.table = h.table
      /\ \A x \in Objects \ {o} : g.key[x] = h.key[x]
      /\ h.refcnt[o] # 1 => g.key = h.key
      /\ g.linked = IF h.refcnt[o] = 1 THEN h.linked \ {o} ELSE h.linked
      /\ g \in Heap
  <2>1. CASE h.refcnt[o] = 1
    <3>1. g = nl_object_free(h, o)
      BY <2>1 DEF nl_object_put
    <3>2. /\ h.refcnt \in [Objects -> Nat] /\ h.linked \subseteq Objects
          /\ h.key \in [Objects -> Keys \cup {None}] /\ h \in Heap
      BY HeapParts DEF HeapOK
    <3>3. /\ g.refcnt = [h.refcnt EXCEPT ![o] = 0]
          /\ g.key = [h.key EXCEPT ![o] = None]
          /\ g.ce_cache = h.ce_cache /\ g.table = h.table
          /\ g.linked = h.linked \ {o}
      BY <3>1, <3>2 DEF Heap, nl_object_free
    <3> DEFINE r == [h.refcnt EXCEPT ![o] = 0]
               k == [h.key EXCEPT ![o] = None]
               l == h.linked \ {o}
    <3>4. g = [h EXCEPT !.refcnt = r, !.key = k, !.linked = l]
      BY <3>1, <3>2 DEF Heap, nl_object_free
    <3>5. /\ r \in [Objects -> Nat] /\ k \in [Objects -> Keys \cup {None}]
          /\ l \in SUBSET Objects
      BY <3>2
    <3> HIDE DEF r, k, l, g
    <3>6. g \in Heap
      BY <3>2, <3>4, <3>5 DEF Heap
    <3> QED BY <2>1, <3>2, <3>3, <3>6
  <2>2. CASE h.refcnt[o] # 1
    BY <1>1, <2>2 DEF HeapOK, Heap, nl_object_put
  <2> QED BY <2>1, <2>2
<1>3. q \in [Objects -> Nat] /\ q = [own EXCEPT ![o] = own[o] - 1]
  BY DEF HeapOK, Minus
<1> HIDE DEF g, q
<1>4. CountOK(g, q)
  BY <1>1, <1>2, <1>3 DEF HeapOK, CountOK, CacheRefs
<1>5. PlaceOK(g, live)
  BY <1>1, <1>2 DEF HeapOK, PlaceOK
<1>6. \A c \in Caches : \A x \in h.table[c] : g.key[x] = h.key[x]
  <2> TAKE c \in Caches
  <2> TAKE x \in h.table[c]
  <2>1. x \in Objects /\ h.ce_cache[x] = c /\ c # None
    BY TabledIsListed DEF HeapOK
  <2>2. CASE x = o
    BY <1>1, <1>2, <2>1, <2>2
  <2>3. CASE x # o
    BY <1>2, <2>1, <2>3
  <2> QED BY <2>2, <2>3
<1>7. TableOK(g)
  BY <1>2, <1>6, TablesAlike DEF HeapOK
<1> QED BY <1>2, <1>3, <1>4, <1>5, <1>7 DEF HeapOK, g, q

(* nl_cache_remove gives back the references of the list and of the table. *)
LEMMA RemoveKeeps ==
  ASSUME NEW h, NEW own, NEW live, HeapOK(h, own, live), NEW o \in Objects
  PROVE  /\ HeapOK(nl_cache_remove(h, o), own, live)
         /\ nl_cache_remove(h, o).ce_cache = [h.ce_cache EXCEPT ![o] = None]
         /\ own[o] > 0 => nl_cache_remove(h, o).key = h.key
<1> DEFINE c == h.ce_cache[o]
           g == nl_cache_remove(h, o)
<1>1. h.ce_cache \in [Objects -> Caches \cup {None}] /\ h \in Heap
  BY HeapParts DEF HeapOK
<1>2. CASE c = None
  BY <1>1, <1>2 DEF nl_cache_remove
<1>3. CASE c # None
  (* Both references become references of ours, which are then put.        *)
  <2> DEFINE u == IF c \in Hashed THEN nl_hash_table_del(h, c, o) ELSE h
             v == [u EXCEPT !.ce_cache[o] = None]
             q == Plus(own, o)
  <2>1. c \in Caches /\ own \in [Objects -> Nat]
    BY <1>1, <1>3 DEF HeapOK
  <2>2. /\ u.refcnt = [h.refcnt EXCEPT ![o] = own[o] + 1]
        /\ u.ce_cache = h.ce_cache /\ u.key = h.key /\ u.linked = h.linked
        /\ u.table = [h.table EXCEPT ![c] = @ \ {o}]
        /\ u \in Heap
    <3>0. h.refcnt \in [Objects -> Nat] /\ h.table \in [Caches -> SUBSET Objects]
      BY <1>1, HeapParts
    <3>1. CASE c \in Hashed
      <4>1. h.refcnt[o] = own[o] + 2
        BY <3>1, <1>3 DEF HeapOK, CountOK, CacheRefs
      <4>2. Identical(h, h.table[c], h.key[o]) = {o}
        <5>1. o \in h.table[c]
          <6>1. h.table[c] = Items(h, c)
            BY <3>1, <2>1 DEF HeapOK, TableOK
          <6> QED BY <6>1 DEF Items
        <5>2. \A x \in h.table[c] : h.key[x] = h.key[o] => x = o
          BY <5>1, <2>1 DEF HeapOK, TableOK
        <5> QED BY <5>1, <5>2 DEF Identical
      <4>3. u = [nl_object_put(h, o) EXCEPT !.table[c] = @ \ {o}]
        BY <3>1, <4>2 DEF nl_hash_table_del
      <4>4. nl_object_put(h, o) = [h EXCEPT !.refcnt[o] = @ - 1]
        BY <4>1, <2>1 DEF nl_object_put
      <4>5. own[o] + 2 - 1 = own[o] + 1 /\ own[o] + 1 \in Nat
        BY <2>1
      <4> HIDE DEF u, c
      <4> DEFINE r == [h.refcnt EXCEPT ![o] = own[o] + 1]
                 t == [h.table EXCEPT ![c] = @ \ {o}]
      <4>6. r = [h.refcnt EXCEPT ![o] = @ - 1]
        <5>1. h.refcnt[o] - 1 = own[o] + 1
          BY <4>1, <2>1
        <5> QED BY <5>1
      <4>7. u = [h EXCEPT !.refcnt = r, !.table = t]
        BY <4>3, <4>4, <4>6, <1>1 DEF Heap
      <4>8. r \in [Objects -> Nat] /\ t \in [Caches -> SUBSET Objects]
        BY <4>5, <3>0, <2>1
      <4> HIDE DEF r, t
      <4>9. u \in Heap
        BY <4>7, <4>8, <1>1, HeapParts, HeapWith
      <4>10. /\ u.refcnt = r /\ u.ce_cache = h.ce_cache /\ u.key = h.key
             /\ u.linked = h.linked /\ u.table = t
        BY <4>7, <1>1 DEF Heap
      <4> QED BY <4>9, <4>10 DEF r, t
    <3>2. CASE c \notin Hashed
      <4>1. h.refcnt[o] = own[o] + 1
        BY <3>2, <1>3 DEF HeapOK, CountOK, CacheRefs
      <4>2. h.table[c] = {}
        BY <3>2, <2>1 DEF HeapOK, TableOK
      <4>3. u = h
        BY <3>2
      <4> HIDE DEF u, c
      <4>4. [h.refcnt EXCEPT ![o] = own[o] + 1] = h.refcnt
        BY <4>1, <3>0
      <4>5. [h.table EXCEPT ![c] = @ \ {o}] = h.table
        BY <4>2, <3>0
      <4> QED BY <4>3, <4>4, <4>5, <1>1
    <3> QED BY <3>1, <3>2
  <2>3. /\ v.refcnt = u.refcnt /\ v.key = h.key /\ v.linked = h.linked
        /\ v.ce_cache = [h.ce_cache EXCEPT ![o] = None]
        /\ v.table = u.table /\ v \in Heap
    <3> HIDE DEF u, c
    <3> QED BY <2>2 DEF Heap
  <2>4. g = nl_object_put(v, o)
    BY <1>3 DEF nl_cache_remove
  <2> HIDE DEF u, v, g
  <2>5. q \in [Objects -> Nat] /\ q = [own EXCEPT ![o] = own[o] + 1]
    BY <2>1 DEF Plus
  <2>6. HeapOK(v, q, live)
    <3>0. h.refcnt \in [Objects -> Nat] /\ h.table \in [Caches -> SUBSET Objects]
      BY <1>1, HeapParts
    <3> HIDE DEF q
    <3>1. CountOK(v, q)
      BY <2>1, <2>2, <2>3, <2>5, <1>1, <3>0 DEF HeapOK, CountOK, CacheRefs
    <3>2. PlaceOK(v, live)
      BY <2>3, <1>1 DEF HeapOK, PlaceOK
    <3>3. \A d \in Caches : Items(v, d) = Items(h, d) \ {o}
      BY <2>3, <1>1, NoneIsNoCache DEF Items
    <3>4. \A d \in Caches : v.table[d] = h.table[d] \ {o}
      <4> TAKE d \in Caches
      <4>1. d # c => o \notin h.table[d]
        BY TabledIsListed DEF HeapOK
      <4>2. v.table = [h.table EXCEPT ![c] = @ \ {o}]
        BY <2>2, <2>3
      <4> HIDE DEF c
      <4> QED BY <4>1, <4>2, <3>0, <2>1
    <3>5. TableOK(v)
      <4> SUFFICES ASSUME NEW d \in Caches
                   PROVE  /\ v.table[d] = IF d \in Hashed THEN Items(v, d) ELSE {}
                          /\ \A o1, o2 \in v.table[d] :
                               v.key[o1] = v.key[o2] => o1 = o2
        BY DEF TableOK
      <4>1. h.table[d] = IF d \in Hashed THEN Items(h, d) ELSE {}
        BY DEF HeapOK, TableOK
      <4>2. \A o1, o2 \in h.table[d] : h.key[o1] = h.key[o2] => o1 = o2
        BY DEF HeapOK, TableOK
      <4>3. v.table[d] = h.table[d] \ {o} /\ Items(v, d) = Items(h, d) \ {o}
        BY <3>3, <3>4
      <4>4. v.table[d] = IF d \in Hashed THEN Items(v, d) ELSE {}
        BY <4>1, <4>3
      <4>5. v.table[d] \subseteq h.table[d] /\ v.key = h.key
        BY <4>3, <2>3
      <4> QED BY <4>2, <4>4, <4>5
    <3> QED BY <2>3, <2>5, <3>1, <3>2, <3>5 DEF HeapOK
  <2>7. Minus(q, o) = own /\ q[o] > 0
    <3>1. Minus(q, o) \in [Objects -> Int]
      BY <2>5 DEF Minus
    <3>2. \A x \in Objects : Minus(q, o)[x] = own[x]
      BY <2>1, <2>5 DEF Minus
    <3>3. Minus(q, o) = [x \in Objects |-> Minus(q, o)[x]]
      BY <3>1
    <3>4. own = [x \in Objects |-> own[x]]
      BY <2>1
    <3>5. Minus(q, o) = own
      BY <3>2, <3>3, <3>4, Zenon
    <3>6. q[o] > 0
      BY <2>1, <2>5
    <3> QED BY <3>5, <3>6
  <2>8. HeapOK(g, own, live)
    BY <2>4, <2>6, <2>7, PutKeeps
  <2>9. g.ce_cache = v.ce_cache /\ (own[o] > 0 => g.key = v.key)
    <3>1. v.refcnt[o] = own[o] + 1
      <4>1. h.refcnt \in [Objects -> Nat]
        BY <1>1, HeapParts
      <4> QED BY <4>1, <2>2, <2>3
    <3> QED BY <2>1, <2>3, <2>4, <3>1 DEF nl_object_put, nl_object_free, Heap
  <2> QED BY <2>3, <2>8, <2>9 DEF g
<1> QED BY <1>2, <1>3

(* Clearing a cache is removing all its objects.                           *)
LEMMA ClearKeeps ==
  ASSUME NEW h, NEW own, NEW live, HeapOK(h, own, live), NEW c \in Caches
  PROVE  HeapOK(nl_cache_clear(h, c), own, live \ {c})
<1> DEFINE g == nl_cache_clear(h, c)
           items == Items(h, c)
           left(o) == h.refcnt[o] - (IF o \in h.table[c] THEN 2 ELSE 1)
           freed == {o \in items : left(o) = 0}
<1>0. /\ h \in Heap /\ own \in [Objects -> Nat]
      /\ h.refcnt \in [Objects -> Nat]
      /\ h.key \in [Objects -> Keys \cup {None}]
      /\ h.ce_cache \in [Objects -> Caches \cup {None}]
      /\ h.linked \subseteq Objects
      /\ h.table \in [Caches -> SUBSET Objects]
  BY HeapParts DEF HeapOK
<1>1. \A o \in items : o \in Objects /\ h.ce_cache[o] = c /\ left(o) = own[o]
  <2> SUFFICES ASSUME NEW o \in items
               PROVE  o \in Objects /\ h.ce_cache[o] = c /\ left(o) = own[o]
    OBVIOUS
  <2>1. o \in Objects /\ h.ce_cache[o] = c /\ c # None
    BY NoneIsNoCache DEF Items
  <2>2. o \in h.table[c] <=> c \in Hashed
    BY <2>1 DEF HeapOK, TableOK, Items
  <2>3. h.refcnt[o] = own[o] + (IF c \in Hashed THEN 2 ELSE 1) /\ own[o] \in Nat
    BY <2>1, <1>0 DEF HeapOK, CountOK, CacheRefs
  <2> QED BY <2>1, <2>2, <2>3
<1>2. /\ g.refcnt = [o \in Objects |-> IF o \in items THEN own[o] ELSE h.refcnt[o]]
      /\ g.key = [o \in Objects |-> IF o \in freed THEN None ELSE h.key[o]]
      /\ g.ce_cache = [o \in Objects |-> IF o \in items THEN None
                                                       ELSE h.ce_cache[o]]
      /\ g.linked = h.linked \ freed
      /\ g.table = [h.table EXCEPT ![c] = @ \ items]
  <2>1. g.refcnt = [o \in Objects |-> IF o \in items THEN left(o) ELSE h.refcnt[o]]
    BY DEF nl_cache_clear
  <2> QED BY <1>1, <2>1 DEF nl_cache_clear
<1>3. g \in Heap
  <2>1. g = [refcnt |-> g.refcnt, key |-> g.key, ce_cache |-> g.ce_cache,
             linked |-> g.linked, table |-> g.table]
    BY DEF nl_cache_clear
  <2>2. g.refcnt \in [Objects -> Nat]
    BY <1>0, <1>2
  <2>3. g.key \in [Objects -> Keys \cup {None}]
    BY <1>0, <1>2
  <2>4. g.ce_cache \in [Objects -> Caches \cup {None}]
    BY <1>0, <1>2
  <2>5. g.linked \subseteq Objects /\ g.table \in [Caches -> SUBSET Objects]
    BY <1>0, <1>2
  <2> HIDE DEF g
  <2> QED BY <2>1, <2>2, <2>3, <2>4, <2>5 DEF Heap
<1> HIDE DEF g
<1>4. CountOK(g, own)
  <2> HIDE DEF items, left, freed
  <2> SUFFICES ASSUME NEW o \in Objects
               PROVE  g.refcnt[o] = own[o] + CacheRefs(g, o)
    BY DEF CountOK
  <2>1. CASE o \in items
    BY <1>0, <1>2, <2>1 DEF CacheRefs
  <2>2. CASE o \notin items
    BY <1>0, <1>2, <2>2 DEF CacheRefs, HeapOK, CountOK
  <2> QED BY <2>1, <2>2
<1>5. PlaceOK(g, live \ {c})
  <2> SUFFICES ASSUME NEW o \in Objects
               PROVE  /\ g.ce_cache[o] \in (live \ {c}) \cup {None}
                      /\ g.ce_cache[o] # None => o \in g.linked
    BY DEF PlaceOK
  <2>1. o \notin items => h.ce_cache[o] # c /\ o \notin freed
    BY DEF Items
  <2>2. /\ h.ce_cache[o] \in live \cup {None}
        /\ h.ce_cache[o] # None => o \in h.linked
    BY DEF HeapOK, PlaceOK
  <2> HIDE DEF items, left, freed
  <2> QED BY <2>1, <2>2, <1>2
<1>6. TableOK(g)
  <2> SUFFICES ASSUME NEW d \in Caches
               PROVE  /\ g.table[d] = IF d \in Hashed THEN Items(g, d) ELSE {}
                      /\ \A o1, o2 \in g.table[d] :
                           g.key[o1] = g.key[o2] => o1 = o2
    BY DEF TableOK
  <2>1. /\ h.table[d] = IF d \in Hashed THEN Items(h, d) ELSE {}
        /\ \A o1, o2 \in h.table[d] : h.key[o1] = h.key[o2] => o1 = o2
    BY DEF HeapOK, TableOK
  <2>2. CASE d = c
    <3>1. Items(g, c) = {}
      BY <1>2, NoneIsNoCache DEF Items
    <3>2. g.table[c] = {}
      BY <2>1, <2>2, <1>0, <1>2
    <3> QED BY <2>2, <3>1, <3>2
  <2>3. CASE d # c
    <3>1. Items(g, d) = Items(h, d)
      BY <2>3, <1>2, NoneIsNoCache DEF Items
    <3>2. g.table[d] = h.table[d]
      BY <2>3, <1>0, <1>2
    <3>3. \A o \in h.table[d] : g.key[o] = h.key[o]
      <4> TAKE o \in h.table[d]
      <4>1. o \in Objects /\ o \notin items
        BY <2>1, <2>3 DEF Items
      <4> QED BY <4>1, <1>2
    <3> QED BY <2>1, <3>1, <3>2, <3>3
  <2> QED BY <2>2, <2>3
<1> QED BY <1>0, <1>3, <1>4, <1>5, <1>6 DEF HeapOK, g

(* __cache_add turns a reference of ours into one of the list; the table   *)
(* takes another.                                                          *)
LEMMA CacheAddKeeps ==
  ASSUME NEW h, NEW own, NEW live, HeapOK(h, own, live),
         NEW o \in Objects, own[o] > 0, h.ce_cache[o] = None,
         NEW c \in Caches, c \in live, Addable(h, c, h.key[o])
  PROVE  HeapOK(__cache_add(h, c, o), Minus(own, o), live)
<1> DEFINE g == __cache_add(h, c, o)
           q == Minus(own, o)
           refcnt == IF c \in Hashed THEN [h.refcnt EXCEPT ![o] = @ + 1]
                                     ELSE h.refcnt
           table == IF c \in Hashed THEN [h.table EXCEPT ![c] = @ \cup {o}]
                                    ELSE h.table
           ce_cache == [h.ce_cache EXCEPT ![o] = c]
           linked == h.linked \cup {o}
<1>0. /\ h \in Heap /\ own \in [Objects -> Nat]
      /\ h.refcnt \in [Objects -> Nat]
      /\ h.key \in [Objects -> Keys \cup {None}]
      /\ h.ce_cache \in [Objects -> Caches \cup {None}]
      /\ h.linked \subseteq Objects
      /\ h.table \in [Caches -> SUBSET Objects]
  BY HeapParts DEF HeapOK
<1>1. /\ refcnt \in [Objects -> Nat] /\ table \in [Caches -> SUBSET Objects]
      /\ ce_cache \in [Objects -> Caches \cup {None}]
      /\ linked \subseteq Objects
  BY <1>0
<1>2. g = [h EXCEPT !.refcnt = refcnt, !.table = table,
                    !.ce_cache = ce_cache, !.linked = linked]
  BY <1>0 DEF Heap, __cache_add, nl_object_get
<1>3. /\ g.refcnt = refcnt /\ g.table = table /\ g.ce_cache = ce_cache
      /\ g.linked = linked /\ g.key = h.key /\ g \in Heap
  <2> HIDE DEF g, refcnt, table, ce_cache, linked
  <2> QED BY <1>0, <1>1, <1>2 DEF Heap
<1>4. q \in [Objects -> Nat] /\ q = [own EXCEPT ![o] = own[o] - 1]
  BY <1>0 DEF Minus
<1> HIDE DEF g, q
<1>5. c # None /\ h.refcnt[o] = own[o]
  BY <1>0, NoneIsNoCache DEF HeapOK, CountOK, CacheRefs
<1>6. CountOK(g, q)
  <2> SUFFICES ASSUME NEW x \in Objects
               PROVE  g.refcnt[x] = q[x] + CacheRefs(g, x)
    BY DEF CountOK
  <2>1. CASE x = o
    BY <2>1, <1>0, <1>3, <1>4, <1>5 DEF CacheRefs
  <2>2. CASE x # o
    BY <2>2, <1>0, <1>3, <1>4 DEF CacheRefs, HeapOK, CountOK
  <2> QED BY <2>1, <2>2
<1>7. PlaceOK(g, live)
  BY <1>0, <1>3 DEF HeapOK, PlaceOK
<1>8. TableOK(g)
  <2> SUFFICES ASSUME NEW d \in Caches
               PROVE  /\ g.table[d] = IF d \in Hashed THEN Items(g, d) ELSE {}
                      /\ \A o1, o2 \in g.table[d] :
                           g.key[o1] = g.key[o2] => o1 = o2
    BY DEF TableOK
  <2>1. /\ h.table[d] = IF d \in Hashed THEN Items(h, d) ELSE {}
        /\ \A o1, o2 \in h.table[d] : h.key[o1] = h.key[o2] => o1 = o2
    BY DEF HeapOK, TableOK
  <2>2. CASE d # c
    <3>1. Items(g, d) = Items(h, d)
      BY <2>2, <1>0, <1>3, NoneIsNoCache DEF Items
    <3> QED BY <2>1, <2>2, <3>1, <1>0, <1>3
  <2>3. CASE d = c
    <3>1. Items(g, c) = Items(h, c) \cup {o}
      BY <1>0, <1>3, <1>5 DEF Items
    <3>2. CASE c \notin Hashed
      BY <2>1, <2>3, <3>2, <1>3
    <3>3. CASE c \in Hashed
      <4>1. g.table[c] = h.table[c] \cup {o}
        BY <3>3, <1>0, <1>3
      <4>2. \A x \in h.table[c] : h.key[x] # h.key[o]
        BY <3>3 DEF Addable, Identical
      <4> QED BY <2>1, <2>3, <3>1, <3>3, <4>1, <4>2, <1>3
    <3> QED BY <3>2, <3>3
  <2> QED BY <2>2, <2>3
<1> QED BY <1>3, <1>4, <1>6, <1>7, <1>8 DEF HeapOK, g, q

(* One reference more and one less.                                        *)
LEMMA PlusMinus ==
  ASSUME NEW own \in [Objects -> Nat], NEW o \in Objects
  PROVE  Minus(Plus(own, o), o) = own /\ Plus(own, o)[o] > 0
<1> DEFINE q == Plus(own, o)
<1>1. q \in [Objects -> Nat] /\ q = [own EXCEPT ![o] = own[o] + 1]
  BY DEF Plus
<1> HIDE DEF q
<1>2. Minus(q, o) = [x \in Objects |-> IF x = o THEN q[x] - 1 ELSE q[x]]
  BY <1>1 DEF Minus
<1>3. \A x \in Objects : Minus(q, o)[x] = own[x]
  BY <1>1, <1>2
<1>4. Minus(q, o) = [x \in Objects |-> Minus(q, o)[x]]
  BY <1>2
<1>5. own = [x \in Objects |-> own[x]]
  OBVIOUS
<1>6. Minus(q, o) = own
  BY <1>3, <1>4, <1>5, Zenon
<1>7. q[o] > 0
  BY <1>1
<1> QED BY <1>6, <1>7 DEF q

(* More caches may have objects.                                           *)
LEMMA LiveGrows ==
  ASSUME NEW h, NEW own, NEW live, NEW more, HeapOK(h, own, live),
         live \subseteq more
  PROVE  HeapOK(h, own, more)
BY DEF HeapOK, PlaceOK

(* nl_cache_add, with or without a clone, leaves our references alone.     *)
LEMMA AddKeeps ==
  ASSUME NEW h, NEW own, NEW live, HeapOK(h, own, live), NEW o \in Objects,
         NEW c \in Caches, c \in live, nl_cache_add(h, c, o)
  PROVE  HeapOK(heap', own, live)
<1>0. own \in [Objects -> Nat]
  BY DEF HeapOK
<1>1. CASE heap' = h
  BY <1>1
<1>2. ASSUME o \notin h.linked, Addable(h, c, h.key[o]),
             heap' = __cache_add(nl_object_get(h, o), c, o)
      PROVE  HeapOK(heap', own, live)
  <2> DEFINE g == nl_object_get(h, o)
             q == Plus(own, o)
  <2>1. HeapOK(g, q, live)
    BY GetKeeps
  <2>2. g.ce_cache = h.ce_cache /\ g.key = h.key /\ g.table = h.table
    BY GetKeeps
  <2>3. h.ce_cache[o] = None
    BY <1>2 DEF HeapOK, PlaceOK
  <2>4. Addable(g, c, g.key[o])
    BY <1>2, <2>2 DEF Addable, Identical
  <2>5. Minus(q, o) = own /\ q[o] > 0
    BY <1>0, PlusMinus
  <2> HIDE DEF g, q
  <2>6. HeapOK(__cache_add(g, c, o), Minus(q, o), live)
    BY <2>1, <2>2, <2>3, <2>4, <2>5, CacheAddKeeps
  <2> QED BY <1>2, <2>5, <2>6 DEF g
<1>3. ASSUME Addable(h, c, h.key[o]), NEW new \in Objects, h.refcnt[new] = 0,
             heap' = __cache_add(nl_object_alloc(h, new, h.key[o]), c, new)
      PROVE  HeapOK(heap', own, live)
  <2> DEFINE k == h.key[o]
             g == nl_object_alloc(h, new, k)
             q == Plus(own, new)
  <2>1. k \in Keys \cup {None} /\ h.key \in [Objects -> Keys \cup {None}]
    BY HeapParts DEF HeapOK
  <2> HIDE DEF k
  <2>2. /\ HeapOK(g, q, live)
        /\ g.ce_cache[new] = None /\ g.table = h.table
        /\ g.key = [h.key EXCEPT ![new] = k]
    BY <1>3, <2>1, AllocKeeps
  <2>3. Minus(q, new) = own /\ q[new] > 0
    BY <1>0, PlusMinus
  <2> HIDE DEF g, q
  <2>4. g.key[new] = k
    BY <2>1, <2>2
  <2>5. Addable(g, c, g.key[new])
    <3>1. \A x \in h.table[c] : x # new /\ x \in Objects
      <4> TAKE x \in h.table[c]
      <4>1. x \in Objects /\ h.ce_cache[x] = c /\ c # None
        BY TabledIsListed DEF HeapOK
      <4>2. h.refcnt[x] = own[x] + CacheRefs(h, x)
        BY <4>1 DEF HeapOK, CountOK
      <4>3. h.refcnt[x] # 0
        BY <4>1, <4>2, <1>0 DEF CacheRefs
      <4> QED BY <4>1, <4>3, <1>3
    <3>2. \A x \in h.table[c] : g.key[x] = h.key[x]
      BY <3>1, <2>1, <2>2
    <3> QED BY <1>3, <3>2, <2>2, <2>4 DEF Addable, Identical, k
  <2>6. HeapOK(__cache_add(g, c, new), Minus(q, new), live)
    BY <2>2, <2>3, <2>5, CacheAddKeeps
  <2> QED BY <1>3, <2>3, <2>6 DEF g, k
<1> QED BY <1>1, <1>2, <1>3 DEF nl_cache_add

(* nl_cache_move keeps count, or loses a reference when it fails.          *)
LEMMA MoveKeeps ==
  ASSUME NEW h, NEW own, NEW live, HeapOK(h, own, live), NEW o \in Objects,
         NEW c \in Caches, c \in live, nl_cache_move(h, c, o)
  PROVE  \/ HeapOK(heap', own, live) /\ UNCHANGED lost
         \/ /\ HeapOK(heap', Plus(own, o), live)
            /\ lost' = [lost EXCEPT ![o] = @ + 1]
<1> DEFINE taken == nl_object_get(h, o)
           out == IF o \in h.linked THEN nl_cache_remove(taken, o) ELSE taken
           q == Plus(own, o)
<1>0. own \in [Objects -> Nat]
  BY DEF HeapOK
<1>1. HeapOK(taken, q, live) /\ taken.ce_cache = h.ce_cache
  BY GetKeeps
<1>2. Minus(q, o) = own /\ q[o] > 0
  BY <1>0, PlusMinus
<1>3. HeapOK(out, q, live) /\ out.ce_cache[o] = None
  <2> HIDE DEF taken, q
  <2>1. CASE o \in h.linked
    <3>1. taken.ce_cache \in [Objects -> Caches \cup {None}]
      BY <1>1, HeapParts DEF HeapOK
    <3>2. /\ HeapOK(nl_cache_remove(taken, o), q, live)
          /\ nl_cache_remove(taken, o).ce_cache = [taken.ce_cache EXCEPT ![o] = None]
      BY <1>1, RemoveKeeps
    <3> QED BY <2>1, <3>1, <3>2
  <2>2. CASE o \notin h.linked
    BY <1>1, <2>2 DEF HeapOK, PlaceOK
  <2> QED BY <2>1, <2>2
<1>4. \/ /\ Addable(out, c, out.key[o])
         /\ heap' = __cache_add(out, c, o)
         /\ UNCHANGED lost
      \/ heap' = out /\ lost' = [lost EXCEPT ![o] = @ + 1]
  BY DEF nl_cache_move
<1> HIDE DEF taken, out, q
<1>5. ASSUME Addable(out, c, out.key[o])
      PROVE  HeapOK(__cache_add(out, c, o), own, live)
  <2>1. HeapOK(__cache_add(out, c, o), Minus(q, o), live)
    BY <1>2, <1>3, <1>5, CacheAddKeeps
  <2> QED BY <2>1, <1>2
<1> QED BY <1>3, <1>4, <1>5 DEF q

-----------------------------------------------------------------------------
(* The steps of a program.                                                 *)

(* How taking, giving back and losing a reference shows in Own.            *)
LEMMA OwnSteps ==
  ASSUME held \in [Objects -> Nat], lost \in [Objects -> Nat], NEW o \in Objects
  PROVE  /\ Own \in [Objects -> Nat]
         /\ Take(o) /\ UNCHANGED lost =>
              held' \in [Objects -> Nat] /\ Own' = Plus(Own, o)
         /\ UNCHANGED held /\ lost' = [lost EXCEPT ![o] = @ + 1] =>
              lost' \in [Objects -> Nat] /\ Own' = Plus(Own, o)
         /\ Take(o) => held' \in [Objects -> Nat]
         /\ held[o] > 0 /\ held' = [held EXCEPT ![o] = @ - 1] /\ UNCHANGED lost =>
              /\ held' \in [Objects -> Nat] /\ Own' = Minus(Own, o)
              /\ Own[o] > 0
<1>1. Own \in [Objects -> Nat]
  BY DEF Own
<1>2. ASSUME Take(o) PROVE held' \in [Objects -> Nat]
  BY <1>2 DEF Take
<1>3. ASSUME Take(o), UNCHANGED lost PROVE Own' = Plus(Own, o)
  <2>1. \A x \in Objects : held'[x] + lost'[x] = Plus(Own, o)[x]
    BY <1>3 DEF Take, Own, Plus
  <2> QED BY <1>1, <2>1 DEF Own, Plus
<1>4. ASSUME UNCHANGED held, lost' = [lost EXCEPT ![o] = @ + 1]
      PROVE  lost' \in [Objects -> Nat] /\ Own' = Plus(Own, o)
  <2>1. \A x \in Objects : held'[x] + lost'[x] = Plus(Own, o)[x]
    BY <1>4 DEF Own, Plus
  <2>2. lost' \in [Objects -> Nat]
    BY <1>4
  <2> QED BY <1>1, <2>1, <2>2 DEF Own, Plus
<1>5. ASSUME held[o] > 0, held' = [held EXCEPT ![o] = @ - 1], UNCHANGED lost
      PROVE  held' \in [Objects -> Nat] /\ Own' = Minus(Own, o) /\ Own[o] > 0
  <2>1. \A x \in Objects : held'[x] + lost'[x] = Minus(Own, o)[x]
    BY <1>5 DEF Own, Minus
  <2>2. held' \in [Objects -> Nat]
    BY <1>5
  <2>3. Own[o] > 0
    BY <1>5 DEF Own
  <2> QED BY <1>1, <2>1, <2>2, <2>3 DEF Own, Minus
<1> QED BY <1>1, <1>2, <1>3, <1>4, <1>5

(* What has to be shown of a step on objects: the caches stay as they are. *)
ObjectsKept ==
  /\ held' \in [Objects -> Nat]
  /\ lost' \in [Objects -> Nat]
  /\ HeapOK(heap', Own', LiveCaches)
  /\ UNCHANGED cacheVars

LEMMA FoundIsListed ==
  ASSUME NEW h, NEW own, NEW live, HeapOK(h, own, live),
         NEW c \in Caches, NEW k, NEW o \in Found(h, c, k)
  PROVE  o \in Objects
BY TabledIsListed DEF Found, Identical, Items, HeapOK

LEMMA ObjectStepKeeps ==
  ASSUME ObjInv, ObjectStep
  PROVE  ObjectsKept
<1> DEFINE live == LiveCaches
<1>1. /\ HeapOK(heap, Own, live)
      /\ held \in [Objects -> Nat] /\ lost \in [Objects -> Nat]
  BY DEF ObjInv, TypeOK
<1> PICK o \in Objects :
      Get(o) \/ Put(o) \/ Remove(o) \/ \E k \in Keys : Alloc(o, k)
  BY DEF ObjectStep
<1> HIDE DEF live
<1>2. ASSUME NEW k \in Keys, Alloc(o, k) PROVE ObjectsKept
  <2>1. HeapOK(nl_object_alloc(heap, o, k), Plus(Own, o), live)
    BY <1>1, <1>2, AllocKeeps DEF Alloc
  <2>2. held' \in [Objects -> Nat] /\ Own' = Plus(Own, o)
    BY <1>1, <1>2, OwnSteps DEF Alloc
  <2> QED BY <1>1, <1>2, <2>1, <2>2 DEF Alloc, ObjectsKept, live
<1>3. CASE Get(o)
  <2>1. HeapOK(nl_object_get(heap, o), Plus(Own, o), live)
    BY <1>1, GetKeeps
  <2>2. held' \in [Objects -> Nat] /\ Own' = Plus(Own, o)
    BY <1>1, <1>3, OwnSteps DEF Get
  <2> QED BY <1>1, <1>3, <2>1, <2>2 DEF Get, ObjectsKept, live
<1>4. CASE Put(o)
  <2>1. held' \in [Objects -> Nat] /\ Own' = Minus(Own, o) /\ Own[o] > 0
    BY <1>1, <1>4, OwnSteps DEF Put
  <2>2. HeapOK(nl_object_put(heap, o), Minus(Own, o), live)
    BY <1>1, <2>1, PutKeeps
  <2> QED BY <1>1, <1>4, <2>1, <2>2 DEF Put, ObjectsKept, live
<1>5. CASE Remove(o)
  <2>1. HeapOK(nl_cache_remove(heap, o), Own, live)
    BY <1>1, RemoveKeeps
  <2>2. Own' = Own
    BY <1>5 DEF Own, Remove
  <2> QED BY <1>1, <1>5, <2>1, <2>2 DEF Remove, ObjectsKept, live
<1> QED BY <1>2, <1>3, <1>4, <1>5

LEMMA ItemStepKeeps ==
  ASSUME ObjInv, ItemStep
  PROVE  ObjectsKept
<1> DEFINE live == LiveCaches
<1>1. /\ HeapOK(heap, Own, live)
      /\ held \in [Objects -> Nat] /\ lost \in [Objects -> Nat]
  BY DEF ObjInv, TypeOK
<1> PICK c \in Caches, o \in Objects :
      \/ Add(c, o) \/ Move(c, o) \/ PickupReplaces(c, o)
      \/ IncludeFirst(c, o) \/ IncludeMerged(c, o)
      \/ IncludeExchanged(c, o) \/ IncludeDeleted(c, o)
  BY DEF ItemStep
<1>2. Live(c) => c \in live
  BY DEF LiveCaches
<1> HIDE DEF live
<1>3. \A old \in Found(heap, c, heap.key[o]) : old \in Objects
  BY <1>1, FoundIsListed
<1>4. UNCHANGED <<held, lost>> => Own' = Own
  BY DEF Own
<1>5. ASSUME Live(c), nl_cache_move(heap, c, o), UNCHANGED <<held, cacheVars>>
      PROVE  ObjectsKept
  <2>1. CASE HeapOK(heap', Own, live) /\ UNCHANGED lost
    BY <1>1, <1>4, <1>5, <2>1 DEF ObjectsKept, live
  <2>2. CASE /\ HeapOK(heap', Plus(Own, o), live)
             /\ lost' = [lost EXCEPT ![o] = @ + 1]
    <3>1. lost' \in [Objects -> Nat] /\ Own' = Plus(Own, o)
      BY <1>1, <1>5, <2>2, OwnSteps
    <3> QED BY <1>1, <1>5, <2>2, <3>1 DEF ObjectsKept, live
  <2> QED BY <1>1, <1>2, <1>5, <2>1, <2>2, MoveKeeps
<1>6. CASE Add(c, o)
  <2>1. HeapOK(heap', Own, live)
    BY <1>1, <1>2, <1>6, AddKeeps DEF Add
  <2> QED BY <1>1, <1>4, <1>6, <2>1 DEF Add, ObjectsKept, live
<1>7. CASE Move(c, o) \/ IncludeFirst(c, o)
  BY <1>5, <1>7 DEF Move, IncludeFirst, Include
<1>8. CASE PickupReplaces(c, o)
  <2> PICK old \in Found(heap, c, heap.key[o]) :
        nl_cache_add(nl_cache_remove(heap, old), c, o)
    BY <1>8 DEF PickupReplaces
  <2>1. HeapOK(nl_cache_remove(heap, old), Own, live)
    BY <1>1, <1>3, RemoveKeeps
  <2>2. HeapOK(heap', Own, live)
    BY <1>2, <1>8, <2>1, AddKeeps DEF PickupReplaces
  <2> QED BY <1>1, <1>4, <1>8, <2>2 DEF PickupReplaces, ObjectsKept, live
<1>9. CASE IncludeMerged(c, o)
  <2> PICK old \in Found(heap, c, heap.key[o]) :
        heap' = nl_object_get(heap, old) /\ Take(old)
    BY <1>9 DEF IncludeMerged
  <2>1. HeapOK(heap', Plus(Own, old), live)
    BY <1>1, <1>3, GetKeeps
  <2>2. held' \in [Objects -> Nat] /\ Own' = Plus(Own, old)
    BY <1>1, <1>3, <1>9, OwnSteps DEF IncludeMerged
  <2> QED BY <1>1, <1>9, <2>1, <2>2 DEF IncludeMerged, ObjectsKept, live
<1>10. CASE IncludeDeleted(c, o)
  <2> PICK old \in Found(heap, c, heap.key[o]) :
        /\ Take(old)
        /\ heap' = nl_cache_remove(nl_object_get(heap, old), old)
    BY <1>10 DEF IncludeDeleted
  <2>1. HeapOK(nl_object_get(heap, old), Plus(Own, old), live)
    BY <1>1, <1>3, GetKeeps
  <2>2. HeapOK(heap', Plus(Own, old), live)
    BY <1>3, <2>1, RemoveKeeps
  <2>3. held' \in [Objects -> Nat] /\ Own' = Plus(Own, old)
    BY <1>1, <1>3, <1>10, OwnSteps DEF IncludeDeleted
  <2> QED BY <1>1, <1>10, <2>2, <2>3 DEF IncludeDeleted, ObjectsKept, live
<1>11. CASE IncludeExchanged(c, o)
  <2> PICK old \in Found(heap, c, heap.key[o]) :
        /\ Take(old)
        /\ nl_cache_move(nl_cache_remove(nl_object_get(heap, old), old), c, o)
    BY <1>11 DEF IncludeExchanged
  <2> DEFINE h == nl_cache_remove(nl_object_get(heap, old), old)
             q == Plus(Own, old)
  <2>1. HeapOK(nl_object_get(heap, old), q, live)
    BY <1>1, <1>3, GetKeeps
  <2>2. HeapOK(h, q, live)
    BY <1>3, <2>1, RemoveKeeps
  <2>3. held' \in [Objects -> Nat] /\ (UNCHANGED lost => Own' = q)
    BY <1>1, <1>3, OwnSteps
  <2> HIDE DEF h
  <2>4. CASE HeapOK(heap', q, live) /\ UNCHANGED lost
    BY <1>1, <1>11, <2>3, <2>4 DEF IncludeExchanged, ObjectsKept, live
  <2>5. CASE /\ HeapOK(heap', Plus(q, o), live)
             /\ lost' = [lost EXCEPT ![o] = @ + 1]
    <3>1. lost' \in [Objects -> Nat]
      BY <1>1, <2>5
    <3>2. Own' = Plus(q, o)
      <4>1. \A x \in Objects : held'[x] + lost'[x] = Plus(q, o)[x]
        BY <1>1, <1>3, <2>5 DEF Take, Own, Plus
      <4> QED BY <4>1 DEF Own, Plus
    <3> QED BY <1>11, <2>3, <2>5, <3>1, <3>2 DEF IncludeExchanged, ObjectsKept, live
  <2> QED BY <1>2, <1>11, <2>2, <2>4, <2>5, MoveKeeps
           DEF IncludeExchanged, Include, h
<1> QED BY <1>6, <1>7, <1>8, <1>9, <1>10, <1>11

-----------------------------------------------------------------------------
(* The steps on caches.                                                    *)

(* What is left to show when the objects' own references do not change.    *)
CachesKept ==
  /\ c_refcnt' \in [Caches -> Nat]
  /\ users' \in [Caches -> Nat]
  /\ managed' \in Caches \cup {None}
  /\ provided' \in Caches \cup {None}
  /\ overwritten' \in [Caches -> Nat]
  /\ HeapOK(heap', Own, LiveCaches')
  /\ CachesCounted'
  /\ UNCHANGED <<held, lost>>

(* More references to caches make no cache dead.                           *)
LEMMA MoreReferences ==
  ASSUME HeapOK(heap, Own, LiveCaches), UNCHANGED heap,
         c_refcnt \in [Caches -> Nat], c_refcnt' \in [Caches -> Nat],
         \A c \in Caches : c_refcnt'[c] >= c_refcnt[c]
  PROVE  HeapOK(heap', Own, LiveCaches')
<1>1. LiveCaches \subseteq LiveCaches'
  BY DEF LiveCaches, Live
<1> QED BY <1>1, LiveGrows

(* Giving references back: the last one takes the objects with it.         *)
LEMMA ReleasedKeeps ==
  ASSUME HeapOK(heap, Own, LiveCaches), c_refcnt \in [Caches -> Nat],
         NEW c \in Caches, NEW n \in Nat \ {0}, n <= c_refcnt[c], Released(c, n)
  PROVE  /\ c_refcnt' \in [Caches -> Nat]
         /\ c_refcnt' = [c_refcnt EXCEPT ![c] = @ - n]
         /\ HeapOK(heap', Own, LiveCaches')
<1>1. c_refcnt' = [c_refcnt EXCEPT ![c] = @ - n] /\ c_refcnt' \in [Caches -> Nat]
  BY DEF Released
<1>2. CASE c_refcnt[c] = n
  <2>1. LiveCaches' = LiveCaches \ {c}
    BY <1>1, <1>2 DEF LiveCaches, Live
  <2>2. HeapOK(nl_cache_clear(heap, c), Own, LiveCaches \ {c})
    BY ClearKeeps
  <2> QED BY <1>1, <1>2, <2>1, <2>2 DEF Released
<1>3. CASE c_refcnt[c] # n
  <2>1. LiveCaches' = LiveCaches
    BY <1>1, <1>3 DEF LiveCaches, Live
  <2> QED BY <1>1, <1>3, <2>1 DEF Released
<1> QED BY <1>1, <1>2, <1>3

LEMMA CacheStepKeeps ==
  ASSUME ObjInv, CacheStep
  PROVE  ObjectsKept \/ CachesKept
<1> USE DEF CachesCounted, One
<1>1. /\ HeapOK(heap, Own, LiveCaches)
      /\ held \in [Objects -> Nat] /\ lost \in [Objects -> Nat]
      /\ c_refcnt \in [Caches -> Nat] /\ users \in [Caches -> Nat]
      /\ overwritten \in [Caches -> Nat]
      /\ managed \in Caches \cup {None} /\ provided \in Caches \cup {None}
      /\ CachesCounted
  BY DEF ObjInv, TypeOK
<1>2. ASSUME NEW c \in Caches, Clear(c) PROVE ObjectsKept
  <2>1. HeapOK(nl_cache_clear(heap, c), Own, LiveCaches)
    <3>1. HeapOK(nl_cache_clear(heap, c), Own, LiveCaches \ {c})
      BY <1>1, ClearKeeps
    <3> QED BY <3>1, LiveGrows
  <2>2. Own' = Own
    BY <1>2 DEF Own, Clear
  <2> QED BY <1>1, <1>2, <2>1, <2>2 DEF Clear, ObjectsKept
<1>3. ASSUME NEW c \in Caches, NEW k \in Keys, Search(c, k) PROVE ObjectsKept
  <2> PICK o \in Found(heap, c, k) : heap' = nl_object_get(heap, o) /\ Take(o)
    BY <1>3 DEF Search
  <2>1. o \in Objects
    BY <1>1, FoundIsListed
  <2>2. HeapOK(heap', Plus(Own, o), LiveCaches)
    BY <1>1, <2>1, GetKeeps
  <2>3. held' \in [Objects -> Nat] /\ Own' = Plus(Own, o)
    BY <1>1, <1>3, <2>1, OwnSteps DEF Search
  <2> QED BY <1>1, <1>3, <2>2, <2>3 DEF Search, ObjectsKept
<1>4. ASSUME NEW c \in Caches, CacheAlloc(c) PROVE CachesKept
  <2>1. /\ c_refcnt' \in [Caches -> Nat] /\ users' \in [Caches -> Nat]
        /\ \A d \in Caches : c_refcnt'[d] >= c_refcnt[d]
    BY <1>1, <1>4 DEF CacheAlloc
  <2>2. HeapOK(heap', Own, LiveCaches')
    BY <1>1, <1>4, <2>1, MoreReferences DEF CacheAlloc
  <2>3. CachesCounted'
    BY <1>1, <1>4 DEF CacheAlloc
  <2> QED BY <1>1, <1>4, <2>1, <2>2, <2>3 DEF CacheAlloc, CachesKept
<1>5. ASSUME NEW c \in Caches, CacheGet(c) PROVE CachesKept
  <2>1. /\ c_refcnt' \in [Caches -> Nat] /\ users' \in [Caches -> Nat]
        /\ \A d \in Caches : c_refcnt'[d] >= c_refcnt[d]
    BY <1>1, <1>5 DEF CacheGet, Referred
  <2>2. HeapOK(heap', Own, LiveCaches')
    BY <1>1, <1>5, <2>1, MoreReferences DEF CacheGet
  <2>3. CachesCounted'
    BY <1>1, <1>5 DEF CacheGet, Referred
  <2> QED BY <1>1, <1>5, <2>1, <2>2, <2>3 DEF CacheGet, CachesKept
<1>6. ASSUME NEW c \in Caches, CacheFree(c) PROVE CachesKept
  <2>1. 1 <= c_refcnt[c]
    BY <1>1, <1>6 DEF CacheFree
  <2>2. /\ c_refcnt' \in [Caches -> Nat]
        /\ c_refcnt' = [c_refcnt EXCEPT ![c] = @ - 1]
        /\ HeapOK(heap', Own, LiveCaches')
    BY <1>1, <1>6, <2>1, ReleasedKeeps DEF CacheFree
  <2>3. users' \in [Caches -> Nat] /\ CachesCounted'
    BY <1>1, <1>6, <2>2 DEF CacheFree
  <2> QED BY <1>1, <1>6, <2>2, <2>3 DEF CacheFree, CachesKept
<1>7. ASSUME NEW c \in Caches, nl_cache_mngt_provide(c), UNCHANGED heap
      PROVE  /\ c_refcnt' \in [Caches -> Nat] /\ overwritten' \in [Caches -> Nat]
             /\ provided' = c
             /\ \A d \in Caches :
                  /\ c_refcnt'[d] = c_refcnt[d] + One(d = c)
                  /\ overwritten'[d] = overwritten[d] + One(d = provided)
             /\ HeapOK(heap', Own, LiveCaches')
  <2>1. /\ c_refcnt' \in [Caches -> Nat]
        /\ \A d \in Caches : c_refcnt'[d] = c_refcnt[d] + One(d = c)
        /\ \A d \in Caches : c_refcnt'[d] >= c_refcnt[d]
    BY <1>1, <1>7 DEF nl_cache_mngt_provide, Referred
  <2>2. /\ overwritten' \in [Caches -> Nat]
        /\ \A d \in Caches : overwritten'[d] = overwritten[d] + One(d = provided)
    BY <1>1, <1>7, NoneIsNoCache DEF nl_cache_mngt_provide
  <2>3. HeapOK(heap', Own, LiveCaches')
    BY <1>1, <1>7, <2>1, MoreReferences
  <2> QED BY <1>7, <2>1, <2>2, <2>3 DEF nl_cache_mngt_provide
<1>8. ASSUME NEW c \in Caches, Provide(c) PROVE CachesKept
  <2>1. /\ c_refcnt' \in [Caches -> Nat] /\ overwritten' \in [Caches -> Nat]
        /\ provided' = c
        /\ \A d \in Caches :
             /\ c_refcnt'[d] = c_refcnt[d] + One(d = c)
             /\ overwritten'[d] = overwritten[d] + One(d = provided)
        /\ HeapOK(heap', Own, LiveCaches')
    BY <1>7, <1>8 DEF Provide
  <2>2. CachesCounted'
    BY <1>1, <1>8, <2>1 DEF Provide
  <2> QED BY <1>1, <1>8, <2>1, <2>2 DEF Provide, CachesKept
<1>9. ASSUME NEW c \in Caches, MngrAddCache(c) PROVE CachesKept
  <2>1. /\ c_refcnt' \in [Caches -> Nat] /\ overwritten' \in [Caches -> Nat]
        /\ provided' = c
        /\ \A d \in Caches :
             /\ c_refcnt'[d] = c_refcnt[d] + One(d = c)
             /\ overwritten'[d] = overwritten[d] + One(d = provided)
        /\ HeapOK(heap', Own, LiveCaches')
    BY <1>7, <1>9 DEF MngrAddCache
  <2>2. /\ users' \in [Caches -> Nat] /\ managed' = c /\ managed = None
        /\ \A d \in Caches : users[d] = users'[d] + One(d = c)
        /\ UNCHANGED <<held, lost>>
    BY <1>1, <1>9 DEF MngrAddCache
  <2>3. CachesCounted'
    BY <1>1, <2>1, <2>2, NoneIsNoCache
  <2> QED BY <1>1, <2>1, <2>2, <2>3 DEF CachesKept
<1>10. ASSUME NEW c \in Caches, Unprovide(c) PROVE CachesKept
  <2>1. 1 <= c_refcnt[c]
    BY <1>1, <1>10 DEF Unprovide
  <2>2. /\ c_refcnt' \in [Caches -> Nat]
        /\ c_refcnt' = [c_refcnt EXCEPT ![c] = @ - 1]
        /\ HeapOK(heap', Own, LiveCaches')
    BY <1>1, <1>10, <2>1, ReleasedKeeps DEF Unprovide
  <2>3. provided = c /\ provided' = None
    BY <1>10 DEF Unprovide, nl_cache_mngt_unprovide
  <2>4. CachesCounted'
    BY <1>1, <1>10, <2>2, <2>3, NoneIsNoCache DEF Unprovide
  <2> QED BY <1>1, <1>10, <2>2, <2>3, <2>4 DEF Unprovide, CachesKept
<1>11. CASE MngrFree
  <2> DEFINE n == IF provided = managed THEN 2 ELSE 1
  <2>1. managed \in Caches /\ n \in Nat \ {0} /\ n <= c_refcnt[managed]
    BY <1>1, <1>11 DEF MngrFree
  <2>2. /\ c_refcnt' \in [Caches -> Nat]
        /\ c_refcnt' = [c_refcnt EXCEPT ![managed] = @ - n]
        /\ HeapOK(heap', Own, LiveCaches')
    BY <1>1, <1>11, <2>1, ReleasedKeeps DEF MngrFree
  <2>3. /\ managed' = None
        /\ provided' = IF provided = managed THEN None ELSE provided
        /\ UNCHANGED <<held, lost, users, overwritten>>
    BY <1>11 DEF MngrFree, nl_cache_mngt_unprovide
  <2>4. CachesCounted'
    BY <1>1, <2>1, <2>2, <2>3, NoneIsNoCache
  <2> QED BY <1>1, <2>2, <2>3, <2>4 DEF CachesKept
<1> QED BY <1>2, <1>3, <1>4, <1>5, <1>6, <1>8, <1>9, <1>10, <1>11 DEF CacheStep

-----------------------------------------------------------------------------
(* The invariant.                                                          *)

LEMMA InitInv == ASSUME Init PROVE ObjInv
<1>1. heap \in Heap /\ Own \in [Objects -> Nat]
  BY DEF Init, Heap, Own
<1>2. CountOK(heap, Own)
  <2>1. \A o \in Objects : held[o] = 0 /\ lost[o] = 0
    BY DEF Init
  <2>2. \A o \in Objects : Own[o] = 0
    <3> TAKE o \in Objects
    <3>1. Own[o] = held[o] + lost[o]
      BY DEF Own
    <3>2. held[o] = 0 /\ lost[o] = 0
      BY <2>1
    <3> QED BY <3>1, <3>2
  <2>3. \A o \in Objects : heap.refcnt[o] = 0 /\ heap.ce_cache[o] = None
    BY DEF Init
  <2> SUFFICES ASSUME NEW o \in Objects
               PROVE  heap.refcnt[o] = Own[o] + CacheRefs(heap, o)
    BY DEF CountOK
  <2>4. Own[o] = 0 /\ heap.refcnt[o] = 0 /\ CacheRefs(heap, o) = 0
    BY <2>2, <2>3 DEF CacheRefs
  <2> QED BY <2>4
<1>3. PlaceOK(heap, LiveCaches) /\ TableOK(heap)
  BY NoneIsNoCache DEF Init, PlaceOK, TableOK, Items
<1>4. CachesCounted
  BY NoneIsNoCache DEF Init, CachesCounted, One
<1> QED BY <1>1, <1>2, <1>3, <1>4 DEF Init, ObjInv, TypeOK, HeapOK

LEMMA StepInv == ASSUME ObjInv, [Next]_vars PROVE ObjInv'
<1>1. CASE ObjectsKept
  <2>1. LiveCaches' = LiveCaches
    BY <1>1 DEF ObjectsKept, cacheVars, LiveCaches, Live
  <2>2. CachesCounted'
    BY <1>1 DEF ObjInv, CachesCounted, ObjectsKept, cacheVars
  <2>3. TypeOK'
    BY <1>1 DEF ObjInv, TypeOK, ObjectsKept, cacheVars, HeapOK
  <2> QED BY <1>1, <2>1, <2>2, <2>3 DEF ObjInv, ObjectsKept
<1>2. CASE CachesKept
  <2>1. Own' = Own
    BY <1>2 DEF CachesKept, Own
  <2>2. TypeOK'
    BY <1>2 DEF ObjInv, TypeOK, CachesKept, HeapOK
  <2> QED BY <1>2, <2>1, <2>2 DEF ObjInv, CachesKept
<1>3. CASE UNCHANGED vars
  BY <1>3 DEF ObjInv, TypeOK, HeapOK, CountOK, PlaceOK, TableOK, Items,
              CacheRefs, Own, LiveCaches, Live, CachesCounted, vars, cacheVars
<1> QED BY <1>1, <1>2, <1>3, ObjectStepKeeps, ItemStepKeeps, CacheStepKeeps DEF Next

(* What the invariant says of the caches and the counts.                   *)
LEMMA InvImplies == ASSUME ObjInv PROVE Counted /\ CachesSound
<1>1. Counted
  <2> SUFFICES ASSUME NEW o \in Objects
               PROVE  heap.refcnt[o] =
                        held[o] + lost[o] + One(heap.ce_cache[o] # None)
                        + One(\E c \in Caches : o \in heap.table[c])
    BY DEF Counted
  <2>1. /\ held[o] \in Nat /\ lost[o] \in Nat
        /\ heap.ce_cache[o] \in Caches \cup {None}
    BY DEF ObjInv, TypeOK, Heap
  <2>2. heap.refcnt[o] = held[o] + lost[o] + CacheRefs(heap, o)
    BY DEF ObjInv, HeapOK, CountOK, Own
  <2>3. (\E c \in Caches : o \in heap.table[c]) <=> heap.ce_cache[o] \in Hashed
    <3>1. \A c \in Caches : o \in heap.table[c] <=>
                               c \in Hashed /\ heap.ce_cache[o] = c
      BY DEF ObjInv, HeapOK, TableOK, Items
    <3> QED BY <3>1, NlObjectsAssumption
  <2> QED BY <2>1, <2>2, <2>3, NoneIsNoCache DEF One, CacheRefs
<1>2. CachesSound
  <2>1. \A c \in Caches : Items(heap, c) # {} => Live(c)
    BY NoneIsNoCache DEF ObjInv, HeapOK, PlaceOK, LiveCaches, Items
  <2> QED BY <2>1 DEF ObjInv, HeapOK, TableOK, CachesSound
<1> QED BY <1>1, <1>2

(* The inductive invariant holds in every reachable state.                 *)
THEOREM ObjectsInvariant == Spec => []ObjInv
<1> QED BY InitInv, StepInv, PTL DEF Spec

(* The state of objects and caches has the declared types: in particular   *)
(* no count goes below zero.                                               *)
THEOREM TypeCorrect == Spec => []TypeOK
<1>1. ObjInv => TypeOK
  BY DEF ObjInv
<1> QED BY <1>1, ObjectsInvariant, PTL

(* The count of an object is the number of references there are.           *)
THEOREM ObjectsCounted == Spec => []Counted
BY ObjectsInvariant, InvImplies, PTL

(* Live caches, their hash tables and the objects in them agree.           *)
THEOREM CachesAgree == Spec => []CachesSound
BY ObjectsInvariant, InvImplies, PTL

(* The count of a cache is the number of references there are.             *)
THEOREM ReferencesCounted == Spec => []CachesCounted
<1>1. ObjInv => CachesCounted
  BY DEF ObjInv
<1> QED BY <1>1, ObjectsInvariant, PTL
=============================================================================

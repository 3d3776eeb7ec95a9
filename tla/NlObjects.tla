----------------------------- MODULE NlObjects -----------------------------
(***************************************************************************)
(* Objects, caches and the references between them: lib/object.c,          *)
(* lib/cache.c, lib/hashtable.c and the provided cache of cache_mngt.c.    *)
(*                                                                         *)
(* All caches are of one type.  A cache keeps its objects on a list and,   *)
(* if its hash table could be allocated, in that as well; list and table   *)
(* own one reference each.  Everybody else (the program, a parser, and     *)
(* cache_include while it runs the change callback of the program) holds   *)
(* references of its own.  The callback may do whatever the program may do *)
(* at any time, so that the put that follows it is an action like any      *)
(* other.                                                                  *)
(*                                                                         *)
(* The key of an object stands for its identifying attributes, which are   *)
(* set before the object is shared.  A reference to a piece of memory that *)
(* has been freed is a reference to an object whose count is 0.            *)
(***************************************************************************)
EXTENDS Naturals

CONSTANTS
  Objects,     \* pieces of memory an object can be in
  Caches,      \* pieces of memory a cache can be in
  Hashed,      \* those whose hash table is allocated
  Keys,        \* identities of objects
  Merging,     \* whether objects of this type have an update operation
  None,        \* no cache, no object
  MaxRefs,     \* bound: references to an object
  MaxUsers     \* bound: references of the program to a cache

ASSUME NlObjectsAssumption ==
  /\ Hashed \subseteq Caches
  /\ None \notin Objects \cup Caches
  /\ Merging \in BOOLEAN
  /\ MaxRefs \in Nat
  /\ MaxUsers \in Nat

VARIABLES
  heap,        \* the objects and what the caches know of them
  held,        \* held[o]: references to o outside the caches
  lost,        \* lost[o]: references to o nobody will give back
  c_refcnt,    \* reference counts of the caches, 0 when freed
  users,       \* users[c]: references of the program to c
  managed,     \* the cache a cache manager owns
  provided,    \* co_major_cache
  overwritten  \* overwritten[c]: times another cache was provided over c

cacheVars == <<c_refcnt, users, managed, provided, overwritten>>
vars == <<heap, held, lost, cacheVars>>

Heap ==
  [refcnt : [Objects -> Nat],                    \* 0: freed
   key : [Objects -> Keys \cup {None}],
   ce_cache : [Objects -> Caches \cup {None}],
   linked : SUBSET Objects,                      \* ce_list has been used
   table : [Caches -> SUBSET Objects]]

(* The type invariant.                                                     *)
TypeOK ==
  /\ heap \in Heap
  /\ held \in [Objects -> Nat]
  /\ lost \in [Objects -> Nat]
  /\ c_refcnt \in [Caches -> Nat]
  /\ users \in [Caches -> Nat]
  /\ managed \in Caches \cup {None}
  /\ provided \in Caches \cup {None}
  /\ overwritten \in [Caches -> Nat]

Init ==
  /\ heap = [refcnt |-> [o \in Objects |-> 0],
             key |-> [o \in Objects |-> None],
             ce_cache |-> [o \in Objects |-> None],
             linked |-> {},
             table |-> [c \in Caches |-> {}]]
  /\ held = [o \in Objects |-> 0]
  /\ lost = [o \in Objects |-> 0]
  /\ c_refcnt = [c \in Caches |-> 0]
  /\ users = [c \in Caches |-> 0]
  /\ managed = None
  /\ provided = None
  /\ overwritten = [c \in Caches |-> 0]

-----------------------------------------------------------------------------
(* Objects.                                                                *)

nl_object_alloc(h, o, k) ==
  [h EXCEPT !.refcnt[o] = 1, !.key[o] = k]

nl_object_get(h, o) == [h EXCEPT !.refcnt[o] = @ + 1]

nl_object_free(h, o) ==
  [h EXCEPT !.refcnt[o] = 0, !.key[o] = None, !.linked = @ \ {o}]

nl_object_put(h, o) ==
  IF h.refcnt[o] = 1 THEN nl_object_free(h, o)
                     ELSE [h EXCEPT !.refcnt[o] = @ - 1]

-----------------------------------------------------------------------------
(* Caches and their hash tables.                                           *)

Items(h, c) == {o \in Objects : h.ce_cache[o] = c}

Identical(h, S, k) == {o \in S : h.key[o] = k}

(* What nl_cache_search may return: the table knows one object of a key,   *)
(* on a list without table there may be several, and the first is taken.   *)
Found(h, c, k) ==
  Identical(h, IF c \in Hashed THEN h.table[c] ELSE Items(h, c), k)

(* Mutant: the reference of the table is not given back.                   *)
nl_hash_table_del_KeepsReference(h, c, o) ==
  [h EXCEPT !.table[c] = @ \ Identical(h, @, h.key[o])]

(* The entry is found by its identity, the reference of the object that    *)
(* was passed is given back.                                               *)
nl_hash_table_del(h, c, o) ==
  LET same == Identical(h, h.table[c], h.key[o])
  IN IF same = {} THEN h
     ELSE [nl_object_put(h, o) EXCEPT !.table[c] = @ \ same]

(* nl_list_del leaves the pointers of the object as they are: "linked"     *)
(* survives.                                                               *)
nl_cache_remove(h, o) ==
  LET c == h.ce_cache[o]
      unhashed == IF c \in Hashed THEN nl_hash_table_del(h, c, o) ELSE h
  IN IF c = None THEN h
     ELSE nl_object_put([unhashed EXCEPT !.ce_cache[o] = None], o)

(* Mutant: the items are taken off the list only.                          *)
nl_cache_clear_ListOnly(h, c) ==
  LET items == Items(h, c)
      freed == {o \in items : h.refcnt[o] = 1}
  IN [h EXCEPT !.refcnt = [o \in Objects |-> IF o \in items THEN @[o] - 1
                                                            ELSE @[o]],
               !.key = [o \in Objects |-> IF o \in freed THEN None ELSE @[o]],
               !.ce_cache = [o \in Objects |-> IF o \in items THEN None
                                                              ELSE @[o]],
               !.linked = @ \ freed]

(* nl_cache_remove of every item.                                          *)
nl_cache_clear(h, c) ==
  LET items == Items(h, c)
      left(o) == h.refcnt[o] - (IF o \in h.table[c] THEN 2 ELSE 1)
      freed == {o \in items : left(o) = 0}
  IN [refcnt |-> [o \in Objects |-> IF o \in items THEN left(o)
                                                   ELSE h.refcnt[o]],
      key |-> [o \in Objects |-> IF o \in freed THEN None ELSE h.key[o]],
      ce_cache |-> [o \in Objects |-> IF o \in items THEN None
                                                     ELSE h.ce_cache[o]],
      linked |-> h.linked \ freed,
      table |-> [h.table EXCEPT ![c] = @ \ items]]

(* Whether __cache_add can succeed, and what it does if so.  Memory for    *)
(* the entry of the table may be lacking at any time.                      *)
Addable(h, c, k) == c \in Hashed => Identical(h, h.table[c], k) = {}

__cache_add(h, c, o) ==
  LET listed == [h EXCEPT !.ce_cache[o] = c, !.linked = @ \cup {o}]
  IN IF c \in Hashed
       THEN [nl_object_get(listed, o) EXCEPT !.table[c] = @ \cup {o}]
       ELSE listed

(* An object that is or ever was on a list is cloned.  Failures leave the  *)
(* references as they were.                                                *)
nl_cache_add(h, c, o) ==
  \/ /\ c \in Hashed \/ o \in h.linked
     /\ heap' = h
  \/ /\ o \notin h.linked
     /\ Addable(h, c, h.key[o])
     /\ heap' = __cache_add(nl_object_get(h, o), c, o)
  \/ /\ o \in h.linked
     /\ Addable(h, c, h.key[o])
     /\ \E new \in Objects :
          /\ h.refcnt[new] = 0
          /\ heap' = __cache_add(nl_object_alloc(h, new, h.key[o]), c, new)

(* When __cache_add fails the object is in neither cache, and nobody gives *)
(* the reference back that was meant for the new one.                      *)
nl_cache_move(h, c, o) ==
  LET taken == nl_object_get(h, o)
      out == IF o \in h.linked THEN nl_cache_remove(taken, o) ELSE taken
  IN \/ /\ Addable(out, c, out.key[o])
        /\ heap' = __cache_add(out, c, o)
        /\ UNCHANGED lost
     \/ /\ c \in Hashed
        /\ heap' = out
        /\ lost' = [lost EXCEPT ![o] = @ + 1]

-----------------------------------------------------------------------------
(* What a program can do with objects it can reach: those it holds a       *)
(* reference to and those it finds by walking through a cache.             *)

Reachable(o) == held[o] > 0 \/ heap.ce_cache[o] # None

Take(o) == held' = [held EXCEPT ![o] = @ + 1]

Room(o) == heap.refcnt[o] < MaxRefs

Alloc(o, k) ==
  /\ heap.refcnt[o] = 0
  /\ heap' = nl_object_alloc(heap, o, k)
  /\ Take(o)
  /\ UNCHANGED <<lost, cacheVars>>

Get(o) ==
  /\ Reachable(o)
  /\ Room(o)
  /\ heap' = nl_object_get(heap, o)
  /\ Take(o)
  /\ UNCHANGED <<lost, cacheVars>>

Put(o) ==
  /\ held[o] > 0
  /\ heap' = nl_object_put(heap, o)
  /\ held' = [held EXCEPT ![o] = @ - 1]
  /\ UNCHANGED <<lost, cacheVars>>

Live(c) == c_refcnt[c] > 0

Add(c, o) ==
  /\ Live(c)
  /\ Reachable(o)
  /\ Room(o)
  /\ nl_cache_add(heap, c, o)
  /\ UNCHANGED <<held, lost, cacheVars>>

Move(c, o) ==
  /\ Live(c)
  /\ Reachable(o)
  /\ Room(o)
  /\ nl_cache_move(heap, c, o)
  /\ UNCHANGED <<held, cacheVars>>

Remove(o) ==
  /\ Reachable(o)
  /\ heap' = nl_cache_remove(heap, o)
  /\ UNCHANGED <<held, lost, cacheVars>>

Search(c, k) ==
  /\ Live(c)
  /\ \E o \in Found(heap, c, k) :
       /\ Room(o)
       /\ heap' = nl_object_get(heap, o)
       /\ Take(o)
  /\ UNCHANGED <<lost, cacheVars>>

Clear(c) ==
  /\ Live(c)
  /\ heap' = nl_cache_clear(heap, c)
  /\ UNCHANGED <<held, lost, cacheVars>>

(* pickup_checkdup_cb, when the old object is not merged with the new.     *)
PickupReplaces(c, o) ==
  /\ Live(c)
  /\ held[o] > 0
  /\ Room(o)
  /\ \E old \in Found(heap, c, heap.key[o]) :
       nl_cache_add(nl_cache_remove(heap, old), c, o)
  /\ UNCHANGED <<held, lost, cacheVars>>

-----------------------------------------------------------------------------
(* cache_include of a message that has been parsed into o, up to the       *)
(* change callback.  The reference to the old object that nl_cache_search  *)
(* took is given back after it.                                            *)

Include(c, o) == Live(c) /\ held[o] > 0 /\ Room(o)

IncludeFirst(c, o) ==
  /\ Include(c, o)
  /\ Found(heap, c, heap.key[o]) = {}
  /\ nl_cache_move(heap, c, o)
  /\ UNCHANGED <<held, cacheVars>>

IncludeMerged(c, o) ==
  /\ Include(c, o)
  /\ Merging
  /\ \E old \in Found(heap, c, heap.key[o]) :
       /\ Room(old)
       /\ heap' = nl_object_get(heap, old)
       /\ Take(old)
  /\ UNCHANGED <<lost, cacheVars>>

IncludeExchanged(c, o) ==
  /\ Include(c, o)
  /\ \E old \in Found(heap, c, heap.key[o]) :
       /\ Room(old)
       /\ Take(old)
       /\ nl_cache_move(nl_cache_remove(nl_object_get(heap, old), old), c, o)
  /\ UNCHANGED cacheVars

IncludeDeleted(c, o) ==
  /\ Include(c, o)
  /\ \E old \in Found(heap, c, heap.key[o]) :
       /\ Room(old)
       /\ Take(old)
       /\ heap' = nl_cache_remove(nl_object_get(heap, old), old)
  /\ UNCHANGED <<lost, cacheVars>>

-----------------------------------------------------------------------------
(* The caches themselves.                                                  *)

CacheAlloc(c) ==
  /\ c_refcnt[c] = 0
  /\ c_refcnt' = [c_refcnt EXCEPT ![c] = 1]
  /\ users' = [users EXCEPT ![c] = 1]
  /\ UNCHANGED <<heap, held, lost, managed, provided, overwritten>>

Referred(c) ==
  /\ Live(c)
  /\ c_refcnt[c] < MaxUsers
  /\ c_refcnt' = [c_refcnt EXCEPT ![c] = @ + 1]

(* nl_cache_get, also by way of nl_cache_mngt_require_safe.                *)
CacheGet(c) ==
  /\ Referred(c)
  /\ users' = [users EXCEPT ![c] = @ + 1]
  /\ UNCHANGED <<heap, held, lost, managed, provided, overwritten>>

(* nl_cache_free, n times: the last one clears the cache.                  *)
Released(c, n) ==
  /\ c_refcnt' = [c_refcnt EXCEPT ![c] = @ - n]
  /\ heap' = IF c_refcnt[c] = n THEN nl_cache_clear(heap, c) ELSE heap

CacheFree(c) ==
  /\ users[c] > 0
  /\ users' = [users EXCEPT ![c] = @ - 1]
  /\ Released(c, 1)
  /\ UNCHANGED <<held, lost, managed, provided, overwritten>>

(* Mutant: the provided cache is not referenced.                           *)
nl_cache_mngt_provide_NoReference(c) ==
  /\ Live(c)
  /\ provided' = c
  /\ UNCHANGED <<c_refcnt, overwritten>>

(* The reference of a cache that was provided before is forgotten.         *)
nl_cache_mngt_provide(c) ==
  /\ Referred(c)
  /\ provided' = c
  /\ overwritten' = IF provided = None THEN overwritten
                    ELSE [overwritten EXCEPT ![provided] = @ + 1]

Provide(c) ==
  /\ users[c] > 0
  /\ nl_cache_mngt_provide(c)
  /\ UNCHANGED <<heap, held, lost, users, managed>>

nl_cache_mngt_unprovide(c) ==
  provided' = IF provided = c THEN None ELSE provided

Unprovide(c) ==
  /\ users[c] > 0
  /\ provided = c
  /\ nl_cache_mngt_unprovide(c)
  /\ Released(c, 1)
  /\ UNCHANGED <<held, lost, users, managed, overwritten>>

(* nl_cache_mngr_add_cache with NL_AUTO_PROVIDE: the manager takes over    *)
(* the reference of the program.                                           *)
MngrAddCache(c) ==
  /\ managed = None
  /\ users[c] > 0
  /\ managed' = c
  /\ users' = [users EXCEPT ![c] = @ - 1]
  /\ nl_cache_mngt_provide(c)
  /\ UNCHANGED <<heap, held, lost>>

(* Mutant: what is provided is given back, whichever cache it is.          *)
MngrFree_AnyProvided ==
  /\ managed # None
  /\ managed' = None
  /\ provided' = None
  /\ Released(managed, 2)
  /\ UNCHANGED <<held, lost, users, overwritten>>

(* nl_cache_mngr_free.                                                     *)
MngrFree ==
  /\ managed # None
  /\ managed' = None
  /\ nl_cache_mngt_unprovide(managed)
  /\ Released(managed, IF provided = managed THEN 2 ELSE 1)
  /\ UNCHANGED <<held, lost, users, overwritten>>

-----------------------------------------------------------------------------
ObjectStep ==
  \E o \in Objects :
    \/ Get(o) \/ Put(o) \/ Remove(o)
    \/ \E k \in Keys : Alloc(o, k)

ItemStep ==
  \E c \in Caches, o \in Objects :
    \/ Add(c, o) \/ Move(c, o) \/ PickupReplaces(c, o)
    \/ IncludeFirst(c, o) \/ IncludeMerged(c, o)
    \/ IncludeExchanged(c, o) \/ IncludeDeleted(c, o)

CacheStep ==
  \/ \E c \in Caches :
       \/ Clear(c) \/ (\E k \in Keys : Search(c, k))
       \/ CacheAlloc(c) \/ CacheGet(c) \/ CacheFree(c)
       \/ Provide(c) \/ Unprovide(c) \/ MngrAddCache(c)
  \/ MngrFree

Next == ObjectStep \/ ItemStep \/ CacheStep

Spec == Init /\ [][Next]_vars

-----------------------------------------------------------------------------
(* Properties.                                                             *)

One(b) == IF b THEN 1 ELSE 0

(* The count of an object is the number of references there are: those of  *)
(* the program, one of the list it is on, one of the table it is in, and   *)
(* those that failed moves have lost.  So an object is freed when the last *)
(* of them is given back, neither before nor never.                        *)
Counted ==
  \A o \in Objects :
    heap.refcnt[o] = held[o] + lost[o] + One(heap.ce_cache[o] # None)
                     + One(\E c \in Caches : o \in heap.table[c])

(* Only live caches have objects, a hash table has the objects of the list *)
(* of its cache, each identity once.                                       *)
CachesSound ==
  \A c \in Caches :
    /\ Items(heap, c) # {} => Live(c)
    /\ heap.table[c] = IF c \in Hashed THEN Items(heap, c) ELSE {}
    /\ \A o1, o2 \in heap.table[c] :
         heap.key[o1] = heap.key[o2] => o1 = o2

(* The count of a cache is the number of references there are: those of    *)
(* the program, one of the manager, one of its being provided, and those   *)
(* lost when another cache was provided over it.  So the cache provided to *)
(* everybody is never one that has been freed.                             *)
CachesCounted ==
  \A c \in Caches :
    c_refcnt[c] = users[c] + overwritten[c] + One(managed = c)
                  + One(provided = c)
=============================================================================

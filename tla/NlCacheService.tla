--------------------------- MODULE NlCacheService ---------------------------
(***************************************************************************)
(* What libnl promises to the user of a managed cache: once it is filled,  *)
(* it is a copy of the kernel's table that lags behind by the messages not *)
(* read yet.  Whatever changes is announced at the end of those messages;  *)
(* the cache changes by the oldest one, one at a time, and in no other     *)
(* way.  A manager that cannot go on like this gives the cache up.         *)
(*                                                                         *)
(* A table gives each key its contents; one of them stands for no object.  *)
(***************************************************************************)
EXTENDS Naturals, Sequences

CONSTANTS Keys, Contents

VARIABLES
  table,     \* the kernel's objects
  pending,   \* messages about them, not read yet
  cache,     \* the objects in the cache
  managed    \* the cache is filled, and no message about it was lost

vars == <<table, pending, cache, managed>>

Message == [key : Keys, val : Contents]

Typed ==
  /\ table \in [Keys -> Contents]
  /\ pending \in Seq(Message)
  /\ cache \in [Keys -> Contents]
  /\ managed \in BOOLEAN

(* The messages that s has at the positions P lead from a table c to t: a  *)
(* key none of them is about keeps its contents, and the last message      *)
(* about a key says what its contents have become.                         *)
Leads(c, s, P, t) ==
  /\ \A k \in Keys : (\A j \in P : s[j].key # k) => t[k] = c[k]
  /\ \A j \in P :
       (\A i \in P : i > j => s[i].key # s[j].key) => t[s[j].key] = s[j].val

Lags == Leads(cache, pending, DOMAIN pending, table)

Init == Typed /\ (managed => Lags)

Change ==
  /\ managed
  /\ UNCHANGED <<cache, managed>>
  /\ Typed'
  /\ \A j \in DOMAIN pending : j \in DOMAIN pending' /\ pending'[j] = pending[j]
  /\ Leads(table, pending', DOMAIN pending' \ DOMAIN pending, table')

Read ==
  /\ managed
  /\ pending # <<>>
  /\ cache' = [cache EXCEPT ![Head(pending).key] = Head(pending).val]
  /\ pending' = Tail(pending)
  /\ UNCHANGED <<table, managed>>

Fill ==
  /\ ~ managed
  /\ Typed'
  /\ managed' /\ Lags'

GiveUp == ~ managed' /\ Typed'

Next == Change \/ Read \/ Fill \/ GiveUp

Spec == Init /\ [][Next]_vars

(* When all messages are read the cache is the table.                      *)
CacheIsTable == managed /\ pending = <<>> => cache = table
=============================================================================

------------------------------ MODULE LruCache ------------------------------
(***************************************************************************)
(* internal/lrucache: a list of entries, most recently used first, and a   *)
(* map from a key to its entry.  A cache is a record: ll is the list, here *)
(* of keys, and m the map, here to the value the key's entry holds.  Each  *)
(* method runs under the cache's mutex, so it is one operator.             *)
(***************************************************************************)
EXTENDS Integers, Sequences

NewLruCache == [ll |-> <<>>, m |-> [k \in {} |-> <<>>]]

\* NewLruCache takes a capacity of one at least.
capOf(capacity) == IF capacity > 1 THEN capacity ELSE 1

Has(c, k) == k \in DOMAIN c.m

\* list.MoveToFront of the entry at position i.
moveToFront(ll, i) ==
    [j \in 1 .. Len(ll) |-> IF j = 1 THEN ll[i] ELSE IF j <= i THEN ll[j - 1] ELSE ll[j]]

Position(c, k) == CHOOSE i \in 1 .. Len(c.ll) : c.ll[i] = k

Used(c, k) == moveToFront(c.ll, Position(c, k))

\* Get: the cache after it; the value found is c.m[k].
Get(c, k) == IF Has(c, k) THEN [ll |-> Used(c, k), m |-> c.m] ELSE c

\* The key that leaves with the entry at the back.  Mutant: the second newest.
evictedSecond(ll) == ll[2]
evicted(ll) == ll[Len(ll)]

Put(m, k, v) == [x \in DOMAIN m \cup {k} |-> IF x = k THEN v ELSE m[x]]

Without(m, k) == [x \in DOMAIN m \ {k} |-> m[x]]

Add(c, k, v, capacity) ==
    IF Has(c, k)
    THEN [ll |-> Used(c, k), m |-> Put(c.m, k, v)]
    ELSE LET longer == <<k>> \o c.ll
         IN IF Len(longer) > capOf(capacity)
            THEN [ll |-> SubSeq(longer, 1, Len(longer) - 1),
                  m |-> Without(Put(c.m, k, v), evicted(longer))]
            ELSE [ll |-> longer, m |-> Put(c.m, k, v)]

-----------------------------------------------------------------------------
\* The list and the map hold the same keys, each once.
Agree(c) == /\ DOMAIN c.m = {c.ll[i] : i \in 1 .. Len(c.ll)}
            /\ \A i, j \in 1 .. Len(c.ll) : c.ll[i] = c.ll[j] => i = j

Bounded(c, capacity) == Len(c.ll) <= capOf(capacity)

=============================================================================

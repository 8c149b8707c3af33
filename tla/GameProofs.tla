---------------------------- MODULE GameProofs ----------------------------
(***************************************************************************)
(* Proofs about the terminal's game, for every size of the world and of    *)
(* the screen.  LruCache: after Get and Add the list and the map agree     *)
(* and the capacity holds.  The viewport: one wrap is enough, and the      *)
(* ways from the screen to the world and back undo each other.  The        *)
(* renderer: the runs of a row, with the cached prefixes, read column by   *)
(* column as the colours they are made of.  The differential update:       *)
(* after each of Update's messages and View the screen shows the grid,     *)
(* and the grid the newest cells.                                          *)
(***************************************************************************)
EXTENDS Game, SequenceTheorems, WellFoundedInduction, TLAPS

\* A cache with keys of K.
IsCache(c, K) == c.ll \in Seq(K) /\ Agree(c)

Keys(ll) == {ll[i] : i \in 1 .. Len(ll)}

Distinct(ll) == \A i, j \in 1 .. Len(ll) : ll[i] = ll[j] => i = j

\* What a cache is, of its list's keys.
LEMMA CacheIs ==
  ASSUME NEW K, NEW c
  PROVE  IsCache(c, K) <=> /\ c.ll \in Seq(K)
                           /\ Keys(c.ll) = DOMAIN c.m
                           /\ Distinct(c.ll)
BY DEF IsCache, Agree, Keys, Distinct

\* A function on 1 .. n is a sequence of length n.
LEMMA FunctionIsSeq ==
  ASSUME NEW K, NEW n \in Nat, NEW f \in [1 .. n -> K]
  PROVE  f \in Seq(K) /\ Len(f) = n
<1>1. f \in Seq(K)
  BY SeqDef
<1>2. 1 .. Len(f) = 1 .. n /\ Len(f) \in Nat
  BY <1>1, LenProperties
<1>3. \A a, b \in Nat : 1 .. a = 1 .. b => a <= b
  <2> SUFFICES ASSUME NEW a \in Nat, NEW b \in Nat, 1 .. a = 1 .. b, ~(a <= b)
               PROVE  FALSE
    OBVIOUS
  <2>1. a \in 1 .. a
    OBVIOUS
  <2>2. a \in 1 .. b
    BY <2>1
  <2> QED  BY <2>2
<1>4. n <= Len(f) /\ Len(f) <= n
  BY <1>2, <1>3
<1> QED  BY <1>1, <1>2, <1>4

-----------------------------------------------------------------------------
\* MoveToFront permutes the list.
LEMMA MoveToFrontPermutes ==
  ASSUME NEW K, NEW ll \in Seq(K), NEW i \in 1 .. Len(ll)
  PROVE  /\ moveToFront(ll, i) \in Seq(K)
         /\ Len(moveToFront(ll, i)) = Len(ll)
         /\ Keys(moveToFront(ll, i)) = Keys(ll)
         /\ Distinct(ll) => Distinct(moveToFront(ll, i))
<1> DEFINE n == Len(ll)
           old(j) == IF j = 1 THEN i ELSE IF j <= i THEN j - 1 ELSE j
           new(j) == IF j = i THEN 1 ELSE IF j < i THEN j + 1 ELSE j
           moved == moveToFront(ll, i)
<1>1. n \in Nat /\ ll \in [1 .. n -> K]
  BY LenProperties
<1>2. \A j \in 1 .. n : old(j) \in 1 .. n /\ new(j) \in 1 .. n /\ old(new(j)) = j
  BY <1>1
<1>3. \A j, k \in 1 .. n : old(j) = old(k) => j = k
  BY <1>1
<1>4. moved = [j \in 1 .. n |-> ll[old(j)]]
  BY DEF moveToFront
<1>5. moved \in [1 .. n -> K]
  BY <1>1, <1>2, <1>4
<1>7. \A j \in 1 .. n : moved[j] = ll[old(j)]
  BY <1>4
<1> HIDE DEF moved, n
<1>6. moved \in Seq(K) /\ Len(moved) = n
  BY <1>1, <1>5, FunctionIsSeq
<1>8. Keys(moved) = Keys(ll)
  <2>1. \A j \in 1 .. n : moved[j] \in Keys(ll)
    BY <1>2, <1>7 DEF Keys, n
  <2>2. \A j \in 1 .. n : ll[j] \in Keys(moved)
    <3> SUFFICES ASSUME NEW j \in 1 .. n PROVE ll[j] \in Keys(moved)
      OBVIOUS
    <3>1. new(j) \in 1 .. n /\ moved[new(j)] = ll[j]
      <4>1. new(j) \in 1 .. n /\ old(new(j)) = j
        BY <1>2
      <4> HIDE DEF new, old
      <4> QED  BY <4>1, <1>7
    <3> HIDE DEF new
    <3> QED  BY <1>6, <3>1 DEF Keys
  <2> QED  BY <1>6, <2>1, <2>2 DEF Keys, n
<1>9. Distinct(ll) => Distinct(moved)
  <2> HIDE DEF old
  <2> QED  BY <1>2, <1>3, <1>6, <1>7 DEF Distinct, n
<1> QED  BY <1>6, <1>8, <1>9 DEF moved, n

\* Where the entry of a key is.
LEMMA UsedPermutes ==
  ASSUME NEW K, NEW c, IsCache(c, K), NEW k, Has(c, k)
  PROVE  /\ Used(c, k) \in Seq(K)
         /\ Len(Used(c, k)) = Len(c.ll)
         /\ Keys(Used(c, k)) = DOMAIN c.m
         /\ Distinct(Used(c, k))
         /\ Used(c, k)[1] = k
<1>1. \E i \in 1 .. Len(c.ll) : c.ll[i] = k
  BY DEF IsCache, Agree, Has
<1>2. Position(c, k) \in 1 .. Len(c.ll) /\ c.ll[Position(c, k)] = k
  BY <1>1 DEF Position
<1>3. c.ll \in Seq(K) /\ Keys(c.ll) = DOMAIN c.m /\ Distinct(c.ll)
  BY DEF IsCache, Agree, Keys, Distinct
<1>4. Used(c, k)[1] = k
  BY <1>2, <1>3, LenProperties DEF Used, moveToFront
<1> QED  BY <1>2, <1>3, <1>4, MoveToFrontPermutes DEF Used

\* Get leaves the map alone, and the list agrees with it still.
THEOREM GetAgrees ==
  ASSUME NEW K, NEW c, IsCache(c, K), NEW capacity \in Int, Bounded(c, capacity), NEW k
  PROVE  /\ IsCache(Get(c, k), K)
         /\ Bounded(Get(c, k), capacity)
         /\ Get(c, k).m = c.m
         /\ Has(c, k) => Get(c, k).ll[1] = k
<1>1. CASE Has(c, k)
  <2>1. Get(c, k).ll = Used(c, k) /\ Get(c, k).m = c.m
    BY <1>1 DEF Get
  <2> QED  BY <1>1, <2>1, UsedPermutes DEF IsCache, Agree, Bounded, Keys, Distinct
<1>2. CASE ~Has(c, k)
  BY <1>2 DEF Get
<1> QED  BY <1>1, <1>2

-----------------------------------------------------------------------------
\* PushFront of a new key.
LEMMA PushFrontAgrees ==
  ASSUME NEW K, NEW c, IsCache(c, K), NEW k \in K, ~Has(c, k)
  PROVE  /\ <<k>> \o c.ll \in Seq(K)
         /\ Len(<<k>> \o c.ll) = Len(c.ll) + 1
         /\ (<<k>> \o c.ll)[1] = k
         /\ Keys(<<k>> \o c.ll) = DOMAIN c.m \cup {k}
         /\ Distinct(<<k>> \o c.ll)
<1> DEFINE n == Len(c.ll)
           longer == <<k>> \o c.ll
<1>1. c.ll \in Seq(K) /\ Keys(c.ll) = DOMAIN c.m /\ Distinct(c.ll) /\ n \in Nat
  BY LenProperties DEF IsCache, Agree, Keys, Distinct
<1>2. <<k>> \in Seq(K) /\ Len(<<k>>) = 1 /\ <<k>>[1] = k
  OBVIOUS
<1>3. longer \in Seq(K) /\ Len(longer) = n + 1
  BY <1>1, <1>2, ConcatProperties
<1>4. \A i \in 1 .. n + 1 : longer[i] = IF i = 1 THEN k ELSE c.ll[i - 1]
  BY <1>1, <1>2, ConcatProperties
<1>5. k \notin Keys(c.ll)
  BY <1>1 DEF Has
<1>6. \A i \in 1 .. n : longer[i + 1] = c.ll[i]
  BY <1>1, <1>4
<1> HIDE DEF longer, n
<1>7. Keys(longer) = Keys(c.ll) \cup {k}
  <2>1. \A i \in 1 .. n + 1 : longer[i] \in Keys(c.ll) \cup {k}
    BY <1>1, <1>4 DEF Keys, n
  <2>2. k \in Keys(longer)
    BY <1>1, <1>3, <1>4 DEF Keys
  <2>3. \A i \in 1 .. n : c.ll[i] \in Keys(longer)
    <3> SUFFICES ASSUME NEW i \in 1 .. n PROVE c.ll[i] \in Keys(longer)
      OBVIOUS
    <3>1. i + 1 \in 1 .. Len(longer)
      BY <1>1, <1>3
    <3> QED  BY <1>6, <3>1 DEF Keys
  <2> QED  BY <1>3, <2>1, <2>2, <2>3 DEF Keys, n
<1>8. Distinct(longer)
  <2> SUFFICES ASSUME NEW i \in 1 .. n + 1, NEW j \in 1 .. n + 1, longer[i] = longer[j]
               PROVE  i = j
    BY <1>3 DEF Distinct
  <2>1. \A h \in 1 .. n + 1 : h # 1 => h - 1 \in 1 .. n /\ longer[h] = c.ll[h - 1]
    BY <1>1, <1>4
  <2>2. \A h \in 1 .. n : c.ll[h] # k
    BY <1>5 DEF Keys, n
  <2>3. longer[1] = k
    BY <1>1, <1>4
  <2>4. CASE i = 1 \/ j = 1
    BY <2>1, <2>2, <2>3, <2>4
  <2>5. CASE i # 1 /\ j # 1
    BY <1>1, <2>1, <2>5 DEF Distinct, n
  <2> QED  BY <2>4, <2>5
<1> QED  BY <1>1, <1>3, <1>4, <1>7, <1>8 DEF longer, n

\* Without its back, a list loses the key that is taken from the map.
LEMMA BackLeaves ==
  ASSUME NEW K, NEW ll \in Seq(K), Len(ll) > 1, Distinct(ll)
  PROVE  LET short == SubSeq(ll, 1, Len(ll) - 1)
         IN /\ short \in Seq(K)
            /\ Len(short) = Len(ll) - 1
            /\ short[1] = ll[1]
            /\ Keys(short) = Keys(ll) \ {evicted(ll)}
            /\ Distinct(short)
            /\ evicted(ll) # ll[1]
<1> DEFINE n == Len(ll)
           short == SubSeq(ll, 1, n - 1)
<1>1. n \in Nat /\ n > 1 /\ \A i \in 1 .. n : ll[i] \in K
  BY LenProperties, ElementOfSeq
<1>2. short \in Seq(K) /\ Len(short) = n - 1 /\ \A i \in 1 .. n - 1 : short[i] = ll[i]
  BY <1>1, SubSeqProperties
<1>3. \A i, j \in 1 .. n : ll[i] = ll[j] => i = j
  BY DEF Distinct
<1>4. evicted(ll) = ll[n]
  BY DEF evicted
<1> HIDE DEF short, n
<1>5. Keys(ll) = {ll[i] : i \in 1 .. n}
  BY DEF Keys, n
<1>6. Keys(short) = {ll[i] : i \in 1 .. n - 1}
  BY <1>2 DEF Keys
<1>7. Keys(short) = Keys(ll) \ {ll[n]}
  <2>1. \A i \in 1 .. n - 1 : i \in 1 .. n /\ i # n
    BY <1>1
  <2>2. \A i \in 1 .. n : i = n \/ i \in 1 .. n - 1
    BY <1>1
  <2>3. n \in 1 .. n
    BY <1>1
  <2> QED  BY <1>3, <1>5, <1>6, <2>1, <2>2, <2>3
<1>8. Distinct(short)
  BY <1>1, <1>2, <1>3 DEF Distinct
<1>9. evicted(ll) # ll[1]
  BY <1>1, <1>3, <1>4
<1> QED  BY <1>1, <1>2, <1>4, <1>7, <1>8, <1>9 DEF short, n

\* Add: list and map lose the same entry at the capacity, which is never the
\* new one, and the map answers the key with the value from then on.
THEOREM AddAgrees ==
  ASSUME NEW K, NEW c, IsCache(c, K), NEW capacity \in Int, Bounded(c, capacity),
         NEW k \in K, NEW v
  PROVE  /\ IsCache(Add(c, k, v, capacity), K)
         /\ Bounded(Add(c, k, v, capacity), capacity)
         /\ Has(Add(c, k, v, capacity), k)
         /\ Add(c, k, v, capacity).m[k] = v
         /\ Add(c, k, v, capacity).ll[1] = k
         /\ \A x \in DOMAIN Add(c, k, v, capacity).m \ {k} :
                Add(c, k, v, capacity).m[x] = c.m[x]
<1> DEFINE n == Add(c, k, v, capacity)
           longer == <<k>> \o c.ll
           put == Put(c.m, k, v)
<1>1. /\ DOMAIN put = DOMAIN c.m \cup {k}
      /\ put[k] = v
      /\ \A x \in DOMAIN c.m \ {k} : put[x] = c.m[x]
  BY DEF Put
<1>2. CASE Has(c, k)
  <2>1. n.ll = Used(c, k) /\ n.m = put
    BY <1>2 DEF Add
  <2>2. DOMAIN put = DOMAIN c.m
    BY <1>1, <1>2 DEF Has
  <2>3. /\ Used(c, k) \in Seq(K) /\ Len(Used(c, k)) = Len(c.ll)
        /\ Keys(Used(c, k)) = DOMAIN c.m /\ Distinct(Used(c, k)) /\ Used(c, k)[1] = k
    BY <1>2, UsedPermutes
  <2> HIDE DEF n, put
  <2>4. IsCache(n, K)
    BY <2>1, <2>2, <2>3, CacheIs
  <2>5. Bounded(n, capacity) /\ Has(n, k) /\ n.m[k] = v /\ n.ll[1] = k
    BY <1>1, <2>1, <2>3 DEF Bounded, Has
  <2>6. \A x \in DOMAIN n.m \ {k} : n.m[x] = c.m[x]
    BY <1>1, <2>1, <2>2
  <2> QED  BY <2>4, <2>5, <2>6 DEF n
<1>3. CASE ~Has(c, k)
  <2>1. /\ longer \in Seq(K) /\ Len(longer) = Len(c.ll) + 1 /\ longer[1] = k
        /\ Keys(longer) = DOMAIN put /\ Distinct(longer)
    BY <1>1, <1>3, PushFrontAgrees
  <2>2. Len(c.ll) \in Nat /\ Len(c.ll) <= capOf(capacity) /\ capOf(capacity) >= 1
        /\ capOf(capacity) \in Int
    BY LenProperties DEF IsCache, Bounded, capOf
  <2>3. CASE Len(longer) > capOf(capacity)
    <3> DEFINE short == SubSeq(longer, 1, Len(longer) - 1)
               less == Without(put, evicted(longer))
    <3>1. n.ll = short /\ n.m = less
      BY <1>3, <2>3 DEF Add
    <3>2. Len(longer) > 1
      BY <2>1, <2>2, <2>3
    <3>3. /\ short \in Seq(K) /\ Len(short) = Len(longer) - 1 /\ short[1] = k
          /\ Keys(short) = Keys(longer) \ {evicted(longer)}
          /\ Distinct(short) /\ evicted(longer) # k
      BY <2>1, <3>2, BackLeaves
    <3>4. /\ DOMAIN less = DOMAIN put \ {evicted(longer)}
          /\ \A x \in DOMAIN less : less[x] = put[x]
      BY DEF Without
    <3>5. Len(short) <= capOf(capacity)
      BY <2>1, <2>2, <3>3
    <3> HIDE DEF n, short, less, longer, put
    <3>6. IsCache(n, K)
      BY <2>1, <3>1, <3>3, <3>4, CacheIs
    <3>7. k \in DOMAIN less /\ less[k] = v /\ \A x \in DOMAIN less \ {k} : less[x] = c.m[x]
      BY <1>1, <3>3, <3>4
    <3>8. Bounded(n, capacity) /\ Has(n, k) /\ n.m[k] = v /\ n.ll[1] = k
      BY <3>1, <3>3, <3>5, <3>7 DEF Bounded, Has
    <3>9. \A x \in DOMAIN n.m \ {k} : n.m[x] = c.m[x]
      BY <3>1, <3>7
    <3> QED  BY <3>6, <3>8, <3>9 DEF n
  <2>4. CASE ~(Len(longer) > capOf(capacity))
    <3>1. n.ll = longer /\ n.m = put
      BY <1>3, <2>4 DEF Add
    <3> HIDE DEF n, longer, put
    <3>2. IsCache(n, K)
      BY <2>1, <3>1, CacheIs
    <3>3. Len(longer) <= capOf(capacity)
      BY <2>1, <2>2, <2>4
    <3>4. Bounded(n, capacity) /\ Has(n, k) /\ n.m[k] = v /\ n.ll[1] = k
      BY <1>1, <2>1, <3>1, <3>3 DEF Bounded, Has
    <3>5. \A x \in DOMAIN n.m \ {k} : n.m[x] = c.m[x]
      BY <1>1, <3>1
    <3> QED  BY <3>2, <3>4, <3>5 DEF n
  <2> QED  BY <2>3, <2>4
<1> QED  BY <1>2, <1>3

-----------------------------------------------------------------------------
\* Division of integers.
LEMMA DivMod ==
  ASSUME NEW a \in Int, NEW n \in Nat \ {0}
  PROVE  a \div n \in Int /\ a % n \in 0 .. n - 1 /\ a = n * (a \div n) + (a % n)
OBVIOUS

LEMMA Between ==
  ASSUME NEW n \in Nat \ {0}, NEW q \in Int, NEW p \in Int, n * q < n * (p + 1)
  PROVE  q <= p
<1> SUFFICES ASSUME q >= p + 1 PROVE FALSE
  OBVIOUS
<1> DEFINE d == q - (p + 1)
<1>1. d \in Nat /\ q = (p + 1) + d
  OBVIOUS
<1>2. n * q = n * (p + 1) + n * d
  BY <1>1
<1>3. n * d >= 0
  BY <1>1
<1>4. n * (p + 1) \in Int /\ n * q \in Int /\ n * d \in Int
  BY <1>1
<1> QED  BY <1>2, <1>3, <1>4

LEMMA DivIs ==
  ASSUME NEW a \in Int, NEW n \in Nat \ {0}, NEW q \in Int, NEW r \in 0 .. n - 1,
         a = n * q + r
  PROVE  a \div n = q /\ a % n = r
<1>1. a \div n \in Int /\ a % n \in 0 .. n - 1 /\ a = n * (a \div n) + (a % n)
  BY DivMod
<1>2. n * (a \div n) < n * (q + 1) /\ n * q < n * ((a \div n) + 1)
  BY <1>1
<1>3. a \div n = q
  BY <1>1, <1>2, Between
<1> QED  BY <1>1, <1>3

\* Adding a multiple leaves the remainder.
LEMMA ModShift ==
  ASSUME NEW a \in Int, NEW n \in Nat \ {0}, NEW k \in Int
  PROVE  (a + n * k) % n = a % n /\ (a + n * k) \div n = (a \div n) + k
<1> DEFINE q == a \div n
           r == a % n
<1>1. q \in Int /\ r \in 0 .. n - 1 /\ a = n * q + r
  BY DivMod
<1> HIDE DEF q, r
<1>2. a + n * k = n * (q + k) + r /\ a + n * k \in Int
  BY <1>1
<1>3. (a + n * k) \div n = q + k /\ (a + n * k) % n = r
  BY <1>1, <1>2, DivIs
<1> QED  BY <1>3 DEF q, r

-----------------------------------------------------------------------------
\* The viewport and a position are in the world.
Placed(g) == /\ g.worldSize \in Nat \ {0}
             /\ g.viewport \in [1 .. 2 -> 0 .. g.worldSize - 1]

InWorldOf(g) == [1 .. 2 -> 0 .. g.worldSize - 1]

-----------------------------------------------------------------------------
\* Go's % of a number of two worlds at most is one subtraction at most.
LEMMA RemOnce ==
  ASSUME NEW n \in Nat \ {0}, NEW a \in 0 .. 2 * n - 1
  PROVE  rem(a, n) = IF a < n THEN a ELSE a - n
<1>1. CASE a < n
  <2>1. a % n = a
    BY <1>1
  <2> QED  BY <1>1, <2>1 DEF rem
<1>2. CASE a >= n
  <2>1. a % n = a - n
    BY <1>2
  <2> QED  BY <1>2, <2>1 DEF rem
<1> QED  BY <1>1, <1>2

\* One wrap is enough for a move of one world at most: the axis stays in the
\* world, and goes as far as asked on the torus.
THEOREM OneWrapIsEnough ==
  ASSUME NEW n \in Nat \ {0}, NEW v \in 0 .. n - 1, NEW d \in -n .. n
  PROVE  /\ movedAxis(v, d, n) \in 0 .. n - 1
         /\ \E k \in {-1, 0, 1} : movedAxis(v, d, n) = v + d + k * n
<1>1. CASE v + d < 0
  <2>1. movedAxis(v, d, n) = v + d + 1 * n
    BY <1>1 DEF movedAxis
  <2> QED  BY <1>1, <2>1
<1>2. CASE v + d >= n
  <2>1. movedAxis(v, d, n) = v + d + (-1) * n
    BY <1>2 DEF movedAxis
  <2> QED  BY <1>2, <2>1
<1>3. CASE v + d >= 0 /\ v + d < n
  <2>1. movedAxis(v, d, n) = v + d + 0 * n
    BY <1>3 DEF movedAxis
  <2> QED  BY <1>3, <2>1
<1> QED  BY <1>1, <1>2, <1>3

\* From a cell of the world to its position relative to the viewport and back,
\* and the other way round: each undoes the other, so that a click on what
\* currentCells placed goes to the cell it came from.
THEOREM ViewportInverse ==
  ASSUME NEW g, Placed(g), NEW p \in InWorldOf(g)
  PROVE  /\ worldToViewport(g, p) \in InWorldOf(g)
         /\ viewportToWorld(g, p) \in InWorldOf(g)
         /\ viewportToWorld(g, worldToViewport(g, p)) = p
         /\ worldToViewport(g, viewportToWorld(g, p)) = p
<1> DEFINE n == g.worldSize
           there == worldToViewport(g, p)
           back == viewportToWorld(g, p)
<1>1. /\ n \in Nat \ {0}
      /\ \A i \in 1 .. 2 : g.viewport[i] \in 0 .. n - 1 /\ p[i] \in 0 .. n - 1
  BY DEF Placed, InWorldOf
<1>2. \A q : viewportToWorld(g, q) = [i \in 1 .. 2 |-> rem(q[i] + g.viewport[i], n)]
  BY DEF viewportToWorld
<1>3. \A q : worldToViewport(g, q) =
                 [i \in 1 .. 2 |-> IF q[i] - g.viewport[i] < 0
                                   THEN q[i] - g.viewport[i] + n ELSE q[i] - g.viewport[i]]
  BY DEF worldToViewport
<1>4. \A a, b \in 0 .. n - 1 : rem(a + b, n) = IF a + b < n THEN a + b ELSE a + b - n
  <2> SUFFICES ASSUME NEW a \in 0 .. n - 1, NEW b \in 0 .. n - 1
               PROVE  rem(a + b, n) = IF a + b < n THEN a + b ELSE a + b - n
    OBVIOUS
  <2>1. a + b \in 0 .. 2 * n - 1
    BY <1>1
  <2> QED  BY <1>1, <2>1, RemOnce
<1> HIDE DEF n
<1>5. there \in [1 .. 2 -> 0 .. n - 1]
  BY <1>1, <1>3
<1>6. back \in [1 .. 2 -> 0 .. n - 1]
  <2>1. \A i \in 1 .. 2 : rem(p[i] + g.viewport[i], n) \in 0 .. n - 1
    BY <1>1, <1>4
  <2> QED  BY <1>2, <2>1
<1>7. viewportToWorld(g, there) = p
  <2>1. \A i \in 1 .. 2 : rem(there[i] + g.viewport[i], n) = p[i]
    <3> SUFFICES ASSUME NEW i \in 1 .. 2 PROVE rem(there[i] + g.viewport[i], n) = p[i]
      OBVIOUS
    <3>1. there[i] = IF p[i] - g.viewport[i] < 0 THEN p[i] - g.viewport[i] + n
                     ELSE p[i] - g.viewport[i]
      BY <1>3
    <3> QED  BY <1>1, <1>4, <1>5, <3>1
  <2>2. p = [i \in 1 .. 2 |-> p[i]]
    BY DEF InWorldOf
  <2> QED  BY <1>2, <2>1, <2>2
<1>8. worldToViewport(g, back) = p
  <2>1. \A i \in 1 .. 2 : (IF back[i] - g.viewport[i] < 0 THEN back[i] - g.viewport[i] + n
                           ELSE back[i] - g.viewport[i]) = p[i]
    <3> SUFFICES ASSUME NEW i \in 1 .. 2
                 PROVE  (IF back[i] - g.viewport[i] < 0 THEN back[i] - g.viewport[i] + n
                         ELSE back[i] - g.viewport[i]) = p[i]
      OBVIOUS
    <3>1. back[i] = rem(p[i] + g.viewport[i], n)
      BY <1>2
    <3>2. back[i] = IF p[i] + g.viewport[i] < n THEN p[i] + g.viewport[i]
                    ELSE p[i] + g.viewport[i] - n
      BY <1>1, <1>4, <3>1
    <3> QED  BY <1>1, <3>2
  <2>2. p = [i \in 1 .. 2 |-> p[i]]
    BY DEF InWorldOf
  <2> QED  BY <1>3, <2>1, <2>2
<1> QED  BY <1>5, <1>6, <1>7, <1>8 DEF InWorldOf, n

-----------------------------------------------------------------------------
\* Induction over a set of numbers.
LEMMA Induction ==
  ASSUME NEW T, 0 \in T, \A n \in Nat : n \in T => n + 1 \in T
  PROVE  Nat \subseteq T
<1> DEFINE U == Nat \ T
           R == OpToRel(<, Nat)
<1> SUFFICES ASSUME U # {} PROVE FALSE
  OBVIOUS
<1>1. \E x \in U : \A y \in U : ~(<<y, x>> \in R)
  <2>1. IsWellFoundedOn(R, Nat) /\ U \subseteq Nat
    BY NatLessThanWellFounded
  <2> HIDE DEF R, U
  <2> QED  BY <2>1, WFMin
<1>2. PICK x \in U : \A y \in U : ~(<<y, x>> \in R)
  BY <1>1
<1>3. \A y \in Nat : y < x => <<y, x>> \in R
  BY DEF OpToRel
<1>4. x # 0 /\ x - 1 \in Nat /\ x - 1 < x
  OBVIOUS
<1>5. x - 1 \in T
  BY <1>2, <1>3, <1>4
<1>6. (x - 1) + 1 \in T
  BY <1>4, <1>5
<1> QED  BY <1>4, <1>6

\* Where it begins.
Scanning(cache) ==
    [out |-> <<>>, color |-> Empty, half |-> FALSE, runLen |-> 0, cache |-> cache]

\* The loop of renderRowRLE, column after column.
LEMMA ScanSteps ==
  ASSUME NEW g, NEW y, NEW cache, g.width \in Nat
  PROVE  LET f == scan(g, y, cache)
         IN /\ f[0] = Scanning(cache)
            /\ \A n \in 1 .. g.width : f[n] = extend(f[n - 1], displayColor(g, <<n - 1, y>>), g.half /\ n = g.width)
<1> DEFINE base == Scanning(cache)
           step(s, n) == extend(s, displayColor(g, <<n - 1, y>>), g.half /\ n = g.width)
           is(f, m) == f = [n \in 0 .. m |-> IF n = 0 THEN base ELSE step(f[n - 1], n)]
           T == {m \in Nat : \E f : is(f, m)}
<1>1. 0 \in T
  <2>1. is([n \in 0 .. 0 |-> base], 0)
    OBVIOUS
  <2> HIDE DEF is
  <2> QED  BY <2>1
<1>2. \A m \in Nat : m \in T => m + 1 \in T
  <2> HIDE DEF base, step, is
  <2> SUFFICES ASSUME NEW m \in Nat, NEW f, is(f, m) PROVE \E h : is(h, m + 1)
    OBVIOUS
  <2> USE DEF is
  <2> DEFINE h == [n \in 0 .. m + 1 |-> IF n = m + 1 THEN step(f[m], m + 1) ELSE f[n]]
  <2>1. \A n \in 0 .. m + 1 : h[n] = IF n = 0 THEN base ELSE step(h[n - 1], n)
    <3> SUFFICES ASSUME NEW n \in 0 .. m + 1
                 PROVE  h[n] = IF n = 0 THEN base ELSE step(h[n - 1], n)
      OBVIOUS
    <3>1. CASE n = m + 1
      BY <3>1
    <3>2. CASE n # m + 1
      BY <3>2
    <3> QED  BY <3>1, <3>2
  <2>2. is(h, m + 1)
    BY <2>1
  <2> HIDE DEF h, is
  <2> QED  BY <2>2
<1>3. g.width \in T
  <2> HIDE DEF T
  <2> QED  BY <1>1, <1>2, Induction
<1> DEFINE a == scan(g, y, cache)
<1>4. is(a, g.width)
  <2>1. \E f : is(f, g.width)
    BY <1>3
  <2> QED  BY <2>1 DEF scan, Scanning
<1> HIDE DEF base, step
<1>5. \A f : is(f, g.width)
           => \A n \in 0 .. g.width : f[n] = IF n = 0 THEN base ELSE step(f[n - 1], n)
  OBVIOUS
<1>6. \A n \in 0 .. g.width : a[n] = IF n = 0 THEN base ELSE step(a[n - 1], n)
  <2> HIDE DEF is, a
  <2> QED  BY <1>4, <1>5
<1>7. a[0] = base /\ \A n \in 1 .. g.width : a[n] = step(a[n - 1], n)
  <2> HIDE DEF a
  <2> QED  BY <1>6
<1> QED  BY <1>7 DEF base, step

\* The caches of the rows, one after the other.
LEMMA CacheSteps ==
  ASSUME NEW g, g.height \in Nat
  PROVE  LET f == caches(g)
         IN /\ f[0] = g.sgr
            /\ \A n \in 1 .. g.height : f[n] = IF drawn(g, n - 1) THEN renderRowRLE(g, n - 1, f[n - 1]).cache ELSE f[n - 1]
<1> DEFINE base == g.sgr
           step(s, n) == IF drawn(g, n - 1) THEN renderRowRLE(g, n - 1, s).cache ELSE s
           is(f, m) == f = [n \in 0 .. m |-> IF n = 0 THEN base ELSE step(f[n - 1], n)]
           T == {m \in Nat : \E f : is(f, m)}
<1>1. 0 \in T
  <2>1. is([n \in 0 .. 0 |-> base], 0)
    OBVIOUS
  <2> HIDE DEF is
  <2> QED  BY <2>1
<1>2. \A m \in Nat : m \in T => m + 1 \in T
  <2> HIDE DEF base, step, is
  <2> SUFFICES ASSUME NEW m \in Nat, NEW f, is(f, m) PROVE \E h : is(h, m + 1)
    OBVIOUS
  <2> USE DEF is
  <2> DEFINE h == [n \in 0 .. m + 1 |-> IF n = m + 1 THEN step(f[m], m + 1) ELSE f[n]]
  <2>1. \A n \in 0 .. m + 1 : h[n] = IF n = 0 THEN base ELSE step(h[n - 1], n)
    <3> SUFFICES ASSUME NEW n \in 0 .. m + 1
                 PROVE  h[n] = IF n = 0 THEN base ELSE step(h[n - 1], n)
      OBVIOUS
    <3>1. CASE n = m + 1
      BY <3>1
    <3>2. CASE n # m + 1
      BY <3>2
    <3> QED  BY <3>1, <3>2
  <2>2. is(h, m + 1)
    BY <2>1
  <2> HIDE DEF h, is
  <2> QED  BY <2>2
<1>3. g.height \in T
  <2> HIDE DEF T
  <2> QED  BY <1>1, <1>2, Induction
<1> DEFINE a == caches(g)
<1>4. is(a, g.height)
  <2>1. \E f : is(f, g.height)
    BY <1>3
  <2> QED  BY <2>1 DEF caches
<1> HIDE DEF base, step
<1>5. \A f : is(f, g.height)
           => \A n \in 0 .. g.height : f[n] = IF n = 0 THEN base ELSE step(f[n - 1], n)
  OBVIOUS
<1>6. \A n \in 0 .. g.height : a[n] = IF n = 0 THEN base ELSE step(a[n - 1], n)
  <2> HIDE DEF is, a
  <2> QED  BY <1>4, <1>5
<1>7. a[0] = base /\ \A n \in 1 .. g.height : a[n] = step(a[n - 1], n)
  <2> HIDE DEF a
  <2> QED  BY <1>6
<1> QED  BY <1>7 DEF base, step
\* The columns of a row, run after run.
LEMMA ColumnSteps ==
  ASSUME NEW row, Len(row) \in Nat
  PROVE  LET f == columnsTo(row)
         IN /\ f[0] = <<>>
            /\ \A n \in 1 .. Len(row) : f[n] = f[n - 1] \o covered(row[n])
<1> DEFINE base == <<>>
           step(s, n) == s \o covered(row[n])
           is(f, m) == f = [n \in 0 .. m |-> IF n = 0 THEN base ELSE step(f[n - 1], n)]
           T == {m \in Nat : \E f : is(f, m)}
<1>1. 0 \in T
  <2>1. is([n \in 0 .. 0 |-> base], 0)
    OBVIOUS
  <2> HIDE DEF is
  <2> QED  BY <2>1
<1>2. \A m \in Nat : m \in T => m + 1 \in T
  <2> HIDE DEF base, step, is
  <2> SUFFICES ASSUME NEW m \in Nat, NEW f, is(f, m) PROVE \E h : is(h, m + 1)
    OBVIOUS
  <2> USE DEF is
  <2> DEFINE h == [n \in 0 .. m + 1 |-> IF n = m + 1 THEN step(f[m], m + 1) ELSE f[n]]
  <2>1. \A n \in 0 .. m + 1 : h[n] = IF n = 0 THEN base ELSE step(h[n - 1], n)
    <3> SUFFICES ASSUME NEW n \in 0 .. m + 1
                 PROVE  h[n] = IF n = 0 THEN base ELSE step(h[n - 1], n)
      OBVIOUS
    <3>1. CASE n = m + 1
      BY <3>1
    <3>2. CASE n # m + 1
      BY <3>2
    <3> QED  BY <3>1, <3>2
  <2>2. is(h, m + 1)
    BY <2>1
  <2> HIDE DEF h, is
  <2> QED  BY <2>2
<1>3. Len(row) \in T
  <2> HIDE DEF T
  <2> QED  BY <1>1, <1>2, Induction
<1> DEFINE a == columnsTo(row)
<1>4. is(a, Len(row))
  <2>1. \E f : is(f, Len(row))
    BY <1>3
  <2> QED  BY <2>1 DEF columnsTo
<1> HIDE DEF base, step
<1>5. \A f : is(f, Len(row))
           => \A n \in 0 .. Len(row) : f[n] = IF n = 0 THEN base ELSE step(f[n - 1], n)
  OBVIOUS
<1>6. \A n \in 0 .. Len(row) : a[n] = IF n = 0 THEN base ELSE step(a[n - 1], n)
  <2> HIDE DEF is, a
  <2> QED  BY <1>4, <1>5
<1>7. a[0] = base /\ \A n \in 1 .. Len(row) : a[n] = step(a[n - 1], n)
  <2> HIDE DEF a
  <2> QED  BY <1>6
<1> QED  BY <1>7 DEF base, step

\* The runs of a row whose texts are of T.
Run(T) == [text : T, half : BOOLEAN, len : Nat]

LEMMA ColumnsTyped ==
  ASSUME NEW T, NEW row \in Seq(Run(T))
  PROVE  /\ Columns(row) \in Seq(T)
         /\ \A n \in 0 .. Len(row) : columnsTo(row)[n] \in Seq(T)
<1> DEFINE a == columnsTo(row)
           U == {n \in Nat : n <= Len(row) => a[n] \in Seq(T)}
<1>1. Len(row) \in Nat /\ \A n \in 1 .. Len(row) : row[n] \in Run(T)
  BY LenProperties
<1>2. a[0] = <<>> /\ \A n \in 1 .. Len(row) :
                         a[n] = a[n - 1] \o covered(row[n])
  BY <1>1, ColumnSteps
<1> HIDE DEF a
<1>3. 0 \in U
  <2>1. <<>> \in Seq(T)
    OBVIOUS
  <2> QED  BY <1>2, <2>1
<1>4. \A n \in Nat : n \in U => n + 1 \in U
  <2> SUFFICES ASSUME NEW n \in Nat, n + 1 <= Len(row), a[n] \in Seq(T)
               PROVE  a[n + 1] \in Seq(T)
    BY <1>1
  <2> DEFINE r == row[n + 1]
             more == covered(r)
  <2>1. n + 1 \in 1 .. Len(row) /\ (n + 1) - 1 = n
    BY <1>1
  <2>2. r \in Run(T) /\ a[n + 1] = a[n] \o more
    BY <1>1, <1>2, <2>1
  <2>3. more \in Seq(T)
    BY <2>2, FunctionIsSeq DEF Run, covered
  <2> HIDE DEF more
  <2> QED  BY <2>2, <2>3, ConcatProperties
<1>5. \A n \in 0 .. Len(row) : n \in U
  <2> HIDE DEF U
  <2> QED  BY <1>1, <1>3, <1>4, Induction
<1> QED  BY <1>1, <1>5 DEF Columns, a

LEMMA ColumnsAppend ==
  ASSUME NEW T, NEW row \in Seq(Run(T)), NEW r \in Run(T)
  PROVE  Columns(Append(row, r)) = Columns(row) \o covered(r)
<1> DEFINE long == Append(row, r)
           a == columnsTo(row)
           b == columnsTo(long)
           U == {n \in Nat : n <= Len(row) => a[n] = b[n]}
<1>0. Len(row) \in Nat
  BY LenProperties
<1>1. /\ long \in Seq(Run(T)) /\ Len(long) = Len(row) + 1 /\ Len(long) \in Nat
      /\ long[Len(row) + 1] = r
      /\ \A n \in 1 .. Len(row) : long[n] = row[n]
  BY AppendProperties, LenProperties
<1>2. a[0] = <<>> /\ \A n \in 1 .. Len(row) :
                         a[n] = a[n - 1] \o covered(row[n])
  BY <1>0, ColumnSteps
<1> HIDE DEF long
<1>3. b[0] = <<>> /\ \A n \in 1 .. Len(long) :
                         b[n] = b[n - 1] \o covered(long[n])
  BY <1>1, ColumnSteps
<1> HIDE DEF a, b
<1>4. 0 \in U
  BY <1>2, <1>3
<1>5. \A n \in Nat : n \in U => n + 1 \in U
  <2> SUFFICES ASSUME NEW n \in Nat, n \in U, n + 1 <= Len(row)
               PROVE  a[n + 1] = b[n + 1]
    OBVIOUS
  <2>1. /\ n + 1 \in 1 .. Len(row) /\ n + 1 \in 1 .. Len(long) /\ (n + 1) - 1 = n
        /\ n <= Len(row)
    BY <1>0, <1>1
  <2>2. long[n + 1] = row[n + 1]
    BY <1>1, <2>1
  <2>3. a[n] = b[n]
    BY <2>1
  <2> QED  BY <1>2, <1>3, <2>1, <2>2, <2>3
<1>6. Len(row) \in U
  <2> HIDE DEF U
  <2> QED  BY <1>0, <1>4, <1>5, Induction
<1>7. b[Len(row) + 1] = b[Len(row)] \o covered(r)
  <2>1. Len(row) + 1 \in 1 .. Len(long) /\ (Len(row) + 1) - 1 = Len(row)
    BY <1>0, <1>1
  <2> QED  BY <1>1, <1>3, <2>1
<1>8. Columns(row) = a[Len(row)] /\ Columns(long) = b[Len(long)]
  BY DEF Columns, a, b
<1>9. a[Len(row)] = b[Len(row)]
  BY <1>0, <1>6
<1>10. Columns(long) = Columns(row) \o covered(r)
  BY <1>1, <1>7, <1>8, <1>9
<1> QED  BY <1>10 DEF long

-----------------------------------------------------------------------------
\* A cache of the prefixes of colours of K.
Caching(c, K) == /\ IsCache(c, K) /\ Bounded(c, CacheCap)
                 /\ \A k \in DOMAIN c.m : c.m[k] = prefixOf(k)

\* What is written for a colour, or for none.
textOf(color) == IF color = Empty THEN Empty ELSE prefixOf(color)

Texts(K) == {textOf(color) : color \in K \cup {Empty}}

\* Found or added, the prefix is the colour's own.
LEMMA PrefixIsOwn ==
  ASSUME NEW K, NEW c, Caching(c, K), NEW k \in K
  PROVE  /\ getSGRPrefix(c, k).text = prefixOf(k)
         /\ Caching(getSGRPrefix(c, k).cache, K)
<1>1. CacheCap \in Int
  BY GameAssumption
<1>2. CASE Has(c, k)
  <2>1. /\ getSGRPrefix(c, k).text = c.m[k]
        /\ getSGRPrefix(c, k).cache = Get(c, k)
    BY <1>2 DEF getSGRPrefix
  <2>2. /\ IsCache(Get(c, k), K) /\ Bounded(Get(c, k), CacheCap)
        /\ Get(c, k).m = c.m
    BY <1>1, GetAgrees DEF Caching
  <2> QED  BY <1>2, <2>1, <2>2 DEF Caching, Has
<1>3. CASE ~Has(c, k)
  <2> DEFINE new == Add(c, k, prefixOf(k), CacheCap)
  <2>1. /\ getSGRPrefix(c, k).text = prefixOf(k)
        /\ getSGRPrefix(c, k).cache = new
    BY <1>3 DEF getSGRPrefix
  <2>2. /\ IsCache(new, K) /\ Bounded(new, CacheCap)
        /\ new.m[k] = prefixOf(k)
        /\ \A x \in DOMAIN new.m \ {k} : new.m[x] = c.m[x]
    BY <1>1, AddAgrees DEF Caching
  <2>3. \A x \in DOMAIN new.m \ {k} : x \in DOMAIN c.m
    <3>1. DOMAIN new.m \subseteq DOMAIN c.m \cup {k}
      BY <1>3 DEF Add, Put, Without
    <3> QED  BY <3>1
  <2> HIDE DEF new
  <2> QED  BY <2>1, <2>2, <2>3 DEF Caching
<1> QED  BY <1>2, <1>3

\* The colours that row y shows are of K, or none.
Shows(g, y, K) == \A x \in 0 .. g.width - 1 : displayColor(g, <<x, y>>) \in K \cup {Empty}

\* After n columns: what is written covers the first of them, the run that
\* grows the others.
Scanned(g, y, K, n, s) ==
    /\ DOMAIN s = {"out", "color", "half", "runLen", "cache"}
    /\ s.out \in Seq(Run(Texts(K))) /\ s.half \in BOOLEAN /\ s.runLen \in Nat
    /\ s.color \in K \cup {Empty} /\ Caching(s.cache, K)
    /\ Len(Columns(s.out)) + s.runLen = n
    /\ \A i \in 1 .. n : IF i <= Len(Columns(s.out))
                         THEN Columns(s.out)[i] = textOf(displayColor(g, <<i - 1, y>>))
                         ELSE displayColor(g, <<i - 1, y>>) = s.color

\* flush writes the run that grows.
LEMMA FlushWrites ==
  ASSUME NEW g, NEW y, NEW K, Empty \notin K, NEW n \in Nat, NEW s, Scanned(g, y, K, n, s)
  PROVE  LET t == flush(s)
         IN /\ DOMAIN t = DOMAIN s
            /\ t.out \in Seq(Run(Texts(K))) /\ Caching(t.cache, K)
            /\ Len(Columns(t.out)) = n
            /\ \A i \in 1 .. n : Columns(t.out)[i] = textOf(displayColor(g, <<i - 1, y>>))
<1> DEFINE t == flush(s)
           run == [text |-> textOf(s.color), half |-> s.half, len |-> s.runLen]
           cols == Columns(s.out)
           more == covered(run)
<1>1. /\ DOMAIN s = {"out", "color", "half", "runLen", "cache"}
      /\ s.out \in Seq(Run(Texts(K))) /\ s.half \in BOOLEAN /\ s.runLen \in Nat
      /\ s.color \in K \cup {Empty} /\ Caching(s.cache, K)
  BY DEF Scanned
<1>2. cols \in Seq(Texts(K)) /\ Len(cols) \in Nat
  BY <1>1, ColumnsTyped, LenProperties
<1>3. /\ Len(cols) + s.runLen = n
      /\ \A i \in 1 .. n : IF i <= Len(cols)
                           THEN cols[i] = textOf(displayColor(g, <<i - 1, y>>))
                           ELSE displayColor(g, <<i - 1, y>>) = s.color
  BY DEF Scanned
<1> HIDE DEF cols
<1>4. CASE s.runLen = 0
  <2>1. t = s
    BY <1>4 DEF flush
  <2>2. Len(cols) = n
    BY <1>2, <1>3, <1>4
  <2>3. \A i \in 1 .. n : cols[i] = textOf(displayColor(g, <<i - 1, y>>))
    BY <1>3, <2>2
  <2> HIDE DEF t
  <2>4. /\ DOMAIN t = DOMAIN s /\ t.out \in Seq(Run(Texts(K))) /\ Caching(t.cache, K)
        /\ Columns(t.out) = cols
    BY <1>1, <2>1 DEF cols
  <2> QED  BY <2>2, <2>3, <2>4 DEF t
<1>5. CASE s.runLen # 0
  <2>1. run \in Run(Texts(K))
    BY <1>1 DEF Run, Texts
  <2>2. /\ DOMAIN t = DOMAIN s /\ t.out = Append(s.out, run) /\ Caching(t.cache, K)
    <3>1. CASE s.color = Empty
      <4>1. t = [s EXCEPT !.out = Append(@, run)]
        BY <1>5, <3>1 DEF flush, textOf
      <4> HIDE DEF t, run
      <4> QED  BY <1>1, <4>1
    <3>2. CASE s.color # Empty
      <4> DEFINE sgr == getSGRPrefix(s.cache, s.color)
      <4>1. t = [s EXCEPT !.out = Append(@, [text |-> sgr.text, half |-> s.half, len |-> s.runLen]),
                          !.cache = sgr.cache]
        BY <1>5, <3>2 DEF flush
      <4>2. sgr.text = prefixOf(s.color) /\ Caching(sgr.cache, K)
        BY <1>1, <3>2, PrefixIsOwn
      <4>3. run = [text |-> sgr.text, half |-> s.half, len |-> s.runLen]
        BY <3>2, <4>2 DEF textOf
      <4> HIDE DEF t, sgr, run
      <4>4. t = [s EXCEPT !.out = Append(@, run), !.cache = sgr.cache]
        BY <4>1, <4>3
      <4> QED  BY <1>1, <4>2, <4>4
    <3> QED  BY <3>1, <3>2
  <2>3. Columns(t.out) = cols \o more
    <3> HIDE DEF t, run
    <3>1. Columns(Append(s.out, run)) = Columns(s.out) \o covered(run)
      BY <1>1, <2>1, ColumnsAppend
    <3> QED  BY <2>2, <3>1 DEF cols
  <2>4. /\ more \in Seq(Texts(K)) /\ Len(more) = s.runLen
        /\ \A i \in 1 .. s.runLen : more[i] = textOf(s.color)
    <3>1. more \in [1 .. s.runLen -> Texts(K)]
      BY <1>1, <2>1 DEF Run, covered
    <3>2. \A i \in 1 .. s.runLen : more[i] = textOf(s.color)
      BY DEF covered
    <3> HIDE DEF more
    <3> QED  BY <1>1, <3>1, <3>2, FunctionIsSeq
  <2>5. t.out \in Seq(Run(Texts(K)))
    <3> HIDE DEF t, run
    <3> QED  BY <1>1, <2>1, <2>2, AppendProperties
  <2> HIDE DEF more, run
  <2>6. /\ Len(cols \o more) = Len(cols) + Len(more)
        /\ \A i \in 1 .. Len(cols) + Len(more) :
               (cols \o more)[i] = IF i <= Len(cols) THEN cols[i] ELSE more[i - Len(cols)]
    BY <1>2, <2>4, ConcatProperties
  <2>7. Len(cols \o more) = n
    BY <1>3, <2>4, <2>6
  <2>8. \A i \in 1 .. n : (cols \o more)[i] = textOf(displayColor(g, <<i - 1, y>>))
    <3> SUFFICES ASSUME NEW i \in 1 .. n
                 PROVE  (cols \o more)[i] = textOf(displayColor(g, <<i - 1, y>>))
      OBVIOUS
    <3>1. (cols \o more)[i] = IF i <= Len(cols) THEN cols[i] ELSE more[i - Len(cols)]
      BY <1>3, <2>4, <2>6
    <3>2. CASE i <= Len(cols)
      BY <1>3, <3>1, <3>2
    <3>3. CASE ~(i <= Len(cols))
      <4>1. i - Len(cols) \in 1 .. s.runLen
        BY <1>1, <1>2, <1>3, <3>3
      <4>2. displayColor(g, <<i - 1, y>>) = s.color
        BY <1>3, <3>3
      <4> QED  BY <2>4, <3>1, <3>3, <4>1, <4>2
    <3> QED  BY <3>2, <3>3
  <2> HIDE DEF t
  <2> QED  BY <2>2, <2>3, <2>5, <2>7, <2>8 DEF t
<1> QED  BY <1>1, <1>4, <1>5

\* One more column: the run grows, or is written and another begins.
LEMMA ExtendScans ==
  ASSUME NEW g, NEW y, NEW K, Empty \notin K, NEW n \in Nat, NEW s, Scanned(g, y, K, n, s),
         displayColor(g, <<n, y>>) \in K \cup {Empty}, NEW half \in BOOLEAN
  PROVE  /\ Scanned(g, y, K, n + 1, extend(s, displayColor(g, <<n, y>>), half))
         /\ extend(s, displayColor(g, <<n, y>>), half).runLen > 0
<1> DEFINE color == displayColor(g, <<n, y>>)
           e == extend(s, color, half)
           cols == Columns(s.out)
           d(i) == displayColor(g, <<i - 1, y>>)
<1>1. /\ DOMAIN s = {"out", "color", "half", "runLen", "cache"}
      /\ s.out \in Seq(Run(Texts(K))) /\ s.half \in BOOLEAN /\ s.runLen \in Nat
      /\ s.color \in K \cup {Empty} /\ Caching(s.cache, K)
  BY DEF Scanned
<1>2. Len(cols) \in Nat /\ Len(cols) + s.runLen = n
  BY <1>1, ColumnsTyped, LenProperties DEF Scanned
<1>3. \A i \in 1 .. n : IF i <= Len(cols) THEN cols[i] = textOf(d(i)) ELSE d(i) = s.color
  BY DEF Scanned
<1>4. d(n + 1) = color
  <2>1. (n + 1) - 1 = n
    OBVIOUS
  <2> QED  BY <2>1
<1> HIDE DEF d, cols
<1>5. ASSUME s.runLen # 0, sameRun(s, color, half)
      PROVE  Scanned(g, y, K, n + 1, e) /\ e.runLen > 0
  <2>1. e = [s EXCEPT !.runLen = @ + 1] /\ color = s.color
    BY <1>5 DEF extend, sameRun
  <2> HIDE DEF e, color
  <2>2. /\ DOMAIN e = {"out", "color", "half", "runLen", "cache"}
        /\ e.out = s.out /\ e.half = s.half /\ e.runLen = s.runLen + 1
        /\ e.color = s.color /\ e.cache = s.cache
    BY <1>1, <2>1
  <2>3. \A i \in 1 .. n + 1 : IF i <= Len(cols) THEN cols[i] = textOf(d(i)) ELSE d(i) = e.color
    <3> SUFFICES ASSUME NEW i \in 1 .. n + 1
                 PROVE  IF i <= Len(cols) THEN cols[i] = textOf(d(i)) ELSE d(i) = e.color
      OBVIOUS
    <3>1. CASE i \in 1 .. n
      BY <1>3, <2>2, <3>1
    <3>2. CASE i = n + 1
      BY <1>1, <1>2, <1>4, <2>1, <2>2, <3>2
    <3> QED  BY <3>1, <3>2
  <2>4. Len(cols) + e.runLen = n + 1 /\ e.runLen \in Nat /\ e.runLen > 0
    BY <1>1, <1>2, <2>2
  <2>5. Columns(e.out) = cols
    BY <2>2 DEF cols
  <2> QED  BY <1>1, <2>2, <2>3, <2>4, <2>5 DEF Scanned, d
<1>6. ASSUME ~(s.runLen # 0 /\ sameRun(s, color, half))
      PROVE  Scanned(g, y, K, n + 1, e) /\ e.runLen > 0
  <2> DEFINE t == flush(s)
  <2>1. e = [t EXCEPT !.color = color, !.half = half, !.runLen = 1]
    BY <1>6 DEF extend
  <2>2. /\ DOMAIN t = DOMAIN s
        /\ t.out \in Seq(Run(Texts(K))) /\ Caching(t.cache, K)
        /\ Len(Columns(t.out)) = n
        /\ \A i \in 1 .. n : Columns(t.out)[i] = textOf(d(i))
    BY FlushWrites DEF d
  <2> HIDE DEF e, t
  <2>3. /\ DOMAIN e = {"out", "color", "half", "runLen", "cache"}
        /\ e.out = t.out /\ e.half = half /\ e.runLen = 1
        /\ e.color = color /\ e.cache = t.cache
    BY <1>1, <2>1, <2>2
  <2>4. \A i \in 1 .. n + 1 : IF i <= n THEN Columns(t.out)[i] = textOf(d(i)) ELSE d(i) = color
    <3> SUFFICES ASSUME NEW i \in 1 .. n + 1
                 PROVE  IF i <= n THEN Columns(t.out)[i] = textOf(d(i)) ELSE d(i) = color
      OBVIOUS
    <3> HIDE DEF color
    <3>1. CASE i \in 1 .. n
      BY <2>2, <3>1
    <3>2. CASE i = n + 1
      BY <1>4, <3>2
    <3> QED  BY <3>1, <3>2
  <2> HIDE DEF color
  <2>5. color \in K \cup {Empty}
    BY DEF color
  <2> QED  BY <2>2, <2>3, <2>4, <2>5 DEF Scanned, d
<1> QED  BY <1>5, <1>6

\* A row is drawn as its colours are: each column reads as its own.
LEMMA RowIsDrawn ==
  ASSUME NEW g, NEW y, NEW K, Empty \notin K, g.width \in Nat, Shows(g, y, K),
         NEW cache, Caching(cache, K)
  PROVE  LET r == renderRowRLE(g, y, cache)
         IN /\ Caching(r.cache, K)
            /\ r.out \in Seq(Run(Texts(K)))
            /\ Len(Columns(r.out)) = g.width
            /\ \A x \in 0 .. g.width - 1 :
                   Columns(r.out)[x + 1] = textOf(displayColor(g, <<x, y>>))
<1> DEFINE f == scan(g, y, cache)
           U == {n \in Nat : n <= g.width => Scanned(g, y, K, n, f[n])}
<1>1. /\ f[0] = Scanning(cache)
      /\ \A n \in 1 .. g.width :
             f[n] = extend(f[n - 1], displayColor(g, <<n - 1, y>>), g.half /\ n = g.width)
  BY ScanSteps
<1> HIDE DEF f
<1>2. Scanned(g, y, K, 0, Scanning(cache))
  <2>1. <<>> \in Seq(Run(Texts(K))) /\ Len(<<>>) = 0
    OBVIOUS
  <2>2. Columns(<<>>) = <<>>
    BY <2>1, ColumnSteps DEF Columns
  <2> QED  BY <2>1, <2>2 DEF Scanned, Scanning
<1>3. 0 \in U
  BY <1>1, <1>2
<1>4. \A n \in Nat : n \in U => n + 1 \in U
  <2> SUFFICES ASSUME NEW n \in Nat, n + 1 <= g.width, Scanned(g, y, K, n, f[n])
               PROVE  Scanned(g, y, K, n + 1, f[n + 1])
    OBVIOUS
  <2> DEFINE half == g.half /\ n + 1 = g.width
  <2>1. n + 1 \in 1 .. g.width /\ (n + 1) - 1 = n /\ n \in 0 .. g.width - 1
    OBVIOUS
  <2>2. f[n + 1] = extend(f[n], displayColor(g, <<n, y>>), half)
    BY <1>1, <2>1
  <2>3. displayColor(g, <<n, y>>) \in K \cup {Empty}
    BY <2>1 DEF Shows
  <2>4. half \in BOOLEAN
    OBVIOUS
  <2> HIDE DEF half
  <2> QED  BY <2>2, <2>3, <2>4, ExtendScans
<1>5. Scanned(g, y, K, g.width, f[g.width])
  <2>1. g.width \in U
    <3> HIDE DEF U
    <3> QED  BY <1>3, <1>4, Induction
  <2> QED  BY <2>1
<1> DEFINE s == f[g.width]
           r == flush(s)
<1>6. renderRowRLE(g, y, cache) = r
  BY DEF renderRowRLE, f
<1> HIDE DEF s
<1>7. /\ r.out \in Seq(Run(Texts(K))) /\ Caching(r.cache, K)
      /\ Len(Columns(r.out)) = g.width
      /\ \A i \in 1 .. g.width : Columns(r.out)[i] = textOf(displayColor(g, <<i - 1, y>>))
  BY <1>5, FlushWrites DEF s
<1> HIDE DEF r
<1>8. \A x \in 0 .. g.width - 1 : Columns(r.out)[x + 1] = textOf(displayColor(g, <<x, y>>))
  <2> SUFFICES ASSUME NEW x \in 0 .. g.width - 1
               PROVE  Columns(r.out)[x + 1] = textOf(displayColor(g, <<x, y>>))
    OBVIOUS
  <2>1. x + 1 \in 1 .. g.width /\ (x + 1) - 1 = x
    OBVIOUS
  <2> QED  BY <1>7, <2>1
<1> QED  BY <1>6, <1>7, <1>8

-----------------------------------------------------------------------------
\* gameModel's fields.
GameFields ==
    {"worldSize", "cells", "width", "height", "half", "grid", "prev", "dirty", "rows", "sgr",
     "running", "speed", "saving", "connected", "conn", "err", "viewport", "currentColor",
     "placing", "pattern", "canPlace", "pending"}

IsGame(g) == DOMAIN g = GameFields

\* Two games of which all but the fields of X are the same.
Agreeing(g, h, X) == IsGame(g) /\ IsGame(h) /\ \A x \in GameFields \ X : h[x] = g[x]

\* What currentCells, the pattern's positions and displayColor depend on.
CurrentOf(cells, viewport, worldSize, width, height) ==
    LET place == [c \in DOMAIN cells |->
                     [i \in 1 .. 2 |-> LET v == c[i] - viewport[i]
                                       IN IF v < 0 THEN v + worldSize ELSE v]]
        on == {c \in DOMAIN cells : place[c] \in (0 .. width - 1) \X (0 .. height - 1)}
    IN [p \in {place[c] : c \in on} |-> cells[CHOOSE c \in on : place[c] = p]]

LEMMA CurrentIs ==
  ASSUME NEW g
  PROVE  currentCells(g) = CurrentOf(g.cells, g.viewport, g.worldSize, g.width, g.height)
BY DEF currentCells, CurrentOf, worldToViewport, Window

LEMMA CurrentSame ==
  ASSUME NEW g, NEW h, h.cells = g.cells, h.viewport = g.viewport, h.worldSize = g.worldSize,
         h.width = g.width, h.height = g.height
  PROVE  currentCells(h) = currentCells(g) /\ Window(h) = Window(g)
<1>1. Window(h) = Window(g)
  BY DEF Window
<1> QED  BY <1>1, CurrentIs

PositionsOf(placing, pattern, width, height) ==
    IF placing
    THEN LET offset == <<uint16((width \div 2) - pattern.center[1]),
                         uint16((height \div 2) - pattern.center[2])>>
         IN [j \in 1 .. Len(pattern.cells) |->
                 [i \in 1 .. 2 |-> uint16(offset[i] + pattern.cells[j][i])]]
    ELSE <<>>

LEMMA PositionsAre ==
  ASSUME NEW g
  PROVE  getPatternPositions(g) = PositionsOf(g.placing, g.pattern, g.width, g.height)
BY DEF getPatternPositions, getPatternCenterOffset, PositionsOf

LEMMA DisplaySame ==
  ASSUME NEW g, NEW h, h.placing = g.placing, h.pattern = g.pattern, h.width = g.width,
         h.height = g.height, h.canPlace = g.canPlace, h.currentColor = g.currentColor,
         h.grid = g.grid, NEW p
  PROVE  displayColor(h, p) = displayColor(g, p)
<1>1. getPatternPositions(h) = getPatternPositions(g)
  BY PositionsAre
<1>2. isPatternCell(h, p) = isPatternCell(g, p)
  BY <1>1 DEF isPatternCell
<1> QED  BY <1>2 DEF displayColor

-----------------------------------------------------------------------------
\* A set of colours that dimming does not leave.
IsPalette(K) == Empty \notin K /\ \A k \in K : dimColor(k) \in K

\* The grid of the screen, in colours of K, is what the previous update made of
\* the cells; the cells have colours of K.
OnScreen(prev, p) == IF p \in DOMAIN prev THEN prev[p] ELSE Empty

Sized(g) == g.width \in Nat \ {0} /\ g.height \in Nat \ {0}

Coloured(g, K) == /\ g.currentColor \in K
                  /\ \A c \in DOMAIN g.cells : g.cells[c] \in K

Gridded(g, K) == /\ g.grid = [p \in Window(g) |-> OnScreen(g.prev, p)]
                 /\ DOMAIN g.prev \subseteq Window(g)
                 /\ \A p \in DOMAIN g.prev : g.prev[p] \in K

\* What the rows show: of the grid as it is, of the grid where they are not to
\* be drawn anew, and of everything.
Clean(g) == \A p \in Window(g) : g.placing \/ Look(g, p) = textOf(g.grid[p])

Ready(g) == \A p \in Window(g) : drawn(g, p[2]) \/ Look(g, p) = textOf(g.grid[p])

Painted(g) == \A p \in Window(g) : Look(g, p) = textOf(displayColor(g, p))

\* A game between Update and View, and one after View.
Updated(g, K) == /\ IsGame(g) /\ Sized(g) /\ Coloured(g, K) /\ Gridded(g, K)
                 /\ g.prev = currentCells(g) /\ Caching(g.sgr, K) /\ Ready(g)

Viewed(g, K) == /\ IsGame(g) /\ Sized(g) /\ Coloured(g, K) /\ Gridded(g, K)
                /\ g.prev = currentCells(g) /\ Caching(g.sgr, K) /\ Painted(g)
                /\ g.dirty = {} /\ DOMAIN g.rows = 0 .. g.height - 1

\* View changes the rows, the cache and what is dirty.
LEMMA ViewKeeps ==
  ASSUME NEW g, IsGame(g)
  PROVE  Agreeing(g, View(g), {"rows", "sgr", "dirty"}) /\ View(g).dirty = {}
<1>1. \E R, S : View(g) = [g EXCEPT !.rows = R, !.sgr = S, !.dirty = {}]
  BY DEF View
<1>2. PICK R, S : View(g) = [g EXCEPT !.rows = R, !.sgr = S, !.dirty = {}]
  BY <1>1
<1> QED  BY <1>2 DEF Agreeing, IsGame, GameFields

\* The colours of the screen are of the palette.
LEMMA DisplayInPalette ==
  ASSUME NEW g, NEW K, IsPalette(K), Coloured(g, K), Gridded(g, K), NEW p \in Window(g)
  PROVE  displayColor(g, p) \in K \cup {Empty}
<1>1. g.grid[p] \in K \cup {Empty}
  BY DEF Gridded, OnScreen
<1> QED  BY <1>1 DEF displayColor, IsPalette, Coloured

\* What View makes of a row: anew where it is drawn, with the text of each
\* column's colour, and the cache stays one.
LEMMA ViewDraws ==
  ASSUME NEW g, NEW K, IsPalette(K), IsGame(g), Sized(g), Coloured(g, K), Gridded(g, K),
         Caching(g.sgr, K)
  PROVE  /\ Caching(View(g).sgr, K)
         /\ DOMAIN View(g).rows = 0 .. g.height - 1
         /\ \A p \in Window(g) : Look(View(g), p) = IF drawn(g, p[2])
                                                    THEN textOf(displayColor(g, p))
                                                    ELSE Look(g, p)
<1> DEFINE c == caches(g)
           U == {n \in Nat : n <= g.height => Caching(c[n], K)}
<1>1. /\ g.height \in Nat /\ g.width \in Nat /\ Empty \notin K
  BY DEF Sized, IsPalette
<1>2. /\ c[0] = g.sgr
      /\ \A n \in 1 .. g.height : c[n] = IF drawn(g, n - 1)
                                         THEN renderRowRLE(g, n - 1, c[n - 1]).cache ELSE c[n - 1]
  BY <1>1, CacheSteps
<1>3. \A y \in 0 .. g.height - 1 : Shows(g, y, K)
  <2> SUFFICES ASSUME NEW y \in 0 .. g.height - 1, NEW x \in 0 .. g.width - 1
               PROVE  displayColor(g, <<x, y>>) \in K \cup {Empty}
    BY DEF Shows
  <2>1. <<x, y>> \in Window(g)
    BY DEF Window
  <2> QED  BY <2>1, DisplayInPalette
<1> HIDE DEF c
<1>4. 0 \in U
  BY <1>2
<1>5. \A n \in Nat : n \in U => n + 1 \in U
  <2> SUFFICES ASSUME NEW n \in Nat, n + 1 <= g.height, Caching(c[n], K)
               PROVE  Caching(c[n + 1], K)
    BY <1>1
  <2>1. n + 1 \in 1 .. g.height /\ (n + 1) - 1 = n /\ n \in 0 .. g.height - 1
    BY <1>1
  <2>2. Caching(renderRowRLE(g, n, c[n]).cache, K)
    BY <1>1, <1>3, <2>1, RowIsDrawn
  <2> QED  BY <1>2, <2>1, <2>2
<1>6. \A n \in 0 .. g.height : Caching(c[n], K)
  <2>1. \A n \in 0 .. g.height : n \in U
    <3> HIDE DEF U
    <3> QED  BY <1>1, <1>4, <1>5, Induction
  <2> QED  BY <1>1, <2>1
<1>7. /\ View(g).sgr = c[g.height]
      /\ View(g).rows = [y \in 0 .. g.height - 1 |->
                            IF drawn(g, y) THEN renderRowRLE(g, y, c[y]).out ELSE g.rows[y]]
  BY DEF View, IsGame, GameFields, c
<1>8. \A p \in Window(g) : Look(View(g), p) = IF drawn(g, p[2])
                                              THEN textOf(displayColor(g, p)) ELSE Look(g, p)
  <2> SUFFICES ASSUME NEW p \in Window(g)
               PROVE  Look(View(g), p) = IF drawn(g, p[2])
                                         THEN textOf(displayColor(g, p)) ELSE Look(g, p)
    OBVIOUS
  <2> DEFINE x == p[1]
             y == p[2]
             r == renderRowRLE(g, y, c[y])
  <2>1. p = <<x, y>> /\ x \in 0 .. g.width - 1 /\ y \in 0 .. g.height - 1
    BY DEF Window
  <2> HIDE DEF x, y
  <2>2. View(g).rows[y] = IF drawn(g, y) THEN r.out ELSE g.rows[y]
    BY <1>7, <2>1
  <2>3. p[1] = x /\ p[2] = y
    BY DEF x, y
  <2>4. CASE drawn(g, y)
    <3>1. y \in 0 .. g.height /\ Caching(c[y], K) /\ Shows(g, y, K)
      BY <1>1, <1>3, <1>6, <2>1
    <3>2. Len(Columns(r.out)) = g.width /\ Columns(r.out)[x + 1] = textOf(displayColor(g, <<x, y>>))
      BY <1>1, <2>1, <3>1, RowIsDrawn
    <3> HIDE DEF r
    <3>3. Look(View(g), p) = Columns(r.out)[x + 1]
      BY <1>1, <2>1, <2>2, <2>3, <2>4, <3>2 DEF Look
    <3> QED  BY <2>1, <2>3, <2>4, <3>2, <3>3
  <2>5. CASE ~drawn(g, y)
    BY <2>2, <2>3, <2>5 DEF Look
  <2> QED  BY <2>3, <2>4, <2>5
<1>9. g.height \in 0 .. g.height
  BY <1>1
<1> QED  BY <1>6, <1>7, <1>8, <1>9

\* View shows the whole of what is to be shown, and nothing is left to draw.
LEMMA ViewPaints ==
  ASSUME NEW g, NEW K, IsPalette(K), Updated(g, K)
  PROVE  Viewed(View(g), K)
<1> DEFINE h == View(g)
<1>1. IsGame(g) /\ Sized(g) /\ Coloured(g, K) /\ Gridded(g, K) /\ g.prev = currentCells(g)
      /\ Caching(g.sgr, K) /\ Ready(g)
  BY DEF Updated
<1>2. /\ IsGame(h) /\ h.dirty = {}
      /\ h.width = g.width /\ h.height = g.height /\ h.grid = g.grid /\ h.prev = g.prev
      /\ h.cells = g.cells /\ h.currentColor = g.currentColor /\ h.placing = g.placing
      /\ h.pattern = g.pattern /\ h.canPlace = g.canPlace /\ h.viewport = g.viewport
      /\ h.worldSize = g.worldSize
  BY <1>1, ViewKeeps DEF Agreeing, GameFields
<1>3. /\ Caching(h.sgr, K) /\ DOMAIN h.rows = 0 .. g.height - 1
      /\ \A p \in Window(g) : Look(h, p) = IF drawn(g, p[2])
                                           THEN textOf(displayColor(g, p)) ELSE Look(g, p)
  BY <1>1, ViewDraws
<1> HIDE DEF h
<1>4. Window(h) = Window(g) /\ currentCells(h) = currentCells(g)
  BY <1>2, CurrentSame
<1>5. \A p : displayColor(h, p) = displayColor(g, p)
  BY <1>2, DisplaySame
<1>6. Painted(h)
  <2> SUFFICES ASSUME NEW p \in Window(g) PROVE Look(h, p) = textOf(displayColor(g, p))
    BY <1>4, <1>5 DEF Painted
  <2>1. CASE drawn(g, p[2])
    BY <1>3, <2>1
  <2>2. CASE ~drawn(g, p[2])
    <3>1. Look(h, p) = textOf(g.grid[p])
      BY <1>1, <1>3, <2>2 DEF Ready
    <3>2. ~g.placing
      BY <2>2 DEF drawn
    <3>3. displayColor(g, p) = g.grid[p]
      BY <3>2 DEF displayColor
    <3> QED  BY <3>1, <3>3
  <2> QED  BY <2>1, <2>2
<1>7. Sized(h) /\ Coloured(h, K) /\ Gridded(h, K)
  BY <1>1, <1>2, <1>4 DEF Sized, Coloured, Gridded
<1> QED  BY <1>1, <1>2, <1>3, <1>4, <1>6, <1>7 DEF Viewed, h

\* The cells on the screen lie on it, in colours of the cells.
LEMMA CurrentTyped ==
  ASSUME NEW g, NEW K, \A c \in DOMAIN g.cells : g.cells[c] \in K
  PROVE  /\ DOMAIN currentCells(g) \subseteq Window(g)
         /\ \A p \in DOMAIN currentCells(g) : currentCells(g)[p] \in K
<1> DEFINE place == [c \in DOMAIN g.cells |-> worldToViewport(g, c)]
           on == {c \in DOMAIN g.cells : place[c] \in Window(g)}
           from(p) == CHOOSE c \in on : place[c] = p
<1>1. currentCells(g) = [p \in {place[c] : c \in on} |-> g.cells[from(p)]]
  BY DEF currentCells
<1>2. \A p \in {place[c] : c \in on} : from(p) \in on /\ p \in Window(g)
  OBVIOUS
<1>3. \A c \in on : c \in DOMAIN g.cells
  OBVIOUS
<1> HIDE DEF on, place, from
<1> QED  BY <1>1, <1>2, <1>3

\* Before updateGrid only the cells, the viewport and the size may be new.
Updatable(g, K) == /\ IsGame(g) /\ Sized(g) /\ Coloured(g, K) /\ Gridded(g, K)
                   /\ Caching(g.sgr, K) /\ Clean(g)

\* The differential update: the grid becomes the cells on the screen, and every
\* row that changes is to be drawn.
LEMMA GridUpdates ==
  ASSUME NEW g, NEW K, Updatable(g, K)
  PROVE  /\ Updated(updateGrid(g), K)
         /\ Agreeing(g, updateGrid(g), {"grid", "dirty", "prev"})
<1> DEFINE h == updateGrid(g)
           cur == currentCells(g)
           gone == DOMAIN g.prev \ DOMAIN cur
           changed == {p \in DOMAIN cur : p \notin DOMAIN g.prev \/ g.prev[p] # cur[p]}
           new == [p \in DOMAIN g.grid |-> IF p \in gone THEN Empty
                                           ELSE IF p \in changed THEN cur[p] ELSE g.grid[p]]
           dirty == {p[2] : p \in (gone \cup changed) \cap DOMAIN g.grid}
<1>1. /\ IsGame(g) /\ Sized(g) /\ Coloured(g, K) /\ Gridded(g, K)
      /\ Caching(g.sgr, K) /\ Clean(g)
  BY DEF Updatable
<1>2. h = [g EXCEPT !.grid = new, !.dirty = dirty, !.prev = cur]
  BY DEF updateGrid
<1>3. DOMAIN cur \subseteq Window(g) /\ \A p \in DOMAIN cur : cur[p] \in K
  BY <1>1, CurrentTyped DEF Coloured
<1> HIDE DEF h, cur
<1>4. /\ DOMAIN g.grid = Window(g) /\ DOMAIN g.prev \subseteq Window(g)
      /\ \A p \in Window(g) : g.grid[p] = OnScreen(g.prev, p)
  BY <1>1 DEF Gridded
<1>5. \A p \in Window(g) : new[p] = OnScreen(cur, p)
  BY <1>4 DEF OnScreen
<1>6. \A p \in Window(g) : new[p] # g.grid[p] => p[2] \in dirty
  <2> SUFFICES ASSUME NEW p \in Window(g), new[p] # g.grid[p] PROVE p[2] \in dirty
    OBVIOUS
  <2>1. p \in (gone \cup changed) \cap DOMAIN g.grid
    BY <1>4
  <2> HIDE DEF gone, changed
  <2> QED  BY <2>1
<1>7. new = [p \in Window(g) |-> OnScreen(cur, p)]
  <2>1. DOMAIN new = Window(g)
    BY <1>4
  <2>2. new = [p \in Window(g) |-> new[p]]
    BY <2>1
  <2> HIDE DEF new
  <2> QED  BY <1>5, <2>2
<1> HIDE DEF new, dirty
<1>8. /\ Agreeing(g, h, {"grid", "dirty", "prev"})
      /\ h.grid = new /\ h.dirty = dirty /\ h.prev = cur
  BY <1>1, <1>2 DEF Agreeing, IsGame, GameFields
<1>9. /\ IsGame(h) /\ h.width = g.width /\ h.height = g.height /\ h.cells = g.cells
      /\ h.currentColor = g.currentColor /\ h.placing = g.placing /\ h.viewport = g.viewport
      /\ h.worldSize = g.worldSize /\ h.sgr = g.sgr /\ h.rows = g.rows
  BY <1>8 DEF Agreeing, GameFields
<1>10. Window(h) = Window(g) /\ currentCells(h) = cur
  BY <1>9, CurrentSame DEF cur
<1>11. Ready(h)
  <2> SUFFICES ASSUME NEW p \in Window(g), ~drawn(h, p[2])
               PROVE  Look(h, p) = textOf(h.grid[p])
    BY <1>10 DEF Ready
  <2>1. ~g.placing /\ p[2] \notin dirty
    BY <1>8, <1>9 DEF drawn
  <2>2. Look(g, p) = textOf(g.grid[p])
    BY <1>1, <2>1 DEF Clean
  <2>3. new[p] = g.grid[p]
    BY <1>6, <2>1
  <2>4. Look(h, p) = Look(g, p)
    BY <1>9 DEF Look
  <2> QED  BY <1>8, <2>2, <2>3, <2>4
<1>12. Gridded(h, K)
  BY <1>3, <1>7, <1>8, <1>10 DEF Gridded
<1>13. Sized(h) /\ Coloured(h, K)
  BY <1>1, <1>9 DEF Sized, Coloured
<1>14. Updated(h, K)
  BY <1>1, <1>8, <1>9, <1>10, <1>11, <1>12, <1>13 DEF Updated
<1> QED  BY <1>8, <1>14 DEF h

\* What is dirty may grow, and what placing shows may change, between Update
\* and View.
LEMMA MoreDirty ==
  ASSUME NEW g, NEW K, Updated(g, K), NEW h, Agreeing(g, h, {"canPlace", "dirty"}),
         g.dirty \subseteq h.dirty
  PROVE  Updated(h, K)
<1>1. /\ IsGame(h) /\ h.width = g.width /\ h.height = g.height /\ h.cells = g.cells
      /\ h.currentColor = g.currentColor /\ h.placing = g.placing /\ h.viewport = g.viewport
      /\ h.worldSize = g.worldSize /\ h.sgr = g.sgr /\ h.rows = g.rows
      /\ h.grid = g.grid /\ h.prev = g.prev
  BY DEF Agreeing, GameFields
<1>2. Window(h) = Window(g) /\ currentCells(h) = currentCells(g)
  BY <1>1, CurrentSame
<1>3. Ready(h)
  <2> SUFFICES ASSUME NEW p \in Window(g), ~drawn(h, p[2])
               PROVE  Look(h, p) = textOf(h.grid[p])
    BY <1>2 DEF Ready
  <2>1. ~drawn(g, p[2])
    BY <1>1 DEF drawn
  <2>2. Look(h, p) = Look(g, p)
    BY <1>1 DEF Look
  <2> QED  BY <1>1, <2>1, <2>2 DEF Updated, Ready
<1>4. Sized(h) /\ Coloured(h, K) /\ Gridded(h, K)
  BY <1>1, <1>2 DEF Updated, Sized, Coloured, Gridded
<1> QED  BY <1>1, <1>2, <1>3, <1>4 DEF Updated

\* updatePatternCanPlace is such a change.
LEMMA CanPlaceUpdates ==
  ASSUME NEW g, IsGame(g)
  PROVE  /\ Agreeing(g, updatePatternCanPlace(g), {"canPlace", "dirty"})
         /\ g.dirty \subseteq updatePatternCanPlace(g).dirty
         /\ g.canPlace \in BOOLEAN => updatePatternCanPlace(g).canPlace \in BOOLEAN
<1> DEFINE h == updatePatternCanPlace(g)
<1>1. CASE ~g.placing
  BY <1>1 DEF updatePatternCanPlace, Agreeing
<1>2. CASE g.placing
  <2> DEFINE visible == SelectSeq(getPatternPositions(g), LAMBDA p : p \in Window(g))
             b == visible = <<>> \/ g.grid[Last(visible)] = Empty
             D == {p[2] : p \in ToSet(visible)}
  <2>1. h = [g EXCEPT !.canPlace = b, !.dirty = g.dirty \cup D]
    BY <1>2 DEF updatePatternCanPlace
  <2>2. b \in BOOLEAN
    OBVIOUS
  <2> HIDE DEF b, D
  <2> HIDE DEF h
  <2>3. /\ Agreeing(g, h, {"canPlace", "dirty"})
        /\ h.canPlace = b /\ h.dirty = g.dirty \cup D
    BY <2>1 DEF Agreeing, IsGame, GameFields
  <2> QED  BY <2>2, <2>3 DEF h
<1> QED  BY <1>1, <1>2

LEMMA CanPlaceStays ==
  ASSUME NEW g, NEW K, Updated(g, K)
  PROVE  Updated(updatePatternCanPlace(g), K)
<1>1. IsGame(g)
  BY DEF Updated
<1> QED  BY <1>1, CanPlaceUpdates, MoreDirty

-----------------------------------------------------------------------------
\* What each message of Update leaves alone.
LEMMA AgreeingTrans ==
  ASSUME NEW g, NEW h, NEW k, NEW X, NEW Y, Agreeing(g, h, X), Agreeing(h, k, Y)
  PROVE  Agreeing(g, k, X \cup Y)
BY DEF Agreeing

LEMMA GridFrame ==
  ASSUME NEW g, IsGame(g)
  PROVE  Agreeing(g, updateGrid(g), {"grid", "dirty", "prev"})
<1>1. \E G, D, P : updateGrid(g) = [g EXCEPT !.grid = G, !.dirty = D, !.prev = P]
  BY DEF updateGrid
<1>2. PICK G, D, P : updateGrid(g) = [g EXCEPT !.grid = G, !.dirty = D, !.prev = P]
  BY <1>1
<1> QED  BY <1>2 DEF Agreeing, IsGame, GameFields

LEMMA DirtyFrame ==
  ASSUME NEW g, IsGame(g)
  PROVE  /\ Agreeing(g, markAllRowsDirty(g), {"dirty"})
         /\ markAllRowsDirty(g).dirty = 0 .. g.height - 1
BY DEF markAllRowsDirty, Agreeing, IsGame, GameFields

Moved == {"viewport", "grid", "dirty", "prev", "canPlace"}

LEMMA MoveFrame ==
  ASSUME NEW g, IsGame(g), NEW d
  PROVE  /\ Agreeing(g, moveViewport(g, d), Moved)
         /\ moveViewport(g, d).viewport =
                [i \in 1 .. 2 |-> movedAxis(g.viewport[i], d[i], g.worldSize)]
         /\ g.canPlace \in BOOLEAN => moveViewport(g, d).canPlace \in BOOLEAN
<1> DEFINE V == [i \in 1 .. 2 |-> movedAxis(g.viewport[i], d[i], g.worldSize)]
           a == [g EXCEPT !.viewport = V]
           b == updateGrid(a)
           c == updatePatternCanPlace(b)
<1>1. moveViewport(g, d) = c
  BY DEF moveViewport
<1> HIDE DEF V
<1>2. Agreeing(g, a, {"viewport"}) /\ a.viewport = V
  BY DEF Agreeing, IsGame, GameFields
<1> HIDE DEF a
<1>3. Agreeing(a, b, {"grid", "dirty", "prev"})
  BY <1>2, GridFrame DEF Agreeing
<1> HIDE DEF b
<1>4. /\ Agreeing(b, c, {"canPlace", "dirty"})
      /\ b.canPlace \in BOOLEAN => c.canPlace \in BOOLEAN
  BY <1>3, CanPlaceUpdates DEF Agreeing
<1> HIDE DEF c
<1> QED  BY <1>1, <1>2, <1>3, <1>4 DEF Agreeing, GameFields, Moved, V

LEMMA PatternFrame ==
  ASSUME NEW g, IsGame(g), NEW pattern
  PROVE  /\ Agreeing(g, patternSelected(g, pattern), {"placing", "pattern", "canPlace", "dirty"})
         /\ patternSelected(g, pattern).placing = TRUE
         /\ patternSelected(g, pattern).pattern = pattern
         /\ patternSelected(g, pattern).dirty = 0 .. g.height - 1
         /\ g.canPlace \in BOOLEAN => patternSelected(g, pattern).canPlace \in BOOLEAN
<1> DEFINE a == [g EXCEPT !.placing = TRUE, !.pattern = pattern]
           b == updatePatternCanPlace(a)
           c == markAllRowsDirty(b)
<1>1. patternSelected(g, pattern) = c
  BY DEF patternSelected
<1>2. Agreeing(g, a, {"placing", "pattern"}) /\ a.placing = TRUE /\ a.pattern = pattern
  BY DEF Agreeing, IsGame, GameFields
<1> HIDE DEF a
<1>3. /\ Agreeing(a, b, {"canPlace", "dirty"})
      /\ a.canPlace \in BOOLEAN => b.canPlace \in BOOLEAN
  BY <1>2, CanPlaceUpdates DEF Agreeing
<1> HIDE DEF b
<1>4. Agreeing(b, c, {"dirty"}) /\ c.dirty = 0 .. b.height - 1
  BY <1>3, DirtyFrame DEF Agreeing
<1> HIDE DEF c
<1> QED  BY <1>1, <1>2, <1>3, <1>4 DEF Agreeing, GameFields

Sizing == {"height", "width", "half", "grid", "dirty", "rows"}

LEMMA SizeFrame ==
  ASSUME NEW g, IsGame(g), NEW height, NEW width, NEW half
  PROVE  LET s == setDimensions(g, height, width, half)
         IN /\ Agreeing(g, s, Sizing)
            /\ s.height = height /\ s.width = (IF half THEN width + 1 ELSE width)
            /\ s.grid = [p \in Window(s) |-> Empty]
            /\ s.rows = [y \in 0 .. s.height - 1 |-> <<>>]
<1> DEFINE w == IF half THEN width + 1 ELSE width
           G == [p \in (0 .. w - 1) \X (0 .. height - 1) |-> Empty]
           R == [y \in 0 .. height - 1 |-> <<>>]
           s == setDimensions(g, height, width, half)
<1>1. s = [g EXCEPT !.height = height, !.width = w, !.half = half, !.grid = G, !.dirty = {},
                    !.rows = R]
  BY DEF setDimensions
<1> HIDE DEF w, G, R, s
<1>2. /\ Agreeing(g, s, Sizing)
      /\ s.height = height /\ s.width = w /\ s.grid = G /\ s.rows = R
  BY <1>1 DEF Agreeing, IsGame, GameFields, Sizing
<1>3. s.grid = [p \in Window(s) |-> Empty]
  BY <1>2 DEF Window, G
<1>4. s.rows = [y \in 0 .. s.height - 1 |-> <<>>]
  BY <1>2 DEF R
<1> QED  BY <1>2, <1>3, <1>4 DEF w, s

Resized == Sizing \cup {"prev", "canPlace"}

LEMMA WindowFrame ==
  ASSUME NEW g, IsGame(g), NEW h, NEW w
  PROVE  /\ Agreeing(g, windowSize(g, h, w), Resized)
         /\ g.canPlace \in BOOLEAN => windowSize(g, h, w).canPlace \in BOOLEAN
<1> DEFINE half == (w - 2) % 2 = 1
           width == (w - 2) \div 2
           a == setDimensions(g, h - 3, width, half)
           b == clearPrev(a)
           c == markAllRowsDirty(b)
           d == updateGrid(c)
           e == updatePatternCanPlace(d)
<1>1. windowSize(g, h, w) = e \/ windowSize(g, h, w) = g
  BY DEF windowSize
<1>2. Agreeing(g, a, Sizing)
  BY SizeFrame
<1> HIDE DEF a
<1>3. Agreeing(a, b, {"prev"})
  BY <1>2 DEF clearPrev, Agreeing, IsGame, GameFields
<1> HIDE DEF b
<1>4. Agreeing(b, c, {"dirty"})
  BY <1>3, DirtyFrame DEF Agreeing
<1> HIDE DEF c
<1>5. Agreeing(c, d, {"grid", "dirty", "prev"})
  BY <1>4, GridFrame DEF Agreeing
<1> HIDE DEF d
<1>6. /\ Agreeing(d, e, {"canPlace", "dirty"})
      /\ d.canPlace \in BOOLEAN => e.canPlace \in BOOLEAN
  BY <1>5, CanPlaceUpdates DEF Agreeing
<1> HIDE DEF e
<1>7. Agreeing(g, e, Resized)
  BY <1>2, <1>3, <1>4, <1>5, <1>6 DEF Agreeing, Resized, Sizing
<1>8. d.canPlace = g.canPlace
  BY <1>2, <1>3, <1>4, <1>5 DEF Agreeing, Sizing, GameFields
<1>9. Agreeing(g, g, Resized)
  BY DEF Agreeing
<1> QED  BY <1>1, <1>6, <1>7, <1>8, <1>9

LEMMA TickFrame ==
  ASSUME NEW g, IsGame(g), g.pending # NoData
  PROVE  LET t == tickMsg(g)
         IN /\ Agreeing(g, t, {"cells", "running", "speed", "grid", "dirty", "prev", "pending"})
            /\ t.cells = g.pending.cells /\ t.running = g.pending.running
            /\ t.speed = g.pending.speed /\ t.pending = NoData
<1> DEFINE a == [g EXCEPT !.cells = g.pending.cells, !.running = g.pending.running,
                          !.speed = g.pending.speed]
           b == updateGrid(a)
           t == tickMsg(g)
<1>1. t = [b EXCEPT !.pending = NoData]
  BY DEF tickMsg
<1>2. /\ Agreeing(g, a, {"cells", "running", "speed"})
      /\ a.cells = g.pending.cells /\ a.running = g.pending.running
      /\ a.speed = g.pending.speed
  BY DEF Agreeing, IsGame, GameFields
<1> HIDE DEF a
<1>3. Agreeing(a, b, {"grid", "dirty", "prev"})
  BY <1>2, GridFrame DEF Agreeing
<1> HIDE DEF b, t
<1>4. Agreeing(b, t, {"pending"}) /\ t.pending = NoData
  BY <1>1, <1>3 DEF Agreeing, IsGame, GameFields
<1>5. /\ Agreeing(g, t, {"cells", "running", "speed", "grid", "dirty", "prev", "pending"})
      /\ t.cells = a.cells /\ t.running = a.running /\ t.speed = a.speed
  BY <1>2, <1>3, <1>4 DEF Agreeing, GameFields
<1> QED  BY <1>2, <1>4, <1>5 DEF t

\* A key: a move, the end of placing, a speed, or that the game is saving.
LEMMA KeyFrame ==
  ASSUME NEW g, IsGame(g), NEW k
  PROVE  \/ k \in MoveKeys /\ keyPressed(g, k) = moveViewport(g, Delta(k))
         \/ k \notin MoveKeys /\ keyPressed(g, k) = g
         \/ k \notin MoveKeys /\ g.placing /\ keyPressed(g, k) = stopPlacing(g)
         \/ /\ k \notin MoveKeys /\ ~g.placing /\ isConnected(g)
            /\ Agreeing(g, keyPressed(g, k), {"speed", "saving"})
            /\ k = "S" => keyPressed(g, k).speed = g.speed + 1
            /\ k = "s" => keyPressed(g, k).speed = IF g.speed > 1 THEN g.speed - 1 ELSE g.speed
            /\ k \notin {"S", "s"} => keyPressed(g, k).speed = g.speed
<1>1. CASE k \in MoveKeys
  BY <1>1 DEF keyPressed
<1>2. CASE k \notin MoveKeys /\ g.placing
  BY <1>2 DEF keyPressed
<1>3. CASE k \notin MoveKeys /\ ~g.placing /\ ~isConnected(g)
  BY <1>3 DEF keyPressed
<1>4. CASE k \notin MoveKeys /\ ~g.placing /\ isConnected(g)
  <2> DEFINE h == keyPressed(g, k)
  <2>1. h = CASE k = "S" -> [g EXCEPT !.speed = @ + 1]
              [] k = "s" /\ g.speed > 1 -> [g EXCEPT !.speed = @ - 1]
              [] k = "ctrl+s" -> [g EXCEPT !.saving = TRUE]
              [] OTHER -> g
    BY <1>4 DEF keyPressed
  <2> HIDE DEF h
  <2>2. CASE k = "S"
    <3>1. h = [g EXCEPT !.speed = @ + 1]
      BY <2>1, <2>2
    <3> QED  BY <1>4, <2>2, <3>1 DEF Agreeing, IsGame, GameFields, h
  <2>3. CASE k = "s" /\ g.speed > 1
    <3>1. h = [g EXCEPT !.speed = @ - 1]
      BY <2>1, <2>3
    <3> QED  BY <1>4, <2>3, <3>1 DEF Agreeing, IsGame, GameFields, h
  <2>4. CASE k = "ctrl+s"
    <3>1. h = [g EXCEPT !.saving = TRUE]
      BY <2>1, <2>4
    <3> QED  BY <1>4, <2>4, <3>1 DEF Agreeing, IsGame, GameFields, h
  <2>5. CASE k # "S" /\ ~(k = "s" /\ g.speed > 1) /\ k # "ctrl+s"
    <3>1. h = g
      BY <2>1, <2>5
    <3> QED  BY <1>4, <2>5, <3>1 DEF h
  <2> QED  BY <2>2, <2>3, <2>4, <2>5
<1> QED  BY <1>1, <1>2, <1>3, <1>4

LEMMA StopFrame ==
  ASSUME NEW g, IsGame(g)
  PROVE  /\ Agreeing(g, stopPlacing(g), {"placing", "dirty"})
         /\ stopPlacing(g).placing = FALSE /\ stopPlacing(g).dirty = 0 .. g.height - 1
<1> DEFINE a == [g EXCEPT !.placing = FALSE]
<1>1. Agreeing(g, a, {"placing"}) /\ a.placing = FALSE
  BY DEF Agreeing, IsGame, GameFields
<1>2. stopPlacing(g) = markAllRowsDirty(a)
  BY DEF stopPlacing
<1> HIDE DEF a
<1>3. /\ Agreeing(a, stopPlacing(g), {"dirty"})
      /\ stopPlacing(g).dirty = 0 .. a.height - 1
  BY <1>1, <1>2, DirtyFrame DEF Agreeing
<1> QED  BY <1>1, <1>3 DEF Agreeing, GameFields

-----------------------------------------------------------------------------
\* After View the rows show the grid, unless a pattern is being placed.
LEMMA ViewedClean ==
  ASSUME NEW g, NEW K, Viewed(g, K)
  PROVE  Clean(g) /\ Ready(g) /\ Updated(g, K)
<1>1. Clean(g)
  <2> SUFFICES ASSUME NEW p \in Window(g), ~g.placing PROVE Look(g, p) = textOf(g.grid[p])
    BY DEF Clean
  <2>1. displayColor(g, p) = g.grid[p]
    BY DEF displayColor
  <2> QED  BY <2>1 DEF Viewed, Painted
<1>2. Ready(g)
  BY <1>1 DEF Clean, Ready, drawn
<1> QED  BY <1>1, <1>2 DEF Viewed, Updated

\* What the grid does not depend on, and another colour to draw with.
Beside == {"running", "speed", "saving", "connected", "conn", "err", "pending", "currentColor"}

LEMMA BesideUpdates ==
  ASSUME NEW g, NEW K, Viewed(g, K), NEW h, Agreeing(g, h, Beside), h.currentColor \in K
  PROVE  Updated(h, K)
<1>1. /\ IsGame(h) /\ h.width = g.width /\ h.height = g.height /\ h.cells = g.cells
      /\ h.placing = g.placing /\ h.viewport = g.viewport /\ h.dirty = g.dirty
      /\ h.worldSize = g.worldSize /\ h.sgr = g.sgr /\ h.rows = g.rows
      /\ h.grid = g.grid /\ h.prev = g.prev
  BY DEF Agreeing, GameFields, Beside
<1>2. Window(h) = Window(g) /\ currentCells(h) = currentCells(g)
  BY <1>1, CurrentSame
<1>3. Ready(h)
  <2>1. Ready(g)
    BY ViewedClean
  <2>2. \A p : Look(h, p) = Look(g, p) /\ (drawn(h, p[2]) <=> drawn(g, p[2]))
    BY <1>1 DEF Look, drawn
  <2> QED  BY <1>1, <1>2, <2>1, <2>2 DEF Ready
<1> QED  BY <1>1, <1>2, <1>3 DEF Viewed, Updated, Sized, Coloured, Gridded

\* The size of the world, while no cells are known.
LEMMA WorldSizeUpdates ==
  ASSUME NEW g, NEW K, Viewed(g, K), DOMAIN g.cells = {},
         NEW h, Agreeing(g, h, {"connected", "conn", "err", "worldSize"})
  PROVE  Updated(h, K)
<1>1. /\ IsGame(h) /\ h.width = g.width /\ h.height = g.height /\ h.cells = g.cells
      /\ h.placing = g.placing /\ h.viewport = g.viewport /\ h.dirty = g.dirty
      /\ h.sgr = g.sgr /\ h.rows = g.rows /\ h.currentColor = g.currentColor
      /\ h.grid = g.grid /\ h.prev = g.prev
  BY DEF Agreeing, GameFields
<1>2. Window(h) = Window(g)
  BY <1>1 DEF Window
<1>3. currentCells(h) = currentCells(g)
  <2>1. \A f : DOMAIN f.cells = {} => currentCells(f) = [p \in {} |-> 0]
    <3> SUFFICES ASSUME NEW f, DOMAIN f.cells = {} PROVE currentCells(f) = [p \in {} |-> 0]
      OBVIOUS
    <3> DEFINE place == [c \in DOMAIN f.cells |-> worldToViewport(f, c)]
               on == {c \in DOMAIN f.cells : place[c] \in Window(f)}
               from(p) == f.cells[CHOOSE c \in on : place[c] = p]
    <3>1. currentCells(f) = [p \in {place[c] : c \in on} |-> from(p)]
      BY DEF currentCells
    <3>2. {place[c] : c \in on} = {}
      OBVIOUS
    <3> HIDE DEF place, on, from
    <3>3. currentCells(f) = [p \in {} |-> from(p)]
      BY <3>1, <3>2
    <3> QED  BY <3>3
  <2> QED  BY <1>1, <2>1
<1>4. Ready(h)
  <2>1. Ready(g)
    BY ViewedClean
  <2>2. \A p : Look(h, p) = Look(g, p) /\ (drawn(h, p[2]) <=> drawn(g, p[2]))
    BY <1>1 DEF Look, drawn
  <2> QED  BY <1>1, <1>2, <2>1, <2>2 DEF Ready
<1> QED  BY <1>1, <1>2, <1>3, <1>4 DEF Viewed, Updated, Sized, Coloured, Gridded

\* The beginning and the end of placing: every row is drawn.
LEMMA PlacingUpdates ==
  ASSUME NEW g, NEW K, Viewed(g, K), NEW h,
         Agreeing(g, h, {"placing", "pattern", "canPlace", "dirty"}), h.dirty = 0 .. g.height - 1
  PROVE  Updated(h, K)
<1>1. /\ IsGame(h) /\ h.width = g.width /\ h.height = g.height /\ h.cells = g.cells
      /\ h.viewport = g.viewport /\ h.worldSize = g.worldSize /\ h.sgr = g.sgr
      /\ h.rows = g.rows /\ h.currentColor = g.currentColor
      /\ h.grid = g.grid /\ h.prev = g.prev
  BY DEF Agreeing, GameFields
<1>2. Window(h) = Window(g) /\ currentCells(h) = currentCells(g)
  BY <1>1, CurrentSame
<1>3. Ready(h)
  <2> SUFFICES ASSUME NEW p \in Window(g) PROVE p[2] \in 0 .. g.height - 1
    BY <1>2 DEF Ready, drawn
  <2> QED  BY DEF Window
<1> QED  BY <1>1, <1>2, <1>3 DEF Viewed, Updated, Sized, Coloured, Gridded

LEMMA MoveUpdates ==
  ASSUME NEW g, NEW K, Viewed(g, K), NEW d
  PROVE  Updated(moveViewport(g, d), K)
<1> DEFINE V == [i \in 1 .. 2 |-> movedAxis(g.viewport[i], d[i], g.worldSize)]
           a == [g EXCEPT !.viewport = V]
<1>1. moveViewport(g, d) = updatePatternCanPlace(updateGrid(a))
  BY DEF moveViewport
<1>2. IsGame(g)
  BY DEF Viewed
<1> HIDE DEF V
<1>3. Agreeing(g, a, {"viewport"})
  BY <1>2 DEF Agreeing, IsGame, GameFields
<1> HIDE DEF a
<1>4. /\ IsGame(a) /\ a.width = g.width /\ a.height = g.height /\ a.cells = g.cells
      /\ a.sgr = g.sgr /\ a.rows = g.rows /\ a.currentColor = g.currentColor
      /\ a.grid = g.grid /\ a.prev = g.prev /\ a.placing = g.placing
  BY <1>3 DEF Agreeing, GameFields
<1>5. Window(a) = Window(g)
  BY <1>4 DEF Window
<1>6. Clean(a)
  <2>1. \A p : Look(a, p) = Look(g, p)
    BY <1>4 DEF Look
  <2> QED  BY <1>4, <1>5, <2>1, ViewedClean DEF Clean
<1>7. Updatable(a, K)
  BY <1>4, <1>5, <1>6 DEF Viewed, Updatable, Sized, Coloured, Gridded
<1>8. Updated(updateGrid(a), K)
  BY <1>7, GridUpdates
<1> QED  BY <1>1, <1>8, CanPlaceStays

LEMMA TickUpdates ==
  ASSUME NEW g, NEW K, Viewed(g, K), g.pending # NoData,
         \A c \in DOMAIN g.pending.cells : g.pending.cells[c] \in K
  PROVE  Updated(tickMsg(g), K)
<1> DEFINE a == [g EXCEPT !.cells = g.pending.cells, !.running = g.pending.running,
                          !.speed = g.pending.speed]
           b == updateGrid(a)
           t == tickMsg(g)
<1>1. t = [b EXCEPT !.pending = NoData]
  BY DEF tickMsg
<1>2. IsGame(g)
  BY DEF Viewed
<1>3. Agreeing(g, a, {"cells", "running", "speed"}) /\ a.cells = g.pending.cells
  BY <1>2 DEF Agreeing, IsGame, GameFields
<1> HIDE DEF a
<1>4. /\ IsGame(a) /\ a.width = g.width /\ a.height = g.height
      /\ a.sgr = g.sgr /\ a.rows = g.rows /\ a.currentColor = g.currentColor
      /\ a.grid = g.grid /\ a.prev = g.prev /\ a.placing = g.placing
  BY <1>3 DEF Agreeing, GameFields
<1>5. Window(a) = Window(g)
  BY <1>4 DEF Window
<1>6. Clean(a)
  <2>1. \A p : Look(a, p) = Look(g, p)
    BY <1>4 DEF Look
  <2> QED  BY <1>4, <1>5, <2>1, ViewedClean DEF Clean
<1>7. Updatable(a, K)
  BY <1>3, <1>4, <1>5, <1>6 DEF Viewed, Updatable, Sized, Coloured, Gridded
<1>8. Updated(b, K)
  BY <1>7, GridUpdates
<1> HIDE DEF b, t
<1>9. Agreeing(b, t, {"pending"})
  BY <1>1, <1>8 DEF Agreeing, IsGame, GameFields, Updated
<1>10. /\ IsGame(t) /\ t.width = b.width /\ t.height = b.height /\ t.cells = b.cells
       /\ t.placing = b.placing /\ t.viewport = b.viewport /\ t.dirty = b.dirty
       /\ t.worldSize = b.worldSize /\ t.sgr = b.sgr /\ t.rows = b.rows
       /\ t.grid = b.grid /\ t.prev = b.prev /\ t.currentColor = b.currentColor
  BY <1>9 DEF Agreeing, GameFields
<1>11. Window(t) = Window(b) /\ currentCells(t) = currentCells(b)
  BY <1>10, CurrentSame
<1>12. Ready(t)
  <2>1. \A p : Look(t, p) = Look(b, p) /\ (drawn(t, p[2]) <=> drawn(b, p[2]))
    BY <1>10 DEF Look, drawn
  <2> QED  BY <1>8, <1>10, <1>11, <2>1 DEF Ready, Updated
<1>13. Updated(t, K)
  BY <1>8, <1>10, <1>11, <1>12 DEF Updated, Sized, Coloured, Gridded
<1> QED  BY <1>13 DEF t

\* A screen of another size begins empty, in the grid as in the rows.
LEMMA FreshScreen ==
  ASSUME NEW g, IsGame(g), NEW height \in Nat \ {0}, NEW width \in Nat \ {0}, NEW half,
         NEW K, Coloured(g, K), Caching(g.sgr, K)
  PROVE  Updatable(markAllRowsDirty(clearPrev(setDimensions(g, height, width, half))), K)
<1> DEFINE a == setDimensions(g, height, width, half)
           b == clearPrev(a)
           c == markAllRowsDirty(b)
<1>1. /\ Agreeing(g, a, Sizing)
      /\ a.height = height /\ a.width = (IF half THEN width + 1 ELSE width)
      /\ a.grid = [p \in Window(a) |-> Empty]
      /\ a.rows = [y \in 0 .. a.height - 1 |-> <<>>]
  BY SizeFrame
<1> HIDE DEF a
<1>2. Agreeing(a, b, {"prev"}) /\ b.prev = NoCells
  BY <1>1 DEF clearPrev, Agreeing, IsGame, GameFields
<1> HIDE DEF b
<1>3. Agreeing(b, c, {"dirty"})
  BY <1>2, DirtyFrame DEF Agreeing
<1> HIDE DEF c
<1>4. /\ IsGame(c) /\ c.height = a.height /\ c.width = a.width /\ c.grid = a.grid
      /\ c.rows = a.rows /\ c.prev = NoCells /\ c.sgr = g.sgr /\ c.cells = g.cells
      /\ c.currentColor = g.currentColor
  BY <1>1, <1>2, <1>3 DEF Agreeing, GameFields, Sizing
<1>5. Window(c) = Window(a)
  BY <1>4 DEF Window
<1>6. Sized(c)
  BY <1>1, <1>4 DEF Sized
<1>7. DOMAIN c.prev = {}
  BY <1>4 DEF NoCells
<1>8. Gridded(c, K)
  <2>1. [p \in Window(c) |-> Empty] = [p \in Window(c) |-> OnScreen(c.prev, p)]
    BY <1>7 DEF OnScreen
  <2> QED  BY <1>1, <1>4, <1>5, <1>7, <2>1 DEF Gridded
<1>9. Clean(c)
  <2> SUFFICES ASSUME NEW p \in Window(c) PROVE Look(c, p) = textOf(c.grid[p])
    BY DEF Clean
  <2>1. p[1] \in Nat /\ p[2] \in 0 .. a.height - 1
    BY <1>4, <1>6 DEF Window, Sized
  <2>2. c.rows[p[2]] = <<>>
    BY <1>1, <1>4, <2>1
  <2>3. Columns(<<>>) = <<>>
    <3>1. Len(<<>>) = 0
      OBVIOUS
    <3> QED  BY <3>1, ColumnSteps DEF Columns
  <2>4. Look(c, p) = Empty
    BY <2>1, <2>2, <2>3 DEF Look
  <2>5. c.grid[p] = Empty
    BY <1>1, <1>4, <1>5
  <2> QED  BY <2>4, <2>5 DEF textOf
<1>10. Coloured(c, K)
  BY <1>4 DEF Coloured
<1> QED  BY <1>4, <1>6, <1>8, <1>9, <1>10 DEF Updatable, c, b, a

LEMMA WindowUpdates ==
  ASSUME NEW g, NEW K, Viewed(g, K), NEW h \in Nat, NEW w \in Nat
  PROVE  Updated(windowSize(g, h, w), K)
<1> DEFINE half == (w - 2) % 2 = 1
           width == (w - 2) \div 2
           c == markAllRowsDirty(clearPrev(setDimensions(g, h - 3, width, half)))
           big == h > 3 /\ w > 6 /\ (h - 3 # g.height \/ width # g.width \/ half # g.half)
<1>1. windowSize(g, h, w) = IF big THEN updatePatternCanPlace(updateGrid(c)) ELSE g
  BY DEF windowSize
<1>2. CASE ~big
  BY <1>1, <1>2, ViewedClean
<1>3. CASE big
  <2>1. h - 3 \in Nat \ {0} /\ width \in Nat \ {0}
    BY <1>3
  <2> HIDE DEF width, half
  <2>2. Updatable(c, K)
    BY <2>1, FreshScreen DEF Viewed
  <2> HIDE DEF c
  <2>3. Updated(updateGrid(c), K)
    BY <2>2, GridUpdates
  <2> QED  BY <1>1, <1>3, <2>3, CanPlaceStays
<1> QED  BY <1>2, <1>3

\* A key, in any mode.
LEMMA KeyUpdates ==
  ASSUME NEW g, NEW K, Viewed(g, K), NEW k
  PROVE  Updated(keyPressed(g, k), K)
<1>1. IsGame(g) /\ g.currentColor \in K
  BY DEF Viewed, Coloured
<1>2. CASE keyPressed(g, k) = moveViewport(g, Delta(k))
  BY <1>2, MoveUpdates
<1>3. CASE keyPressed(g, k) = g
  BY <1>3, ViewedClean
<1>4. CASE keyPressed(g, k) = stopPlacing(g)
  <2>1. /\ Agreeing(g, stopPlacing(g), {"placing", "dirty"})
        /\ stopPlacing(g).dirty = 0 .. g.height - 1
    BY <1>1, StopFrame
  <2>2. Agreeing(g, stopPlacing(g), {"placing", "pattern", "canPlace", "dirty"})
    BY <2>1 DEF Agreeing
  <2> QED  BY <1>4, <2>1, <2>2, PlacingUpdates
<1>5. CASE Agreeing(g, keyPressed(g, k), {"speed", "saving"})
  <2> DEFINE h == keyPressed(g, k)
  <2> HIDE DEF h
  <2>1. Agreeing(g, h, Beside) /\ h.currentColor \in K
    BY <1>1, <1>5 DEF Agreeing, Beside, GameFields, h
  <2>2. Updated(h, K)
    BY <2>1, BesideUpdates
  <2> QED  BY <2>2 DEF h
<1> QED  BY <1>1, <1>2, <1>3, <1>4, <1>5, KeyFrame


=============================================================================

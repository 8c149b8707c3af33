---------------------------- MODULE BrowserProofs ----------------------------
(***************************************************************************)
(* Proofs about Canvas and Browser, for every size of the world and of the *)
(* canvas, every cell size, offset and fraction of a pixel: what is drawn  *)
(* is the torus, a click goes to the cell drawn there, a pattern arrives   *)
(* whole, and the canvas is current when no frame is asked for.            *)
(***************************************************************************)
EXTENDS Browser, ProtocolProofs, FiniteSetTheorems, WellFoundedInduction

-----------------------------------------------------------------------------
\* Division with remainder, by a number that need not be a numeral.
LEMMA DivMod ==
  ASSUME NEW a \in Int, NEW n \in Nat \ {0}
  PROVE  a \div n \in Int /\ a % n \in 0 .. n - 1 /\ a = n * (a \div n) + (a % n)
OBVIOUS

LEMMA Between ==
  ASSUME NEW n \in Nat \ {0}, NEW q \in Int, NEW p \in Int, n * q < n * (p + 1)
  PROVE  q <= p
<1> SUFFICES ASSUME q >= p + 1 PROVE FALSE
  OBVIOUS
<1> DEFINE d == q - (p + 1)
<1>1. d \in Nat /\ q = (p + 1) + d
  OBVIOUS
<1>2. n * q = n * (p + 1) + n * d
  BY <1>1
<1>3. n * d >= 0
  BY <1>1
<1>4. n * (p + 1) \in Int /\ n * q \in Int /\ n * d \in Int
  BY <1>1
<1> QED  BY <1>2, <1>3, <1>4

LEMMA DivIs ==
  ASSUME NEW a \in Int, NEW n \in Nat \ {0}, NEW q \in Int, NEW r \in 0 .. n - 1,
         a = n * q + r
  PROVE  a \div n = q /\ a % n = r
<1>1. a \div n \in Int /\ a % n \in 0 .. n - 1 /\ a = n * (a \div n) + (a % n)
  BY DivMod
<1>2. n * (a \div n) < n * (q + 1) /\ n * q < n * ((a \div n) + 1)
  BY <1>1
<1>3. a \div n = q
  BY <1>1, <1>2, Between
<1> QED  BY <1>1, <1>3

\* Dividing by a product is dividing twice.
LEMMA DivDiv ==
  ASSUME NEW a \in Int, NEW m \in Nat \ {0}, NEW n \in Nat \ {0}
  PROVE  /\ m * n \in Nat \ {0}
         /\ a \div (n * m) = (a \div m) \div n
<1> DEFINE b == a \div m
           r == a % m
           q == b \div n
           t == b % n
<1>1. b \in Int /\ r \in 0 .. m - 1 /\ a = m * b + r
  BY DivMod
<1>2. q \in Int /\ t \in 0 .. n - 1 /\ b = n * q + t
  BY <1>1, DivMod
<1> HIDE DEF b, r, q, t
<1>3. m * n \in Nat \ {0} /\ n * m = m * n
  OBVIOUS
<1>4. a = (n * m) * q + (m * t + r)
  BY <1>1, <1>2
<1>5. m * t + r \in 0 .. n * m - 1
  <2>1. m * t >= 0 /\ m * t \in Int
    BY <1>2
  <2>2. m * t <= m * (n - 1)
    <3>1. n - 1 - t \in Nat /\ m * (n - 1) = m * t + m * (n - 1 - t)
      BY <1>2
    <3>2. m * (n - 1 - t) >= 0 /\ m * (n - 1 - t) \in Int
      BY <3>1
    <3> QED  BY <2>1, <3>1, <3>2
  <2>3. m * (n - 1) = n * m - m
    OBVIOUS
  <2> QED  BY <1>1, <1>3, <2>1, <2>2, <2>3
<1>6. a \div (n * m) = q
  BY <1>2, <1>3, <1>4, <1>5, DivIs
<1> QED  BY <1>3, <1>6 DEF q, b

\* Adding multiples of the modulus.
LEMMA ModShift ==
  ASSUME NEW a \in Int, NEW n \in Nat \ {0}, NEW k \in Int
  PROVE  (a + n * k) % n = a % n /\ (a + n * k) \div n = (a \div n) + k
<1> DEFINE q == a \div n
           r == a % n
<1>1. q \in Int /\ r \in 0 .. n - 1 /\ a = n * q + r
  BY DivMod
<1> HIDE DEF q, r
<1>2. a + n * k = n * (q + k) + r /\ a + n * k \in Int
  BY <1>1
<1>3. (a + n * k) \div n = q + k /\ (a + n * k) % n = r
  BY <1>1, <1>2, DivIs
<1> QED  BY <1>3 DEF q, r

\* Division by the same number keeps the order.
LEMMA DivMonotone ==
  ASSUME NEW a \in Int, NEW b \in Int, a <= b, NEW n \in Nat \ {0}
  PROVE  a \div n <= b \div n
<1>1. /\ a \div n \in Int /\ a % n \in 0 .. n - 1 /\ a = n * (a \div n) + (a % n)
      /\ b \div n \in Int /\ b % n \in 0 .. n - 1 /\ b = n * (b \div n) + (b % n)
  BY DivMod
<1>2. n * (a \div n) < n * ((b \div n) + 1)
  BY <1>1
<1> QED  BY <1>1, <1>2, Between

\* The width of a uint16 is a multiple of the world's.
LEMMA Width ==
  /\ axisLength \in Nat \ {0} /\ axisLength <= MaxUint16 /\ MaxUint16 \in Nat
  /\ \E k \in Int : MaxUint16 + 1 = axisLength * k
<1>1. axisLength \in Nat \ {0} /\ axisLength <= MaxUint16 /\ MaxUint16 \in Nat
  <2>1. MaxUint16 \in Nat
    BY DEF MaxUint16
  <2>2. axisLength \in 1 .. MaxUint16
    BY CanvasAssumption
  <2> QED  BY <2>1, <2>2
<1>2. /\ (MaxUint16 + 1) \div axisLength \in Int
      /\ MaxUint16 + 1 = axisLength * ((MaxUint16 + 1) \div axisLength)
                             + ((MaxUint16 + 1) % axisLength)
  BY <1>1, DivMod
<1>3. MaxUint16 + 1 = axisLength * ((MaxUint16 + 1) \div axisLength)
  BY <1>1, <1>2, CanvasAssumption
<1> QED  BY <1>1, <1>2, <1>3

\* Masking in 16 bits first changes nothing: the world divides 2^16.
LEMMA MaskMask ==
  ASSUME NEW a \in Int PROVE wrapMask(uint16(a)) = wrapMask(a)
<1> DEFINE N == MaxUint16 + 1
           q == a \div N
<1>1. axisLength \in Nat \ {0} /\ N \in Nat \ {0}
  BY Width
<1>2. PICK k \in Int : N = axisLength * k
  BY Width
<1> HIDE DEF N
<1>3. q \in Int /\ a % N \in Int /\ a = N * q + (a % N)
  BY <1>1, DivMod
<1> HIDE DEF q
<1> DEFINE r == a % N
           j == k * q
<1>4. j \in Int /\ r \in Int /\ N * q = axisLength * j
  BY <1>1, <1>2, <1>3
<1>5. a = r + axisLength * j
  <2> HIDE DEF j
  <2> QED  BY <1>1, <1>3, <1>4
<1>6. a % axisLength = r % axisLength
  <2> HIDE DEF r, j
  <2> QED  BY <1>1, <1>4, <1>5, ModShift
<1> QED  BY <1>6 DEF wrapMask, uint16, N

-----------------------------------------------------------------------------
\* An axis of the drawer: cells of s pixels, the offset off, and of it the whole
\* pixels k.
World(s) == s * axisLength

Within(s, off) == /\ s \in Nat \ {0} /\ off \in Int
                  /\ abs(off) < World(s) * Fraction

LEMMA WorldIs ==
  ASSUME NEW s \in Nat \ {0}
  PROVE  /\ World(s) \in Nat \ {0} /\ s <= World(s)
         /\ \A c \in 0 .. axisLength - 1 :
                c * s \in Int /\ 0 <= c * s /\ c * s + s <= World(s)
<1> DEFINE L == axisLength
<1>1. L \in Nat \ {0}
  BY Width
<1> HIDE DEF L
<1>2. s * L \in Nat \ {0}
  BY <1>1
<1>3. \A c \in 0 .. L - 1 : c * s \in Int /\ 0 <= c * s /\ c * s + s <= s * L
  <2> SUFFICES ASSUME NEW c \in 0 .. L - 1
               PROVE  c * s \in Int /\ 0 <= c * s /\ c * s + s <= s * L
    OBVIOUS
  <2> DEFINE d == L - 1 - c
  <2>1. d \in Nat /\ L = c + 1 + d
    BY <1>1
  <2> HIDE DEF d
  <2>2. s * L = c * s + s + s * d
    BY <2>1
  <2>3. s * d \in Int /\ s * d >= 0 /\ c * s \in Int /\ c * s >= 0
    BY <1>1, <2>1
  <2> QED  BY <1>2, <2>2, <2>3
<1>4. s <= s * L
  <2>1. 0 \in 0 .. L - 1 /\ 0 * s = 0
    BY <1>1
  <2> QED  BY <1>2, <1>3, <2>1
<1> QED  BY <1>2, <1>3, <1>4 DEF World, L

\* The whole pixels of an offset.
LEMMA WholePixels ==
  ASSUME NEW s, NEW off, Within(s, off)
  PROVE  /\ int(off) \in Int /\ -World(s) < int(off) /\ int(off) < World(s)
         /\ off > 0 => int(off) = off \div Fraction
         /\ off <= 0 => int(off) = -((-off) \div Fraction)
<1> DEFINE W == World(s)
           F == Fraction
<1>1. W \in Nat \ {0} /\ F \in Nat \ {0} /\ off \in Int /\ abs(off) < W * F
  BY WorldIs, CanvasAssumption DEF Within
<1> HIDE DEF W
<1>2. \A v \in Nat : v < W * F => v \div F \in Int /\ v \div F < W /\ 0 <= v \div F
  <2> SUFFICES ASSUME NEW v \in Nat, v < W * F
               PROVE  v \div F \in Int /\ v \div F < W /\ 0 <= v \div F
    OBVIOUS
  <2> DEFINE q == v \div F
             r == v % F
  <2>1. q \in Int /\ r \in 0 .. F - 1 /\ v = F * q + r
    BY <1>1, DivMod
  <2> HIDE DEF q, r
  <2>2. F * q < F * ((W - 1) + 1)
    <3>1. F * ((W - 1) + 1) = W * F
      BY <1>1
    <3> QED  BY <1>1, <2>1, <3>1
  <2>3. F * 0 < F * (q + 1)
    BY <1>1, <2>1
  <2>4. q <= W - 1 /\ 0 <= q
    BY <1>1, <2>1, <2>2, <2>3, Between
  <2> QED  BY <1>1, <2>1, <2>4 DEF q
<1>3. CASE off > 0
  <2>1. off \div F \in Int /\ off \div F < W /\ 0 <= off \div F
    BY <1>1, <1>2, <1>3 DEF abs
  <2>2. int(off) = off \div F
    BY <1>1, <1>3 DEF int, quotient
  <2> QED  BY <1>1, <1>3, <2>1, <2>2 DEF W
<1>4. CASE off < 0
  <2>1. (-off) \div F \in Int /\ (-off) \div F < W /\ 0 <= (-off) \div F
    BY <1>1, <1>2, <1>4 DEF abs
  <2>2. int(off) = -((-off) \div F)
    BY <1>1, <1>4 DEF int, quotient
  <2> QED  BY <1>1, <1>4, <2>1, <2>2 DEF W
<1>5. CASE ~(off > 0) /\ ~(off < 0)
  <2>1. 0 \div F = 0
    <3>1. 0 = F * 0 + 0 /\ 0 \in 0 .. F - 1
      BY <1>1
    <3> QED  BY <1>1, <3>1, DivIs
  <2>2. int(off) = 0
    <3>1. off = 0
      BY <1>1, <1>5
    <3> QED  BY <2>1, <3>1 DEF int, quotient
  <2>3. -off = 0
    BY <1>1, <1>5
  <2>4. int(off) = -((-off) \div F) /\ -W < int(off) /\ int(off) < W /\ int(off) \in Int
    BY <1>1, <2>1, <2>2, <2>3
  <2> QED  BY <1>5, <2>4 DEF W
<1> QED  BY <1>1, <1>3, <1>4, <1>5


\* The pixels that drawCellToBuffer gives to a cell: its square, shifted by a
\* world at most, as far as it is in the world drawn.
LEMMA FilledIs ==
  ASSUME NEW s \in Nat \ {0}, NEW W \in Nat, s <= W,
         NEW a \in Int, -W < a, a - W + s <= W, NEW p \in Int
  PROVE  p \in UNION {r.start .. r.start + r.width - 1 : r \in positions(a, s, W)}
         <=> /\ p \in 0 .. W - 1
             /\ \/ p - a \in 0 .. s - 1
                \/ p - a + W \in 0 .. s - 1
                \/ p - a - W \in 0 .. s - 1
<1> DEFINE in(start, width) == p \in start .. start + width - 1
           Shifted == /\ p \in 0 .. W - 1
                      /\ \/ p - a \in 0 .. s - 1
                         \/ p - a + W \in 0 .. s - 1
                         \/ p - a - W \in 0 .. s - 1
<1>1. p \in UNION {r.start .. r.start + r.width - 1 : r \in positions(a, s, W)}
      <=> \E r \in positions(a, s, W) : in(r.start, r.width)
  BY Zenon
<1>2. CASE a < 0 /\ a + s > 0
  <2>1. positions(a, s, W) = {[start |-> 0, width |-> a + s], [start |-> W + a, width |-> -a]}
    BY <1>2 DEF positions
  <2>2. (in(0, a + s) \/ in(W + a, -a)) <=> Shifted
    BY <1>2
  <2> QED  BY <1>1, <2>1, <2>2
<1>3. CASE a < 0 /\ ~(a + s > 0)
  <2>1. positions(a, s, W) = {[start |-> W + a, width |-> s]}
    BY <1>3 DEF positions
  <2>2. in(W + a, s) <=> Shifted
    BY <1>3
  <2> QED  BY <1>1, <2>1, <2>2
<1>4. CASE a >= W
  <2>1. positions(a, s, W) = {[start |-> a - W, width |-> s]}
    BY <1>4 DEF positions
  <2>2. in(a - W, s) <=> Shifted
    BY <1>4
  <2> QED  BY <1>1, <2>1, <2>2
<1>5. CASE a >= 0 /\ a < W /\ a + s > W
  <2>1. positions(a, s, W) = {[start |-> a, width |-> W - a],
                              [start |-> 0, width |-> s - (W - a)]}
    BY <1>5 DEF positions
  <2>2. (in(a, W - a) \/ in(0, s - (W - a))) <=> Shifted
    BY <1>5
  <2> QED  BY <1>1, <2>1, <2>2
<1>6. CASE a >= 0 /\ a < W /\ ~(a + s > W)
  <2>1. positions(a, s, W) = {[start |-> a, width |-> s]}
    BY <1>6 DEF positions
  <2>2. in(a, s) <=> Shifted
    BY <1>6
  <2> QED  BY <1>1, <2>1, <2>2
<1> QED  BY <1>2, <1>3, <1>4, <1>5, <1>6

\* The column under pixel q.
UnderAxis(s, off, q) == ((q - int(off)) \div s) % axisLength

SquareAxis(s, off, c) ==
    UNION {r.start .. r.start + r.width - 1 : r \in positions(c * s + int(off), s, World(s))}

\* A pixel is given to the column under it and to no other.
LEMMA FilledUnder ==
  ASSUME NEW s, NEW off, Within(s, off), NEW c \in 0 .. axisLength - 1, NEW q \in Nat
  PROVE  q \in SquareAxis(s, off, c) <=> q < World(s) /\ UnderAxis(s, off, q) = c
<1> DEFINE L == axisLength
           W == World(s)
           k == int(off)
           a == c * s + k
           d == q - k
           D == d \div s
           r == d % s
<1>1. /\ s \in Nat \ {0} /\ L \in Nat \ {0} /\ W \in Nat \ {0} /\ s <= W
      /\ k \in Int /\ -W < k /\ k < W
      /\ c * s \in Int /\ 0 <= c * s /\ c * s + s <= W /\ c \in 0 .. L - 1
  BY WholePixels, WorldIs, Width DEF Within
<1>2. W = s * L
  BY DEF World
<1> HIDE DEF L, W, k
<1>3. q \in SquareAxis(s, off, c) <=> /\ q \in 0 .. W - 1
                                      /\ \/ q - a \in 0 .. s - 1
                                         \/ q - a + W \in 0 .. s - 1
                                         \/ q - a - W \in 0 .. s - 1
  <2>1. a \in Int /\ -W < a /\ a - W + s <= W
    BY <1>1
  <2> HIDE DEF a
  <2>2. q \in UNION {t.start .. t.start + t.width - 1 : t \in positions(a, s, W)}
        <=> /\ q \in 0 .. W - 1
            /\ \/ q - a \in 0 .. s - 1
               \/ q - a + W \in 0 .. s - 1
               \/ q - a - W \in 0 .. s - 1
    BY <1>1, <2>1, FilledIs
  <2> QED  BY <2>2 DEF SquareAxis, a, W, k
<1>4. d \in Int /\ D \in Int /\ r \in 0 .. s - 1 /\ d = s * D + r
  <2>1. d \in Int
    BY <1>1
  <2> HIDE DEF d
  <2> QED  BY <1>1, <2>1, DivMod
<1>5. \A j \in Int : q - a + W * j \in 0 .. s - 1 => D % L = c
  <2> SUFFICES ASSUME NEW j \in Int, q - a + W * j \in 0 .. s - 1
               PROVE  D % L = c
    OBVIOUS
  <2> DEFINE t == q - a + W * j
             e == c - L * j
  <2>1. e \in Int /\ s * e = c * s - W * j
    BY <1>1, <1>2
  <2>2. d = s * e + t
    BY <1>1, <2>1
  <2>3. D = e
    <3> HIDE DEF d, e, t
    <3>1. t \in 0 .. s - 1
      BY DEF t
    <3> QED  BY <1>1, <1>4, <2>1, <2>2, <3>1, DivIs
  <2>4. e = L * (-j) + c /\ -j \in Int
    BY <1>1
  <2> HIDE DEF e
  <2>5. e % L = c
    BY <1>1, <2>1, <2>4, DivIs
  <2> QED  BY <2>3, <2>5
<1>6. ASSUME q < W, D % L = c
      PROVE  \/ q - a \in 0 .. s - 1
             \/ q - a + W \in 0 .. s - 1
             \/ q - a - W \in 0 .. s - 1
  <2> DEFINE e == D \div L
  <2>1. e \in Int /\ D = L * e + c
    BY <1>1, <1>4, <1>6, DivMod
  <2> HIDE DEF e, D
  <2>2. s * D = W * e + c * s /\ W * e \in Int
    BY <1>1, <1>2, <2>1
  <2>3. d - c * s - W * e = r
    BY <1>1, <1>4, <2>1, <2>2
  <2>4. W * (-2) < W * ((e - 1) + 1) /\ W * e < W * (1 + 1)
    <3> HIDE DEF r
    <3>1. d > -W /\ d < 2 * W
      BY <1>1, <1>6
    <3> HIDE DEF d
    <3>2. W * e = d - c * s - r
      BY <1>1, <1>4, <2>1, <2>2, <2>3
    <3> QED  BY <1>1, <1>4, <2>1, <2>2, <3>1, <3>2
  <2>5. -2 <= e - 1 /\ e <= 1
    BY <1>1, <2>1, <2>4, Between
  <2>6. e = -1 \/ e = 0 \/ e = 1
    BY <2>1, <2>5
  <2>7. q - a - W * e = r
    BY <1>1, <2>1, <2>2, <2>3
  <2> HIDE DEF a, r
  <2>8. a \in Int
    BY <1>1 DEF a
  <2> QED  BY <1>1, <1>4, <2>6, <2>7, <2>8
<1>7. q - a = q - a + W * 0 /\ q - a + W = q - a + W * 1 /\ q - a - W = q - a + W * (-1)
  BY <1>1
<1>8. UnderAxis(s, off, q) = D % L
  BY DEF UnderAxis, L, k
<1> HIDE DEF a, D
<1>9. q < W <=> q \in 0 .. W - 1
  BY <1>1
<1> QED  BY <1>3, <1>5, <1>6, <1>7, <1>8, <1>9 DEF W

\* The part of coordIsVisible on one axis.
SeenAxis(b, c) == IF b.within THEN c >= b.start /\ c <= b.end
                              ELSE c >= b.start \/ c <= b.end

LEMMA UnderIs ==
  ASSUME NEW s, NEW off, Within(s, off), NEW q \in Int
  PROVE  UnderAxis(s, off, q) \in 0 .. axisLength - 1
<1> DEFINE D == (q - int(off)) \div s
<1>1. axisLength \in Nat \ {0} /\ s \in Nat \ {0} /\ q - int(off) \in Int
  BY Width, WholePixels DEF Within
<1>2. D \in Int
  <2> DEFINE d == q - int(off)
  <2> HIDE DEF d
  <2>1. d \in Int
    BY <1>1 DEF d
  <2>2. d \div s \in Int
    BY <1>1, <2>1, DivMod
  <2> QED  BY <2>2 DEF d
<1> HIDE DEF D
<1>3. D % axisLength \in 0 .. axisLength - 1
  BY <1>1, <1>2, DivMod
<1> QED  BY <1>3 DEF UnderAxis, D

\* A pixel's column counted from the first visible one: from the start of the
\* boundary, which is reckoned from the offset and not from its whole pixels.
LEMMA ColumnsSeen ==
  ASSUME NEW s, NEW off, Within(s, off), NEW q \in Nat,
         NEW z, z = IF off <= 0 THEN -off ELSE World(s) * Fraction - off
  PROVE  /\ z \in Nat /\ z \div Fraction \in Nat /\ z \div Fraction < World(s)
         /\ z \div (s * Fraction) = (z \div Fraction) \div s
         /\ \E h \in {0, 1} :
               UnderAxis(s, off, q) = ((q + (z \div Fraction) + h) \div s) % axisLength
<1> DEFINE L == axisLength
           F == Fraction
           W == World(s)
           k == int(off)
           Z == z \div F
<1>1. /\ s \in Nat \ {0} /\ L \in Nat \ {0} /\ W \in Nat \ {0} /\ F \in Nat \ {0}
      /\ k \in Int /\ off \in Int /\ abs(off) < W * F /\ W * F \in Nat
      /\ off > 0 => k = off \div F
      /\ off <= 0 => k = -((-off) \div F)
  BY WholePixels, WorldIs, Width, CanvasAssumption DEF Within
<1>2. W = s * L
  BY DEF World
<1>3. z = IF off <= 0 THEN -off ELSE W * F - off
  OBVIOUS
<1> HIDE DEF L, W, k, F
<1>4. z \in Nat /\ z < W * F /\ z \in Int
  BY <1>1, <1>3 DEF abs
<1>5. Z \in Int /\ z % F \in 0 .. F - 1 /\ z = F * Z + (z % F)
  BY <1>1, <1>4, DivMod
<1>6. z \div (s * F) = Z \div s
  BY <1>1, <1>4, DivDiv
<1> HIDE DEF Z
<1>7. Z \in Nat /\ Z < W
  <2>1. F * Z < F * ((W - 1) + 1) /\ F * 0 < F * (Z + 1)
    BY <1>1, <1>4, <1>5
  <2>2. Z <= W - 1 /\ 0 <= Z
    BY <1>1, <1>5, <2>1, Between
  <2> QED  BY <1>1, <1>5, <2>2
<1>8. \E h \in {0, 1}, j \in {0, 1} : (q - k) + W * j = q + Z + h
  <2>1. CASE off <= 0
    <3>1. Z = -k
      BY <1>1, <1>3, <2>1, <1>5 DEF Z
    <3>2. (q - k) + W * 0 = q + Z + 0
      BY <1>1, <3>1
    <3> QED  BY <3>2
  <2>2. CASE off > 0
    <3> DEFINE f == off % F
    <3>1. f \in 0 .. F - 1 /\ off = F * k + f
      BY <1>1, <2>2, DivMod
    <3> HIDE DEF f
    <3>2. CASE f = 0
      <4>1. z = F * (W - k) + f /\ W - k \in Int
        BY <1>1, <1>3, <2>2, <3>1, <3>2
      <4>2. Z = W - k
        <5> DEFINE e == W - k
        <5> HIDE DEF e
        <5>1. e \in Int /\ z = F * e + f
          BY <4>1 DEF e
        <5>2. z \div F = e
          BY <1>1, <1>4, <3>1, <5>1, DivIs
        <5> QED  BY <5>2 DEF Z, e
      <4>3. (q - k) + W * 1 = q + Z + 0
        BY <1>1, <4>2
      <4> QED  BY <4>3
    <3>3. CASE f # 0
      <4>1. z = F * (W - k - 1) + (F - f) /\ W - k - 1 \in Int /\ F - f \in 0 .. F - 1
        BY <1>1, <1>3, <2>2, <3>1, <3>3
      <4>2. Z = W - k - 1
        BY <1>1, <1>4, <4>1, DivIs DEF Z
      <4>3. (q - k) + W * 1 = q + Z + 1
        BY <1>1, <4>2
      <4> QED  BY <4>3
    <3> QED  BY <3>2, <3>3
  <2> QED  BY <1>1, <2>1, <2>2
<1>9. PICK h \in {0, 1}, j \in {0, 1} : (q - k) + W * j = q + Z + h
  BY <1>8
<1> DEFINE d == q - k
           D == d \div s
           Lj == L * j
           m == q + Z + h
<1>10. d \in Int /\ D \in Int
  <2>1. d \in Int
    BY <1>1
  <2> HIDE DEF d
  <2> QED  BY <1>1, <2>1, DivMod
<1>11. Lj \in Int /\ W * j = s * Lj
  BY <1>1, <1>2
<1>12. d + s * Lj = m
  BY <1>9, <1>11
<1> HIDE DEF d, Lj, m
<1>13. m \div s = D + Lj
  <2>1. (d + s * Lj) \div s = (d \div s) + Lj
    BY <1>1, <1>10, <1>11, ModShift
  <2> QED  BY <1>12, <2>1
<1> HIDE DEF D
<1>14. (D + L * j) % L = D % L
  <2>1. j \in Int
    OBVIOUS
  <2> QED  BY <1>1, <1>10, <2>1, ModShift
<1>15. UnderAxis(s, off, q) = (m \div s) % L
  BY <1>13, <1>14 DEF UnderAxis, Lj, D, d, L, k
<1> QED  BY <1>4, <1>6, <1>7, <1>15 DEF Z, F, L, W, m

\* The boundary that belongs to the canvas has the columns of its pixels.
LEMMA VisibleAxis ==
  ASSUME NEW s, NEW off, Within(s, off), NEW vis \in Nat, NEW q \in 0 .. vis - 1,
         q < World(s)
  PROVE  SeenAxis(calc(vis, World(s), off, s), UnderAxis(s, off, q))
<1> DEFINE L == axisLength
           W == World(s)
           c == UnderAxis(s, off, q)
           z == IF off <= 0 THEN -off ELSE World(s) * Fraction - off
           Z == z \div Fraction
           start == z \div (s * Fraction)
           more == (vis + s - 1) \div s
           past == start + more
           end == IF past >= L THEN past - L ELSE past
<1>1. /\ s \in Nat \ {0} /\ L \in Nat \ {0} /\ W \in Nat \ {0} /\ L <= MaxUint16
      /\ MaxUint16 \in Nat /\ c \in 0 .. L - 1 /\ q \in Nat /\ off \in Int
  BY WorldIs, Width, UnderIs DEF Within
<1>2. W = s * L
  BY DEF World
<1>3. /\ Z \in Nat /\ Z < W /\ start = Z \div s
      /\ \E h \in {0, 1} : c = ((q + Z + h) \div s) % L
  BY <1>1, ColumnsSeen
<1>4. calc(vis, W, off, s) = IF vis >= W
                             THEN [start |-> 0, end |-> MaxUint16, within |-> 0 < MaxUint16]
                             ELSE [start |-> start, end |-> end, within |-> start < end]
  BY DEF calc, endOf
<1>5. CASE vis >= W
  <2>1. SeenAxis([start |-> 0, end |-> MaxUint16, within |-> 0 < MaxUint16], c)
    <3> HIDE DEF c
    <3> QED  BY <1>1 DEF SeenAxis
  <2> QED  BY <1>4, <1>5, <2>1
<1>6. CASE vis < W
  <2>1. PICK h \in {0, 1} : c = ((q + Z + h) \div s) % L
    BY <1>3
  <2> DEFINE m == (q + Z + h) \div s
             r == Z % s
             v == vis + s - 1
  <2> HIDE DEF c, Z, L, W
  <2> HIDE DEF start
  <2>2. start \in Int /\ r \in 0 .. s - 1 /\ Z = s * start + r /\ Z \in Int
    <3>1. Z \in Int /\ start = Z \div s
      BY <1>3
    <3>2. Z \div s \in Int /\ Z % s \in 0 .. s - 1 /\ Z = s * (Z \div s) + (Z % s)
      BY <1>1, <3>1, DivMod
    <3> QED  BY <3>1, <3>2
  <2>3. 0 <= start /\ start < L
    <3>1. s * start < s * ((L - 1) + 1) /\ s * 0 < s * (start + 1)
      BY <1>1, <1>2, <1>3, <2>2
    <3>2. start <= L - 1 /\ 0 <= start
      BY <1>1, <2>2, <3>1, Between
    <3> QED  BY <1>1, <2>2, <3>2
  <2> HIDE DEF r
  <2>4. v \in Int /\ more \in Int /\ q + Z + h \in Int
    <3>1. v \in Int
      BY <1>1
    <3> HIDE DEF v
    <3>2. v \div s \in Int
      BY <1>1, <3>1, DivMod
    <3> QED  BY <1>1, <1>3, <3>1, <3>2 DEF v
  <2>5. start <= m /\ m \in Int
    <3> DEFINE u == q + Z + h
    <3>1. u \in Int /\ Z <= u
      BY <1>1, <1>3
    <3> HIDE DEF u
    <3>2. Z \div s <= u \div s
      BY <1>1, <2>2, <3>1, DivMonotone
    <3>3. u \div s \in Int
      BY <1>1, <3>1, DivMod
    <3> QED  BY <1>3, <3>2, <3>3 DEF u
  <2>6. m <= past
    <3> DEFINE u == q + Z + h
               w == v + s * start
    <3>1. u \in Int /\ u <= w /\ w \in Int
      <4>1. s * start \in Int
        BY <1>1, <2>2
      <4> QED  BY <1>1, <1>3, <2>2, <2>4, <4>1
    <3>2. w \div s = (v \div s) + start
      <4> HIDE DEF v
      <4> QED  BY <1>1, <2>2, <2>4, ModShift
    <3> HIDE DEF u, w
    <3>3. u \div s <= w \div s
      BY <1>1, <3>1, DivMonotone
    <3> QED  BY <2>2, <2>4, <3>2, <3>3 DEF u, v
  <2>7. more <= L
    <3> DEFINE f == v % s
    <3>1. more \in Int /\ f \in 0 .. s - 1 /\ v = s * more + f
      <4> HIDE DEF v
      <4>1. v \div s \in Int /\ v % s \in 0 .. s - 1 /\ v = s * (v \div s) + (v % s)
        BY <1>1, <2>4, DivMod
      <4> QED  BY <4>1 DEF v
    <3> HIDE DEF f, more
    <3>2. s * (L + 1) = W + s /\ s * more \in Int
      BY <1>1, <1>2, <3>1
    <3>3. s * more < s * (L + 1)
      BY <1>1, <1>6, <3>1, <3>2
    <3> QED  BY <1>1, <3>1, <3>3, Between
  <2> HIDE DEF more, m
  <2>8. m < 2 * L
    BY <1>1, <2>2, <2>3, <2>4, <2>5, <2>6, <2>7
  <2>9. c = IF m < L THEN m ELSE m - L
    <3>1. c = m % L
      BY <2>1 DEF m
    <3>2. CASE m < L
      <4>1. m = L * 0 + m /\ m \in 0 .. L - 1
        BY <1>1, <2>2, <2>3, <2>5, <3>2
      <4>2. m % L = m
        BY <1>1, <2>5, <4>1, DivIs
      <4> QED  BY <3>1, <3>2, <4>2
    <3>3. CASE m >= L
      <4> DEFINE e == m - L
      <4>1. m = L * 1 + e /\ e \in 0 .. L - 1
        BY <1>1, <2>5, <2>8, <3>3
      <4> HIDE DEF e
      <4>2. m % L = e
        BY <1>1, <2>5, <4>1, DivIs
      <4> QED  BY <1>1, <2>5, <3>1, <3>3, <4>2 DEF e
    <3> QED  BY <1>1, <2>5, <3>2, <3>3
  <2>10. SeenAxis([start |-> start, end |-> end, within |-> start < end], c)
    <3>1. CASE past < L
      <4>1. start <= c /\ c <= past /\ end = past
        BY <1>1, <2>2, <2>3, <2>4, <2>5, <2>6, <2>9, <3>1
      <4> HIDE DEF past, end
      <4> QED  BY <4>1 DEF SeenAxis
    <3>2. CASE ~(past < L)
      <4>1. end = past - L /\ ~(start < end)
        BY <1>1, <2>2, <2>3, <2>4, <2>7, <3>2
      <4>2. start <= c \/ c <= end
        BY <1>1, <2>2, <2>4, <2>5, <2>6, <2>9, <4>1
      <4> HIDE DEF past, end
      <4> QED  BY <4>1, <4>2 DEF SeenAxis
    <3> QED  BY <3>1, <3>2
  <2>11. ~(vis >= W)
    BY <1>1, <1>6
  <2> QED  BY <1>4, <2>10, <2>11 DEF c, L, W
<1> QED  BY <1>1, <1>5, <1>6

\* Division by the cell size on one axis: the column under the pixel or, when the
\* offset has a fraction to the right, under the pixel before.
ExactAxis(s, off, p) == wrapMask(uint16((p * Fraction - off) \div (s * Fraction)))

LEMMA ExactIs ==
  ASSUME NEW s, NEW off, Within(s, off), NEW p \in Int
  PROVE  \/ ExactAxis(s, off, p) = UnderAxis(s, off, p)
         \/ /\ off > 0 /\ off % Fraction # 0
            /\ ExactAxis(s, off, p) = UnderAxis(s, off, p - 1)
<1> DEFINE F == Fraction
           k == int(off)
           n == p * F - off
           N == n \div F
<1>1. /\ s \in Nat \ {0} /\ F \in Nat \ {0} /\ k \in Int /\ off \in Int
      /\ off > 0 => k = off \div F
      /\ off <= 0 => k = -((-off) \div F)
  BY WholePixels, CanvasAssumption DEF Within
<1> HIDE DEF F, k
<1>2. n \in Int
  BY <1>1
<1>3. n \div (s * F) = N \div s /\ N \in Int
  <2> HIDE DEF n, N
  <2>1. n \div (s * F) = (n \div F) \div s
    <3>1. s \in Nat \ {0}
      BY <1>1
    <3>2. F \in Nat \ {0}
      BY <1>1
    <3> QED  BY <1>2, <3>1, <3>2, DivDiv, ZenonT(60)
  <2>2. n \div F \in Int
    BY <1>1, <1>2, DivMod
  <2> QED  BY <2>1, <2>2 DEF N
<1>4. ExactAxis(s, off, p) = (N \div s) % axisLength
  <2> HIDE DEF n, N
  <2>1. N \div s \in Int
    BY <1>1, <1>3, DivMod
  <2>2. wrapMask(uint16(N \div s)) = wrapMask(N \div s)
    BY <2>1, MaskMask
  <2> QED  BY <1>3, <2>2 DEF ExactAxis, wrapMask, n, F
<1>5. \A e \in Int, r \in 0 .. F - 1 : n = F * e + r => N = e
  <2> SUFFICES ASSUME NEW e \in Int, NEW r \in 0 .. F - 1, n = F * e + r
               PROVE  n \div F = e
    OBVIOUS
  <2> HIDE DEF n
  <2> QED  BY <1>1, <1>2, DivIs
<1>6. CASE off <= 0
  <2> DEFINE r == (-off) % F
             e == p - k
  <2>1. r \in 0 .. F - 1 /\ -off = F * (-k) + r
    <3>1. (-off) \div F \in Int /\ r \in 0 .. F - 1 /\ -off = F * ((-off) \div F) + r
      <4>1. \A v \in Int : v \div F \in Int /\ v % F \in 0 .. F - 1 /\ v = F * (v \div F) + (v % F)
        BY <1>1, DivMod
      <4>2. -off \in Int
        BY <1>1
      <4> QED  BY <4>1, <4>2
    <3>2. (-off) \div F = -k
      BY <1>1, <1>6, <3>1
    <3> QED  BY <3>1, <3>2
  <2> HIDE DEF r
  <2>2. n = F * e + r /\ e \in Int
    BY <1>1, <2>1
  <2>3. N = e
    <3> HIDE DEF n, e
    <3> QED  BY <1>5, <2>1, <2>2
  <2> QED  BY <1>4, <2>3 DEF UnderAxis, k
<1>7. CASE off > 0
  <2> DEFINE f == off % F
             e == p - k
             e1 == (p - 1) - k
  <2>1. f \in 0 .. F - 1 /\ off = F * k + f
    BY <1>1, <1>7, DivMod
  <2>2. CASE f = 0
    <3> HIDE DEF f
    <3>1. n = F * e + f /\ e \in Int
      BY <1>1, <2>1, <2>2
    <3>2. N = e
      <4> HIDE DEF n, e
      <4> QED  BY <1>5, <2>1, <3>1
    <3> QED  BY <1>4, <3>2 DEF UnderAxis, k
  <2>3. CASE f # 0
    <3> HIDE DEF f
    <3> DEFINE r == F - f
    <3>1. n = F * e1 + r /\ e1 \in Int /\ r \in 0 .. F - 1
      BY <1>1, <2>1, <2>3
    <3>2. N = e1
      <4> HIDE DEF n, e1, r
      <4> QED  BY <1>5, <3>1
    <3> QED  BY <1>4, <1>7, <2>3, <3>2 DEF UnderAxis, k, f, F
  <2> QED  BY <2>2, <2>3
<1> QED  BY <1>1, <1>6, <1>7

\* Two pixels next to each other are of one square unless the second begins one.
LEMMA SameSquare ==
  ASSUME NEW s \in Nat \ {0}, NEW d \in Int, d % s # 0
  PROVE  (d - 1) \div s = d \div s
<1> DEFINE q == d \div s
           r == d % s
<1>1. q \in Int /\ r \in 0 .. s - 1 /\ d = s * q + r /\ r # 0
  BY DivMod
<1> HIDE DEF q, r
<1>2. r - 1 \in 0 .. s - 1 /\ d - 1 = s * q + (r - 1) /\ d - 1 \in Int
  BY <1>1
<1>3. (d - 1) \div s = q
  BY <1>1, <1>2, DivIs
<1> QED  BY <1>3 DEF q

\* Where the float product falls short the pixel begins a square: PixelToCellCoord
\* gives the column before.
ClickAxis(s, off, p) == wrapMask(uint16(floorInv(p * Fraction - off, s)))

LEMMA FallsShort ==
  ASSUME NEW s, NEW off, Within(s, off), NEW p \in Int, NEW q \in Int,
         p * Fraction - off = (s * Fraction) * q
  PROVE  /\ (p - int(off)) % s = 0
         /\ UnderAxis(s, off, p - 1) = (q - 1) % axisLength
<1> DEFINE F == Fraction
           k == int(off)
           e == p - s * q
<1>1. /\ s \in Nat \ {0} /\ F \in Nat \ {0} /\ k \in Int /\ off \in Int
      /\ off > 0 => k = off \div F
      /\ off <= 0 => k = -((-off) \div F)
  BY WholePixels, CanvasAssumption DEF Within
<1>2. p * F - off = (s * F) * q
  OBVIOUS
<1> HIDE DEF F, k
<1>3. e \in Int /\ s * q \in Int /\ p = s * q + e
  BY <1>1
<1>4. off = F * e + 0 /\ -off = F * (-e) + 0 /\ 0 \in 0 .. F - 1 /\ -off \in Int /\ -e \in Int
  <2>1. (s * F) * q = F * (s * q) /\ p * F = F * (s * q) + F * e
    BY <1>1, <1>3
  <2> HIDE DEF e
  <2>2. off = F * e
    BY <1>1, <1>2, <1>3, <2>1
  <2> QED  BY <1>1, <1>3, <2>2
<1> HIDE DEF e
<1>5. k = e
  <2>1. off \div F = e
    BY <1>1, <1>3, <1>4, DivIs
  <2>2. (-off) \div F = -e
    BY <1>1, <1>3, <1>4, DivIs
  <2> QED  BY <1>1, <1>3, <2>1, <2>2
<1> DEFINE d == p - k
           d1 == (p - 1) - k
<1>6. /\ d \in Int /\ d = s * q + 0 /\ 0 \in 0 .. s - 1
      /\ d1 \in Int /\ d1 = s * (q - 1) + (s - 1) /\ s - 1 \in 0 .. s - 1 /\ q - 1 \in Int
  BY <1>1, <1>3, <1>5
<1> HIDE DEF d, d1
<1>7. d % s = 0
  BY <1>1, <1>6, DivIs
<1>8. d1 \div s = q - 1
  <2> DEFINE q1 == q - 1
             r1 == s - 1
  <2>1. q1 \in Int /\ r1 \in 0 .. s - 1 /\ d1 = s * q1 + r1
    BY <1>6
  <2> HIDE DEF q1, r1
  <2>2. d1 \div s = q1
    BY <1>1, <1>6, <2>1, DivIs
  <2> QED  BY <2>2 DEF q1
<1> QED  BY <1>7, <1>8 DEF UnderAxis, d, d1, k

LEMMA ClickIs ==
  ASSUME NEW s, NEW off, Within(s, off), NEW p \in Int
  PROVE  \/ ClickAxis(s, off, p) = UnderAxis(s, off, p)
         \/ /\ (p - int(off)) % s = 0
            /\ (off > 0 /\ off % Fraction # 0) \/ ~InverseIsExact(s)
            /\ ClickAxis(s, off, p) = UnderAxis(s, off, p - 1)
<1> DEFINE n == p * Fraction - off
           w == s * Fraction
           q == n \div w
           d == p - int(off)
<1>1. /\ s \in Nat \ {0} /\ Fraction \in Nat \ {0} /\ off \in Int /\ int(off) \in Int
  BY WholePixels, CanvasAssumption DEF Within
<1>2. n \in Int /\ w \in Nat \ {0} /\ d \in Int
  BY <1>1
<1>3. CASE n % w = 0 /\ <<s, q>> \in RoundsBelow
  <2>1. q \in Int /\ n = w * q
    <3> HIDE DEF n, w
    <3>1. n \div w \in Int /\ n = w * (n \div w) + (n % w)
      BY <1>2, DivMod
    <3> QED  BY <1>2, <1>3, <3>1
  <2>2. d % s = 0 /\ UnderAxis(s, off, p - 1) = (q - 1) % axisLength
    <3> HIDE DEF q
    <3> QED  BY <2>1, FallsShort
  <2>3. ~InverseIsExact(s)
    <3>1. \A b \in RoundsBelow : ~InverseIsExact(b[1])
      BY RoundingAssumption
    <3> HIDE DEF q
    <3> QED  BY <1>3, <3>1
  <2>4. ClickAxis(s, off, p) = (q - 1) % axisLength
    <3>1. floorInv(n, s) = q - 1
      BY <1>3 DEF floorInv
    <3> HIDE DEF n, q
    <3>2. q - 1 \in Int
      BY <2>1
    <3>3. wrapMask(uint16(q - 1)) = wrapMask(q - 1)
      BY <3>2, MaskMask
    <3> QED  BY <3>1, <3>3 DEF ClickAxis, wrapMask, n
  <2> QED  BY <2>2, <2>3, <2>4
<1>4. CASE ~(n % w = 0 /\ <<s, q>> \in RoundsBelow)
  <2>1. ClickAxis(s, off, p) = ExactAxis(s, off, p)
    BY <1>4 DEF ClickAxis, ExactAxis, floorInv
  <2>2. CASE d % s = 0
    BY <2>1, <2>2, ExactIs
  <2>3. CASE d % s # 0
    <3>1. (d - 1) \div s = d \div s
      <4> HIDE DEF d
      <4> QED  BY <1>1, <1>2, <2>3, SameSquare
    <3>2. d - 1 = (p - 1) - int(off)
      BY <1>1
    <3>3. UnderAxis(s, off, p - 1) = UnderAxis(s, off, p)
      BY <3>1, <3>2 DEF UnderAxis
    <3> QED  BY <2>1, <3>3, ExactIs
  <2> QED  BY <2>2, <2>3
<1> QED  BY <1>3, <1>4

-----------------------------------------------------------------------------
\* A drawer whose offset is within one world.
Boundaries == [start : Int, end : Int, within : BOOLEAN]

Drawers == [cellSize : Nat \ {0}, offset : [Axes -> Int], size : Nat \X Nat,
            boundary : [Axes -> Boundaries]]

Sound(cd) == /\ cd \in Drawers
             /\ \A i \in Axes : Within(cd.cellSize, cd.offset[i])

\* Where the mouse or a drag is: a pair of integers.
LEMMA PairIs ==
  ASSUME NEW d \in Int \X Int
  PROVE  \A i \in Axes : d[i] \in Int
BY DEF Axes

LEMMA SizeIs ==
  ASSUME NEW z \in Nat \X Nat
  PROVE  \A i \in Axes : z[i] \in Nat
BY DEF Axes

\* A drawer is not nil.
LEMMA SoundIsDrawer ==
  ASSUME NEW cd \in Drawers PROVE cd # NoDrawer
<1>1. DOMAIN cd = {"cellSize", "offset", "size", "boundary"}
  BY DEF Drawers
<1>2. DOMAIN <<>> = {}
  OBVIOUS
<1> QED  BY <1>1, <1>2 DEF NoDrawer

LEMMA CalcIs ==
  ASSUME NEW s \in Nat \ {0}, NEW off \in Int, NEW vis \in Nat
  PROVE  calc(vis, World(s), off, s) \in Boundaries
<1> DEFINE n == s * Fraction
           z == IF off <= 0 THEN -off ELSE World(s) * Fraction - off
           v == vis + s - 1
           past == (z \div n) + (v \div s)
           end == IF past >= axisLength THEN past - axisLength ELSE past
           b(st, e) == [start |-> st, end |-> e, within |-> st < e]
<1>1. /\ n \in Nat \ {0} /\ World(s) \in Nat \ {0} /\ Fraction \in Nat \ {0}
      /\ axisLength \in Int /\ MaxUint16 \in Int
  <2>1. Fraction \in Nat \ {0}
    BY CanvasAssumption
  <2> QED  BY <2>1, WorldIs, Width
<1>2. z \in Int /\ v \in Int
  <2> DEFINE wf == World(s) * Fraction
  <2>1. wf \in Int
    BY <1>1
  <2> HIDE DEF wf
  <2> QED  BY <2>1 DEF wf
<1>3. z \div n \in Int /\ v \div s \in Int
  <2> HIDE DEF z, n, v
  <2> QED  BY <1>1, <1>2, DivMod
<1>4. past \in Int /\ end \in Int
  <2> HIDE DEF z, n, v
  <2> QED  BY <1>1, <1>3
<1>5. calc(vis, World(s), off, s)
      = IF vis >= World(s) THEN b(0, MaxUint16) ELSE b(z \div n, end)
  BY DEF calc, endOf
<1>6. \A st, e \in Int : b(st, e) \in Boundaries
  BY DEF Boundaries
<1>7. b(0, MaxUint16) \in Boundaries
  BY <1>1, <1>6
<1>8. b(z \div n, end) \in Boundaries
  <2> HIDE DEF b, end, z, n
  <2> QED  BY <1>3, <1>4, <1>6
<1> QED  BY <1>5, <1>7, <1>8

\* The boundaries reckoned anew are those of the size, the offset and the cells.
LEMMA CalcVisible ==
  ASSUME NEW cd, Sound(cd)
  PROVE  LET new == calcVisibleCoordinates(cd)
         IN /\ Sound(new) /\ Fresh(new)
            /\ new.size = cd.size /\ new.offset = cd.offset /\ new.cellSize = cd.cellSize
<1> DEFINE B == [i \in Axes |-> calc(cd.size[i], worldSize(cd), cd.offset[i], cd.cellSize)]
           new == [cd EXCEPT !.boundary = B]
<1>1. B \in [Axes -> Boundaries]
  <2>1. \A i \in Axes : calc(cd.size[i], worldSize(cd), cd.offset[i], cd.cellSize) \in Boundaries
    <3> TAKE i \in Axes
    <3>1. cd.size[i] \in Nat /\ cd.offset[i] \in Int /\ cd.cellSize \in Nat \ {0}
      BY SizeIs DEF Sound, Drawers
    <3> QED  BY <3>1, CalcIs DEF worldSize, World
  <2> QED  BY <2>1
<1> HIDE DEF B
<1>2. new \in Drawers /\ new.size = cd.size /\ new.offset = cd.offset /\ new.cellSize = cd.cellSize
  BY <1>1 DEF Sound, Drawers
<1>3. Sound(new)
  BY <1>2 DEF Sound
<1>4. calcVisibleCoordinates(cd) = new
  BY DEF calcVisibleCoordinates, B
<1>5. calcVisibleCoordinates(new) = [new EXCEPT !.boundary = B]
  <2> HIDE DEF new
  <2> QED  BY <1>2 DEF calcVisibleCoordinates, B, worldSize
<1>6. [new EXCEPT !.boundary = B] = new
  BY <1>1, <1>2 DEF Drawers, Sound
<1> QED  BY <1>2, <1>3, <1>4, <1>5, <1>6 DEF Fresh

LEMMA ReducedIs ==
  ASSUME NEW v \in Int, NEW n \in Nat \ {0}
  PROVE  reduced(v, n) \in Int /\ abs(reduced(v, n)) < n
<1>1. \A u \in Int : u % n \in 0 .. n - 1
  BY DivMod
<1>2. -v \in Int /\ (-v) % n \in 0 .. n - 1 /\ v % n \in 0 .. n - 1
  BY <1>1
<1> DEFINE x == (-v) % n
           y == v % n
<1> HIDE DEF x, y
<1>3. x \in 0 .. n - 1 /\ y \in 0 .. n - 1
  BY <1>2 DEF x, y
<1>4. reduced(v, n) = IF v < 0 THEN -x ELSE y
  BY DEF reduced, x, y
<1> QED  BY <1>3, <1>4 DEF abs

\* Whatever is added to the offset, what is left of it is within one world.
LEMMA IncrementIs ==
  ASSUME NEW cd \in Drawers, NEW d \in [Axes -> Int]
  PROVE  LET new == IncrementOffset(cd, d)
         IN Sound(new) /\ Fresh(new) /\ new.size = cd.size
<1> DEFINE n == worldSize(cd) * Fraction
           O == [i \in Axes |-> reduced(cd.offset[i] + d[i], n)]
           mid == [cd EXCEPT !.offset = O]
<1>1. cd.cellSize \in Nat \ {0} /\ cd.offset \in [Axes -> Int] /\ n \in Nat \ {0}
  <2>1. cd.cellSize \in Nat \ {0} /\ cd.offset \in [Axes -> Int]
    BY DEF Drawers
  <2>2. World(cd.cellSize) \in Nat \ {0} /\ Fraction \in Nat \ {0}
    BY <2>1, WorldIs, CanvasAssumption
  <2> QED  BY <2>1, <2>2 DEF worldSize, World
<1>2. n = World(cd.cellSize) * Fraction
  BY DEF worldSize, World
<1> HIDE DEF n
<1>3. \A i \in Axes : O[i] \in Int /\ abs(O[i]) < n
  <2> TAKE i \in Axes
  <2>1. cd.offset[i] + d[i] \in Int
    BY <1>1
  <2> QED  BY <1>1, <2>1, ReducedIs
<1>4. O \in [Axes -> Int]
  BY <1>3
<1> HIDE DEF O
<1>5. /\ mid \in Drawers /\ mid.offset = O /\ mid.cellSize = cd.cellSize
      /\ mid.size = cd.size
  BY <1>4 DEF Drawers
<1>6. Sound(mid)
  BY <1>1, <1>2, <1>3, <1>4, <1>5 DEF Sound, Within
<1>7. IncrementOffset(cd, d) = calcVisibleCoordinates(mid)
  BY DEF IncrementOffset, O, n
<1> HIDE DEF mid
<1> QED  BY <1>5, <1>6, <1>7, CalcVisible

LEMMA SetCellSizeIs ==
  ASSUME NEW cd, Sound(cd), NEW s \in Nat \ {0}, NEW mouse \in Int \X Int
  PROVE  LET new == SetCellSize(cd, s, mouse)
         IN Sound(new) /\ Fresh(new) /\ new.size = cd.size
<1> DEFINE cellSize == IF s < 1 THEN 1 ELSE s
           delta == [i \in Axes |-> zoomed(cd, cellSize, mouse)[i] \div (2 * cd.cellSize)]
           mid == [cd EXCEPT !.cellSize = cellSize]
<1>1. cellSize \in Nat \ {0} /\ 2 * cd.cellSize \in Nat \ {0} /\ cd.cellSize \in Nat \ {0}
  BY DEF Sound, Drawers
<1>2. \A i \in Axes : delta[i] \in Int
  <2> TAKE i \in Axes
  <2>1. pivotDoubled(cd, mouse)[i] \in Int
    <3>1. cd.size[i] \in Int /\ mouse[i] \in Int
      BY PairIs, SizeIs DEF Sound, Drawers
    <3> QED  BY <3>1 DEF pivotDoubled
  <2>2. cd.offset[i] \in Int /\ Fraction \in Int
    BY CanvasAssumption DEF Sound, Drawers
  <2>3. zoomed(cd, cellSize, mouse)[i] \in Int
    <3> DEFINE a == pivotDoubled(cd, mouse)[i]
               b == cd.offset[i]
    <3> HIDE DEF a, b
    <3>1. a \in Int /\ b \in Int
      BY <2>1, <2>2 DEF a, b
    <3> DEFINE x == a * Fraction - 2 * b
               y == cd.cellSize - cellSize
    <3>2. x \in Int /\ y \in Int
      BY <1>1, <2>2, <3>1
    <3> HIDE DEF x, y
    <3>3. x * y \in Int
      BY <3>2
    <3>4. zoomed(cd, cellSize, mouse)[i] = x * y
      BY DEF zoomed, a, b, x, y
    <3> QED  BY <3>3, <3>4
  <2> DEFINE u == zoomed(cd, cellSize, mouse)[i]
             m == 2 * cd.cellSize
  <2> HIDE DEF u, m
  <2>4. u \div m \in Int
    BY <1>1, <2>3, DivMod DEF u, m
  <2> QED  BY <2>4 DEF u, m
<1>3. delta \in [Axes -> Int]
  BY <1>2
<1> HIDE DEF delta
<1>4. mid \in Drawers /\ mid.size = cd.size
  BY <1>1 DEF Sound, Drawers
<1>5. SetCellSize(cd, s, mouse) = IncrementOffset(mid, delta)
  BY DEF SetCellSize, delta
<1> HIDE DEF mid
<1> QED  BY <1>3, <1>4, <1>5, IncrementIs

\* The boundaries of the size that was: they are those of the new one when it is
\* the same.
LEMMA SetDimensionsIs ==
  ASSUME NEW cd, Sound(cd), NEW z \in Nat \X Nat
  PROVE  LET new == SetDimensions(cd, z)
         IN Sound(new) /\ new.size = z /\ (z = cd.size => Fresh(new))
<1> DEFINE mid == calcVisibleCoordinates(cd)
<1>1. Sound(mid) /\ Fresh(mid) /\ mid.size = cd.size
  BY CalcVisible
<1> HIDE DEF mid
<1>2. /\ [mid EXCEPT !.size = z] \in Drawers
      /\ [mid EXCEPT !.size = z].offset = mid.offset
      /\ [mid EXCEPT !.size = z].cellSize = mid.cellSize
      /\ [mid EXCEPT !.size = z].size = z
  BY <1>1 DEF Sound, Drawers
<1>3. z = cd.size => [mid EXCEPT !.size = z] = mid
  BY <1>1 DEF Sound, Drawers
<1>4. SetDimensions(cd, z) = [mid EXCEPT !.size = z]
  BY DEF SetDimensions, mid
<1> QED  BY <1>1, <1>2, <1>3, <1>4 DEF Sound

LEMMA NewIs ==
  ASSUME NEW s \in Nat \ {0}, NEW z \in Nat \X Nat
  PROVE  Sound(NewCanvasDrawer(s, z))
<1> DEFINE cd == [cellSize |-> s, offset |-> <<0, 0>>, size |-> <<0, 0>>,
                  boundary |-> [i \in Axes |-> [start |-> 0, end |-> 0, within |-> TRUE]]]
<1>1. cd \in Drawers
  <2>1. <<0, 0>> \in [Axes -> Int] /\ <<0, 0>> \in Nat \X Nat
    BY DEF Axes
  <2>2. [i \in Axes |-> [start |-> 0, end |-> 0, within |-> TRUE]] \in [Axes -> Boundaries]
    BY DEF Boundaries
  <2> QED  BY <2>1, <2>2 DEF Drawers
<1>2. World(s) * Fraction > 0 /\ World(s) * Fraction \in Nat
  <2>1. World(s) \in Nat \ {0} /\ Fraction \in Nat \ {0}
    BY WorldIs, CanvasAssumption
  <2> QED  BY <2>1
<1>3. \A i \in Axes : cd.offset[i] = 0
  BY DEF Axes
<1>4. abs(0) = 0
  BY DEF abs
<1>5. cd.cellSize = s
  OBVIOUS
<1> HIDE DEF cd
<1>6. Sound(cd)
  BY <1>1, <1>2, <1>3, <1>4, <1>5 DEF Sound, Within
<1> QED  BY <1>6, SetDimensionsIs DEF NewCanvasDrawer, cd

-----------------------------------------------------------------------------
\* What is drawn.
LEMMA LastIs ==
  ASSUME NEW n \in Nat, NEW S \in SUBSET (1 .. n), S # {}
  PROVE  \E i \in S : \A j \in S : j <= i
<1> DEFINE U == {n - i : i \in S}
<1>1. U \subseteq Nat /\ U # {}
  <2>1. \A i \in S : n - i \in Nat
    OBVIOUS
  <2>2. PICK i \in S : TRUE
    OBVIOUS
  <2> QED  BY <2>1, <2>2
<1> DEFINE R == OpToRel(<, Nat)
<1>2. \E x \in U : \A y \in U : ~(<<y, x>> \in R)
  <2>1. IsWellFoundedOn(R, Nat)
    BY NatLessThanWellFounded
  <2> HIDE DEF R, U
  <2> QED  BY <1>1, <2>1, WFMin
<1>3. PICK x \in U : \A y \in U : ~(<<y, x>> \in R)
  BY <1>2
<1>4. PICK i \in S : x = n - i
  BY <1>3
<1>5. ASSUME NEW j \in S PROVE j <= i
  <2>1. n - j \in U /\ n - j \in Nat /\ x \in Nat
    BY <1>1, <1>3
  <2>2. ~(<<n - j, x>> \in R)
    BY <1>3, <2>1
  <2>3. ~(n - j < x)
    BY <2>1, <2>2 DEF OpToRel
  <2> QED  BY <1>4, <2>1, <2>3
<1> QED  BY <1>5

\* Cells of one place have one colour.
Alike(cells) == \A i, j \in DOMAIN cells :
                    Place(cells[i]) = Place(cells[j]) => cells[i].colour = cells[j].colour

\* The square of a cell is where it is on the torus, and it is visible when the
\* boundaries are those of the canvas.
LEMMA CoversIs ==
  ASSUME NEW cd, Sound(cd), NEW p \in Pixels(cd), NEW cell \in WorldCell
  PROVE  /\ covers(cd, Place(cell), p) <=> InDrawnWorld(cd, p) /\ CellUnder(cd, p) = Place(cell)
         /\ covers(cd, Place(cell), p) /\ Fresh(cd) => coordIsVisible(cd, Place(cell))
<1> DEFINE c == Place(cell)
<1>1. c[1] = cell.x /\ c[2] = cell.y /\ c = <<cell.x, cell.y>>
  BY DEF Place
<1>2. \A i \in Axes : c[i] \in 0 .. axisLength - 1
  BY <1>1 DEF WorldCell, Axes
<1> HIDE DEF c
<1>3. \A i \in Axes : /\ p[i] \in 0 .. cd.size[i] - 1 /\ p[i] \in Nat
                      /\ cd.size[i] \in Nat
                      /\ Within(cd.cellSize, cd.offset[i])
  <2>1. cd.size \in Nat \X Nat
    BY DEF Sound, Drawers
  <2>2. p[1] \in 0 .. cd.size[1] - 1 /\ p[2] \in 0 .. cd.size[2] - 1
    BY DEF Pixels
  <2> QED  BY <2>1, <2>2 DEF Sound, Axes
<1>4. \A i \in Axes : p[i] \in filled(cd, c, i) <=>
                          /\ p[i] < World(cd.cellSize)
                          /\ UnderAxis(cd.cellSize, cd.offset[i], p[i]) = c[i]
  <2> TAKE i \in Axes
  <2>1. filled(cd, c, i) = SquareAxis(cd.cellSize, cd.offset[i], c[i])
    BY DEF filled, SquareAxis, worldSize, World
  <2> QED  BY <1>2, <1>3, <2>1, FilledUnder
<1>5. InDrawnWorld(cd, p) <=> \A i \in Axes : p[i] < World(cd.cellSize)
  BY DEF InDrawnWorld, worldSize, World
<1>6. CellUnder(cd, p) = c <=> \A i \in Axes : UnderAxis(cd.cellSize, cd.offset[i], p[i]) = c[i]
  <2>1. CellUnder(cd, p) = [i \in Axes |-> UnderAxis(cd.cellSize, cd.offset[i], p[i])]
    BY DEF CellUnder, UnderAxis
  <2>2. c \in [Axes -> 0 .. axisLength - 1]
    <3>1. c = [i \in Axes |-> IF i = 1 THEN cell.x ELSE cell.y]
      BY <1>1 DEF Axes
    <3> QED  BY <1>2, <3>1
  <2> QED  BY <2>1, <2>2
<1>7. covers(cd, c, p) <=> InDrawnWorld(cd, p) /\ CellUnder(cd, p) = c
  BY <1>4, <1>5, <1>6 DEF covers
<1>8. ASSUME covers(cd, c, p), Fresh(cd)
      PROVE  coordIsVisible(cd, c)
  <2>1. \A i \in Axes : cd.boundary[i]
                          = calc(cd.size[i], World(cd.cellSize), cd.offset[i], cd.cellSize)
    <3> DEFINE B == [i \in Axes |-> calc(cd.size[i], worldSize(cd), cd.offset[i], cd.cellSize)]
    <3>1. [cd EXCEPT !.boundary = B] = cd
      BY <1>8 DEF Fresh, calcVisibleCoordinates
    <3> HIDE DEF B
    <3>2. cd.boundary = B
      BY <3>1 DEF Sound, Drawers
    <3> QED  BY <3>2 DEF B, worldSize, World
  <2>2. \A i \in Axes : SeenAxis(cd.boundary[i], c[i])
    <3> TAKE i \in Axes
    <3>1. p[i] < World(cd.cellSize) /\ UnderAxis(cd.cellSize, cd.offset[i], p[i]) = c[i]
      BY <1>4, <1>8 DEF covers
    <3>2. SeenAxis(calc(cd.size[i], World(cd.cellSize), cd.offset[i], cd.cellSize),
                   UnderAxis(cd.cellSize, cd.offset[i], p[i]))
      BY <1>3, <3>1, VisibleAxis
    <3> QED  BY <2>1, <3>1, <3>2
  <2> QED  BY <2>2 DEF coordIsVisible, SeenAxis
<1> QED  BY <1>7, <1>8 DEF c

\* Draw puts the torus on the canvas: never a cell that is not there, and none
\* is missing unless the boundaries are those of another size.
LEMMA DrawIs ==
  ASSUME NEW cd, Sound(cd), output.cells \in Seq(WorldCell), Alike(output.cells)
  PROVE  LET d == Draw(cd, output.cells)
         IN /\ DOMAIN d = Pixels(cd)
            /\ \A p \in Pixels(cd) : \/ d[p] = Redrawn(cd, p)
                                     \/ d[p] = Blank /\ ~Fresh(cd)
<1> DEFINE cells == output.cells
           last(p) == {i \in DOMAIN cells : /\ coordIsVisible(cd, <<cells[i].x, cells[i].y>>)
                                            /\ covers(cd, <<cells[i].x, cells[i].y>>, p)}
           d == Draw(cd, cells)
<1>1. d = [p \in Pixels(cd) |->
              IF last(p) = {} THEN Blank
              ELSE cells[CHOOSE i \in last(p) : \A j \in last(p) : j <= i].colour]
  BY DEF Draw
<1> HIDE DEF d
<1>2. ASSUME NEW p \in Pixels(cd)
      PROVE  d[p] = Redrawn(cd, p) \/ (d[p] = Blank /\ ~Fresh(cd))
  <2> DEFINE L == last(p)
             here == {i \in DOMAIN cells : <<cells[i].x, cells[i].y>> = CellUnder(cd, p)}
             top == CHOOSE i \in L : \A j \in L : j <= i
             any == CHOOSE i \in here : TRUE
  <2>1. d[p] = IF L = {} THEN Blank ELSE cells[top].colour
    BY <1>1
  <2>2. Redrawn(cd, p) = IF here = {} \/ ~InDrawnWorld(cd, p) THEN Blank ELSE cells[any].colour
    BY DEF Redrawn
  <2>3. \A i \in DOMAIN cells : cells[i] \in WorldCell /\ Place(cells[i]) = <<cells[i].x, cells[i].y>>
    BY DEF Place
  <2>4. \A i \in L : i \in here /\ InDrawnWorld(cd, p)
    <3> TAKE i \in L
    <3>1. i \in DOMAIN cells /\ covers(cd, Place(cells[i]), p)
      BY <2>3
    <3>2. InDrawnWorld(cd, p) /\ CellUnder(cd, p) = Place(cells[i])
      BY <2>3, <3>1, CoversIs
    <3> QED  BY <2>3, <3>1, <3>2
  <2>5. ASSUME Fresh(cd), InDrawnWorld(cd, p), NEW i \in here
        PROVE  i \in L
    <3>1. i \in DOMAIN cells /\ CellUnder(cd, p) = Place(cells[i])
      BY <2>3
    <3>2. covers(cd, Place(cells[i]), p) /\ coordIsVisible(cd, Place(cells[i]))
      BY <2>3, <2>5, <3>1, CoversIs
    <3> QED  BY <2>3, <3>1, <3>2
  <2>6. CASE L = {}
    <3>1. d[p] = Blank
      BY <2>1, <2>6
    <3>2. CASE here = {} \/ ~InDrawnWorld(cd, p)
      <4> HIDE DEF here
      <4> QED  BY <2>2, <3>1, <3>2
    <3>3. CASE ~(here = {} \/ ~InDrawnWorld(cd, p))
      <4>1. PICK i \in here : TRUE
        BY <3>3
      <4>2. ~Fresh(cd)
        <5> HIDE DEF here, L
        <5> QED  BY <2>5, <2>6, <3>3, <4>1
      <4> QED  BY <3>1, <4>2
    <3> QED  BY <3>2, <3>3
  <2>7. CASE L # {}
    <3>1. top \in L
      <4>1. \E i \in L : \A j \in L : j <= i
        <5>1. L \in SUBSET (1 .. Len(cells)) /\ Len(cells) \in Nat
          OBVIOUS
        <5> HIDE DEF L, last
        <5> QED  BY <2>7, <5>1, LastIs
      <4> HIDE DEF L, last
      <4> QED  BY <4>1
    <3>2. top \in here /\ InDrawnWorld(cd, p)
      <4> HIDE DEF L, here, top
      <4> QED  BY <2>4, <3>1
    <3>3. any \in here
      <4> HIDE DEF here, top
      <4> QED  BY <3>2
    <3>4. cells[top].colour = cells[any].colour
      <4> HIDE DEF top, any
      <4>1. top \in DOMAIN cells /\ any \in DOMAIN cells
        BY <3>2, <3>3
      <4>2. Place(cells[top]) = Place(cells[any])
        BY <2>3, <3>2, <3>3, <4>1
      <4> QED  BY <4>1, <4>2 DEF Alike
    <3>5. here # {}
      BY <3>3
    <3> HIDE DEF L, here, top, any
    <3> QED  BY <2>1, <2>2, <2>7, <3>2, <3>4, <3>5
  <2> QED  BY <2>6, <2>7
<1>3. DOMAIN d = Pixels(cd)
  BY <1>1
<1> QED  BY <1>2, <1>3 DEF d

-----------------------------------------------------------------------------
\* The invariant.  On the socket are the bytes of worlds and of requests; the
\* frame asked for is the one that can be cancelled; and with none asked for, the
\* canvas is what Draw makes of the newest output.
ProperWorld(cells) == cells \in Seq(WorldCell) /\ Alike(cells)

Servers == {s \in [playing : BOOLEAN, speed : Nat, cells : Seq(WorldCell)] : Alike(s.cells)}

OutputBytes == {b \in [playing : BOOLEAN, speed : Nat, count : Nat, cells : Seq(WorldCell),
                       len : Nat] : b.count <= Len(b.cells) /\ Alike(b.cells)}

UserCell == {c \in WorldCell : c.colour = Colour}

CommandBytes == [type : {"Command"}, cmd : {"Play", "Pause", "Clear"}, len : Nat]
SpeedBytes == [type : {"SetSpeed"}, speed : Nat, len : Nat]
CellsBytes == {b \in [type : {"SetCells"}, count : Nat, cells : Seq(UserCell), len : Nat] :
                   b.count <= Len(b.cells)}
Requests == CommandBytes \cup SpeedBytes \cup CellsBytes

Socket == /\ server \in Servers
          /\ down \in Seq(OutputBytes)
          /\ up \in Seq(Requests) /\ Len(up) <= 1
          /\ outputs \in Nat /\ outputs + Len(up) <= MaxOutputs

Newest == ProperWorld(output.cells) /\ output.count = Len(output.cells)

Worker == /\ settled \in BOOLEAN /\ connected \in BOOLEAN
          /\ drawer # NoDrawer => Sound(drawer)
          /\ settled => drawer # NoDrawer

Painted == /\ drawHandle \in Handles \cup {NoHandle}
           /\ frames \subseteq {drawHandle} /\ frames \subseteq Handles
           /\ canvas # NoDrawer => DOMAIN canvas \subseteq Nat \X Nat
           /\ settled /\ drawHandle = NoHandle => canvas = Draw(drawer, output.cells)

IInv == Socket /\ Newest /\ Worker /\ Painted

-----------------------------------------------------------------------------
\* The bytes of worlds and requests.
LEMMA WorldCellFits ==
  ASSUME NEW c \in WorldCell PROVE cellBytes(c) = c /\ c \in FitCell
<1>1. axisLength <= Two16 /\ axisLength \in Nat /\ Two16 \in Nat
  <2>1. MaxUint16 + 1 = Two16
    BY SMT DEF MaxUint16, Two16
  <2> QED  BY <2>1, Width, Widths
<1>2. c \in FitCell
  BY <1>1 DEF WorldCell, FitCell
<1> QED  BY <1>2, CellRoundTrip

LEMMA EncodedCells ==
  ASSUME NEW cells \in Seq(WorldCell)
  PROVE  encodeCells(cells, Len(cells)) = cells
<1>1. Len(cells) \in Nat /\ cells \in [1 .. Len(cells) -> WorldCell]
  BY LenProperties
<1>2. \A i \in 1 .. Len(cells) : cellBytes(cells[i]) = cells[i]
  BY <1>1, WorldCellFits
<1> QED  BY <1>1, <1>2 DEF encodeCells

LEMMA Cut ==
  ASSUME NEW S, NEW cells \in Seq(S), NEW n \in Nat, n <= Len(cells)
  PROVE  /\ SubSeq(cells, 1, n) \in Seq(S) /\ Len(SubSeq(cells, 1, n)) = n
         /\ \A i \in 1 .. n : i \in DOMAIN cells /\ SubSeq(cells, 1, n)[i] = cells[i]
<1> DEFINE d == SubSeq(cells, 1, n)
<1>1. Len(cells) \in Nat /\ \A i \in 1 .. Len(cells) : cells[i] \in S
  BY LenProperties
<1>2. \A i \in 1 .. n : cells[i] \in S
  BY <1>1
<1> HIDE DEF d
<1>3. /\ d \in Seq(S)
      /\ Len(d) = IF 1 <= n THEN n - 1 + 1 ELSE 0
      /\ \A i \in 1 .. n - 1 + 1 : d[i] = cells[1 + i - 1]
  BY <1>1, <1>2, SubSeqProperties DEF d
<1>4. Len(d) = n /\ \A i \in 1 .. n : d[i] = cells[i] /\ i \in DOMAIN cells
  <2>1. Len(d) = n
    BY <1>3
  <2>2. \A i \in 1 .. n : 1 + i - 1 = i /\ i \in 1 .. n - 1 + 1 /\ i \in 1 .. Len(cells)
    BY <1>1
  <2>3. DOMAIN cells = 1 .. Len(cells)
    BY LenProperties
  <2> QED  BY <1>3, <2>1, <2>2, <2>3
<1> QED  BY <1>3, <1>4 DEF d

LEMMA Low24Below == \A v \in Nat : low24(v) \in Nat /\ low24(v) <= v
BY SMT DEF low24, Two24

LEMMA OutputIsBytes ==
  ASSUME NEW s \in Servers PROVE encodeOutput(Out(s)) \in OutputBytes
<1> DEFINE n == Len(s.cells)
           b == encodeOutput(Out(s))
<1>1. /\ s.cells \in Seq(WorldCell) /\ Alike(s.cells) /\ n \in Nat /\ s.speed \in Nat
      /\ s.playing \in BOOLEAN
  BY LenProperties DEF Servers
<1>2. low16(s.speed) \in Nat
  BY <1>1, Low16Below
<1>3. low24(n) \in Nat /\ low24(n) <= n
  BY <1>1, Low24Below
<1>4. EncodeSize(Out(s)) \in Nat
  BY <1>1 DEF EncodeSize, Out, cellsOffset, bytesPerCell
<1>5. /\ b.playing = s.playing /\ b.speed = low16(s.speed) /\ b.count = low24(n)
      /\ b.cells = s.cells /\ b.len = EncodeSize(Out(s))
      /\ b = [playing |-> b.playing, speed |-> b.speed, count |-> b.count, cells |-> b.cells,
              len |-> b.len]
  BY <1>1, EncodedCells DEF encodeOutput, Out
<1> HIDE DEF b, n
<1>6. b \in [playing : BOOLEAN, speed : Nat, count : Nat, cells : Seq(WorldCell), len : Nat]
  BY <1>1, <1>2, <1>3, <1>4, <1>5
<1>7. b.count <= Len(b.cells) /\ Alike(b.cells)
  BY <1>1, <1>3, <1>5 DEF n
<1> QED  BY <1>6, <1>7 DEF OutputBytes, b

LEMMA ReadIs ==
  ASSUME NEW b \in OutputBytes, decodeOutput(b).ok
  PROVE  LET m == decodeOutput(b).msg
         IN ProperWorld(m.cells) /\ m.count = Len(m.cells)
<1> DEFINE d == SubSeq(b.cells, 1, b.count)
<1>1. /\ b.cells \in Seq(WorldCell) /\ b.count \in Nat /\ b.count <= Len(b.cells)
      /\ Alike(b.cells)
  BY DEF OutputBytes
<1>2. decodeOutput(b).msg = [playing |-> b.playing, speed |-> b.speed, count |-> b.count,
                             cells |-> d]
  <2>1. decodeOutput(b) # Error
    BY DEF Error
  <2>2. decodeOutput(b) = Decoded([playing |-> b.playing, speed |-> b.speed,
                                   count |-> b.count, cells |-> d])
    BY <2>1, Zenon DEF decodeOutput, decodeCells
  <2> QED  BY <2>2 DEF Decoded
<1> HIDE DEF d
<1>3. /\ d \in Seq(WorldCell) /\ Len(d) = b.count
      /\ \A i \in 1 .. b.count : i \in DOMAIN b.cells /\ d[i] = b.cells[i]
  BY <1>1, Cut DEF d
<1>4. DOMAIN d = 1 .. b.count
  BY <1>3, LenProperties
<1>5. Alike(d)
  BY <1>1, <1>3, <1>4 DEF Alike
<1> QED  BY <1>2, <1>3, <1>5 DEF ProperWorld

LEMMA UserCells ==
  ASSUME NEW cells \in Seq(UserCell)
  PROVE  cells \in Seq(WorldCell) /\ \A i \in DOMAIN cells : cells[i].colour = Colour
<1>1. \A i \in 1 .. Len(cells) : cells[i].colour = Colour
  BY LenProperties DEF UserCell
<1>2. cells \in Seq(WorldCell)
  BY SeqMonotonic DEF UserCell
<1> QED  BY <1>1, <1>2, LenProperties

\* A request, decoded.
LEMMA RequestIs ==
  ASSUME NEW b \in Requests, DecodeClientMessage(b).ok
  PROVE  LET m == DecodeClientMessage(b).msg
         IN \/ m.type = "Command" /\ m.cmd \in {"Play", "Pause", "Clear"}
            \/ m.type = "SetSpeed" /\ m.speed \in Nat
            \/ m.type = "SetCells" /\ m.cells \in Seq(UserCell)
<1> DEFINE D == DecodeClientMessage(b)
<1>1. D # Error
  BY DEF Error
<1>2. CASE b \in CommandBytes
  <2>1. b.type = "Command" /\ b.cmd \in {"Play", "Pause", "Clear"}
    BY <1>2 DEF CommandBytes
  <2>2. D = decodeCommand(b)
    BY <2>1 DEF DecodeClientMessage
  <2>3. D = Decoded([type |-> "Command", cmd |-> b.cmd])
    BY <1>1, <2>2, Zenon DEF decodeCommand
  <2> QED  BY <2>1, <2>3 DEF Decoded
<1>3. CASE b \in SpeedBytes
  <2>1. b.type = "SetSpeed" /\ b.speed \in Nat
    BY <1>3 DEF SpeedBytes
  <2>2. D = decodeSetSpeed(b)
    BY <2>1 DEF DecodeClientMessage
  <2>3. D = Decoded([type |-> "SetSpeed", speed |-> b.speed])
    BY <1>1, <2>2, Zenon DEF decodeSetSpeed
  <2> QED  BY <2>1, <2>3 DEF Decoded
<1>4. CASE b \in CellsBytes
  <2>1. /\ b.type = "SetCells" /\ b.cells \in Seq(UserCell) /\ b.count \in Nat
        /\ b.count <= Len(b.cells)
    BY <1>4 DEF CellsBytes
  <2>2. D = decodeSetCells(b)
    BY <2>1 DEF DecodeClientMessage
  <2>3. D = Decoded([type |-> "SetCells", count |-> b.count, cells |-> decodeCells(b, b.count)])
    BY <1>1, <2>2, Zenon DEF decodeSetCells
  <2>4. decodeCells(b, b.count) \in Seq(UserCell)
    BY <2>1, Cut DEF decodeCells
  <2> QED  BY <2>3, <2>4 DEF Decoded
<1> QED  BY <1>2, <1>3, <1>4 DEF Requests

\* What the server makes of it is a world again, for the cells of a request have
\* one colour and are refused where one lives.
LEMMA HandledIs ==
  ASSUME server \in Servers, NEW b \in Requests, DecodeClientMessage(b).ok
  PROVE  Handled(DecodeClientMessage(b).msg) \in Servers
<1> DEFINE m == DecodeClientMessage(b).msg
<1>1. \/ m.type = "Command" /\ m.cmd \in {"Play", "Pause", "Clear"}
      \/ m.type = "SetSpeed" /\ m.speed \in Nat
      \/ m.type = "SetCells" /\ m.cells \in Seq(UserCell)
  BY RequestIs
<1> HIDE DEF m
<1> USE DEF Servers
<1>2. CASE m.type = "Command"
  <2>1. Handled(m) = IF m.cmd = "Clear" THEN [server EXCEPT !.cells = <<>>]
                     ELSE [server EXCEPT !.playing = (m.cmd = "Play")]
    BY <1>2 DEF Handled
  <2>2. [server EXCEPT !.cells = <<>>] \in Servers
    <3>1. <<>> \in Seq(WorldCell) /\ Alike(<<>>)
      BY DEF Alike
    <3> QED  BY <3>1
  <2>3. [server EXCEPT !.playing = (m.cmd = "Play")] \in Servers
    <3>1. (m.cmd = "Play") \in BOOLEAN
      OBVIOUS
    <3> QED  BY <3>1
  <2> QED  BY <2>1, <2>2, <2>3 DEF m
<1>3. CASE m.type = "SetSpeed"
  <2>1. Handled(m) = [server EXCEPT !.speed = m.speed] /\ m.speed \in Nat
    BY <1>1, <1>3 DEF Handled
  <2> QED  BY <2>1 DEF m
<1>4. CASE m.type = "SetCells"
  <2> DEFINE old == server.cells
             new == m.cells
             both == old \o new
  <2>1. Handled(m) = IF \E i \in DOMAIN m.cells : Place(m.cells[i]) \in Alive
                     THEN server ELSE [server EXCEPT !.cells = @ \o m.cells]
    BY <1>4 DEF Handled
  <2>2. /\ old \in Seq(WorldCell) /\ Alike(old) /\ new \in Seq(WorldCell)
        /\ \A i \in DOMAIN new : new[i].colour = Colour
    BY <1>1, <1>4, UserCells
  <2>3. CASE ~\E i \in DOMAIN new : Place(new[i]) \in Alive
    <3>1. \A i \in DOMAIN new, j \in DOMAIN old : Place(new[i]) # Place(old[j])
      BY <2>3 DEF Alive
    <3> HIDE DEF old, new
    <3>2. /\ both \in Seq(WorldCell) /\ Len(both) = Len(old) + Len(new)
          /\ \A i \in 1 .. Len(both) : both[i] = IF i <= Len(old) THEN old[i]
                                                 ELSE new[i - Len(old)]
      BY <2>2, ConcatProperties
    <3>3. /\ Len(old) \in Nat /\ Len(new) \in Nat /\ DOMAIN both = 1 .. Len(both)
          /\ DOMAIN old = 1 .. Len(old) /\ DOMAIN new = 1 .. Len(new)
      BY <2>2, <3>2, LenProperties
    <3>4. \A i \in DOMAIN both : \/ i \in DOMAIN old /\ both[i] = old[i]
                                 \/ \E k \in DOMAIN new : both[i] = new[k]
      <4> SUFFICES ASSUME NEW i \in DOMAIN both, i \notin DOMAIN old
                   PROVE  \E k \in DOMAIN new : both[i] = new[k]
        BY <3>2, <3>3
      <4>1. i - Len(old) \in DOMAIN new /\ both[i] = new[i - Len(old)]
        BY <3>2, <3>3
      <4> QED  BY <4>1
    <3> HIDE DEF both
    <3>5. Alike(both)
      <4> SUFFICES ASSUME NEW i \in DOMAIN both, NEW j \in DOMAIN both,
                          Place(both[i]) = Place(both[j])
                   PROVE  both[i].colour = both[j].colour
        BY DEF Alike
      <4>1. CASE i \in DOMAIN old /\ both[i] = old[i] /\ j \in DOMAIN old /\ both[j] = old[j]
        BY <2>2, <4>1 DEF Alike
      <4>2. CASE \E k \in DOMAIN new, l \in DOMAIN new : both[i] = new[k] /\ both[j] = new[l]
        BY <2>2, <4>2
      <4> QED  BY <3>1, <3>4, <4>1, <4>2
    <3>6. [server EXCEPT !.cells = both] \in Servers
      BY <3>2, <3>5
    <3> QED  BY <2>1, <2>3, <3>6 DEF both, old, new, m
  <2>4. CASE \E i \in DOMAIN new : Place(new[i]) \in Alive
    BY <2>1, <2>4 DEF m
  <2> QED  BY <2>3, <2>4
<1> QED  BY <1>1, <1>2, <1>3, <1>4

-----------------------------------------------------------------------------
\* What a click sends.
LEMMA Uint16Fits == \A v \in 0 .. MaxUint16 : uint16(v) = v
<1> SUFFICES ASSUME NEW v \in 0 .. MaxUint16 PROVE uint16(v) = v
  OBVIOUS
<1> DEFINE N == MaxUint16 + 1
<1>1. N \in Nat \ {0} /\ v \in 0 .. N - 1
  BY Width
<1> HIDE DEF N
<1>2. v = N * 0 + v
  BY <1>1
<1>3. v % N = v
  BY <1>1, <1>2, DivIs
<1> QED  BY <1>3 DEF uint16, N

LEMMA MaskIs ==
  ASSUME NEW v \in Int PROVE wrapMask(v) \in 0 .. axisLength - 1
BY Width, DivMod DEF wrapMask

LEMMA ClickIn ==
  ASSUME NEW cd, Sound(cd), NEW p \in Pixels(cd), NEW i \in Axes
  PROVE  /\ PixelToCellCoord(cd, p)[i] = ClickAxis(cd.cellSize, cd.offset[i], p[i])
         /\ PixelToCellCoord(cd, p)[i] \in 0 .. axisLength - 1
         /\ p[i] \in Nat /\ Within(cd.cellSize, cd.offset[i])
<1>1. p[i] \in Nat /\ Within(cd.cellSize, cd.offset[i])
  <2>1. cd.size \in Nat \X Nat
    BY DEF Sound, Drawers
  <2>2. p[1] \in 0 .. cd.size[1] - 1 /\ p[2] \in 0 .. cd.size[2] - 1
    BY DEF Pixels
  <2> QED  BY <2>1, <2>2 DEF Sound, Axes
<1>2. PixelToCellCoord(cd, p)[i] = ClickAxis(cd.cellSize, cd.offset[i], p[i])
  BY DEF PixelToCellCoord, ClickAxis
<1>3. p[i] \in Int /\ p[i] - 1 \in Int
  BY <1>1
<1>4. /\ UnderAxis(cd.cellSize, cd.offset[i], p[i]) \in 0 .. axisLength - 1
      /\ UnderAxis(cd.cellSize, cd.offset[i], p[i] - 1) \in 0 .. axisLength - 1
  BY <1>1, <1>3, UnderIs
<1>5. \/ ClickAxis(cd.cellSize, cd.offset[i], p[i]) = UnderAxis(cd.cellSize, cd.offset[i], p[i])
      \/ ClickAxis(cd.cellSize, cd.offset[i], p[i]) = UnderAxis(cd.cellSize, cd.offset[i], p[i] - 1)
  BY <1>1, <1>3, ClickIs
<1> QED  BY <1>1, <1>2, <1>4, <1>5

LEMMA NewCellIs ==
  ASSUME NEW x \in 0 .. axisLength - 1, NEW y \in 0 .. axisLength - 1
  PROVE  NewCell(x, y) \in UserCell
<1>1. 0 \in 0 .. Two16 - 1 /\ Colour \in 0 .. Two24 - 1
  BY PageAssumption, Widths
<1> QED  BY <1>1 DEF NewCell, UserCell, WorldCell

LEMMA CellsAtIs ==
  ASSUME NEW origin, \A i \in Axes : origin[i] \in 0 .. axisLength - 1
  PROVE  cellsAt(origin) \in Seq(UserCell) /\ Len(cellsAt(origin)) = 1
<1>1. /\ origin[1] + 0 \in 0 .. axisLength - 1 /\ origin[2] + 0 \in 0 .. axisLength - 1
      /\ origin[1] + 0 \in 0 .. MaxUint16 /\ origin[2] + 0 \in 0 .. MaxUint16
  BY Width DEF Axes
<1>2. /\ uint16(origin[1] + 0) \in 0 .. axisLength - 1
      /\ uint16(origin[2] + 0) \in 0 .. axisLength - 1
  BY <1>1, Uint16Fits
<1>3. NewCell(uint16(origin[1] + 0), uint16(origin[2] + 0)) \in UserCell
  BY <1>2, NewCellIs
<1> HIDE DEF UserCell
<1> QED  BY <1>3 DEF cellsAt

\* The coordinates of a pattern's cells are taken round the torus.
SentAt(pattern, origin, c) == [i \in Axes |-> (origin[i] + c[i] - pattern.center[i]) % axisLength]

LEMMA SumIs ==
  ASSUME NEW o \in Int, NEW m \in Int, NEW c \in Int
  PROVE  SumCoords(uint16(o - m), c) = (o + c - m) % axisLength
<1> DEFINE v == o - m
           L == axisLength
           r == v % L
           q == v \div L
<1>1. v \in Int /\ L \in Nat \ {0}
  BY Width
<1> HIDE DEF L
<1>2. wrapMask(uint16(v)) = r
  <2> HIDE DEF v
  <2> QED  BY <1>1, MaskMask DEF wrapMask, L
<1>3. q \in Int /\ r \in Int /\ v = L * q + r
  <2> HIDE DEF v
  <2> QED  BY <1>1, DivMod
<1> HIDE DEF q, r
<1>4. o + c - m = (r + c) + L * q /\ r + c \in Int
  BY <1>1, <1>3
<1>5. ((r + c) + L * q) % L = (r + c) % L
  <2> DEFINE u == r + c
  <2> HIDE DEF u
  <2>1. u \in Int
    BY <1>4 DEF u
  <2>2. (u + L * q) % L = u % L
    BY <1>1, <1>3, <2>1, ModShift
  <2> QED  BY <2>2 DEF u
<1> QED  BY <1>2, <1>4, <1>5 DEF SumCoords, wrapMask, L

LEMMA PatternIs ==
  ASSUME NEW k \in DOMAIN Pictures
  PROVE  /\ Table(Pictures)[k].cells \in Seq(Nat \X Nat)
         /\ Len(Table(Pictures)[k].cells) <= MaxUint16
         /\ Table(Pictures)[k].center \in Nat \X Nat
BY PicturesAssumption

\* A function on 1 .. n is a sequence of length n.
LEMMA FunctionIsSeq ==
  ASSUME NEW K, NEW n \in Nat, NEW f \in [1 .. n -> K]
  PROVE  f \in Seq(K) /\ Len(f) = n
<1>1. f \in Seq(K)
  BY SeqDef
<1>2. 1 .. Len(f) = 1 .. n /\ Len(f) \in Nat
  BY <1>1, LenProperties
<1>3. \A a, b \in Nat : 1 .. a = 1 .. b => a <= b
  <2> SUFFICES ASSUME NEW a \in Nat, NEW b \in Nat, 1 .. a = 1 .. b, ~(a <= b)
               PROVE  FALSE
    OBVIOUS
  <2>1. a \in 1 .. a
    OBVIOUS
  <2>2. a \in 1 .. b
    BY <2>1
  <2> QED  BY <2>2
<1>4. n <= Len(f) /\ Len(f) <= n
  BY <1>2, <1>3
<1> QED  BY <1>1, <1>2, <1>4

LEMMA PatternAtIs ==
  ASSUME NEW pattern, pattern.cells \in Seq(Nat \X Nat), pattern.center \in Nat \X Nat,
         NEW origin, \A i \in Axes : origin[i] \in 0 .. axisLength - 1
  PROVE  LET sent == patternAt(pattern, origin)
         IN /\ sent \in Seq(UserCell) /\ Len(sent) = Len(pattern.cells)
            /\ \A j \in 1 .. Len(pattern.cells) :
                   /\ pattern.cells[j] \in Nat \X Nat
                   /\ <<sent[j].x, sent[j].y>> = SentAt(pattern, origin, pattern.cells[j])
<1> DEFINE n == Len(pattern.cells)
           at(c, i) == SumCoords(uint16(origin[i] - pattern.center[i]), c[i])
           sent == [j \in 1 .. n |-> NewCell(at(pattern.cells[j], 1), at(pattern.cells[j], 2))]
<1>1. n \in Nat /\ DOMAIN pattern.cells = 1 .. n
      /\ \A j \in 1 .. n : pattern.cells[j] \in Nat \X Nat
  BY LenProperties
<1>2. \A c \in Nat \X Nat, i \in Axes :
          /\ at(c, i) = (origin[i] + c[i] - pattern.center[i]) % axisLength
          /\ at(c, i) \in 0 .. axisLength - 1
  <2> SUFFICES ASSUME NEW c \in Nat \X Nat, NEW i \in Axes
               PROVE  /\ at(c, i) = (origin[i] + c[i] - pattern.center[i]) % axisLength
                      /\ at(c, i) \in 0 .. axisLength - 1
    OBVIOUS
  <2>1. origin[i] \in Int /\ c[i] \in Int /\ pattern.center[i] \in Int
    <3>1. origin[i] \in 0 .. axisLength - 1
      OBVIOUS
    <3> QED  BY <3>1, Width, SizeIs
  <2>2. at(c, i) = (origin[i] + c[i] - pattern.center[i]) % axisLength
    BY <2>1, SumIs
  <2> DEFINE v == origin[i] + c[i] - pattern.center[i]
  <2>3. v \in Int
    BY <2>1
  <2> HIDE DEF v
  <2>4. v % axisLength \in 0 .. axisLength - 1
    BY <2>3, Width, DivMod
  <2> QED  BY <2>2, <2>4 DEF v
<1>3. 1 \in Axes /\ 2 \in Axes
  BY DEF Axes
<1>4. patternAt(pattern, origin) = sent
  BY <1>1 DEF patternAt
<1> HIDE DEF at
<1>5. \A j \in 1 .. n : sent[j] \in UserCell
  BY <1>1, <1>2, <1>3, NewCellIs
<1>6. sent \in Seq(UserCell) /\ Len(sent) = n
  <2>1. sent \in [1 .. n -> UserCell] /\ DOMAIN sent = 1 .. n
    BY <1>5
  <2> HIDE DEF sent, n
  <2> QED  BY <1>1, <2>1, FunctionIsSeq
<1>7. ASSUME NEW j \in 1 .. n
      PROVE  <<sent[j].x, sent[j].y>> = SentAt(pattern, origin, pattern.cells[j])
  <2> DEFINE c == pattern.cells[j]
             v(i) == (origin[i] + c[i] - pattern.center[i]) % axisLength
  <2>1. sent[j].x = v(1) /\ sent[j].y = v(2)
    BY <1>1, <1>2, <1>3 DEF NewCell
  <2>2. SentAt(pattern, origin, c) = [i \in Axes |-> v(i)]
    BY DEF SentAt
  <2> HIDE DEF v
  <2>3. [i \in Axes |-> v(i)] = <<v(1), v(2)>>
    BY DEF Axes
  <2> QED  BY <2>1, <2>2, <2>3
<1> QED  BY <1>1, <1>4, <1>6, <1>7

LEMMA SentCells ==
  ASSUME NEW cells \in Seq(UserCell), Len(cells) <= MaxUint16
  PROVE  /\ Encode(SetCells(cells)) \in Requests
         /\ DecodeClientMessage(Encode(SetCells(cells))) = Decoded(SetCells(cells))
<1> DEFINE m == SetCells(cells)
<1>1. cells \in Seq(WorldCell) /\ Len(cells) \in Nat /\ Len(cells) \in 0 .. MaxUint16
  BY UserCells, LenProperties
<1>2. m = [type |-> "SetCells", count |-> Len(cells), cells |-> cells]
  BY <1>1, Uint16Fits DEF SetCells
<1> HIDE DEF m
<1>3. Encode(m) = [type |-> "SetCells", count |-> Len(cells), cells |-> cells,
                   len |-> 3 + Len(cells) * bytesPerCell]
  BY <1>1, <1>2, EncodedCells DEF Encode, encodeSetCells
<1>4. Encode(m) \in CellsBytes
  <2>1. 3 + Len(cells) * bytesPerCell \in Nat
    BY <1>1 DEF bytesPerCell
  <2> QED  BY <1>1, <1>3, <2>1 DEF CellsBytes
<1>5. m \in FitSetCells
  <2>1. WorldCell \subseteq FitCell
    BY WorldCellFits
  <2>2. cells \in Seq(FitCell)
    BY <1>1, <2>1, SeqMonotonic
  <2>3. Len(cells) \in 0 .. Two16 - 1
    <3>1. MaxUint16 + 1 = Two16
      BY SMT DEF MaxUint16, Two16
    <3> QED  BY <1>1, <3>1, Width
  <2> QED  BY <1>2, <2>2, <2>3 DEF FitSetCells
<1>6. DecodeClientMessage(Encode(m)) = Decoded(m)
  BY <1>5, SetCellsRoundTrip
<1> QED  BY <1>4, <1>6 DEF Requests, m

LEMMA SentCommand ==
  ASSUME NEW c \in {"Play", "Pause", "Clear"}
  PROVE  Encode([type |-> "Command", cmd |-> c]) \in Requests
<1> DEFINE m == [type |-> "Command", cmd |-> c]
<1>1. Encode(m) = encodeCommand(m) /\ m.cmd = c
  BY DEF Encode
<1> HIDE DEF m
<1>2. Encode(m) = [type |-> "Command", cmd |-> c, len |-> 2]
  BY <1>1 DEF encodeCommand
<1>3. Encode(m) \in CommandBytes
  BY <1>2 DEF CommandBytes
<1> QED  BY <1>3 DEF Requests, m

LEMMA SentSpeed ==
  ASSUME NEW s \in {1, 2}
  PROVE  Encode([type |-> "SetSpeed", speed |-> uint16(s)]) \in Requests
<1>1. s \in 0 .. MaxUint16
  BY SMT DEF MaxUint16
<1>2. uint16(s) \in Nat
  BY <1>1, Uint16Fits
<1>3. low16(uint16(s)) \in Nat
  BY <1>2, Low16Below
<1> QED  BY <1>3 DEF Encode, encodeSetSpeed, Requests, SpeedBytes

-----------------------------------------------------------------------------
\* The invariant is one.
LEMMA InitIs == Init => IInv
<1> SUFFICES ASSUME Init PROVE IInv
  OBVIOUS
<1>1. PICK w \in Worlds : server = [playing |-> FALSE, speed |-> 1, cells |-> w]
  BY DEF Init
<1>2. server \in Servers
  BY <1>1, WorldsAssumption DEF Servers, Alike
<1>3. down \in Seq(OutputBytes)
  <2>1. encodeOutput(Out(server)) \in OutputBytes
    BY <1>2, OutputIsBytes
  <2> HIDE DEF OutputBytes
  <2> QED  BY <2>1 DEF Init
<1>4. up \in Seq(Requests) /\ Len(up) = 0 /\ outputs = 0 /\ MaxOutputs \in Nat
  BY EmptySeq, PageAssumption DEF Init
<1>5. Newest
  BY EmptySeq DEF Init, Newest, ProperWorld, Alike
<1>6. Worker /\ Painted
  BY DEF Init, Worker, Painted, Handles, NoHandle
<1> QED  BY <1>2, <1>3, <1>4, <1>5, <1>6 DEF IInv, Socket

\* draw asks for one frame and keeps its handle.
LEMMA DrawAsks ==
  ASSUME Painted, draw
  PROVE  drawHandle' \in Handles /\ drawHandle' # NoHandle /\ frames' = {drawHandle'}
         /\ canvas' = canvas
<1> DEFINE handle == CHOOSE h \in Handles : h \notin frames /\ h # drawHandle
<1>1. \E h \in Handles : h \notin frames /\ h # drawHandle
  <2>1. 1 \in Handles /\ 2 \in Handles
    BY DEF Handles
  <2> QED  BY <2>1 DEF Painted
<1>2. handle \in Handles
  BY <1>1
<1>3. drawHandle' = handle /\ frames' = cancel(drawHandle) \cup {handle} /\ canvas' = canvas
  BY DEF draw
<1>4. cancel(drawHandle) = {}
  BY DEF Painted, cancel
<1> HIDE DEF handle
<1> QED  BY <1>2, <1>3, <1>4 DEF Handles, NoHandle

LEMMA DrawKeeps ==
  ASSUME Painted, draw
  PROVE  Painted'
BY DrawAsks DEF Painted

LEMMA readIs == ASSUME IInv, read PROVE IInv'
<1>1. /\ down \in Seq(OutputBytes) /\ down # <<>>
      /\ Head(down) \in OutputBytes /\ Tail(down) \in Seq(OutputBytes)
  BY HeadTailProperties DEF IInv, Socket, read
<1>2. Socket'
  BY <1>1 DEF IInv, Socket, read
<1>3. Worker'
  BY DEF IInv, Worker, read, page
<1>4. CASE readable(Head(down))
  <2>1. output' = decodeOutput(Head(down)).msg /\ draw
    BY <1>4 DEF read
  <2>2. Newest'
    BY <1>1, <1>4, <2>1, ReadIs DEF Newest, readable, ProperWorld
  <2> QED  BY <1>2, <1>3, <2>1, <2>2, DrawKeeps DEF IInv
<1>5. CASE ~readable(Head(down))
  <2>1. UNCHANGED <<output, paint, page>>
    BY <1>5 DEF read
  <2> QED  BY <1>2, <1>3, <2>1 DEF IInv, Newest, ProperWorld, Painted, paint, page
<1> QED  BY <1>4, <1>5

LEMMA drawFuncIs == ASSUME IInv, NEW h \in Handles, drawFunc(h) PROVE IInv'
<1>1. Socket' /\ Newest' /\ Worker'
  BY DEF IInv, Socket, Newest, ProperWorld, Worker, drawFunc, page
<1>2. frames' = {} /\ UNCHANGED <<drawer, settled, output>>
  BY DEF IInv, Painted, drawFunc, page
<1>3. CASE drawer # NoDrawer
  <2>1. canvas' = Draw(drawer, output.cells) /\ drawHandle' = NoHandle
    BY <1>3 DEF drawFunc
  <2>2. Sound(drawer)
    BY <1>3 DEF IInv, Worker
  <2>3. DOMAIN canvas' = Pixels(drawer)
    BY <2>1, <2>2, DrawIs DEF IInv, Newest, ProperWorld
  <2>4. Pixels(drawer) \subseteq Nat \X Nat
    BY <2>2 DEF Pixels, Sound, Drawers
  <2>5. canvas' = Draw(drawer, output.cells)'
    BY <1>2, <2>1
  <2> QED  BY <1>1, <1>2, <2>1, <2>3, <2>4, <2>5 DEF IInv, Painted
<1>4. CASE drawer = NoDrawer
  <2>1. UNCHANGED <<canvas, drawHandle>> /\ ~settled
    BY <1>4 DEF drawFunc, IInv, Worker
  <2> QED  BY <1>1, <1>2, <2>1 DEF IInv, Painted
<1> QED  BY <1>3, <1>4

\* What the page posts, without a message.
LEMMA PostedIs ==
  ASSUME IInv, Posted, draw, settled' = TRUE, Sound(drawer'), UNCHANGED up
  PROVE  IInv'
<1>1. Socket' /\ Newest' /\ connected' \in BOOLEAN
  BY DEF IInv, Socket, Newest, ProperWorld, Worker, Posted
<1>2. Worker'
  <2>1. drawer' # NoDrawer
    BY SoundIsDrawer DEF Sound
  <2> QED  BY <1>1, <2>1 DEF Worker
<1> QED  BY <1>1, <1>2, DrawKeeps DEF IInv

LEMMA handleInitIs ==
  ASSUME IInv, NEW s \in CellSizes, NEW z \in Sizes, handleInit(s, z)
  PROVE  IInv'
<1>1. s \in Nat \ {0} /\ z \in Nat \X Nat
  BY PageAssumption
<1>2. Sound(drawer')
  BY <1>1, NewIs DEF handleInit
<1>3. drawer' # NoDrawer
  BY <1>2, SoundIsDrawer DEF Sound
<1>4. UNCHANGED <<settled, paint, up, output, down, server, connected, outputs>> /\ ~settled
  BY DEF handleInit, Posted, IInv, Worker
<1>5. Socket' /\ Newest' /\ Worker'
  BY <1>2, <1>3, <1>4 DEF IInv, Socket, Newest, ProperWorld, Worker
<1>6. Painted'
  BY <1>4 DEF IInv, Painted, paint
<1> QED  BY <1>5, <1>6 DEF IInv

\* The drawer that a drag, a zoom or a resize leaves.
LEMMA DragIs ==
  ASSUME IInv, NEW d \in Drags, handleCanvasDrag(d)
  PROVE  /\ Posted /\ draw /\ settled /\ UNCHANGED <<settled, up>>
         /\ Sound(drawer') /\ Fresh(drawer') /\ drawer'.size = drawer.size
<1>1. Sound(drawer) /\ d \in Int \X Int
  BY PageAssumption DEF IInv, Worker, handleCanvasDrag
<1>2. d \in [Axes -> Int]
  BY <1>1 DEF Axes
<1>3. drawer' = IncrementOffset(drawer, d)
  BY DEF handleCanvasDrag, Redraws
<1>4. Sound(drawer') /\ Fresh(drawer') /\ drawer'.size = drawer.size
  BY <1>1, <1>2, <1>3, IncrementIs DEF Sound
<1> QED  BY <1>4 DEF handleCanvasDrag, Redraws

LEMMA ZoomIs ==
  ASSUME IInv, NEW s \in CellSizes, NEW m \in Mice, handleCellSizeChange(s, m)
  PROVE  /\ Posted /\ draw /\ settled /\ UNCHANGED <<settled, up>>
         /\ Sound(drawer') /\ Fresh(drawer') /\ drawer'.size = drawer.size
<1>1. Sound(drawer) /\ s \in Nat \ {0} /\ m \in Int \X Int
  BY PageAssumption DEF IInv, Worker, handleCellSizeChange
<1>2. drawer' = SetCellSize(drawer, s, m)
  BY DEF handleCellSizeChange, Redraws
<1>3. Sound(drawer') /\ Fresh(drawer') /\ drawer'.size = drawer.size
  BY <1>1, <1>2, SetCellSizeIs
<1> QED  BY <1>3 DEF handleCellSizeChange, Redraws

LEMMA ResizeIs ==
  ASSUME IInv, NEW z \in Sizes, handleResize(z)
  PROVE  /\ Posted /\ draw /\ settled /\ UNCHANGED <<settled, up>>
         /\ Sound(drawer') /\ (drawer'.size = drawer.size => Fresh(drawer'))
<1>1. Sound(drawer) /\ z \in Nat \X Nat
  BY PageAssumption DEF IInv, Worker, handleResize
<1>2. drawer' = SetDimensions(drawer, z)
  BY DEF handleResize, Redraws
<1>3. Sound(drawer') /\ drawer'.size = z /\ (z = drawer.size => Fresh(drawer'))
  BY <1>1, <1>2, SetDimensionsIs
<1> QED  BY <1>3 DEF handleResize, Redraws

\* A message is sent.
LEMMA SendsIs ==
  ASSUME IInv, NEW does, NEW m, Encode(m) \in Requests, Sends(does, m)
  PROVE  IInv'
<1>1. /\ up = <<>> /\ outputs < MaxOutputs /\ up' = Append(up, Encode(m))
      /\ UNCHANGED <<drawer, settled, paint, output, down, server, connected, outputs>>
  BY DEF Sends, Posted, page
<1>2. up' \in Seq(Requests) /\ Len(up') = 1
  <2> HIDE DEF Requests
  <2> QED  BY <1>1 DEF Requests
<1>3. outputs \in Nat /\ outputs + Len(up') <= MaxOutputs
  BY <1>1, <1>2, PageAssumption DEF IInv, Socket
<1>4. Socket'
  BY <1>1, <1>2, <1>3 DEF IInv, Socket
<1>5. Newest' /\ Worker'
  BY <1>1 DEF IInv, Newest, ProperWorld, Worker
<1>6. Painted'
  BY <1>1 DEF IInv, Painted, paint
<1> QED  BY <1>4, <1>5, <1>6 DEF IInv

LEMMA PatternSent ==
  ASSUME IInv, settled, NEW p \in Pixels(drawer), NEW i \in DOMAIN Pictures
  PROVE  LET sent == patternAt(Table(Pictures)[i], PixelToCellCoord(drawer, p))
         IN sent \in Seq(UserCell) /\ Len(sent) <= MaxUint16
<1>1. Sound(drawer)
  BY DEF IInv, Worker
<1>2. \A j \in Axes : PixelToCellCoord(drawer, p)[j] \in 0 .. axisLength - 1
  BY <1>1, ClickIn
<1> QED  BY <1>2, PatternIs, PatternAtIs

LEMMA onMessageIs == ASSUME IInv, onMessage PROVE IInv'
<1>1. CASE \E s \in CellSizes, z \in Sizes : handleInit(s, z)
  BY <1>1, handleInitIs
<1>2. CASE handleSettingsChange
  <2>1. Sound(drawer) /\ drawer' = drawer /\ Posted /\ draw /\ settled' = TRUE /\ UNCHANGED up
    BY <1>2 DEF handleSettingsChange, IInv, Worker
  <2> QED  BY <2>1, PostedIs
<1>3. CASE \E d \in Drags : handleCanvasDrag(d)
  BY <1>3, DragIs, PostedIs
<1>4. CASE \E s \in CellSizes, m \in Mice : handleCellSizeChange(s, m)
  BY <1>4, ZoomIs, PostedIs
<1>5. CASE \E z \in Sizes : handleResize(z)
  BY <1>5, ResizeIs, PostedIs
<1>6. CASE \E c \in {"Play", "Pause", "Clear"} : handleCommand(c)
  BY <1>6, SentCommand, SendsIs DEF handleCommand
<1>7. CASE \E s \in {1, 2} : handleSetSpeed(s)
  BY <1>7, SentSpeed, SendsIs DEF handleSetSpeed
<1>8. ASSUME settled, NEW p \in Pixels(drawer), handleSetCells(p)
      PROVE  IInv'
  <2> DEFINE cells == cellsAt(PixelToCellCoord(drawer, p))
  <2>1. Sound(drawer)
    BY <1>8 DEF IInv, Worker
  <2>2. \A j \in Axes : PixelToCellCoord(drawer, p)[j] \in 0 .. axisLength - 1
    BY <2>1, ClickIn
  <2>3. cells \in Seq(UserCell) /\ Len(cells) = 1
    BY <2>2, CellsAtIs
  <2>4. Sends("cell", SetCells(cells))
    BY <1>8 DEF handleSetCells
  <2> HIDE DEF cells
  <2>5. Len(cells) <= MaxUint16
    BY <2>3, SMT DEF MaxUint16
  <2>6. Encode(SetCells(cells)) \in Requests
    BY <2>3, <2>5, SentCells
  <2> QED  BY <2>4, <2>6, SendsIs
<1>9. ASSUME settled, NEW p \in Pixels(drawer), NEW i \in DOMAIN Pictures, handleSetPattern(p, i)
      PROVE  IInv'
  <2> DEFINE cells == patternAt(Table(Pictures)[i], PixelToCellCoord(drawer, p))
  <2>1. cells \in Seq(UserCell) /\ Len(cells) <= MaxUint16
    BY <1>9, PatternSent
  <2>2. Sends("pattern", SetCells(cells))
    BY <1>9 DEF handleSetPattern
  <2> HIDE DEF cells
  <2>3. Encode(SetCells(cells)) \in Requests
    BY <2>1, SentCells
  <2> QED  BY <2>2, <2>3, SendsIs
<1> QED  BY <1>1, <1>2, <1>3, <1>4, <1>5, <1>6, <1>7, <1>8, <1>9 DEF onMessage

\* A change of the server's world and the output that tells of it.
LEMMA ServeIs ==
  ASSUME IInv, NEW new \in Servers, Serve(new),
         up' \in Seq(Requests), Len(up') <= 1, outputs + 1 + Len(up') <= MaxOutputs
  PROVE  IInv'
<1>1. /\ server' = new /\ down' = Append(down, encodeOutput(Out(new))) /\ outputs' = outputs + 1
      /\ UNCHANGED <<drawer, settled, paint, output, connected>>
  BY DEF Serve, page
<1>2. down' \in Seq(OutputBytes)
  <2>1. encodeOutput(Out(new)) \in OutputBytes /\ down \in Seq(OutputBytes)
    BY OutputIsBytes DEF IInv, Socket
  <2> HIDE DEF OutputBytes
  <2> QED  BY <1>1, <2>1
<1>3. outputs' \in Nat /\ outputs' + Len(up') <= MaxOutputs
  <2>1. Len(up') \in Nat
    BY LenProperties
  <2> QED  BY <1>1, <2>1 DEF IInv, Socket
<1>4. Socket'
  BY <1>1, <1>2, <1>3 DEF Socket
<1>5. Newest' /\ Worker'
  BY <1>1 DEF IInv, Newest, ProperWorld, Worker
<1>6. Painted'
  BY <1>1 DEF IInv, Painted, paint
<1> QED  BY <1>4, <1>5, <1>6 DEF IInv

LEMMA serveIs == ASSUME IInv, serve PROVE IInv'
<1> DEFINE D == DecodeClientMessage(Head(up))
<1>1. /\ up \in Seq(Requests) /\ up # <<>> /\ Head(up) \in Requests /\ up' = Tail(up)
      /\ Tail(up) \in Seq(Requests) /\ Len(up') = Len(up) - 1 /\ Len(up) \in Nat
  BY HeadTailProperties, LenProperties DEF IInv, Socket, serve
<1>2. CASE ~D.ok \/ Handled(D.msg) = server
  <2>1. UNCHANGED <<drawer, settled, paint, output, down, server, connected, outputs>>
    BY <1>2 DEF serve, page
  <2>2. Socket'
    BY <1>1, <2>1, PageAssumption DEF IInv, Socket
  <2>3. Newest' /\ Worker'
    BY <2>1 DEF IInv, Newest, ProperWorld, Worker
  <2>4. Painted'
    BY <2>1 DEF IInv, Painted, paint
  <2> QED  BY <2>2, <2>3, <2>4 DEF IInv
<1>3. CASE ~(~D.ok \/ Handled(D.msg) = server)
  <2>1. Serve(Handled(D.msg))
    BY <1>3 DEF serve
  <2>2. Handled(D.msg) \in Servers
    BY <1>1, <1>3, HandledIs DEF IInv, Socket
  <2>3. Len(up') <= 1 /\ outputs + 1 + Len(up') <= MaxOutputs
    BY <1>1, PageAssumption DEF IInv, Socket
  <2> HIDE DEF D
  <2> QED  BY <1>1, <2>1, <2>2, <2>3, ServeIs
<1> QED  BY <1>2, <1>3

LEMMA changeIs == ASSUME IInv, change PROVE IInv'
<1>1. PICK w \in Worlds : Serve([server EXCEPT !.cells = w])
  BY DEF change
<1>2. [server EXCEPT !.cells = w] \in Servers
  <2>1. w \in Seq(WorldCell) /\ Alike(w)
    BY WorldsAssumption DEF Alike
  <2> QED  BY <2>1 DEF IInv, Socket, Servers
<1>3. /\ up' = up /\ up \in Seq(Requests) /\ Len(up) <= 1 /\ Len(up) \in Nat
      /\ outputs + 1 + Len(up) <= MaxOutputs
  BY LenProperties, PageAssumption DEF change, IInv, Socket
<1> QED  BY <1>1, <1>2, <1>3, ServeIs

LEMMA StepIs == IInv /\ [Next]_vars => IInv'
<1> SUFFICES ASSUME IInv, [Next]_vars PROVE IInv'
  OBVIOUS
<1>1. CASE read
  BY <1>1, readIs
<1>2. CASE \E h \in Handles : drawFunc(h)
  BY <1>2, drawFuncIs
<1>3. CASE onMessage
  BY <1>3, onMessageIs
<1>4. CASE disconnect
  <2>1. /\ UNCHANGED <<drawer, settled, paint, output, down, up, server, outputs>>
        /\ connected' \in BOOLEAN
    BY <1>4 DEF disconnect, page
  <2> QED  BY <2>1 DEF IInv, Socket, Newest, ProperWorld, Worker, Painted, paint
<1>5. CASE serve
  BY <1>5, serveIs
<1>6. CASE change
  BY <1>6, changeIs
<1>7. CASE UNCHANGED vars
  BY <1>7 DEF IInv, Socket, Newest, ProperWorld, Worker, Painted, vars
<1> QED  BY <1>1, <1>2, <1>3, <1>4, <1>5, <1>6, <1>7 DEF Next

\* The invariant holds throughout.
LEMMA Invariant == Spec => []IInv
BY InitIs, StepIs, PTL DEF Spec

-----------------------------------------------------------------------------
\* Types, and offsets within one world whatever is dragged, zoomed and resized:
\* canvas_drawer.go's IncrementOffset takes the whole worlds off.
THEOREM Typed == Spec => []TypeOK
<1>1. IInv => TypeOK
  <2> SUFFICES ASSUME IInv PROVE TypeOK
    OBVIOUS
  <2>1. ASSUME drawer # NoDrawer
        PROVE  /\ drawer.cellSize \in Nat \ {0}
               /\ \A i \in Axes : abs(drawer.offset[i]) < worldSize(drawer) * Fraction
               /\ canvas # NoDrawer => \A p \in DOMAIN canvas : p \in Nat \X Nat
    <3>1. Sound(drawer)
      BY <2>1 DEF IInv, Worker
    <3>2. \A i \in Axes : abs(drawer.offset[i]) < worldSize(drawer) * Fraction
      BY <3>1 DEF Sound, Within, worldSize, World
    <3>3. canvas # NoDrawer => \A p \in DOMAIN canvas : p \in Nat \X Nat
      BY DEF IInv, Painted
    <3> QED  BY <3>1, <3>2, <3>3 DEF Sound, Drawers
  <2>2. outputs \in 0 .. MaxOutputs
    <3>1. Len(up) \in Nat
      BY LenProperties DEF IInv, Socket
    <3> QED  BY <3>1, PageAssumption DEF IInv, Socket
  <2> QED  BY <2>1, <2>2 DEF IInv, Newest, Worker, Painted, TypeOK
<1> QED  BY <1>1, Invariant, PTL

\* The browser holds one callback of the worker's at most, and it is the one the
\* worker's draw would cancel.
THEOREM OneFrame == Spec => []OneFrameAsked
<1>1. IInv => OneFrameAsked
  <2> SUFFICES ASSUME IInv PROVE OneFrameAsked
    OBVIOUS
  <2>1. frames = {} \/ frames = {drawHandle}
    BY DEF IInv, Painted
  <2>2. Cardinality({}) = 0 /\ Cardinality({drawHandle}) = 1
    BY FS_EmptySet, FS_Singleton
  <2> QED  BY <2>1, <2>2 DEF OneFrameAsked
<1> QED  BY <1>1, Invariant, PTL

\* With no frame asked for, the canvas shows the newest output on the torus, for
\* every size of world, canvas and cell and every offset: what positions,
\* coordBoundary.calc and fillRect do with the edges adds up.
THEOREM Current == Spec => []CanvasIsCurrent
<1>1. IInv => CanvasIsCurrent
  <2> SUFFICES ASSUME IInv, settled, drawHandle = NoHandle
               PROVE  /\ DOMAIN canvas = Pixels(drawer)
                      /\ \A p \in Pixels(drawer) : \/ canvas[p] = Redrawn(drawer, p)
                                                   \/ canvas[p] = Blank /\ ~Fresh(drawer)
    BY DEF CanvasIsCurrent
  <2>1. Sound(drawer) /\ canvas = Draw(drawer, output.cells)
    BY DEF IInv, Worker, Painted
  <2>2. output.cells \in Seq(WorldCell) /\ Alike(output.cells)
    BY DEF IInv, Newest, ProperWorld
  <2> QED  BY <2>1, <2>2, DrawIs
<1> QED  BY <1>1, Invariant, PTL

\* A click goes to the cell drawn there, but for the first pixel of a square where
\* the offset has a fraction or the cell size is no power of two, which may go to
\* the cell before: PixelToCellCoord's conversions and masks undo what
\* drawCellToBuffer does, and its rounded product is one short at most.
THEOREM ClickHits == Spec => []ClickHitsDrawnCell
<1>1. IInv => ClickHitsDrawnCell
  <2> SUFFICES ASSUME IInv, settled, NEW p \in Pixels(drawer), NEW i \in Axes
               PROVE  LET d == p[i] - int(drawer.offset[i])
                          under(q) == (q \div drawer.cellSize) % axisLength
                          cut == drawer.offset[i] > 0 /\ drawer.offset[i] % Fraction # 0
                      IN \/ PixelToCellCoord(drawer, p)[i] = under(d)
                         \/ /\ d % drawer.cellSize = 0
                            /\ cut \/ ~InverseIsExact(drawer.cellSize)
                            /\ PixelToCellCoord(drawer, p)[i] = under(d - 1)
    BY DEF ClickHitsDrawnCell
  <2> DEFINE s == drawer.cellSize
             off == drawer.offset[i]
             at == p[i]
  <2>1. Sound(drawer)
    BY DEF IInv, Worker
  <2>2. /\ PixelToCellCoord(drawer, p)[i] = ClickAxis(s, off, at)
        /\ at \in Nat /\ Within(s, off)
    BY <2>1, ClickIn
  <2> HIDE DEF s, off, at
  <2>3. at \in Int /\ int(off) \in Int
    BY <2>2, WholePixels
  <2>4. \/ ClickAxis(s, off, at) = UnderAxis(s, off, at)
        \/ /\ (at - int(off)) % s = 0
           /\ (off > 0 /\ off % Fraction # 0) \/ ~InverseIsExact(s)
           /\ ClickAxis(s, off, at) = UnderAxis(s, off, at - 1)
    BY <2>2, <2>3, ClickIs
  <2>5. (at - 1) - int(off) = (at - int(off)) - 1
    BY <2>3
  <2> QED  BY <2>2, <2>4, <2>5, Zenon DEF UnderAxis, s, off, at
<1> QED  BY <1>1, Invariant, PTL

\* Drags, zooms and a resize to the same size reckon the boundaries anew: a resize
\* to another size is all that leaves them stale.
THEOREM Follow == Spec => BoundariesFollow
<1> DEFINE A == settled /\ drawer' # drawer /\ drawer'.size = drawer.size => Fresh(drawer')
<1>1. IInv /\ [Next]_vars => [A]_vars
  <2> SUFFICES ASSUME IInv, Next, settled, drawer' # drawer, drawer'.size = drawer.size
               PROVE  Fresh(drawer')
    OBVIOUS
  <2>1. CASE \E d \in Drags : handleCanvasDrag(d)
    BY <2>1, DragIs
  <2>2. CASE \E s \in CellSizes, m \in Mice : handleCellSizeChange(s, m)
    BY <2>2, ZoomIs
  <2>3. CASE \E z \in Sizes : handleResize(z)
    BY <2>3, ResizeIs
  <2>4. ~\E s \in CellSizes, z \in Sizes : handleInit(s, z)
    BY DEF handleInit, IInv, Worker
  <2>5. ~handleSettingsChange
    BY DEF handleSettingsChange
  <2>6. /\ ~\E c \in {"Play", "Pause", "Clear"} : handleCommand(c)
        /\ ~\E s \in {1, 2} : handleSetSpeed(s)
        /\ ~\E p \in Pixels(drawer) : handleSetCells(p)
        /\ ~\E p \in Pixels(drawer), i \in DOMAIN Pictures : handleSetPattern(p, i)
    BY DEF handleCommand, handleSetSpeed, handleSetCells, handleSetPattern, Sends, page
  <2>7. ~read /\ (~\E h \in Handles : drawFunc(h)) /\ ~disconnect /\ ~serve /\ ~change
    BY DEF read, drawFunc, disconnect, serve, change, Serve, page
  <2> QED  BY <2>1, <2>2, <2>3, <2>4, <2>5, <2>6, <2>7 DEF Next, onMessage
<1> QED  BY <1>1, Invariant, PTL DEF Spec, BoundariesFollow

\* A pattern dropped anywhere, over an edge too, arrives whole, centred and inside
\* the world: handleSetPattern, SumCoords, and the bytes of SetCells.
THEOREM Dropped == Spec => PatternIsDroppedWhole
<1> DEFINE Whole(p, i) ==
               LET pattern == Table(Pictures)[i]
                   c == PixelToCellCoord(drawer, p)
               IN /\ Arrived(up').ok
                  /\ {<<a.x, a.y>> : a \in ToSet(Arrived(up').msg.cells)}
                         = {[j \in Axes |-> (c[j] + q[j] - pattern.center[j]) % axisLength] :
                                q \in ToSet(pattern.cells)}
           A == settled /\ "pattern" \in user.does =>
                    \A p \in Pixels(drawer), i \in DOMAIN Pictures :
                        handleSetPattern(p, i) => Whole(p, i)
<1>1. IInv => A
  <2> SUFFICES ASSUME IInv, settled, NEW p \in Pixels(drawer), NEW i \in DOMAIN Pictures,
                      handleSetPattern(p, i)
               PROVE  Whole(p, i)
    OBVIOUS
  <2> DEFINE pattern == Table(Pictures)[i]
             c == PixelToCellCoord(drawer, p)
             sent == patternAt(pattern, c)
             n == Len(pattern.cells)
  <2>1. sent \in Seq(UserCell) /\ Len(sent) <= MaxUint16
    BY PatternSent
  <2>2. pattern.cells \in Seq(Nat \X Nat) /\ pattern.center \in Nat \X Nat
    BY PatternIs
  <2>3. \A j \in Axes : c[j] \in 0 .. axisLength - 1
    BY ClickIn DEF IInv, Worker
  <2>4. Len(sent) = n /\ \A j \in 1 .. n : <<sent[j].x, sent[j].y>>
                                               = SentAt(pattern, c, pattern.cells[j])
    <3> HIDE DEF pattern, c
    <3> QED  BY <2>2, <2>3, PatternAtIs
  <2>5. DOMAIN sent = 1 .. n /\ DOMAIN pattern.cells = 1 .. n
    <3> HIDE DEF sent, pattern
    <3> QED  BY <2>1, <2>2, <2>4, LenProperties
  <2>6. up = <<>> /\ up' = Append(up, Encode(SetCells(sent)))
    BY DEF handleSetPattern, Sends
  <2> HIDE DEF sent, c, pattern
  <2>7. Last(up') = Encode(SetCells(sent))
    <3> DEFINE e == Encode(SetCells(sent))
    <3> HIDE DEF e
    <3>1. up' = <<e>>
      BY <2>6 DEF e
    <3> QED  BY <3>1 DEF Last, e
  <2>8. Arrived(up') = Decoded(SetCells(sent))
    BY <2>1, <2>7, SentCells DEF Arrived
  <2>9. Arrived(up').ok /\ Arrived(up').msg.cells = sent
    BY <2>8 DEF Decoded, SetCells
  <2>10. {<<a.x, a.y>> : a \in ToSet(sent)} = {SentAt(pattern, c, q) : q \in ToSet(pattern.cells)}
    <3> HIDE DEF n
    <3>1. ToSet(sent) = {sent[j] : j \in 1 .. n}
          /\ ToSet(pattern.cells) = {pattern.cells[j] : j \in 1 .. n}
      BY <2>5 DEF ToSet
    <3> DEFINE at(a) == <<a.x, a.y>>
               on(q) == SentAt(pattern, c, q)
    <3>2. \A j \in 1 .. n : at(sent[j]) = on(pattern.cells[j])
      BY <2>4
    <3> HIDE DEF at, on
    <3>3. {at(a) : a \in {sent[j] : j \in 1 .. n}} = {on(q) : q \in {pattern.cells[j] : j \in 1 .. n}}
      BY <3>2
    <3> QED  BY <3>1, <3>3 DEF at, on
  <2> QED  BY <2>9, <2>10, Zenon DEF SentAt, pattern, c
<1>2. IInv /\ [Next]_vars => [A]_vars
  BY <1>1
<1> QED  BY <1>2, Invariant, PTL DEF Spec, PatternIsDroppedWhole

=============================================================================

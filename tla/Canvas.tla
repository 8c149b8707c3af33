------------------------------- MODULE Canvas -------------------------------
(***************************************************************************)
(* cmd/wasm/canvas: what of the torus is on the canvas, and where.         *)
(* canvasDrawer is the record cd; a pair holds its horizontal and its      *)
(* vertical value.  Offsets are floats in the code: here they are counted  *)
(* in fractions of a pixel, Fraction of them to a pixel.  A division by    *)
(* the cell size is a product with its rounded inverse in the code; it is  *)
(* floored, so that the rounding shows only where the quotient is whole.   *)
(* The grid lines and the cache of colours, which the code never reads,    *)
(* are left out.                                                           *)
(***************************************************************************)
EXTENDS Integers, Sequences

CONSTANTS axisLength,   \* cells of an axis, a power of two
          Fraction,     \* offsets are multiples of 1 / Fraction pixel
          RoundsBelow   \* pairs of a cell size n and an integer q for which the
                        \* float64 product (q * n) * (1 / n) is less than q

MaxUint16 == 65535

\* A power of two that a uint16 holds.
ASSUME CanvasAssumption == /\ axisLength \in 1 .. MaxUint16
                           /\ (MaxUint16 + 1) % axisLength = 0
                           /\ Fraction \in Nat \ {0}

\* Of a power of two the inverse is a float, and a product with it is exact.
InverseIsExact(cellSize) == \E k \in 0 .. 16 : cellSize = 2^k

ASSUME RoundingAssumption ==
    /\ RoundsBelow \subseteq Nat \X Int
    /\ \A b \in RoundsBelow : ~InverseIsExact(b[1])

Blank == 0
Axes == 1 .. 2
uint16(v) == v % (MaxUint16 + 1)

abs(v) == IF v < 0 THEN -v ELSE v

worldSize(cd) == cd.cellSize * axisLength

\* x & wrapMask.
wrapMask(v) == v % axisLength

Pixels(cd) == (0 .. cd.size[1] - 1) \X (0 .. cd.size[2] - 1)

-----------------------------------------------------------------------------
\* coordBoundary.calc, for an axis.  The rounding, which is left out here, makes a
\* boundary one cell wider at most.  Mutant: no cell more than fits.
endShort(start, visible, cellSize) == start + (visible \div cellSize) - 1
endOf(start, visible, cellSize) == start + ((visible + cellSize - 1) \div cellSize)

calc(visible, actual, offset, cellSize) ==
    LET start == (IF offset <= 0 THEN -offset ELSE actual * Fraction - offset)
                     \div (cellSize * Fraction)
        past == endOf(start, visible, cellSize)
        end == IF past >= axisLength THEN past - axisLength ELSE past
        boundary(s, e) == [start |-> s, end |-> e, within |-> s < e]
    IN IF visible >= actual THEN boundary(0, MaxUint16) ELSE boundary(start, end)

calcVisibleCoordinates(cd) ==
    [cd EXCEPT !.boundary =
        [i \in Axes |-> calc(cd.size[i], worldSize(cd), cd.offset[i], cd.cellSize)]]

coordIsVisible(cd, c) ==
    \A i \in Axes :
        LET b == cd.boundary[i]
        IN IF b.within THEN c[i] >= b.start /\ c[i] <= b.end
                       ELSE c[i] >= b.start \/ c[i] <= b.end

-----------------------------------------------------------------------------
\* IncrementOffset takes whole worlds off, the sign of the sum kept.
\* Mutant: one world at most.
reducedOnce(v, n) == IF abs(v) > n THEN (IF v < 0 THEN v + n ELSE v - n) ELSE v
reduced(v, n) == IF v < 0 THEN -((-v) % n) ELSE v % n

\* Mutant: the visible coordinates stay as they were.
IncrementOffsetOnly(cd, d) ==
    [cd EXCEPT !.offset = [i \in Axes |-> reduced(@[i] + d[i], worldSize(cd) * Fraction)]]
IncrementOffset(cd, d) ==
    calcVisibleCoordinates(
        [cd EXCEPT !.offset = [i \in Axes |-> reduced(@[i] + d[i], worldSize(cd) * Fraction)]])

\* SetCellSize keeps what is under the mouse, or under the centre, in place.
\* pivotDoubled is twice the pivot, in pixels, for the centre has halves.
pivotDoubled(cd, mouse) ==
    IF mouse[1] < 0 \/ mouse[2] < 0 THEN cd.size ELSE [i \in Axes |-> 2 * mouse[i]]

\* The product of the distance to the pivot and the scaling, doubled and times
\* the old cell size, so that no division is needed.
zoomed(cd, cellSize, mouse) ==
    [i \in Axes |-> (pivotDoubled(cd, mouse)[i] * Fraction - 2 * cd.offset[i])
                        * (cd.cellSize - cellSize)]

\* Bound: a zoom from a size with an exact inverse, whose result is a multiple of
\* 1 / Fraction pixel.
ZoomIsExact(cd, cellSize, mouse) ==
    /\ InverseIsExact(cd.cellSize)
    /\ \A i \in Axes : zoomed(cd, cellSize, mouse)[i] % (2 * cd.cellSize) = 0

SetCellSize(cd, newSize, mouse) ==
    LET cellSize == IF newSize < 1 THEN 1 ELSE newSize
        delta == [i \in Axes |-> zoomed(cd, cellSize, mouse)[i] \div (2 * cd.cellSize)]
    IN IncrementOffset([cd EXCEPT !.cellSize = cellSize], delta)

\* The boundaries are reckoned from the size that was.
SetDimensions(cd, size) == [calcVisibleCoordinates(cd) EXCEPT !.size = size]

NewCanvasDrawer(cellSize, size) ==
    SetDimensions([cellSize |-> cellSize, offset |-> <<0, 0>>, size |-> <<0, 0>>,
                   boundary |-> [i \in Axes |-> [start |-> 0, end |-> 0, within |-> TRUE]]],
                  size)

-----------------------------------------------------------------------------
\* int() of the float v / n drops its fraction.
quotient(v, n) == IF v < 0 THEN -((-v) \div n) ELSE v \div n
int(offset) == quotient(offset, Fraction)

\* math.Floor of v / Fraction times cellSizeInv: a product that should be whole
\* may come out just below.
floorInv(v, cellSize) ==
    LET q == v \div (cellSize * Fraction)
    IN IF v % (cellSize * Fraction) = 0 /\ <<cellSize, q>> \in RoundsBelow THEN q - 1 ELSE q

\* The conversion of a negative float is left to the platform by Go: on wasm it
\* keeps the low 16 bits.  Mutant: rounded towards zero.
PixelToCellCut(cd, p) ==
    [i \in Axes |->
        wrapMask(quotient(p[i] * Fraction - cd.offset[i], cd.cellSize * Fraction))]
PixelToCellCoord(cd, p) ==
    [i \in Axes |-> wrapMask(uint16(floorInv(p[i] * Fraction - cd.offset[i], cd.cellSize)))]

\* Mutant: the sum is not masked.
SumCoordsPlain(a, b) == uint16(a + b)
SumCoords(a, b) == wrapMask(wrapMask(a) + b)

\* drawCellToBuffer: the pixels of an axis a cell takes, in one piece or, over an
\* edge of the world, in two.
positions(start, cellSize, world) ==
    IF start < 0 /\ start + cellSize > 0
    THEN {[start |-> 0, width |-> start + cellSize], [start |-> world + start, width |-> -start]}
    ELSE IF start < 0 THEN {[start |-> world + start, width |-> cellSize]}
    ELSE IF start >= world THEN {[start |-> start - world, width |-> cellSize]}
    ELSE IF start + cellSize > world
    THEN {[start |-> start, width |-> world - start],
          [start |-> 0, width |-> cellSize - (world - start)]}
    ELSE {[start |-> start, width |-> cellSize]}

\* fillRect writes what of a rectangle is on the canvas.
filled(cd, c, i) ==
    UNION {r.start .. r.start + r.width - 1 :
               r \in positions(c[i] * cd.cellSize + int(cd.offset[i]), cd.cellSize, worldSize(cd))}

covers(cd, c, p) == \A i \in Axes : p[i] \in filled(cd, c, i)

\* Draw: the buffer is cleared, the visible cells are drawn in their order.
Draw(cd, cells) ==
    LET last(p) == {i \in DOMAIN cells : /\ coordIsVisible(cd, <<cells[i].x, cells[i].y>>)
                                         /\ covers(cd, <<cells[i].x, cells[i].y>>, p)}
    IN [p \in Pixels(cd) |->
            IF last(p) = {} THEN Blank
            ELSE cells[CHOOSE i \in last(p) : \A j \in last(p) : j <= i].colour]

=============================================================================

--------------------------- MODULE ProtocolProofs ---------------------------
(***************************************************************************)
(* Proofs about Protocol, for outputs and messages of every length: what   *)
(* fits the fields of the bytes survives the round trip, and a world of    *)
(* one cell more than the count can hold is announced as empty.            *)
(***************************************************************************)
EXTENDS Protocol, SequenceTheorems, TLAPS

\* What the nine bytes of a cell can hold.
FitCell == [x : 0 .. Two16 - 1, y : 0 .. Two16 - 1, colour : 0 .. Two24 - 1,
            age : 0 .. Two16 - 1]

\* Outputs and messages as EncodeSize and Encode meet them, with a count that
\* fits.
FitOutput == {m \in [playing : BOOLEAN, speed : 0 .. Two16 - 1, count : 0 .. Two24 - 1,
                     cells : Seq(FitCell)] : m.count = Len(m.cells)}

FitSetCells == {m \in [type : {"SetCells"}, count : 0 .. Two16 - 1, cells : Seq(FitCell)] :
                    m.count = Len(m.cells)}

-----------------------------------------------------------------------------
\* The widths are positive numbers; nothing else about them matters.
LEMMA Widths == /\ Two16 \in Nat /\ Two16 > 0
                /\ Two24 \in Nat /\ Two24 > 0 /\ Two24 % Two24 = 0
BY SMT DEF Two16, Two24

LEMMA FitsLow16 == \A v \in 0 .. Two16 - 1 : low16(v) = v
BY SMT, Widths DEF low16

LEMMA FitsLow24 == \A v \in 0 .. Two24 - 1 : low24(v) = v
BY SMT, Widths DEF low24

LEMMA Low16Below == \A v \in Nat : low16(v) \in Nat /\ low16(v) <= v
BY SMT DEF low16, Two16

LEMMA CellRoundTrip == \A c \in FitCell : cellBytes(c) = c
<1> SUFFICES ASSUME NEW c \in FitCell PROVE cellBytes(c) = c
  OBVIOUS
<1>1. /\ low16(c.x) = c.x /\ low16(c.y) = c.y /\ low24(c.colour) = c.colour
      /\ low16(c.age) = c.age
  BY FitsLow16, FitsLow24 DEF FitCell
<1> QED  BY <1>1 DEF cellBytes, FitCell

\* All cells, and the whole of what SubSeq cuts out of them.
LEMMA CellsRoundTrip ==
  ASSUME NEW cells \in Seq(FitCell), NEW b, b.cells = encodeCells(cells, Len(cells))
  PROVE  decodeCells(b, Len(cells)) = cells
<1> DEFINE n == Len(cells)
           e == encodeCells(cells, n)
           d == SubSeq(e, 1, n)
<1>1. n \in Nat /\ cells \in [1 .. n -> FitCell] /\ \A i \in 1 .. n : cells[i] \in FitCell
  BY LenProperties
<1>2. \A i \in 1 .. n : e[i] = cells[i]
  BY <1>1, CellRoundTrip DEF encodeCells
<1>3. \A i \in 1 .. n : e[i] \in FitCell
  BY <1>1, <1>2
<1> HIDE DEF n, e, d
<1>4. /\ d \in Seq(FitCell)
      /\ Len(d) = IF 1 <= n THEN n - 1 + 1 ELSE 0
      /\ \A i \in 1 .. n - 1 + 1 : d[i] = e[1 + i - 1]
  BY <1>1, <1>3, SubSeqProperties DEF d
<1>5. Len(d) = n /\ \A i \in 1 .. n : d[i] = cells[i]
  <2>1. Len(d) = n
    BY <1>1, <1>4
  <2>2. \A i \in 1 .. n : 1 + i - 1 = i /\ i \in 1 .. n - 1 + 1
    BY <1>1
  <2> QED  BY <1>2, <1>4, <2>1, <2>2
<1>6. d = cells
  BY <1>1, <1>4, <1>5, SeqEqual DEF n
<1> QED  BY <1>6 DEF decodeCells, d, e, n

\* A saved or sent output is read as it was: state, speed, and cells with
\* their ages and colours.
THEOREM OutputRoundTrip ==
  ASSUME NEW m \in FitOutput PROVE decodeOutput(encodeOutput(m)) = Decoded(m)
<1> DEFINE b == encodeOutput(m)
<1>1. /\ m.playing \in BOOLEAN /\ m.speed \in 0 .. Two16 - 1 /\ m.count \in 0 .. Two24 - 1
      /\ m.cells \in Seq(FitCell) /\ m.count = Len(m.cells)
      /\ m = [playing |-> m.playing, speed |-> m.speed, count |-> m.count, cells |-> m.cells]
  BY DEF FitOutput
<1>2. /\ b.playing = m.playing /\ b.speed = m.speed /\ b.count = m.count
      /\ b.cells = encodeCells(m.cells, Len(m.cells))
      /\ b.len = cellsOffset + m.count * bytesPerCell
  BY <1>1, FitsLow16, FitsLow24 DEF encodeOutput, EncodeSize
<1> HIDE DEF b
<1>3. decodeCells(b, b.count) = m.cells
  BY <1>1, <1>2, CellsRoundTrip
<1>4. ~(b.len < cellsOffset \/ b.len < cellsOffset + b.count * bytesPerCell)
  BY <1>1, <1>2, Widths DEF cellsOffset, bytesPerCell
<1>5. decodeOutput(b) = Decoded([playing |-> b.playing, speed |-> b.speed,
                                 count |-> b.count, cells |-> decodeCells(b, b.count)])
  BY <1>4, Zenon DEF decodeOutput
<1> QED  BY <1>1, <1>2, <1>3, <1>5 DEF b

\* A message of a client that sets cells arrives as it was sent, for every count
\* a uint16 can hold: where the length needed wraps, it only falls.
THEOREM SetCellsRoundTrip ==
  ASSUME NEW m \in FitSetCells PROVE DecodeClientMessage(Encode(m)) = Decoded(m)
<1> DEFINE b == encodeSetCells(m)
<1>1. /\ m.type = "SetCells" /\ m.count \in 0 .. Two16 - 1 /\ m.cells \in Seq(FitCell)
      /\ m.count = Len(m.cells)
      /\ m = [type |-> "SetCells", count |-> m.count, cells |-> m.cells]
  BY DEF FitSetCells
<1>2. /\ b.type = "SetCells" /\ b.count = m.count
      /\ b.cells = encodeCells(m.cells, Len(m.cells))
      /\ b.len = 3 + m.count * bytesPerCell
  BY <1>1 DEF encodeSetCells
<1>3. Encode(m) = b
  BY <1>1 DEF Encode
<1> HIDE DEF b
<1>4. decodeCells(b, b.count) = m.cells
  BY <1>1, <1>2, CellsRoundTrip
<1>5. needed(b.count) <= b.len /\ needed(b.count) \in Nat /\ b.len \in Nat /\ b.len >= 3
  <2>1. m.count \in Nat /\ m.count * bytesPerCell \in Nat
    BY <1>1, Widths DEF bytesPerCell
  <2>2. low16(m.count * bytesPerCell) \in Nat
        /\ low16(m.count * bytesPerCell) <= m.count * bytesPerCell
    BY <2>1, Low16Below
  <2>3. 3 + low16(m.count * bytesPerCell) \in Nat
    BY <2>2
  <2>4. /\ low16(3 + low16(m.count * bytesPerCell)) \in Nat
        /\ low16(3 + low16(m.count * bytesPerCell)) <= 3 + low16(m.count * bytesPerCell)
    BY <2>3, Low16Below
  <2> QED  BY <1>2, <2>1, <2>2, <2>4 DEF needed
<1>6. decodeSetCells(b) = Decoded([type |-> "SetCells", count |-> b.count,
                                   cells |-> decodeCells(b, b.count)])
  BY <1>5 DEF decodeSetCells
<1>7. DecodeClientMessage(b) = decodeSetCells(b)
  BY <1>2 DEF DecodeClientMessage
<1> QED  BY <1>1, <1>2, <1>3, <1>4, <1>6, <1>7

\* The count of an output has 24 bits: a world of 2^24 cells is read as empty.
THEOREM FullWorldLooksEmpty ==
  ASSUME NEW m, m.count = Two24
  PROVE  /\ decodeOutput(encodeOutput(m)).ok
         /\ decodeOutput(encodeOutput(m)).msg.cells = <<>>
<1> DEFINE b == encodeOutput(m)
<1>1. b.count = 0 /\ b.len = cellsOffset + Two24 * bytesPerCell
  BY Widths DEF encodeOutput, EncodeSize, low24
<1> HIDE DEF b
<1>2. decodeCells(b, b.count) = <<>>
  BY <1>1, SubSeqEmpty DEF decodeCells
<1>3. ~(b.len < cellsOffset \/ b.len < cellsOffset + b.count * bytesPerCell)
  BY <1>1, Widths DEF cellsOffset, bytesPerCell
<1>4. decodeOutput(b) = Decoded([playing |-> b.playing, speed |-> b.speed,
                                 count |-> b.count, cells |-> <<>>])
  BY <1>2, <1>3, Zenon DEF decodeOutput
<1>5. decodeOutput(b).ok /\ decodeOutput(b).msg.cells = <<>>
  BY <1>4 DEF Decoded
<1> QED  BY <1>5 DEF b

=============================================================================

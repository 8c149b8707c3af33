------------------------------ MODULE Protocol ------------------------------
(***************************************************************************)
(* internal/protocol: the messages of the websocket and the seed.  Of the  *)
(* bytes of a message are kept the fields as the bytes can hold them and   *)
(* the length; a cell is a record, its X, Y and Age of 16 bits and its     *)
(* Colour of 24.  A decoder gives an error or a message.                   *)
(***************************************************************************)
EXTENDS Integers, Sequences

Two16 == 65536
Two24 == 16777216
bytesPerCell == 9
cellsOffset == 6

Error == [ok |-> FALSE]
Decoded(m) == [ok |-> TRUE, msg |-> m]

low16(v) == v % Two16
low24(v) == v % Two24

-----------------------------------------------------------------------------
\* encodeCells writes the first count cells, and of a colour its low three
\* bytes.  Mutant: and of an age its low byte.
cellBytesShort(c) == [x |-> low16(c.x), y |-> low16(c.y), colour |-> low24(c.colour),
                      age |-> c.age % 256]
cellBytes(c) == [x |-> low16(c.x), y |-> low16(c.y), colour |-> low24(c.colour),
                 age |-> low16(c.age)]

encodeCells(cells, count) == [i \in 1 .. count |-> cellBytes(cells[i])]

\* decodeCells fills count cells.  decodeOutput has seen that they are there.
\* decodeSetCells may not have, where the length it needs has wrapped: with fewer
\* cells than count the code indexes out of range and panics; no message that
\* encodeSetCells makes is that short.
decodeCells(b, count) == SubSeq(b.cells, 1, count)

-----------------------------------------------------------------------------
\* Encode of Command, SetSpeed and SetCells.
encodeCommand(m) == [type |-> "Command", cmd |-> m.cmd, len |-> 2]

encodeSetSpeed(m) == [type |-> "SetSpeed", speed |-> low16(m.speed), len |-> 3]

encodeSetCells(m) == [type |-> "SetCells", count |-> m.count,
                      cells |-> encodeCells(m.cells, m.count),
                      len |-> 3 + Len(m.cells) * bytesPerCell]

Encode(m) == CASE m.type = "Command" -> encodeCommand(m)
               [] m.type = "SetSpeed" -> encodeSetSpeed(m)
               [] m.type = "SetCells" -> encodeSetCells(m)

\* Their decode.  The length that Count cells need is reckoned in 16 bits.
decodeCommand(b) == IF b.len < 2 THEN Error ELSE Decoded([type |-> "Command", cmd |-> b.cmd])

decodeSetSpeed(b) ==
    IF b.len < 3 THEN Error ELSE Decoded([type |-> "SetSpeed", speed |-> b.speed])

needed(count) == low16(3 + low16(count * bytesPerCell))

decodeSetCells(b) ==
    IF b.len < 3 \/ b.len < needed(b.count) THEN Error
    ELSE Decoded([type |-> "SetCells", count |-> b.count, cells |-> decodeCells(b, b.count)])

DecodeClientMessage(b) == CASE b.type = "Command" -> decodeCommand(b)
                            [] b.type = "SetSpeed" -> decodeSetSpeed(b)
                            [] b.type = "SetCells" -> decodeSetCells(b)
                            [] OTHER -> Error

-----------------------------------------------------------------------------
\* Output: EncodeSize, of 32 bits, which a world of 2^28 cells and fewer does not
\* exceed, Encode into a buffer of that size, and Decode.
EncodeSize(o) == cellsOffset + o.count * bytesPerCell

encodeOutput(o) == [playing |-> o.playing, speed |-> low16(o.speed), count |-> low24(o.count),
                    cells |-> encodeCells(o.cells, o.count), len |-> EncodeSize(o)]

decodeOutput(b) ==
    IF b.len < cellsOffset \/ b.len < cellsOffset + b.count * bytesPerCell THEN Error
    ELSE Decoded([playing |-> b.playing, speed |-> b.speed, count |-> b.count,
                  cells |-> decodeCells(b, b.count)])

=============================================================================

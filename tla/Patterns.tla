------------------------------ MODULE Patterns ------------------------------
(***************************************************************************)
(* internal/patterns: parsePattern turns a picture into cells.  A picture  *)
(* is a sequence of rows, a row the string between the bars as a sequence, *)
(* TRUE for an O.  The literal in the code begins and ends with a newline, *)
(* so strings.Split gives two more lines than there are rows, and a line   *)
(* has two characters, the bars, more than its row.                        *)
(***************************************************************************)
EXTENDS Integers, Sequences

\* The cells of row y, from left to right.
rowCells(row, y) ==
    SelectSeq([i \in 1 .. Len(row) |-> <<i - 1, y>>], LAMBDA p : row[p[1] + 1])

\* All cells, row after row.
cellsOf[picture \in Seq(Seq(BOOLEAN))] ==
    IF picture = <<>> THEN <<>>
    ELSE cellsOf[SubSeq(picture, 1, Len(picture) - 1)]
             \o rowCells(picture[Len(picture)], Len(picture) - 1)

parsePattern(picture) ==
    [cells |-> cellsOf[picture],
     center |-> <<(Len(picture[1]) + 2 - 1) \div 2, (Len(picture) + 2 - 1) \div 2>>]

\* init: the table of patterns, its names left out and its pictures given.
Table(pictures) == [i \in DOMAIN pictures |-> parsePattern(pictures[i])]

=============================================================================

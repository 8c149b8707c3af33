-------------------------------- MODULE Life --------------------------------
(***************************************************************************)
(* What the world of conwaymore promises, with none of its data            *)
(* structures: the reference rule of Conway's Game of Life, applied to     *)
(* EVERY cell of a square torus, and the three edits a user may make.      *)
(* internal/conway looks only at a candidate set and keeps two halves of   *)
(* every map; module Conway shows that it still implements this module.    *)
(***************************************************************************)
EXTENDS Integers, FiniteSets

CONSTANTS AxisLength,    \* side of the world (config.WorldSize)
          Seeds,         \* worlds the engine can be started with
          Edits,         \* cell sets one SetCells message may carry
          RandomWorlds   \* outcomes of Randomise that are considered

VARIABLE live            \* the set of live cells

World == (0 .. AxisLength - 1) \X (0 .. AxisLength - 1)

\* The eight directions; on a narrow torus two of them may reach one cell,
\* which then counts twice.
Directions == ((-1 .. 1) \X (-1 .. 1)) \ {<<0, 0>>}

Shift(c, d) == <<(c[1] + d[1]) % AxisLength, (c[2] + d[2]) % AxisLength>>

LiveNeighbours(S, c) == Cardinality({d \in Directions : Shift(c, d) \in S})

\* The rule: a live cell survives on two or three neighbours, a dead cell
\* comes alive on exactly three.
LivesOn(S, c) == \/ c \in S /\ LiveNeighbours(S, c) \in {2, 3}
                 \/ c \notin S /\ LiveNeighbours(S, c) = 3

Generation(S) == {c \in World : LivesOn(S, c)}

Init == live \in Seeds

Step == live' = Generation(live)

Set(S) == /\ S \cap live = {}
          /\ live' = live \cup S

Clear == live' = {}

Randomise == live' \in RandomWorlds

Next == \/ Step
        \/ \E S \in Edits : Set(S)
        \/ Clear
        \/ Randomise

Spec == Init /\ [][Next]_live

=============================================================================

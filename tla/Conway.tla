------------------------------- MODULE Conway -------------------------------
(***************************************************************************)
(* internal/conway: the world and its generation step.  The live cells and *)
(* the candidates (the cells the next generation has to look at) are each  *)
(* a swapSet: two maps, one current and one spare.  NextGen fills the      *)
(* spare halves from the current ones and swaps.  A half is named by its   *)
(* role (current or spare), so swapSet.current needs no variable.          *)
(*                                                                         *)
(* wrapMask is AxisLength - 1, and `v & wrapMask` on uint16 is             *)
(* v % AxisLength because AxisLength is a power of two.                    *)
(***************************************************************************)
EXTENDS Integers, FiniteSets

CONSTANTS AxisLength,    \* config.WorldSize
          Channel,       \* values of one colour channel (a byte in the code)
          MaxAge,        \* math.MaxUint16
          Seeds,         \* cell sets of the seeds the engine may start from
          SeedAges,      \* ages a seed may carry
          Edits,         \* cell sets one SetCells message may carry
          Palette,       \* colours of edited, seeded and randomised cells
          RandomWorlds   \* outcomes of Randomise that are considered

Colour == Channel \X Channel \X Channel
World == (0 .. AxisLength - 1) \X (0 .. AxisLength - 1)

\* config.go takes WORLD_SIZE as it is; wrapMask makes sense for powers of
\* two only, and Randomise's uint16(axisLength) is 0 for 65536.
ASSUME AxisAssumption ==
    AxisLength \in {1, 2, 4, 8, 16, 32, 64, 128, 256, 512, 1024, 2048, 4096,
                    8192, 16384, 32768}

ASSUME AgeAssumption == MaxAge \in Nat \ {0} /\ SeedAges \subseteq 0 .. MaxAge

ASSUME InputAssumption == /\ Palette \subseteq Colour
                          /\ Seeds \subseteq SUBSET World
                          /\ Edits \subseteq SUBSET World
                          /\ RandomWorlds \subseteq SUBSET World

VARIABLES alive,           \* current half of aliveCells: cell -> colour, age
          aliveNext,       \* spare half of aliveCells
          candidates,      \* current half of candidates
          candidatesNext   \* spare half of candidates

vars == <<alive, aliveNext, candidates, candidatesNext>>

Cell == [colour : Colour, age : 0 .. MaxAge]

NoCells == [c \in {} |-> [colour |-> <<>>, age |-> 0]]

-----------------------------------------------------------------------------
\* Adjacent cells, in the order NextGen asks findAlive for them: row above,
\* same row, row below, each from left to right.
Directions == ((-1 .. 1) \X (-1 .. 1)) \ {<<0, 0>>}

Rank(d) == 3 * d[2] + d[1]

\* Mutant: the mask is missing.
getAdjacentUnwrapped(c, d) == <<c[1] + d[1], c[2] + d[2]>>

getAdjacent(c, d) == <<(c[1] + d[1]) % AxisLength, (c[2] + d[2]) % AxisLength>>

\* The cells addCandidates adds for c, and NextGen for a cell that changes.
Block(c) == {c} \cup {getAdjacent(c, d) : d \in Directions}

Blocks(S) == UNION {Block(c) : c \in S}

-----------------------------------------------------------------------------
\* The neighbours findAlive counts, and the k-th of them (from 0) in its order.
findAlive(c) == {d \in Directions : getAdjacent(c, d) \in DOMAIN alive}

numNeighbours(c) == Cardinality(findAlive(c))

\* Mutant: anIdx stays where it is.
sameNeighbour(c, k) == alive[getAdjacent(c, CHOOSE d \in findAlive(c) : TRUE)]

aliveNeighbours(c, k) ==
    alive[getAdjacent(c, CHOOSE d \in findAlive(c) :
                Cardinality({e \in findAlive(c) : Rank(e) < Rank(d)}) = k)]

survives(c) == c \in DOMAIN alive /\ numNeighbours(c) \in {2, 3}

dies(c) == c \in DOMAIN alive /\ numNeighbours(c) \notin {2, 3}

born(c) == c \notin DOMAIN alive /\ numNeighbours(c) = 3

\* Red, green and blue each come from one of the three parents.
newborn(c) == [colour |-> <<aliveNeighbours(c, 0).colour[1],
                            aliveNeighbours(c, 1).colour[2],
                            aliveNeighbours(c, 2).colour[3]>>,
               age |-> 0]

\* Mutant: the age wraps.
olderWrapping(a) == [a EXCEPT !.age = (a.age + 1) % (MaxAge + 1)]

older(a) == [a EXCEPT !.age = IF a.age < MaxAge THEN a.age + 1 ELSE a.age]

-----------------------------------------------------------------------------
\* Mutant: the spare half is not cleared.
keepNextCands(spare) == spare

\* swapSet.clearNext, for a map and for a set: what is left of a spare half.
clearNextCells(spare) == NoCells
clearNextCands(spare) == {}

\* Storing the entries of map f in map g.
Put(f, g) == [c \in DOMAIN f \cup DOMAIN g |-> IF c \in DOMAIN f THEN f[c] ELSE g[c]]

nextCells == [c \in {d \in candidates : survives(d) \/ born(d)} |->
                 IF born(c) THEN newborn(c) ELSE older(alive[c])]

\* Mutant: only births add candidates.
nextCandidatesBirths == DOMAIN alive \cup Blocks({c \in candidates : born(c)})

nextCandidates ==
    DOMAIN alive \cup Blocks({c \in candidates : dies(c) \/ born(c)})

\* Cells that a message, a seed or Randomise brings, each with its own colour.
Painted(paint, age) == [c \in DOMAIN paint |-> [colour |-> paint[c], age |-> age[c]]]

New(S) == [c \in S |-> 0]

\* SetCell for every cell that is painted.
SetCell(paint, age) == Put(Painted(paint, age), alive)

addCandidates(S) == candidates \cup Blocks(S)

-----------------------------------------------------------------------------
\* NewConway, then setSeed's SetCell for every cell of the decoded seed.
Init == /\ \E S \in Seeds : \E paint \in [S -> Palette], age \in [S -> SeedAges] :
               /\ alive = Painted(paint, age)
               /\ candidates = Blocks(S)
        /\ aliveNext = NoCells
        /\ candidatesNext = {}

NextGen == /\ alive' = Put(nextCells, clearNextCells(aliveNext))
           /\ candidates' = nextCandidates \cup clearNextCands(candidatesNext)
           /\ aliveNext' = alive
           /\ candidatesNext' = candidates

CanSetCell(c) == c \notin DOMAIN alive

\* handleSetCells: one cell that cannot be set rejects the whole message.
SetCells(S) == /\ \A c \in S : CanSetCell(c)
               /\ \E paint \in [S -> Palette] : alive' = SetCell(paint, New(S))
               /\ candidates' = addCandidates(S)
               /\ UNCHANGED <<aliveNext, candidatesNext>>

Clear == /\ alive' = NoCells
         /\ aliveNext' = NoCells
         /\ candidates' = {}
         /\ candidatesNext' = {}

\* Randomise clears all four halves and then draws every cell.
Randomise(S) == /\ \E paint \in [S -> Palette] : alive' = Painted(paint, New(S))
                /\ candidates' = Blocks(S)
                /\ aliveNext' = NoCells
                /\ candidatesNext' = {}

Next == \/ NextGen
        \/ \E S \in Edits : SetCells(S)
        \/ Clear
        \/ \E S \in RandomWorlds : Randomise(S)

Spec == Init /\ [][Next]_vars

-----------------------------------------------------------------------------
\* Both halves only ever hold cells of the world, with legal colours and ages.
TypeOK == /\ DOMAIN alive \subseteq World
          /\ \A c \in DOMAIN alive : alive[c] \in Cell
          /\ DOMAIN aliveNext \subseteq World
          /\ candidates \subseteq World
          /\ candidatesNext \subseteq World

\* NextGen looks at candidates only, so the candidates must contain every
\* live cell (or it would vanish, old enough or not) and every dead cell that
\* is about to be born.  This is what addCandidates, the keys copied at the
\* top of NextGen and the nine addNext calls are for.
CandidatesSuffice == \A c \in World : c \in DOMAIN alive \/ born(c) => c \in candidates

\* The optimised world is the Game of Life on a torus: every generation is the
\* reference rule applied to all cells, every edit changes exactly its cells.
Life == INSTANCE Life WITH live <- DOMAIN alive

LifeSpec == Life!Spec

\* A generation that changes nothing costs nothing afterwards: the candidates
\* left are the live cells.  Candidates that are never dropped would keep the
\* behaviour right and make every tick slower.
CandidatesAreDropped ==
    [][NextGen /\ DOMAIN alive' = DOMAIN alive
        => candidates' = DOMAIN alive']_vars

\* A cell that lives through a generation keeps its colour, and the uint16 age
\* of a very old cell stays at its maximum: no cell ever becomes young again
\* while it lives.
NeverYounger ==
    [][\A c \in DOMAIN alive \cap DOMAIN alive' :
           NextGen => /\ alive'[c].colour = alive[c].colour
                      /\ alive'[c].age >= alive[c].age
                      /\ alive'[c].age <= MaxAge]_vars

\* A newborn cell takes its red, green and blue from three different live
\* neighbours: whatever was collected for an earlier candidate is not used.
ThreeParents ==
    [][\A c \in DOMAIN alive' \ DOMAIN alive :
           NextGen => \E p \in [1 .. 3 -> findAlive(c)] :
              /\ p[1] # p[2] /\ p[1] # p[3] /\ p[2] # p[3]
              /\ \A k \in 1 .. 3 :
                   alive'[c].colour[k] = alive[getAdjacent(c, p[k])].colour[k]]_vars

=============================================================================

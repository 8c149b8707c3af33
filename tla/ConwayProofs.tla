---------------------------- MODULE ConwayProofs ----------------------------
(***************************************************************************)
(* Proofs about Conway for every axis length the code's mask works for,    *)
(* every number of cells and every sequence of generations and edits.      *)
(***************************************************************************)
EXTENDS Conway, FiniteSetTheorems, TLAPS

-----------------------------------------------------------------------------
\* The torus: one step and its way back, on one axis.
LEMMA WrapUp == \A x \in 0 .. AxisLength - 1 :
                  /\ (x + 1) % AxisLength \in 0 .. AxisLength - 1
                  /\ (((x + 1) % AxisLength) + (-1)) % AxisLength = x
  BY AxisAssumption

LEMMA WrapDown == \A x \in 0 .. AxisLength - 1 :
                  /\ (x + (-1)) % AxisLength \in 0 .. AxisLength - 1
                  /\ (((x + (-1)) % AxisLength) + 1) % AxisLength = x
  BY AxisAssumption

LEMMA WrapStay == \A x \in 0 .. AxisLength - 1 : (x + 0) % AxisLength = x
  BY AxisAssumption

LEMMA WrapOffset == \A x \in 0 .. AxisLength - 1, o \in -1 .. 1 :
                      /\ (x + o) % AxisLength \in 0 .. AxisLength - 1
                      /\ (((x + o) % AxisLength) + (-o)) % AxisLength = x
<1>1. \A o \in -1 .. 1 : o = -1 \/ o = 0 \/ o = 1
  OBVIOUS
<1>2. \A o \in -1 .. 1 : (o = -1 => -o = 1) /\ (o = 0 => -o = 0) /\ (o = 1 => -o = -1)
  OBVIOUS
<1> QED  BY <1>1, <1>2, WrapUp, WrapDown, WrapStay

\* An adjacent cell is a cell of the world, and the cell is in its block.
LEMMA Adjacency == \A c \in World, d \in Directions :
                     /\ getAdjacent(c, d) \in World
                     /\ c \in Block(getAdjacent(c, d))
<1> TAKE c \in World, d \in Directions
<1> DEFINE n == getAdjacent(c, d)
           back == <<-d[1], -d[2]>>
<1>1. c[1] \in 0 .. AxisLength - 1 /\ c[2] \in 0 .. AxisLength - 1 /\ c = <<c[1], c[2]>>
  BY DEF World
<1>2. d[1] \in -1 .. 1 /\ d[2] \in -1 .. 1 /\ back \in Directions
  BY DEF Directions
<1>3. n \in World
  BY <1>1, <1>2, WrapOffset DEF getAdjacent, World
<1>4. getAdjacent(n, back) = c
  BY <1>1, <1>2, WrapOffset DEF getAdjacent
<1> QED  BY <1>2, <1>3, <1>4 DEF Block

LEMMA BlockInWorld == \A c \in World : Block(c) \subseteq World /\ c \in Block(c)
  BY Adjacency DEF Block

LEMMA BlocksInWorld ==
  \A S \in SUBSET World : Blocks(S) \subseteq World /\ S \subseteq Blocks(S)
  BY BlockInWorld DEF Blocks

-----------------------------------------------------------------------------
\* The order findAlive is asked in has no ties.
LEMMA RankOrders == \A d, e \in Directions : /\ Rank(d) \in Int
                                             /\ Rank(d) = Rank(e) => d = e
<1> TAKE d, e \in Directions
<1>1. /\ d[1] \in -1 .. 1 /\ d[2] \in -1 .. 1 /\ d = <<d[1], d[2]>>
      /\ e[1] \in -1 .. 1 /\ e[2] \in -1 .. 1 /\ e = <<e[1], e[2]>>
  BY DEF Directions
<1>2. Rank(d) = Rank(e) => d[1] = e[1] /\ d[2] = e[2]
  BY <1>1 DEF Rank
<1> QED  BY <1>1, <1>2 DEF Rank

Below(F, d) == {e \in F : Rank(e) < Rank(d)}

LEMMA ThreeSorted ==
  ASSUME NEW x \in Directions, NEW y \in Directions, NEW z \in Directions,
         Rank(x) < Rank(y), Rank(y) < Rank(z)
  PROVE  /\ Cardinality(Below({x, y, z}, x)) = 0
         /\ Cardinality(Below({x, y, z}, y)) = 1
         /\ Cardinality(Below({x, y, z}, z)) = 2
<1>1. Rank(x) \in Int /\ Rank(y) \in Int /\ Rank(z) \in Int
  BY RankOrders
<1>2. /\ Below({x, y, z}, x) = {} /\ Below({x, y, z}, y) = {x}
      /\ Below({x, y, z}, z) = {x} \cup {y}
  BY <1>1 DEF Below
<1>3. Cardinality({x}) = 1 /\ IsFiniteSet({x})
  BY FS_Singleton
<1>4. Cardinality({x} \cup {y}) = 2
  BY <1>1, <1>3, FS_AddElement
<1> QED  BY <1>2, <1>3, <1>4, FS_EmptySet

\* Of three neighbours there is a first, a second and a third.
LEMMA ThreeRanked ==
  ASSUME NEW F \in SUBSET Directions, IsFiniteSet(F), Cardinality(F) = 3
  PROVE  \A k \in 0 .. 2 : \E d \in F : Cardinality(Below(F, d)) = k
<1>1. PICK x \in F : TRUE
  BY FS_EmptySet
<1>2. IsFiniteSet(F \ {x}) /\ Cardinality(F \ {x}) = 2
  BY <1>1, FS_RemoveElement
<1>3. PICK y \in F \ {x} : TRUE
  BY <1>2, FS_EmptySet
<1>4. IsFiniteSet((F \ {x}) \ {y}) /\ Cardinality((F \ {x}) \ {y}) = 1
  BY <1>2, <1>3, FS_RemoveElement
<1>5. PICK z : (F \ {x}) \ {y} = {z}
  BY <1>4, FS_Singleton
<1>6. F = {x, y, z} /\ x # y /\ y # z /\ x # z
  BY <1>1, <1>3, <1>5
<1>7. /\ x \in Directions /\ y \in Directions /\ z \in Directions
      /\ Rank(x) \in Int /\ Rank(y) \in Int /\ Rank(z) \in Int
      /\ Rank(x) # Rank(y) /\ Rank(y) # Rank(z) /\ Rank(x) # Rank(z)
  BY <1>6, RankOrders
<1> DEFINE Sorted(a, b, c) == Rank(a) < Rank(b) /\ Rank(b) < Rank(c) /\ F = {a, b, c}
<1>8. ASSUME NEW a \in Directions, NEW b \in Directions, NEW c \in Directions, Sorted(a, b, c)
      PROVE  \A k \in 0 .. 2 : \E d \in F : Cardinality(Below(F, d)) = k
  <2>1. /\ Cardinality(Below(F, a)) = 0
        /\ Cardinality(Below(F, b)) = 1
        /\ Cardinality(Below(F, c)) = 2
    BY <1>8, ThreeSorted
  <2>2. \A k \in 0 .. 2 : k = 0 \/ k = 1 \/ k = 2
    OBVIOUS
  <2> QED  BY <1>8, <2>1, <2>2
<1>9. \/ Sorted(x, y, z) \/ Sorted(x, z, y) \/ Sorted(y, x, z)
      \/ Sorted(y, z, x) \/ Sorted(z, x, y) \/ Sorted(z, y, x)
  BY <1>6, <1>7
<1> HIDE DEF Sorted
<1> QED  BY <1>7, <1>8, <1>9

LEMMA DirectionsFinite == IsFiniteSet(Directions)
<1>1. IsFiniteSet(-1 .. 1)
  <2>1. \A a, b \in Int : IsFiniteSet(a .. b)
    BY FS_Interval
  <2>2. -1 \in Int /\ 1 \in Int
    OBVIOUS
  <2> QED  BY <2>1, <2>2
<1>2. IsFiniteSet((-1 .. 1) \X (-1 .. 1))
  BY <1>1, FS_Product
<1> QED  BY <1>2, FS_Subset DEF Directions

-----------------------------------------------------------------------------
LEMMA FindAlive == \A c \in World : /\ findAlive(c) \subseteq Directions
                                    /\ IsFiniteSet(findAlive(c))
                                    /\ numNeighbours(c) \in Nat
  BY DirectionsFinite, FS_Subset, FS_CardinalityType DEF findAlive, numNeighbours

\* The three parents of a newborn cell are live cells.
LEMMA Parents ==
  ASSUME NEW c \in World, TypeOK, born(c), NEW k \in 0 .. 2
  PROVE  aliveNeighbours(c, k) \in Cell
<1> DEFINE Kth(d) == Cardinality({e \in findAlive(c) : Rank(e) < Rank(d)}) = k
           d == CHOOSE d \in findAlive(c) : Kth(d)
<1>1. \E e \in findAlive(c) : Kth(e)
  BY FindAlive, ThreeRanked DEF born, numNeighbours, Below
<1>2. d \in findAlive(c)
  BY <1>1
<1>3. getAdjacent(c, d) \in DOMAIN alive
  BY <1>2 DEF findAlive
<1> QED  BY <1>3 DEF aliveNeighbours, TypeOK

LEMMA NewbornType ==
  ASSUME NEW c \in World, TypeOK, born(c)
  PROVE  newborn(c) \in Cell
<1>1. \A k \in 0 .. 2 : aliveNeighbours(c, k).colour \in Channel \X Channel \X Channel
  BY Parents DEF Cell, Colour
<1>2. /\ aliveNeighbours(c, 0).colour[1] \in Channel
      /\ aliveNeighbours(c, 1).colour[2] \in Channel
      /\ aliveNeighbours(c, 2).colour[3] \in Channel
  BY <1>1
<1>3. 0 \in 0 .. MaxAge
  BY AgeAssumption
<1> QED  BY <1>2, <1>3 DEF newborn, Cell, Colour

LEMMA OlderType == \A a \in Cell : older(a) \in Cell
  BY AgeAssumption DEF older, Cell

\* Storing legal cells in a legal map, or in an empty one.
LEMMA PutDomain == \A f, g : DOMAIN Put(f, g) = DOMAIN f \cup DOMAIN g
  BY DEF Put

LEMMA PutType ==
  ASSUME NEW f, NEW g, \A c \in DOMAIN f : f[c] \in Cell, \A c \in DOMAIN g : g[c] \in Cell
  PROVE  \A c \in DOMAIN Put(f, g) : Put(f, g)[c] \in Cell
  BY DEF Put

LEMMA PaintedType ==
  ASSUME NEW S, NEW paint \in [S -> Palette], NEW age \in [S -> 0 .. MaxAge]
  PROVE  /\ DOMAIN Painted(paint, age) = S
         /\ \A c \in S : Painted(paint, age)[c] \in Cell
  BY InputAssumption DEF Painted, Cell

LEMMA PaintedDomain ==
  \A S : \A paint \in [S -> Palette] : \A age : DOMAIN Painted(paint, age) = S
  BY DEF Painted

LEMMA NewType == \A S : New(S) \in [S -> 0 .. MaxAge]
  BY AgeAssumption DEF New

LEMMA TypeInit == Init => TypeOK
<1> SUFFICES ASSUME NEW S \in Seeds, NEW paint \in [S -> Palette],
                    NEW age \in [S -> SeedAges], alive = Painted(paint, age),
                    candidates = Blocks(S), aliveNext = NoCells, candidatesNext = {}
             PROVE  TypeOK
  BY DEF Init
<1>1. S \in SUBSET World /\ age \in [S -> 0 .. MaxAge]
  BY InputAssumption, AgeAssumption
<1>2. DOMAIN alive = S /\ \A c \in DOMAIN alive : alive[c] \in Cell
  BY <1>1, PaintedType
<1> QED  BY <1>1, <1>2, BlocksInWorld DEF TypeOK, NoCells

LEMMA TypeStep == TypeOK /\ [Next]_vars => TypeOK'
<1> SUFFICES ASSUME TypeOK, [Next]_vars PROVE TypeOK'
  OBVIOUS
<1>1. CASE NextGen
  <2>1. DOMAIN nextCells \subseteq World
    BY DEF nextCells, TypeOK
  <2>2. \A c \in DOMAIN nextCells : nextCells[c] \in Cell
    <3> SUFFICES ASSUME NEW c \in candidates, survives(c) \/ born(c)
                 PROVE  (IF born(c) THEN newborn(c) ELSE older(alive[c])) \in Cell
      BY DEF nextCells
    <3>1. CASE born(c)
      BY <3>1, NewbornType DEF TypeOK
    <3>2. CASE ~born(c)
      BY <3>2, OlderType DEF TypeOK, survives
    <3> QED  BY <3>1, <3>2
  <2>3. alive' = Put(nextCells, NoCells)
    BY <1>1 DEF NextGen, clearNextCells
  <2>4. \A c \in DOMAIN alive' : alive'[c] \in Cell
    BY <2>2, <2>3, PutType DEF NoCells
  <2>5. DOMAIN alive' \subseteq World
    <3>1. DOMAIN alive' = DOMAIN nextCells \cup DOMAIN NoCells
      BY <2>3, PutDomain
    <3> QED  BY <2>1, <3>1 DEF NoCells
  <2>6. candidates' \subseteq World
    BY <1>1, BlocksInWorld DEF NextGen, nextCandidates, clearNextCands, TypeOK
  <2> QED  BY <1>1, <2>4, <2>5, <2>6 DEF NextGen, TypeOK
<1>2. CASE \E S \in Edits : SetCells(S)
  <2> PICK S \in Edits : SetCells(S)
    BY <1>2
  <2> PICK paint \in [S -> Palette] : alive' = SetCell(paint, New(S))
    BY DEF SetCells
  <2> DEFINE fresh == Painted(paint, New(S))
  <2>1. S \in SUBSET World
    BY InputAssumption
  <2>2. DOMAIN fresh = S /\ \A c \in DOMAIN fresh : fresh[c] \in Cell
    BY PaintedType, NewType
  <2>3. alive' = Put(fresh, alive)
    BY DEF SetCell
  <2>4. DOMAIN alive' \subseteq World /\ \A c \in DOMAIN alive' : alive'[c] \in Cell
    <3> HIDE DEF fresh
    <3>1. \A c \in DOMAIN alive' : alive'[c] \in Cell
      BY <2>2, <2>3, PutType DEF TypeOK
    <3>2. DOMAIN alive' = S \cup DOMAIN alive
      BY <2>2, <2>3, PutDomain
    <3> QED  BY <2>1, <3>1, <3>2 DEF TypeOK
  <2>5. candidates' \subseteq World
    BY <2>1, BlocksInWorld DEF SetCells, addCandidates, TypeOK
  <2> QED  BY <2>4, <2>5 DEF SetCells, TypeOK
<1>3. CASE Clear
  BY <1>3 DEF Clear, TypeOK, NoCells
<1>4. CASE \E S \in RandomWorlds : Randomise(S)
  <2> PICK S \in RandomWorlds : Randomise(S)
    BY <1>4
  <2>1. S \in SUBSET World
    BY InputAssumption
  <2>2. DOMAIN alive' = S /\ \A c \in DOMAIN alive' : alive'[c] \in Cell
    BY PaintedType, NewType DEF Randomise
  <2> QED  BY <2>1, <2>2, BlocksInWorld DEF Randomise, TypeOK, NoCells
<1>5. CASE UNCHANGED vars
  BY <1>5 DEF vars, TypeOK
<1> QED  BY <1>1, <1>2, <1>3, <1>4, <1>5 DEF Next

\* Type correctness: both halves of both maps only ever hold legal cells of
\* the world, for every axis length, palette and input.
THEOREM TypeCorrect == Spec => []TypeOK
  BY TypeInit, TypeStep, PTL DEF Spec

-----------------------------------------------------------------------------
\* Why CandidatesSuffice is inductive together with TypeOK: a cell outside the
\* new candidates is dead and has no neighbour that changed, so its neighbours
\* were the same before, and it would have been a candidate then.
Inv == TypeOK /\ CandidatesSuffice

\* A cell about to be born is next to a live one.
LEMMA BornNearLife ==
  ASSUME NEW c \in World, TypeOK, numNeighbours(c) = 3
  PROVE  c \in Blocks(DOMAIN alive)
<1>1. PICK d \in Directions : getAdjacent(c, d) \in DOMAIN alive
  BY FS_EmptySet DEF numNeighbours, findAlive
<1> QED  BY <1>1, Adjacency DEF Blocks

\* NextGen in terms of the live cells alone.
LEMMA LiveAfterNextGen ==
  NextGen => DOMAIN alive' = {c \in candidates : survives(c) \/ born(c)}
<1> SUFFICES ASSUME NextGen PROVE DOMAIN alive' = {c \in candidates : survives(c) \/ born(c)}
  OBVIOUS
<1>1. DOMAIN alive' = DOMAIN nextCells \cup DOMAIN NoCells
  BY PutDomain DEF NextGen, clearNextCells
<1>2. DOMAIN nextCells = {c \in candidates : survives(c) \/ born(c)}
  BY DEF nextCells
<1> QED  BY <1>1, <1>2 DEF NoCells

LEMMA LiveAfterSetCells ==
  ASSUME NEW S, SetCells(S)
  PROVE  DOMAIN alive' = DOMAIN alive \cup S
<1> PICK paint \in [S -> Palette] : alive' = SetCell(paint, New(S))
  BY DEF SetCells
<1>1. DOMAIN alive' = DOMAIN Painted(paint, New(S)) \cup DOMAIN alive
  BY PutDomain DEF SetCell
<1> QED  BY <1>1, PaintedType, NewType

LEMMA LiveAfterRandomise ==
  ASSUME NEW S, Randomise(S)
  PROVE  DOMAIN alive' = S
  BY PaintedType, NewType DEF Randomise

\* If no neighbour of c changed, its neighbours are counted as before.
LEMMA SameNeighbours ==
  ASSUME NEW c \in World,
         \A d \in Directions : getAdjacent(c, d) \in DOMAIN alive'
                               <=> getAdjacent(c, d) \in DOMAIN alive
  PROVE  numNeighbours(c)' = numNeighbours(c)
<1>1. findAlive(c)' = findAlive(c)
  BY DEF findAlive, getAdjacent
<1> QED  BY <1>1 DEF numNeighbours

LEMMA CandidatesInit == Init => CandidatesSuffice
<1> SUFFICES ASSUME Init PROVE CandidatesSuffice
  OBVIOUS
<1>1. TypeOK /\ candidates = Blocks(DOMAIN alive)
  BY TypeInit, PaintedDomain DEF Init
<1>2. DOMAIN alive \subseteq candidates
  BY <1>1, BlocksInWorld DEF TypeOK
<1> QED  BY <1>1, <1>2, BornNearLife DEF CandidatesSuffice, born

LEMMA CandidatesNextGen == Inv /\ NextGen => CandidatesSuffice'
<1> SUFFICES ASSUME Inv, NextGen, NEW c \in World, c \notin candidates'
             PROVE  c \notin DOMAIN alive' /\ ~born(c)'
  BY DEF CandidatesSuffice, World
<1> DEFINE Changed == {n \in candidates : dies(n) \/ born(n)}
<1>1. candidates' = DOMAIN alive \cup Blocks(Changed)
  BY DEF NextGen, nextCandidates, clearNextCands
<1>2. Changed \subseteq World /\ Changed \subseteq Blocks(Changed)
  BY BlocksInWorld DEF Inv, TypeOK
<1>3. c \notin DOMAIN alive /\ ~born(c)
  BY <1>1, <1>2 DEF Inv, CandidatesSuffice
<1>4. c \notin DOMAIN alive'
  BY <1>3, LiveAfterNextGen DEF survives
<1>5. \A d \in Directions : getAdjacent(c, d) \in DOMAIN alive'
                            <=> getAdjacent(c, d) \in DOMAIN alive
  <2> SUFFICES ASSUME NEW d \in Directions
               PROVE  getAdjacent(c, d) \in DOMAIN alive' <=> getAdjacent(c, d) \in DOMAIN alive
    OBVIOUS
  <2> DEFINE n == getAdjacent(c, d)
  <2>1. n \in World /\ c \in Block(n)
    BY Adjacency
  <2>2. n \notin Changed
    BY <1>1, <2>1 DEF Blocks
  <2>3. n \in DOMAIN alive => n \in candidates /\ survives(n)
    BY <2>1, <2>2 DEF Inv, CandidatesSuffice, survives, dies
  <2>4. n \in DOMAIN alive' => n \in DOMAIN alive
    BY <2>2, LiveAfterNextGen DEF survives
  <2> QED  BY <2>3, <2>4, LiveAfterNextGen
<1>6. numNeighbours(c)' = numNeighbours(c)
  BY <1>5, SameNeighbours
<1> QED  BY <1>3, <1>4, <1>6 DEF born

LEMMA CandidatesSetCells ==
  ASSUME Inv, NEW S \in Edits, SetCells(S)
  PROVE  CandidatesSuffice'
<1> SUFFICES ASSUME NEW c \in World, c \notin candidates'
             PROVE  c \notin DOMAIN alive' /\ ~born(c)'
  BY DEF CandidatesSuffice, World
<1>1. S \in SUBSET World /\ candidates' = candidates \cup Blocks(S)
  BY InputAssumption DEF SetCells, addCandidates
<1>2. DOMAIN alive' = DOMAIN alive \cup S
  BY LiveAfterSetCells
<1>3. c \notin S /\ c \notin DOMAIN alive /\ ~born(c)
  BY <1>1, BlocksInWorld DEF Inv, CandidatesSuffice
<1>4. \A d \in Directions : getAdjacent(c, d) \notin S
  BY <1>1, Adjacency DEF Blocks
<1>5. numNeighbours(c)' = numNeighbours(c)
  BY <1>2, <1>4, SameNeighbours
<1> QED  BY <1>2, <1>3, <1>5 DEF born

LEMMA CandidatesRandomise ==
  ASSUME TypeOK', NEW S \in RandomWorlds, Randomise(S)
  PROVE  CandidatesSuffice'
<1>1. candidates' = Blocks(DOMAIN alive') /\ DOMAIN alive' = S /\ S \in SUBSET World
  BY InputAssumption, LiveAfterRandomise DEF Randomise
<1>2. \A c \in World : numNeighbours(c)' = 3 => c \in Blocks(DOMAIN alive')
  <2> SUFFICES ASSUME NEW c \in World, numNeighbours(c)' = 3
               PROVE  c \in Blocks(DOMAIN alive')
    OBVIOUS
  <2>1. PICK d \in Directions : getAdjacent(c, d) \in DOMAIN alive'
    <3>1. findAlive(c)' = {d \in Directions : getAdjacent(c, d) \in DOMAIN alive'}
      BY DEF findAlive, getAdjacent
    <3>2. Cardinality(findAlive(c)') = 3
      BY DEF numNeighbours
    <3> QED  BY <3>1, <3>2, FS_EmptySet
  <2> QED  BY <2>1, <1>1, Adjacency DEF Blocks
<1>3. DOMAIN alive' \subseteq candidates'
  BY <1>1, BlocksInWorld
<1> QED  BY <1>1, <1>2, <1>3 DEF CandidatesSuffice, born, World

LEMMA CandidatesClear ==
  ASSUME Clear
  PROVE  CandidatesSuffice'
<1>1. DOMAIN alive' = {}
  BY DEF Clear, NoCells
<1>2. \A c \in World : findAlive(c)' = {}
  BY <1>1 DEF findAlive
<1>3. \A c \in World : numNeighbours(c)' = 0
  BY <1>2, FS_EmptySet DEF numNeighbours
<1> QED  BY <1>1, <1>3 DEF CandidatesSuffice, born, World

LEMMA InvStep == Inv /\ [Next]_vars => Inv'
<1> SUFFICES ASSUME Inv, [Next]_vars PROVE CandidatesSuffice'
  BY TypeStep DEF Inv
<1>1. TypeOK'
  BY TypeStep DEF Inv
<1>2. CASE UNCHANGED vars
  <2>1. UNCHANGED <<alive, candidates>>
    BY <1>2 DEF vars
  <2>2. \A c \in World : numNeighbours(c)' = numNeighbours(c)
    BY <2>1, SameNeighbours
  <2> QED  BY <2>1, <2>2 DEF Inv, CandidatesSuffice, born, World
<1> QED  BY <1>1, <1>2, CandidatesNextGen, CandidatesSetCells, CandidatesRandomise,
            CandidatesClear DEF Next

\* The candidates always include every live cell and every cell that is about
\* to be born: NextGen (internal/conway) never overlooks a cell it must visit.
THEOREM CandidatesAlwaysSuffice == Spec => []CandidatesSuffice
<1>1. Init => Inv
  BY TypeInit, CandidatesInit DEF Inv
<1>2. Inv => CandidatesSuffice
  BY DEF Inv
<1> QED  BY <1>1, <1>2, InvStep, PTL DEF Spec

-----------------------------------------------------------------------------
\* Refinement: the candidate sets and the swapped halves implement Life.
LEMMA SameRule == \A c \in World : Life!LiveNeighbours(DOMAIN alive, c) = numNeighbours(c)
<1> TAKE c \in World
<1> DEFINE Found == {d \in Life!Directions : Life!Shift(c, d) \in DOMAIN alive}
<1>1. Life!Directions = Directions
  BY DEF Life!Directions, Directions
<1>2. \A d \in Directions : Life!Shift(c, d) = getAdjacent(c, d)
  BY DEF Life!Shift, getAdjacent
<1>3. Found = findAlive(c)
  BY <1>1, <1>2 DEF findAlive
<1>4. Life!LiveNeighbours(DOMAIN alive, c) = Cardinality(Found)
  BY DEF Life!LiveNeighbours, Life!Cardinality, Cardinality
<1> QED  BY <1>3, <1>4 DEF numNeighbours

LEMMA LifeInit == Init => Life!Init
  BY PaintedDomain DEF Init, Life!Init

LEMMA LifeGeneration == Inv /\ NextGen => Life!Step
<1> SUFFICES ASSUME Inv, NextGen PROVE DOMAIN alive' = Life!Generation(DOMAIN alive)
  BY DEF Life!Step
<1>1. DOMAIN alive' = {c \in candidates : survives(c) \/ born(c)}
  BY LiveAfterNextGen
<1>2. \A c \in World : Life!LivesOn(DOMAIN alive, c) <=> survives(c) \/ born(c)
  BY SameRule DEF Life!LivesOn, survives, born
<1>3. \A c \in World : survives(c) \/ born(c) => c \in candidates
  BY DEF Inv, CandidatesSuffice, survives
<1>4. candidates \subseteq World
  BY DEF Inv, TypeOK
<1> QED  BY <1>1, <1>2, <1>3, <1>4 DEF Life!Generation, Life!World, World

LEMMA LifeStep == Inv /\ [Next]_vars => [Life!Next]_(DOMAIN alive)
<1> SUFFICES ASSUME Inv, [Next]_vars PROVE Life!Next \/ UNCHANGED DOMAIN alive
  OBVIOUS
<1>1. CASE NextGen
  BY <1>1, LifeGeneration DEF Life!Next
<1>2. CASE \E S \in Edits : SetCells(S)
  <2> PICK S \in Edits : SetCells(S)
    BY <1>2
  <2>1. S \cap DOMAIN alive = {}
    BY DEF SetCells, CanSetCell
  <2> QED  BY <2>1, LiveAfterSetCells DEF Life!Next, Life!Set
<1>3. CASE Clear
  BY <1>3 DEF Clear, NoCells, Life!Next, Life!Clear
<1>4. CASE \E S \in RandomWorlds : Randomise(S)
  BY <1>4, LiveAfterRandomise DEF Life!Next, Life!Randomise
<1>5. CASE UNCHANGED vars
  BY <1>5 DEF vars
<1> QED  BY <1>1, <1>2, <1>3, <1>4, <1>5 DEF Next

\* internal/conway implements the Game of Life on a torus: every behaviour of
\* the candidate sets and swapped halves is one of the reference rule.
THEOREM ImplementsLife == Spec => LifeSpec
<1>1. Init => Inv
  BY TypeInit, CandidatesInit DEF Inv
<1> QED  BY <1>1, InvStep, LifeInit, LifeStep, PTL DEF Spec, LifeSpec, Life!Spec

-----------------------------------------------------------------------------
\* What NextGen does to one cell.
LEMMA CellAfterNextGen ==
  ASSUME NextGen, NEW c \in DOMAIN alive'
  PROVE  /\ c \in candidates
         /\ survives(c) \/ born(c)
         /\ alive'[c] = IF born(c) THEN newborn(c) ELSE older(alive[c])
<1>1. c \in candidates /\ (survives(c) \/ born(c))
  BY LiveAfterNextGen
<1>2. c \in DOMAIN nextCells /\ nextCells[c] = IF born(c) THEN newborn(c) ELSE older(alive[c])
  BY <1>1 DEF nextCells
<1>3. alive' = Put(nextCells, NoCells)
  BY DEF NextGen, clearNextCells
<1>4. Put(nextCells, NoCells)[c] = nextCells[c]
  BY <1>2 DEF Put
<1> QED  BY <1>1, <1>2, <1>3, <1>4

\* No living cell loses its colour or becomes younger, whatever the largest
\* age is: the guard before `ac.age += 1` keeps a uint16 from wrapping.
THEOREM AgesNeverWrap == Spec => NeverYounger
<1> DEFINE Keeps(c) == /\ alive'[c].colour = alive[c].colour
                       /\ alive'[c].age >= alive[c].age
                       /\ alive'[c].age <= MaxAge
<1>1. ASSUME TypeOK, NextGen, NEW c \in DOMAIN alive \cap DOMAIN alive'
      PROVE  Keeps(c)
  <2>1. alive'[c] = older(alive[c])
    BY <1>1, CellAfterNextGen DEF born
  <2>2. alive[c] \in Cell
    BY <1>1 DEF TypeOK
  <2> QED  BY <2>1, <2>2, AgeAssumption DEF older, Cell
<1>2. TypeOK /\ [Next]_vars
      => [\A c \in DOMAIN alive \cap DOMAIN alive' : NextGen => Keeps(c)]_vars
  BY <1>1
<1> QED  BY <1>2, TypeCorrect, PTL DEF Spec, NeverYounger

\* A newborn cell takes each colour channel from a different live neighbour.
THEOREM NewbornHasThreeParents == Spec => ThreeParents
<1> DEFINE Inherits(c, p) ==
             /\ p[1] # p[2] /\ p[1] # p[3] /\ p[2] # p[3]
             /\ \A k \in 1 .. 3 :
                  alive'[c].colour[k] = alive[getAdjacent(c, p[k])].colour[k]
<1>1. ASSUME TypeOK, NextGen, NEW c \in DOMAIN alive' \ DOMAIN alive
      PROVE  \E p \in [1 .. 3 -> findAlive(c)] : Inherits(c, p)
  <2>1. c \in World /\ born(c) /\ alive'[c] = newborn(c)
    BY <1>1, CellAfterNextGen DEF TypeOK, survives
  <2> DEFINE Kth(d, k) == Cardinality({e \in findAlive(c) : Rank(e) < Rank(d)}) = k
             parent(k) == CHOOSE d \in findAlive(c) : Kth(d, k)
             p == [k \in 1 .. 3 |-> parent(k - 1)]
  <2>2. \A k \in 0 .. 2 : parent(k) \in findAlive(c) /\ Kth(parent(k), k)
    <3>1. \A k \in 0 .. 2 : \E d \in findAlive(c) : Kth(d, k)
      BY <2>1, FindAlive, ThreeRanked DEF born, numNeighbours, Below
    <3> QED  BY <3>1
  <2>3. \A k \in 0 .. 2 : aliveNeighbours(c, k) = alive[getAdjacent(c, parent(k))]
    BY DEF aliveNeighbours
  <2>4. /\ newborn(c).colour[1] = aliveNeighbours(c, 0).colour[1]
        /\ newborn(c).colour[2] = aliveNeighbours(c, 1).colour[2]
        /\ newborn(c).colour[3] = aliveNeighbours(c, 2).colour[3]
    BY DEF newborn
  <2>5. parent(0) # parent(1) /\ parent(0) # parent(2) /\ parent(1) # parent(2)
    <3>1. Kth(parent(0), 0) /\ Kth(parent(1), 1) /\ Kth(parent(2), 2)
      BY <2>2
    <3>2. \A d, k, j : Kth(d, k) /\ Kth(d, j) => k = j
      OBVIOUS
    <3> HIDE DEF parent, Kth
    <3> QED  BY <3>1, <3>2
  <2> HIDE DEF parent
  <2>6. p[1] = parent(0) /\ p[2] = parent(1) /\ p[3] = parent(2)
    OBVIOUS
  <2>7. p \in [1 .. 3 -> findAlive(c)]
    <3>1. \A k \in 1 .. 3 : k - 1 \in 0 .. 2
      OBVIOUS
    <3> QED  BY <2>2, <3>1
  <2>8. \A k \in 1 .. 3 : alive'[c].colour[k] = alive[getAdjacent(c, p[k])].colour[k]
    <3>1. \A k \in 1 .. 3 : k = 1 \/ k = 2 \/ k = 3
      OBVIOUS
    <3>2. /\ alive'[c].colour[1] = alive[getAdjacent(c, p[1])].colour[1]
          /\ alive'[c].colour[2] = alive[getAdjacent(c, p[2])].colour[2]
          /\ alive'[c].colour[3] = alive[getAdjacent(c, p[3])].colour[3]
      BY <2>1, <2>3, <2>4, <2>6
    <3> QED  BY <3>1, <3>2
  <2>9. Inherits(c, p)
    BY <2>5, <2>6, <2>8
  <2> QED  BY <2>7, <2>9
<1>2. TypeOK /\ [Next]_vars
      => [\A c \in DOMAIN alive' \ DOMAIN alive :
            NextGen => \E p \in [1 .. 3 -> findAlive(c)] : Inherits(c, p)]_vars
  BY <1>1
<1> QED  BY <1>2, TypeCorrect, PTL DEF Spec, ThreeParents

\* A generation that changes nothing leaves the live cells as the only
\* candidates, on every torus: whoever dies or is born would be in the change.
THEOREM StillWorldDropsCandidates == Spec => CandidatesAreDropped
<1>1. ASSUME NextGen, DOMAIN alive' = DOMAIN alive PROVE candidates' = DOMAIN alive'
  <2>1. DOMAIN alive' = {c \in candidates : survives(c) \/ born(c)}
    BY <1>1, LiveAfterNextGen
  <2>2. {c \in candidates : dies(c) \/ born(c)} = {}
    BY <1>1, <2>1 DEF dies, born, survives
  <2>3. nextCandidates = DOMAIN alive
    BY <2>2 DEF nextCandidates, Blocks
  <2> QED  BY <1>1, <2>3 DEF NextGen, clearNextCands
<1>2. [Next]_vars => [NextGen /\ DOMAIN alive' = DOMAIN alive
                         => candidates' = DOMAIN alive']_vars
  BY <1>1
<1> QED  BY <1>2, PTL DEF Spec, CandidatesAreDropped

=============================================================================

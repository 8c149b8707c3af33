-------------------------------- MODULE Game --------------------------------
(***************************************************************************)
(* internal/tui/game.go: the game of the terminal client.  gameModel is    *)
(* the record g, and a method that changes its receiver is an operator     *)
(* from one record to the next.  A position on the screen or in the world  *)
(* is <<x, y>>, a colour <<red, green, blue>>.  bubbletea calls View after *)
(* every Update, so what Update marks dirty is drawn before the next one.  *)
(* Of the text of a row its runs are kept: the SGR prefix, whether it is   *)
(* of half cells, and the length.                                          *)
(***************************************************************************)
EXTENDS Integers, Sequences, SequencesExt, LruCache

CONSTANTS Width16,     \* number of values of a uint16
          BigStep,     \* ten cells: H, J, K, L
          CacheCap,    \* 2048, capacity of sgrPrefixCache
          InitHeight,  \* 20 and
          InitWidth,   \* 40, before the first window size is known
          White        \* 0xFFFFFF

ASSUME GameAssumption == Width16 \in Nat \ {0} /\ BigStep \in Nat \ {0} /\ CacheCap \in Nat

Empty == <<>>      \* emptyCell
NoData == <<>>     \* pendingData is nil
NoCells == [p \in {} |-> Empty]
NoPattern == [cells |-> <<>>, center |-> <<0, 0>>]

uint16(v) == v % Width16

\* Go's % takes the sign of its left operand.
rem(a, n) == IF a >= 0 THEN a % n ELSE -((-a) % n)

dimColor(c) == [i \in 1 .. 3 |-> c[i] \div 2]

Window(g) == (0 .. g.width - 1) \X (0 .. g.height - 1)

isConnected(g) == g.connected /\ g.conn

-----------------------------------------------------------------------------
\* The viewport on the torus.
viewportToWorld(g, p) == [i \in 1 .. 2 |-> rem(p[i] + g.viewport[i], g.worldSize)]

worldToViewport(g, c) ==
    [i \in 1 .. 2 |-> LET v == c[i] - g.viewport[i]
                      IN IF v < 0 THEN v + g.worldSize ELSE v]

\* Mutant: no wrap-around at the far edge.
movedAxisLow(v, d, n) == IF v + d < 0 THEN v + d + n ELSE v + d
movedAxis(v, d, n) ==
    IF v + d < 0 THEN v + d + n ELSE IF v + d >= n THEN v + d - n ELSE v + d

-----------------------------------------------------------------------------
\* The grid, updated by what has changed since the previous update.
clearPrevNot(g) == g
clearPrev(g) == [g EXCEPT !.prev = NoCells]

\* The cells of m.cells on the screen.
currentCells(g) ==
    LET place == [c \in DOMAIN g.cells |-> worldToViewport(g, c)]
        on == {c \in DOMAIN g.cells : place[c] \in Window(g)}
    IN [p \in {place[c] : c \in on} |-> g.cells[CHOOSE c \in on : place[c] = p]]

updateGrid(g) ==
    LET current == currentCells(g)
        gone == DOMAIN g.prev \ DOMAIN current
        changed == {p \in DOMAIN current :
                        p \notin DOMAIN g.prev \/ g.prev[p] # current[p]}
    IN [g EXCEPT !.grid = [p \in DOMAIN @ |-> IF p \in gone THEN Empty
                                              ELSE IF p \in changed THEN current[p]
                                              ELSE @[p]],
                 !.dirty = {p[2] : p \in (gone \cup changed) \cap DOMAIN g.grid},
                 !.prev = current]

markAllRowsDirty(g) == [g EXCEPT !.dirty = 0 .. g.height - 1]

setDimensions(g, height, width, half) ==
    LET w == IF half THEN width + 1 ELSE width
    IN [g EXCEPT !.height = height, !.width = w, !.half = half,
                 !.grid = [p \in (0 .. w - 1) \X (0 .. height - 1) |-> Empty],
                 !.dirty = {},
                 !.rows = [y \in 0 .. height - 1 |-> <<>>]]

-----------------------------------------------------------------------------
\* Pattern placement.
getPatternCenterOffset(g) ==
    <<uint16((g.width \div 2) - g.pattern.center[1]),
      uint16((g.height \div 2) - g.pattern.center[2])>>

getPatternPositions(g) ==
    IF g.placing
    THEN LET offset == getPatternCenterOffset(g)
         IN [j \in 1 .. Len(g.pattern.cells) |->
                 [i \in 1 .. 2 |-> uint16(offset[i] + g.pattern.cells[j][i])]]
    ELSE <<>>

isPatternCell(g, p) == p \in ToSet(getPatternPositions(g))

\* The loop assigns patternCanPlace for every visible position: the last one
\* decides.
updatePatternCanPlace(g) ==
    LET visible == SelectSeq(getPatternPositions(g), LAMBDA p : p \in Window(g))
    IN IF g.placing
       THEN [g EXCEPT !.canPlace = visible = <<>> \/ g.grid[Last(visible)] = Empty,
                      !.dirty = @ \cup {p[2] : p \in ToSet(visible)}]
       ELSE g

\* What is sent for it.  Mutant: positions of the screen are sent.
getPatternCellsOnScreen(g) == ToSet(getPatternPositions(g))
getPatternCells(g) ==
    {[i \in 1 .. 2 |-> uint16(viewportToWorld(g, p)[i])] : p \in ToSet(getPatternPositions(g))}

moveViewport(g, d) ==
    LET moved == updateGrid([g EXCEPT !.viewport =
                     [i \in 1 .. 2 |-> movedAxis(g.viewport[i], d[i], g.worldSize)]])
    IN updatePatternCanPlace(moved)

-----------------------------------------------------------------------------
\* View.  getSGRPrefix asks the cache and adds what it does not hold.
prefixOf(c) == <<"sgr", c>>

getSGRPrefix(cache, c) ==
    IF Has(cache, c) THEN [text |-> cache.m[c], cache |-> Get(cache, c)]
    ELSE [text |-> prefixOf(c), cache |-> Add(cache, c, prefixOf(c), CacheCap)]

\* renderRowRLE: r is the run that grows, out the text so far.
displayColor(g, p) ==
    IF g.placing /\ isPatternCell(g, p)
    THEN IF g.canPlace THEN g.currentColor ELSE dimColor(g.currentColor)
    ELSE IF g.grid[p] # Empty /\ g.placing THEN dimColor(g.grid[p]) ELSE g.grid[p]

flush(s) ==
    IF s.runLen = 0 THEN s
    ELSE IF s.color = Empty
    THEN [s EXCEPT !.out = Append(@, [text |-> Empty, half |-> s.half, len |-> s.runLen])]
    ELSE LET sgr == getSGRPrefix(s.cache, s.color)
         IN [s EXCEPT !.out = Append(@, [text |-> sgr.text, half |-> s.half, len |-> s.runLen]),
                      !.cache = sgr.cache]

sameRun(s, color, half) == color = s.color /\ half = s.half

extend(s, color, half) ==
    IF s.runLen # 0 /\ sameRun(s, color, half) THEN [s EXCEPT !.runLen = @ + 1]
    ELSE [flush(s) EXCEPT !.color = color, !.half = half, !.runLen = 1]

\* The loop over row y: where it is after n columns.
scan(g, y, cache) ==
    LET after[n \in 0 .. g.width] ==
            IF n = 0
            THEN [out |-> <<>>, color |-> Empty, half |-> FALSE, runLen |-> 0, cache |-> cache]
            ELSE extend(after[n - 1], displayColor(g, <<n - 1, y>>), g.half /\ n = g.width)
    IN after

renderRowRLE(g, y, cache) == flush(scan(g, y, cache)[g.width])

\* The rows that are dirty, from the top: the cache that row n is drawn with.
drawn(g, y) == y \in g.dirty \/ g.placing

caches(g) ==
    LET before[n \in 0 .. g.height] ==
            IF n = 0 THEN g.sgr
            ELSE IF drawn(g, n - 1) THEN renderRowRLE(g, n - 1, before[n - 1]).cache
            ELSE before[n - 1]
    IN before

View(g) ==
    [g EXCEPT !.rows = [y \in 0 .. g.height - 1 |->
                            IF drawn(g, y) THEN renderRowRLE(g, y, caches(g)[y]).out ELSE @[y]],
              !.sgr = caches(g)[g.height],
              !.dirty = {}]

\* What the user reads in column x of row y: the text of the run over it, or
\* nothing where the row is shorter.
covered(r) == [i \in 1 .. r.len |-> r.text]

columnsTo(row) ==
    LET upTo[n \in 0 .. Len(row)] == IF n = 0 THEN <<>> ELSE upTo[n - 1] \o covered(row[n])
    IN upTo

Columns(row) == columnsTo(row)[Len(row)]

Look(g, p) == LET columns == Columns(g.rows[p[2]])
              IN IF p[1] < Len(columns) THEN columns[p[1] + 1] ELSE Empty

-----------------------------------------------------------------------------
\* The model UIModel.Init makes, after gameModel.Init.
InitGame ==
    markAllRowsDirty(setDimensions(
        [worldSize |-> 0, cells |-> NoCells, width |-> 0, height |-> 0, half |-> FALSE,
         grid |-> NoCells, prev |-> NoCells, dirty |-> {}, rows |-> <<>>, sgr |-> NewLruCache,
         running |-> FALSE, speed |-> 0, saving |-> FALSE, connected |-> FALSE,
         conn |-> FALSE, err |-> FALSE, viewport |-> <<0, 0>>, currentColor |-> White,
         placing |-> FALSE, pattern |-> NoPattern, canPlace |-> FALSE, pending |-> NoData],
        InitHeight, InitWidth, FALSE))

\* Update, message by message: what it makes of the model.
colorSelected(g, color) == [g EXCEPT !.currentColor = color]

patternSelected(g, pattern) ==
    markAllRowsDirty(updatePatternCanPlace([g EXCEPT !.placing = TRUE, !.pattern = pattern]))

\* Where a click lands on the grid, below the header.  Mutant: the line of the
\* error is forgotten.
headerLinesOne(g) == 1
headerLines(g) == IF g.err THEN 2 ELSE 1

clicked(g, X, Y) ==
    LET x == (X - 1) \div 2
    IN <<IF g.half /\ x >= g.width - 1 THEN g.width - 1 ELSE x, Y - headerLines(g) - 1>>

clickSends(g, X, Y) == /\ ~g.placing /\ isConnected(g)
                       /\ X >= 1 /\ clicked(g, X, Y)[2] \in 0 .. g.height - 1

clickedCell(g, X, Y) == [i \in 1 .. 2 |-> uint16(viewportToWorld(g, clicked(g, X, Y))[i])]

Delta(k) == CASE k = "h" -> <<-1, 0>> [] k = "H" -> <<-BigStep, 0>>
              [] k = "j" -> <<0, 1>>  [] k = "J" -> <<0, BigStep>>
              [] k = "k" -> <<0, -1>> [] k = "K" -> <<0, -BigStep>>
              [] k = "l" -> <<1, 0>>  [] k = "L" -> <<BigStep, 0>>

MoveKeys == {"h", "j", "k", "l", "H", "J", "K", "L"}

stopPlacing(g) == markAllRowsDirty([g EXCEPT !.placing = FALSE])

canPlaceNow(g) == g.placing /\ g.canPlace /\ isConnected(g)

\* Of the normal controls only s, S and ctrl+s change the model themselves.
keyPressed(g, k) ==
    IF k \in MoveKeys THEN moveViewport(g, Delta(k))
    ELSE IF g.placing
    THEN IF k = "esc" \/ (k = "enter" /\ canPlaceNow(g)) THEN stopPlacing(g) ELSE g
    ELSE IF ~isConnected(g) THEN g
    ELSE CASE k = "S" -> [g EXCEPT !.speed = @ + 1]
           [] k = "s" /\ g.speed > 1 -> [g EXCEPT !.speed = @ - 1]
           [] k = "ctrl+s" -> [g EXCEPT !.saving = TRUE]
           [] OTHER -> g

Commands == [r |-> "Randomise", x |-> "Clear", n |-> "Next"]

\* The messages its tea.Cmd writes to the socket: a set of none or one.
keySends(g, k) ==
    IF ~isConnected(g) THEN {}
    ELSE IF g.placing
    THEN IF k = "enter" /\ g.canPlace
         THEN {[type |-> "SetCells", cells |-> getPatternCells(g), colour |-> g.currentColor]}
         ELSE {}
    ELSE CASE k = " " -> {[type |-> IF g.running THEN "Pause" ELSE "Play"]}
           [] k \in DOMAIN Commands -> {[type |-> Commands[k]]}
           [] k = "S" -> {[type |-> "SetSpeed", speed |-> uint16(g.speed + 1)]}
           [] k = "s" /\ g.speed > 1 -> {[type |-> "SetSpeed", speed |-> uint16(g.speed - 1)]}
           [] OTHER -> {}

keySaves(g, k) == k = "ctrl+s" /\ ~g.placing /\ isConnected(g)

quitMessage(g) == [g EXCEPT !.conn = FALSE]

connectionResult(g, ok, size) ==
    [g EXCEPT !.connected = ok, !.conn = ok, !.err = ~ok, !.worldSize = IF ok THEN size ELSE 0]

\* wsMessage: an error, or data that replaces what no tick has processed yet.
wsError(g) == [g EXCEPT !.err = TRUE, !.connected = FALSE]

\* Mutant: data that is waiting is kept.
cacheDataOnce(g, data) == IF g.pending = NoData THEN [g EXCEPT !.pending = data] ELSE g
cacheData(g, data) == [g EXCEPT !.pending = data]

\* An output that does not decode, which would be reported as an error, does not
\* come from the server.
tickMsg(g) ==
    IF g.pending = NoData THEN g
    ELSE [updateGrid([g EXCEPT !.cells = g.pending.cells, !.running = g.pending.running,
                               !.speed = g.pending.speed])
             EXCEPT !.pending = NoData]

\* saveGameResult.
saveResult(g, ok) == [g EXCEPT !.err = @ \/ ~ok, !.saving = FALSE]

windowSize(g, h, w) ==
    LET half == (w - 2) % 2 = 1
        width == (w - 2) \div 2
    IN IF h > 3 /\ w > 6 /\ (h - 3 # g.height \/ width # g.width \/ half # g.half)
       THEN updatePatternCanPlace(updateGrid(markAllRowsDirty(clearPrev(
                setDimensions(g, h - 3, width, half)))))
       ELSE g

=============================================================================

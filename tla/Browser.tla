------------------------------ MODULE Browser ------------------------------
(***************************************************************************)
(* The wasm worker of the browser client, cmd/wasm/main.go: main reads     *)
(* outputs, onMessage handles what the page posts, and drawFunc runs when  *)
(* the browser is about to paint.  The worker has one thread and none of   *)
(* the three waits in the middle, so that each is one action.  The page    *)
(* posts init once and then its settings; the server takes messages one at *)
(* a time and sends an output after each change.                           *)
(***************************************************************************)
EXTENDS Canvas, Protocol, Patterns, SequencesExt, FiniteSets

CONSTANTS Worlds,      \* cells an output may bring, as sequences of cells
          Pictures,    \* the pattern table, as pictures
          Users,       \* of whom a run has one: what they do with the page, and
                       \* the cell sizes they choose
          CellSizes, Sizes, Drags, Mice,   \* what the page may post
          Colour,      \* the colour the page has chosen
          ReadLimit,   \* 33554432, bytes of a message
          MaxOutputs   \* bound on the server's own changes

\* A protocol.Cell of the world.
WorldCell == [x : 0 .. axisLength - 1, y : 0 .. axisLength - 1,
              colour : 0 .. Two24 - 1, age : 0 .. Two16 - 1]

Place(cell) == <<cell.x, cell.y>>

ASSUME WorldsAssumption ==
    \A w \in Worlds :
        /\ w \in Seq(WorldCell)
        /\ \A i, j \in DOMAIN w : Place(w[i]) = Place(w[j]) => i = j

ASSUME PicturesAssumption ==
    \A i \in DOMAIN Pictures :
        LET pattern == Table(Pictures)[i]
        IN /\ pattern.cells \in Seq(Nat \X Nat) /\ Len(pattern.cells) <= MaxUint16
           /\ pattern.center \in Nat \X Nat

ASSUME PageAssumption ==
    /\ CellSizes \subseteq Nat \ {0} /\ Sizes \subseteq Nat \X Nat
    /\ Drags \subseteq Int \X Int /\ Mice \subseteq Int \X Int
    /\ Colour \in 0 .. Two24 - 1 /\ MaxOutputs \in Nat

NoDrawer == <<>>
NoHandle == 0
Handles == 1 .. 2

VARIABLES drawer,      \* nil, or the canvasDrawer
          settled,     \* the page has posted its first settings
          output,      \* cellsCache, and what the page was last told
          drawHandle,  \* of the frame that was asked for last
          frames,      \* the browser's callbacks for the next paint, by handle
          canvas,      \* what the canvas shows
          up, down,    \* messages on the socket
          server,      \* the server's world, state and speed
          connected,   \* the worker is running and its socket open
          user, outputs

page == <<drawer, settled>>
paint == <<drawHandle, frames, canvas>>
vars == <<drawer, settled, output, drawHandle, frames, canvas, up, down, server, connected,
          user, outputs>>

Out(s) == [playing |-> s.playing, speed |-> s.speed, count |-> Len(s.cells), cells |-> s.cells]

Init == /\ drawer = NoDrawer
        /\ settled = FALSE
        /\ \E w \in Worlds : server = [playing |-> FALSE, speed |-> 1, cells |-> w]
        /\ output = [playing |-> FALSE, speed |-> 0, count |-> 0, cells |-> <<>>]
        /\ drawHandle = NoHandle
        /\ frames = {}
        /\ canvas = NoDrawer
        /\ up = <<>>
        /\ down = <<encodeOutput(Out(server))>>
        /\ connected = TRUE
        /\ user \in Users
        /\ outputs = 0

-----------------------------------------------------------------------------
\* draw: the frame asked for before is cancelled.  Mutant: it is not.
cancelNot(h) == frames
cancel(h) == frames \ {h}

draw == LET handle == CHOOSE h \in Handles : h \notin frames /\ h # drawHandle
        IN /\ drawHandle' = handle
           /\ frames' = cancel(drawHandle) \cup {handle}
           /\ UNCHANGED canvas

\* drawFunc: without a drawer the handle stays.
drawFunc(h) ==
    /\ connected
    /\ h \in frames
    /\ frames' = frames \ {h}
    /\ IF drawer # NoDrawer
       THEN canvas' = Draw(drawer, output.cells) /\ drawHandle' = NoHandle
       ELSE UNCHANGED <<canvas, drawHandle>>
    /\ UNCHANGED <<page, output, up, down, server, connected, user, outputs>>

\* One turn of main's loop; an error ends the program.
readable(b) == b.len <= ReadLimit /\ decodeOutput(b).ok

read ==
    /\ connected
    /\ down # <<>>
    /\ down' = Tail(down)
    /\ IF readable(Head(down))
       THEN output' = decodeOutput(Head(down)).msg /\ draw /\ UNCHANGED connected
       ELSE connected' = FALSE /\ UNCHANGED <<output, paint>>
    /\ UNCHANGED <<page, up, server, user, outputs>>

disconnect == /\ connected
              /\ "disconnect" \in user.does
              /\ connected' = FALSE
              /\ UNCHANGED <<page, output, paint, up, down, server, user, outputs>>

-----------------------------------------------------------------------------
\* onMessage: what the page posts.
Posted == connected /\ UNCHANGED <<output, down, server, connected, user, outputs>>

handleInit(cellSize, size) ==
    /\ Posted
    /\ cellSize \in user.cellSizes
    /\ drawer = NoDrawer
    /\ drawer' = NewCanvasDrawer(cellSize, size)
    /\ UNCHANGED <<settled, paint, up>>

\* The settings change only the grid lines.  Mutant: nothing is drawn.
handleSettingsQuietly ==
    /\ Posted
    /\ drawer # NoDrawer
    /\ settled' = TRUE
    /\ UNCHANGED <<drawer, paint, up>>
handleSettingsChange ==
    /\ Posted
    /\ drawer # NoDrawer
    /\ settled' = TRUE
    /\ draw
    /\ UNCHANGED <<drawer, up>>

Redraws(does, cd) == /\ Posted
                     /\ settled
                     /\ does \in user.does
                     /\ drawer' = cd
                     /\ draw
                     /\ UNCHANGED <<settled, up>>

handleCanvasDrag(d) == settled /\ Redraws("drag", IncrementOffset(drawer, d))

handleCellSizeChange(cellSize, mouse) ==
    /\ settled
    /\ cellSize \in user.cellSizes
    /\ ZoomIsExact(drawer, cellSize, mouse)
    /\ Redraws("zoom", SetCellSize(drawer, cellSize, mouse))

handleResize(size) == settled /\ Redraws("resize", SetDimensions(drawer, size))

\* sendClientMessage, and no draw.  Bound: a user sends one message at a time.
Sends(does, m) == /\ Posted
                  /\ settled
                  /\ does \in user.does
                  /\ up = <<>> /\ down = <<>> /\ outputs < MaxOutputs
                  /\ up' = Append(up, Encode(m))
                  /\ UNCHANGED <<page, paint>>

handleCommand(cmd) == Sends("command", [type |-> "Command", cmd |-> cmd])

handleSetSpeed(speed) == Sends("speed", [type |-> "SetSpeed", speed |-> uint16(speed)])

NewCell(x, y) == [x |-> x, y |-> y, colour |-> Colour, age |-> 0]

SetCells(cells) == [type |-> "SetCells", count |-> uint16(Len(cells)), cells |-> cells]

\* The page sends the one coordinate 0, 0.
cellsAt(origin) == <<NewCell(uint16(origin[1] + 0), uint16(origin[2] + 0))>>

handleSetCells(p) == settled /\ Sends("cell", SetCells(cellsAt(PixelToCellCoord(drawer, p))))

patternAt(pattern, origin) ==
    LET at(c, i) == SumCoords(uint16(origin[i] - pattern.center[i]), c[i])
    IN [j \in DOMAIN pattern.cells |-> NewCell(at(pattern.cells[j], 1), at(pattern.cells[j], 2))]

handleSetPattern(p, i) ==
    /\ settled
    /\ Sends("pattern",
             SetCells(patternAt(Table(Pictures)[i], PixelToCellCoord(drawer, p))))

onMessage ==
    \/ \E s \in CellSizes, z \in Sizes : handleInit(s, z)
    \/ handleSettingsChange
    \/ \E d \in Drags : handleCanvasDrag(d)
    \/ \E s \in CellSizes, m \in Mice : handleCellSizeChange(s, m)
    \/ \E z \in Sizes : handleResize(z)
    \/ \E c \in {"Play", "Pause", "Clear"} : handleCommand(c)
    \/ \E s \in {1, 2} : handleSetSpeed(s)
    \/ settled /\ \E p \in Pixels(drawer) : \/ handleSetCells(p)
                                            \/ \E i \in DOMAIN Pictures : handleSetPattern(p, i)

-----------------------------------------------------------------------------
Serve(new) == /\ server' = new
              /\ down' = Append(down, encodeOutput(Out(new)))
              /\ outputs' = outputs + 1
              /\ UNCHANGED <<page, output, paint, connected, user>>

Alive == {Place(server.cells[i]) : i \in DOMAIN server.cells}

\* What the server makes of a message, or the world it has when it refuses it.
Handled(m) ==
    CASE m.type = "Command" -> IF m.cmd = "Clear" THEN [server EXCEPT !.cells = <<>>]
                               ELSE [server EXCEPT !.playing = (m.cmd = "Play")]
      [] m.type = "SetSpeed" -> [server EXCEPT !.speed = m.speed]
      [] m.type = "SetCells" ->
             IF \E i \in DOMAIN m.cells : Place(m.cells[i]) \in Alive
             THEN server ELSE [server EXCEPT !.cells = @ \o m.cells]

serve == /\ up # <<>>
         /\ up' = Tail(up)
         /\ LET m == DecodeClientMessage(Head(up))
            IN IF ~m.ok \/ Handled(m.msg) = server
               THEN UNCHANGED <<page, output, paint, down, server, connected, user, outputs>>
               ELSE Serve(Handled(m.msg))

\* A step of the server's ticker, or of another client.  Bound: an output is
\* kept back for each message under way.
change == /\ outputs + Len(up) < MaxOutputs
          /\ "watch" \in user.does
          /\ \E w \in Worlds : w # server.cells /\ Serve([server EXCEPT !.cells = w])
          /\ UNCHANGED up

-----------------------------------------------------------------------------
Next == read \/ (\E h \in Handles : drawFunc(h)) \/ onMessage \/ disconnect \/ serve \/ change

Spec == Init /\ [][Next]_vars

\* The worker's thread takes what has arrived, the page posts its first
\* messages, and the browser paints.
Fairness == /\ WF_vars(read)
            /\ WF_vars(\E h \in Handles : drawFunc(h))
            /\ WF_vars(\E s \in CellSizes, z \in Sizes : handleInit(s, z))
            /\ WF_vars(~settled /\ handleSettingsChange)

FairSpec == Spec /\ Fairness

-----------------------------------------------------------------------------
\* Offsets stay within one world, whatever is dragged and zoomed.
TypeOK == /\ drawer # NoDrawer =>
                 /\ drawer.cellSize \in Nat \ {0}
                 /\ \A i \in Axes : abs(drawer.offset[i]) < worldSize(drawer) * Fraction
                 /\ canvas # NoDrawer => \A p \in DOMAIN canvas : p \in Nat \X Nat
          /\ settled \in BOOLEAN /\ connected \in BOOLEAN
          /\ drawHandle \in Handles \cup {NoHandle} /\ frames \subseteq Handles
          /\ output.count = Len(output.cells)
          /\ outputs \in 0 .. MaxOutputs

\* The browser holds one frame of the worker's at most, and it is the one the
\* worker could cancel.
OneFrameAsked == Cardinality(frames) <= 1 /\ frames \subseteq {drawHandle}

\* The cell of the torus whose square is at pixel p, the world drawn from the
\* offset's whole pixels on.
CellUnder(cd, p) ==
    [i \in Axes |-> ((p[i] - int(cd.offset[i])) \div cd.cellSize) % axisLength]

InDrawnWorld(cd, p) == \A i \in Axes : p[i] < worldSize(cd)

Redrawn(cd, p) ==
    LET here == {i \in DOMAIN output.cells :
                     <<output.cells[i].x, output.cells[i].y>> = CellUnder(cd, p)}
    IN IF here = {} \/ ~InDrawnWorld(cd, p) THEN Blank
       ELSE output.cells[CHOOSE i \in here : TRUE].colour

\* The boundaries belong to the size the canvas has.
Fresh(cd) == calcVisibleCoordinates(cd) = cd

\* Drags and zooms reckon the boundaries anew, so that a resize is all that
\* leaves them stale.
BoundariesFollow ==
    [][settled /\ drawer' # drawer /\ drawer'.size = drawer.size => Fresh(drawer')]_vars

\* With no frame asked for, the canvas shows the newest output on the torus at
\* the offset and the cell size of now.  Only after a resize, until the next
\* drag or zoom, a cell may be missing; nothing is ever drawn that is not there.
CanvasIsCurrent ==
    settled /\ drawHandle = NoHandle =>
        /\ DOMAIN canvas = Pixels(drawer)
        /\ \A p \in Pixels(drawer) :
               \/ canvas[p] = Redrawn(drawer, p)
               \/ canvas[p] = Blank /\ ~Fresh(drawer)

\* A click goes to the cell drawn there, but for the first pixel of a square, which
\* may go to the cell before: where an offset to the right or down has a fraction,
\* which is cut when drawing and not when clicking, and where the cell size is no
\* power of two, so that its inverse is rounded.
ClickHitsDrawnCell ==
    settled => \A p \in Pixels(drawer), i \in Axes :
        LET d == p[i] - int(drawer.offset[i])
            under(q) == (q \div drawer.cellSize) % axisLength
            cut == drawer.offset[i] > 0 /\ drawer.offset[i] % Fraction # 0
        IN \/ PixelToCellCoord(drawer, p)[i] = under(d)
           \/ /\ d % drawer.cellSize = 0
              /\ cut \/ ~InverseIsExact(drawer.cellSize)
              /\ PixelToCellCoord(drawer, p)[i] = under(d - 1)

\* A pattern dropped at p arrives at the server whole, centred on the cell of p,
\* on the torus and inside the world.
Arrived(messages) == DecodeClientMessage(Last(messages))

PatternIsDroppedWhole ==
    [][settled /\ "pattern" \in user.does => \A p \in Pixels(drawer), i \in DOMAIN Pictures :
           handleSetPattern(p, i) =>
               LET pattern == Table(Pictures)[i]
                   c == PixelToCellCoord(drawer, p)
               IN /\ Arrived(up').ok
                  /\ {<<a.x, a.y>> : a \in ToSet(Arrived(up').msg.cells)}
                         = {[j \in Axes |-> (c[j] + q[j] - pattern.center[j]) % axisLength] :
                                q \in ToSet(pattern.cells)}]_vars

\* The newest output is drawn, also when it arrived before the page was ready
\* and however often a drag asks for a new frame.
Shown == /\ settled /\ down = <<>> /\ drawHandle = NoHandle
         /\ output.cells = server.cells /\ output.playing = server.playing
         /\ output.speed = server.speed

OutputIsDrawn == down # <<>> ~> Shown \/ ~connected

=============================================================================

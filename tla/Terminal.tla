------------------------------ MODULE Terminal ------------------------------
(***************************************************************************)
(* The terminal client: internal/tui/ui.go routes each message of          *)
(* bubbletea to the game or to the overlay in front of it, and client.go   *)
(* talks to the server.  A tea.Cmd runs in a goroutine of its own, so      *)
(* sends are written, and results delivered, in any order.  The server is  *)
(* what the client may rely on: it takes messages one at a time and sends  *)
(* an output after each change, in order (modules Engine and Server have   *)
(* what it does inside).                                                   *)
(*                                                                         *)
(* One action is one message handled by Update, with the View that         *)
(* follows, or one step of a command's goroutine or of the server.         *)
(***************************************************************************)
EXTENDS Game, Overlays, Patterns, Bags, FiniteSets

CONSTANTS WorldSize,    \* what /globals answers
          Worlds,       \* cells the server's world may have, as functions
          Pictures,     \* the pattern list, in its order, as pictures
          Users,        \* users of whom a run has one: the keys (and "mouse",
                        \* "resize") they use, the outcomes of connecting, the
                        \* bounds on messages and on the server's own changes
          Clicks,       \* where the mouse is released
          WindowSizes,  \* <<height, width>> of the terminal
          MaxStray      \* bound on the moves out of the world before it is known

PatternList == Table(Pictures)

\* A colour of 24 bits, and a cell of the world.
Colours == [1 .. 3 -> 0 .. MaxChannel]
WorldCells == (0 .. WorldSize - 1) \X (0 .. WorldSize - 1)

\* The engine wraps coordinates with a mask, so that the world's size divides
\* the width of a uint16; the steps of H, J, K and L are no longer than it.
ASSUME TerminalAssumption ==
    /\ WorldSize \in Nat \ {0} /\ Width16 > 1 /\ Width16 % WorldSize = 0
    /\ BigStep <= WorldSize /\ MaxStray \in Nat
    /\ White \in Colours /\ InitHeight \in Nat \ {0} /\ InitWidth \in Nat \ {0}
    /\ WindowSizes \subseteq Nat \X Nat
    /\ Clicks \subseteq Int \X Int

ASSUME WorldsAssumption ==
    \A w \in Worlds : w \in [DOMAIN w -> Colours] /\ DOMAIN w \subseteq WorldCells

ASSUME UsersAssumption ==
    \A u \in Users : u.dials \subseteq BOOLEAN /\ u.sends \in Nat /\ u.changes \in Nat

\* The list has patterns, and no terminal is so wide or tall that a pattern in
\* its middle reaches past a uint16.
ASSUME PicturesAssumption ==
    /\ PatternList \in Seq([cells : Seq(Nat \X Nat), center : Nat \X Nat])
    /\ PatternList # <<>>
    /\ \A s \in WindowSizes \cup {<<InitHeight, InitWidth>>}, i \in DOMAIN PatternList :
           \A c \in ToSet(PatternList[i].cells) \cup {PatternList[i].center} :
               s[2] + c[1] <= Width16 /\ s[1] + c[2] <= Width16

VARIABLES game,         \* gameModel
          foreground,   \* foregroundModel and its two models
          visible,      \* UIModel.foregroundVisible
          mail,         \* messages of finished commands, not yet delivered
          dialling,     \* connectToAPI is under way
          listening,    \* a listenForMessages goroutine is in conn.Read
          saves,        \* saveGame goroutines under way
          sending,      \* bag of messages of the send goroutines
          server,       \* the server's world, state and speed
          down,         \* outputs on their way to the client
          running,      \* the program runs
          user,         \* one of Users
          sends,        \* number of messages sent so far
          changes       \* number of the server's own changes so far

ui == <<game, foreground, visible>>
net == <<dialling, listening, sending, server, down>>
bounds == <<user, sends, changes>>

vars == <<game, foreground, visible, mail, dialling, listening, saves, sending, server,
          down, running, user, sends, changes>>

Init == /\ game = View(InitGame)
        /\ foreground = InitForeground(White)
        /\ visible = FALSE
        /\ mail = {} /\ dialling = TRUE /\ listening = FALSE /\ saves = 0
        /\ sending = EmptyBag
        /\ \E w \in Worlds : server = [cells |-> w, running |-> FALSE, speed |-> 1]
        /\ down = <<>>
        /\ running = TRUE
        /\ user \in Users
        /\ sends = 0 /\ changes = 0

-----------------------------------------------------------------------------
\* The program calls Update, then View.
Show(g) == game' = View(g)

Send(messages) ==
    /\ sends + Cardinality(messages) <= user.sends
    /\ sends' = sends + Cardinality(messages)
    /\ sending' = sending (+) SetToBag(messages)

toGame(k) ==
    /\ Show(keyPressed(game, k))
    /\ Send(keySends(game, k))
    /\ saves' = IF keySaves(game, k) THEN saves + 1 ELSE saves
    /\ saves' <= user.sends
    /\ UNCHANGED <<foreground, mail>>

\* ctrl+n copies the game's colour first.
synced(k) == IF k = "ctrl+n" THEN SetCurrentColor(foreground, game.currentColor) ELSE foreground

toForeground(k) ==
    /\ Show(game)
    /\ foreground' = foregroundKey(synced(k), k, Len(PatternList))
    /\ mail' = mail \cup foregroundSends(foreground', k, Len(PatternList))
    /\ UNCHANGED <<saves, sending, sends>>

OverlayKeys == {"?", "ctrl+p", "ctrl+n"}

toFront(k) == visible \/ k \in OverlayKeys

key(k) == /\ k \in user.does \ {"q", "mouse", "resize"}
          /\ k \in MoveKeys /\ game.worldSize = 0
                 => \A i \in 1 .. 2 : game.viewport[i] \in -MaxStray .. MaxStray
          /\ IF k # "esc" /\ toFront(k)
             THEN visible' = TRUE /\ toForeground(k)
             ELSE visible' = FALSE /\ toGame(k)
          /\ UNCHANGED <<dialling, listening, server, down, running, user, changes>>

quit == /\ "q" \in user.does
        /\ Show(quitMessage(game))
        /\ running' = FALSE
        /\ UNCHANGED <<foreground, visible, mail, saves, net, bounds>>

mouse(X, Y) ==
    /\ "mouse" \in user.does
    /\ ~visible
    /\ clickSends(game, X, Y)
    /\ Send({[type |-> "SetCells", cells |-> {clickedCell(game, X, Y)},
              colour |-> game.currentColor]})
    /\ Show(game)
    /\ UNCHANGED <<foreground, visible, mail, dialling, listening, saves, server, down,
                   running, user, changes>>

resize(s) == /\ "resize" \in user.does
             /\ Show(windowSize(game, s[1], s[2]))
             /\ UNCHANGED <<foreground, visible, mail, saves, net, running, bounds>>

tick == /\ game.pending # NoData
        /\ Show(tickMsg(game))
        /\ UNCHANGED <<foreground, visible, mail, saves, net, running, bounds>>

\* A message of a finished command.  The two selections close the overlay.
\* Mutant: listenForMessages is called once.
listenOnce(m) == m.type = "connected" /\ m.ok
listensAfter(m) ==
    (m.type = "connected" /\ m.ok) \/ (m.type = "data" /\ isConnected(game))

updated(m) ==
    CASE m.type = "color" -> colorSelected(game, m.color)
      [] m.type = "pattern" -> patternSelected(game, PatternList[m.number])
      [] m.type = "connected" -> connectionResult(game, m.ok, WorldSize)
      [] m.type = "data" -> cacheData(game, m.data)
      [] m.type = "error" -> wsError(game)
      [] m.type = "saved" -> saveResult(game, m.ok)

deliver(m) ==
    /\ m \in mail
    /\ mail' = mail \ {m}
    /\ Show(updated(m))
    /\ visible' = (visible /\ m.type \notin {"color", "pattern"})
    /\ listening' = (listening \/ listensAfter(m))
    /\ UNCHANGED <<foreground, dialling, saves, sending, server, down, running, bounds>>

-----------------------------------------------------------------------------
\* connectToAPI: on success the server sends its newest output first.
connect ==
    /\ dialling
    /\ dialling' = FALSE
    /\ \E ok \in user.dials :
           /\ mail' = mail \cup {[type |-> "connected", ok |-> ok]}
           /\ down' = IF ok THEN <<server>> ELSE <<>>
    /\ UNCHANGED <<ui, listening, saves, sending, server, running, bounds>>

\* listenForMessages: the next output, or an error that ends it.
listenForMessages ==
    /\ listening /\ game.conn
    /\ \/ /\ down # <<>>
          /\ mail' = mail \cup {[type |-> "data", data |-> Head(down)]}
          /\ down' = Tail(down)
       \/ mail' = mail \cup {[type |-> "error"]} /\ UNCHANGED down
    /\ listening' = FALSE
    /\ UNCHANGED <<ui, dialling, saves, sending, server, running, bounds>>

\* What the server refuses, without an output: Next, Play or Pause in the wrong
\* state, a speed it has already, cells of which one is alive.
Refused(m) ==
    CASE m.type \in {"Next", "Play"} -> server.running
      [] m.type = "Pause" -> ~server.running
      [] m.type = "SetSpeed" -> m.speed = server.speed
      [] m.type = "SetCells" -> m.cells \cap DOMAIN server.cells # {}
      [] OTHER -> FALSE

WithCells(m) == [c \in DOMAIN server.cells \cup m.cells |->
                     IF c \in m.cells THEN m.colour ELSE server.cells[c]]

\* What it becomes otherwise; the world of Randomise and Next is any.
Handled(m) ==
    CASE m.type = "SetCells" -> {[server EXCEPT !.cells = WithCells(m)]}
      [] m.type = "SetSpeed" -> {[server EXCEPT !.speed = m.speed]}
      [] m.type \in {"Play", "Pause"} -> {[server EXCEPT !.running = (m.type = "Play")]}
      [] m.type = "Clear" -> {[server EXCEPT !.cells = NoCells]}
      [] OTHER -> {[server EXCEPT !.cells = w] : w \in Worlds}

serve(new) == /\ server' = new
              /\ down' = Append(down, new)

\* conn.Write of one send goroutine.  Once a read has failed it may fail too,
\* which is logged and no more.
Broken == ~game.connected \/ [type |-> "error"] \in mail

write(m) ==
    /\ BagIn(m, sending)
    /\ sending' = sending (-) SetToBag({m})
    /\ \/ (Broken \/ Refused(m)) /\ UNCHANGED <<server, down>>
       \/ ~Refused(m) /\ \E new \in Handled(m) : serve(new)
    /\ UNCHANGED <<ui, mail, dialling, listening, saves, running, bounds>>

\* Another client, or the server's ticker.
change == /\ changes < user.changes /\ ~dialling
          /\ changes' = changes + 1
          /\ \E w \in Worlds : w # server.cells /\ serve([server EXCEPT !.cells = w])
          /\ UNCHANGED <<ui, mail, dialling, listening, saves, sending, running, user, sends>>

\* saveGame posts to /save.
saveDone == /\ saves > 0
            /\ saves' = saves - 1
            /\ \E ok \in BOOLEAN : mail' = mail \cup {[type |-> "saved", ok |-> ok]}
            /\ UNCHANGED <<ui, net, running, bounds>>

-----------------------------------------------------------------------------
client == \/ \E k \in user.does : key(k)
          \/ quit
          \/ \E c \in Clicks : mouse(c[1], c[2])
          \/ \E s \in WindowSizes : resize(s)
          \/ tick
          \/ \E m \in mail : deliver(m)

commands == connect \/ listenForMessages \/ (\E m \in BagToSet(sending) : write(m)) \/ saveDone

Next == running /\ (client \/ commands \/ change)

Spec == Init /\ [][Next]_vars

\* A read returns when there is data, the program takes the messages it is
\* sent, and its ticker goes on: weak fairness, with what enables the action
\* written out.
news == {m \in mail : m.type \in {"connected", "data", "error"}}

Fairness ==
    /\ []<>~(running /\ game.pending # NoData) \/ []<><<tick>>_vars
    /\ []<>~(running /\ listening /\ game.conn /\ down # <<>>)
           \/ []<><<down # <<>> /\ listenForMessages>>_vars
    /\ []<>~(running /\ news # {}) \/ []<><<\E m \in news : deliver(m)>>_vars

FairSpec == Spec /\ Fairness

-----------------------------------------------------------------------------
InWorld(g) == g.worldSize > 0 /\ \A i \in 1 .. 2 : g.viewport[i] \in 0 .. g.worldSize - 1

\* A click with the viewport still astray from before the connection may send a
\* cell outside the world.
CellsInWorld(g) == DOMAIN g.cells \subseteq WorldCells

TypeOK == /\ game.width \in Nat \ {0} /\ game.height \in Nat \ {0}
          /\ game.viewport \in [1 .. 2 -> Int]
          /\ game.grid \in [Window(game) -> Colours \cup {Empty}]
          /\ DOMAIN game.rows = 0 .. game.height - 1
          /\ game.dirty = {}
          /\ game.speed \in Nat
          /\ game.currentColor \in Colours
          /\ foreground.picker \in [rgb : Colours, slider : 0 .. 2]
          /\ visible \in BOOLEAN /\ listening \in BOOLEAN /\ dialling \in BOOLEAN
          /\ server.speed \in 0 .. Width16 - 1
          /\ sends \in 0 .. user.sends /\ changes \in 0 .. user.changes

-----------------------------------------------------------------------------
\* Position p of the screen as a cell of the world; a screen wider or taller
\* than the world shows it once.
WorldAt(g, p) == [i \in 1 .. 2 |-> (p[i] + g.viewport[i]) % WorldSize]

OverWorld(p) == p[1] < WorldSize /\ p[2] < WorldSize

\* The pattern, centred on the screen: where it is there, and as cells of the
\* world.
Middle(g) == <<g.width \div 2, g.height \div 2>>

Places(g) == {[i \in 1 .. 2 |-> Middle(g)[i] - g.pattern.center[i] + c[i]] :
                  c \in ToSet(g.pattern.cells)}

Centred(g) == {WorldAt(g, p) : p \in Places(g)}

\* What a redraw of the whole screen from the newest cells would show there.
Redrawn(g, p) ==
    LET w == WorldAt(g, p)
        dimmed(c) == IF g.placing THEN dimColor(c) ELSE c
    IN IF g.placing /\ p \in Places(g)
       THEN prefixOf(IF g.canPlace THEN g.currentColor ELSE dimColor(g.currentColor))
       ELSE IF OverWorld(p) /\ w \in DOMAIN g.cells THEN prefixOf(dimmed(g.cells[w]))
       ELSE Empty

\* Whatever was moved, resized, placed, coloured or received, and in whatever
\* order, the rows kept and the rows drawn anew, with their cached prefixes, are
\* the whole screen redrawn: the differential update misses nothing.
ScreenIsRedraw ==
    InWorld(game) /\ CellsInWorld(game)
        => \A p \in Window(game) : Look(game, p) = Redrawn(game, p)

\* The viewport stays in the world once it is there, so that worldToViewport
\* and viewportToWorld may wrap once only.
StaysInWorld == [][InWorld(game) => InWorld(game')]_vars

\* A click inside the frame goes to the cell of the world whose colour the user
\* sees there, below a header of one line or two.
ClickHitsWhatIsShown ==
    InWorld(game) /\ CellsInWorld(game) /\ ~game.placing /\ isConnected(game) =>
        \A c \in Clicks :
            LET y == c[2] - (IF game.err THEN 3 ELSE 2)
                x == (c[1] - 1) \div 2
                cell == clickedCell(game, c[1], c[2])
            IN <<x, y>> \in Window(game) /\ OverWorld(<<x, y>>) =>
                   /\ clickSends(game, c[1], c[2])
                   /\ Look(game, <<x, y>>) = IF cell \in DOMAIN game.cells
                                             THEN prefixOf(game.cells[cell]) ELSE Empty

\* A pattern is sent whole, as the cells around the centre of the screen,
\* although positions off the screen pass through uint16.
PatternIsPlacedWhole ==
    [][game.placing /\ ~game'.placing /\ sends' > sends /\ InWorld(game)
           => \E m \in BagToSet(sending') : m.type = "SetCells" /\ m.cells = Centred(game)]_vars

\* "true if pattern can be placed at current position" (game.go): no cell the
\* pattern would take on the screen is alive in the newest cells.
PlaceableMeansFree ==
    game.placing /\ game.canPlace
        => \A p \in ToSet(getPatternPositions(game)) \cap Window(game) : game.grid[p] = Empty

\* When nothing is under way in either direction the terminal shows the server's
\* world, state and speed, in whatever order the sends were written and however
\* many outputs a tick skipped.
AllShown == down = <<>> /\ game.pending = NoData /\ \A m \in mail : m.type # "data"

Settled == isConnected(game) /\ ~Broken /\ sending = EmptyBag /\ AllShown

SettledShowsServer ==
    Settled => game.cells = server.cells /\ game.running = server.running
               /\ game.speed = server.speed

\* Every output is read and shown, or replaced by a later one, unless the
\* connection is lost: the listener is started again after each message.
OutputsAreShown ==
    game.connected /\ down # <<>> ~> AllShown \/ ~game.connected \/ ~running

\* The selected pattern is one of those the list shows.
SelectionIsVisible ==
    foreground.selector.selected \in visibleRange(foreground.selector, Len(PatternList))

\* The list and the map of the prefix cache lose the same entry at capacity.
CacheAgrees == Agree(game.sgr) /\ Bounded(game.sgr, CacheCap)

=============================================================================

# conwaymore: a verification project in TLA+

conwaymore is a multi-user Game of Life. One process holds one world; clients
(a terminal UI and a browser) connect over websockets, edit the world and
receive it after every change. This directory holds TLA+ modules of its parts,
TLC configurations that check them, and proofs for TLAPS. Paths below are
relative to the root of the repository.

## 1. The system

| Part | Source | State | Operations | Talks to |
|---|---|---|---|---|
| conway | `internal/conway` | live cells and candidates, two halves each | `NextGen`, `SetCell`, `CanSetCell`, `Clear`, `Randomise`, `Cells` | called by the engine under its mutex |
| engine | `internal/engine` | `state`, `speed`, `speedChanged` (atomics), mutex, shared `output` and `encodeBuffer`, `outputChan` (2) | `NewEngine`, `Start` (ticker goroutine), `SubmitMessage` (any goroutine) | conway by calls, server by `outputChan` |
| server | `internal/server` | `listeners` under an RWMutex, `lastOutput` (atomic); per connection `l.msgs` (4), `readerMsgChan` (10), `wsCtx` | fan-out goroutine, `playHandler` and its reader goroutine, `/save`, read-only routes | engine by `SubmitMessage` and `Output`, database, clients by websocket |
| database | `internal/database` | one row | `GetSeed`, `WriteSeed` | SQLite |
| protocol | `internal/protocol` | none | encoders and decoders of outputs and client messages | engine, database row, both clients |
| api main | `cmd/api` | the process and its context | start from the seed, interrupt, shutdown | all of the above |
| terminal | `internal/tui`, with `internal/lrucache` and `internal/patterns` | viewport, grid, dirty rows, rows drawn, prefix cache, pattern placement, overlays, commands under way | `Update` and `View`; commands that connect, listen, send, save | server |
| browser client | `cmd/wasm`, posted to by `cmd/web` | drawer (offset, zoom, visible coordinates), cells cache, frame handle | `main`'s read loop, `onMessage`, `drawFunc` | server, the page |
| helpers | `internal/config`, `internal/livereload`, `cmd/build`, templates | | | |

What is hard in it:

* **Concurrency.** One goroutine for the ticker, one for the fan-out, two per
  connection, one per HTTP request; in the terminal one per command. They share
  the world (under a mutex), four atomics that are read and written without it,
  three kinds of channel with small capacities, and a registry under an RWMutex.
* **Check, then act.** `Next` and the ticker look at `state` before they take the
  mutex; the ticker reads `speed` before it clears `speedChanged`; a terminal
  decides that a pattern can be placed on a world that has changed when it is sent.
* **Order.** An output is encoded under the mutex and sent after it; every key
  press of the terminal sends from its own goroutine; saves load and write
  without a lock.
* **Limits.** A full `outputChan` drops the new output; a full listener queue
  drops its oldest; the prefix cache evicts.
* **Ends and restarts.** The ticker closes `outputChan` and a handler closes its
  queue while others may send; a handler waits for its reader; a process that
  stops loses what was not saved.
* **Incremental algorithms.** `NextGen` looks at candidates only, and fills maps
  that still hold an older world unless they are cleared. The terminal writes
  only cells that changed and draws only dirty rows. The canvas draws only cells
  it believes visible, and keeps at most one frame asked for.
* **Arithmetic.** uint16 coordinates on a torus of a power of two; one wrap only;
  Go's sign of `%`; offsets that are not whole pixels.

What makes each part correct:

* conway: it is the Game of Life on a torus; candidates suffice and are dropped
  again; ages do not wrap; a newborn takes its colour from its parents.
* engine: encoders exclude each other; a call's output shows the call's own
  change and setting; pausing stops the ticker; calls return; a playing ticker gets
  its generation; no client panics on `outputChan` while the ticker is in its loop.
* server and process: no send on a closed or full queue; everybody gets the
  newest output, in order; clients see the world go forward; a save that nothing
  overlapped is never lost, and a life begins with exactly what was saved.
* terminal: the screen is what a full redraw would be; clicks and patterns go to
  the cells they show; at rest it shows the server; outputs keep being read.
* browser: one frame asked for at a time; the canvas is the torus at its offset;
  clicks and patterns go where they are dropped; the newest output is drawn.

## 2. The modules

| Module | Models | EXTENDS / INSTANCE |
|---|---|---|
| `Life` | what the world promises: the reference rule on every cell of a torus, and the edits | abstract |
| `Conway` | `internal/conway`: candidates, the two halves, colours, ages | instance of `Life` |
| `Engine` | `internal/engine`: goroutines, mutex, atomics, `outputChan`, cancellation, panics | |
| `Server` | `internal/server` and `WriteSeed`: fan-out, handlers, readers, `/save` | |
| `Service` | what the server as a whole promises over several lives of its process | abstract |
| `System` | `cmd/api`, `GetSeed`, `setSeed`: start, interrupt, crash, restart, the row | `Server`, `Protocol`; instance of `Service` |
| `Protocol` | `internal/protocol`: encoders, decoders, widths, length checks | |
| `LruCache` | `internal/lrucache` | |
| `Patterns` | `internal/patterns`: `parsePattern` and the table | |
| `Game` | `internal/tui/game.go` | `LruCache` |
| `Overlays` | colour picker, pattern list and foreground of `internal/tui` | |
| `Terminal` | `ui.go`, `client.go`: routing of messages, commands | `Game`, `Overlays`, `Patterns` |
| `Canvas` | `cmd/wasm/canvas` | |
| `Browser` | `cmd/wasm/main.go` | `Canvas`, `Protocol`, `Patterns` |
| `MC...` | the instances TLC checks | |
| `ConwayProofs`, `EngineProofs`, `ServerProofs`, `SystemProofs`, `ProtocolProofs`, `GameProofs`, `TerminalProofs`, `BrowserProofs` | theorems and their proofs | `SystemProofs` extends `System`, `ServerProofs` and `ProtocolProofs`; `TerminalProofs` extends `Terminal` and `GameProofs`; `BrowserProofs` extends `Browser` and `ProtocolProofs` |

Three modules have a system each, and abstract from the others. `Engine` and
`Server` abstract from the contents of the world, which is `Conway`'s: the
engine's critical sections are `Conway`'s actions, because every call of
`internal/conway` is made under the mutex. `Terminal` and `Browser` take the
server as what it is to one client: it handles messages one at a time, refuses
what `SubmitMessage` refuses, and sends an output after each change, in order
(where the real one does not keep to this is in section 6).

### Conway and the code

A half of a `swapSet` is named by its role: `alive` is `sets[current]` of
`aliveCells`, `aliveNext` the other, and swapping is exchanging the two. `NextGen`
is `conway.go:67-130`: `nextCells` and `nextCandidates` are what the loop puts
into the spare halves, on top of what `clearNext` left there. `findAlive`
counts directions, not cells, because on a torus of side 1 or 2 the code asks
for one cell several times. A colour is three channels because the code masks
them one by one. The order of the eight neighbours matters for the colour and is
`Rank`; the order in which Go ranges over the candidates does not matter, because
nothing that is read in the loop is written in it. Inputs are cells of the world
(see 7). A message, a seed and Randomise give every cell a colour of its own
(`Painted`). `Conway` implements `Life` with `live <- DOMAIN alive` (`LifeSpec`).

### Engine and the code

The world is its revision, the number of changes made to it. Program counters
name where a goroutine is: `handle` (before the switch of `SubmitMessage`),
`store`, `flag`, `calc` (before the second of two atomic steps), `snapshot`,
`encode`, `send` (in `generateOutput`), `select`, `check`, `reset`, `unflag`,
`unwind`, `unwound` (in `Start`). A critical section in which nothing else can be observed is one step;
that of `generateOutput` is two, since it loads `state` and `speed` at different
instants. An edit, or a generation, may leave the world as it was (the action
`ChangeWorld`), and a command byte that is none of the known ones (type
`Unknown`) changes nothing and sends an output; a message that does not decode
does nothing at all.

`sendPanics`, `start` and `resetTicker` have the panics of a send on a closed
channel and of a ticker with period zero: the first ends one connection's
goroutine (gin recovers it), the second the process. `NewTicker` panics before
there is a deferred function. `Reset` panics after: the deferred function stops
the ticker and closes `outputChan` (`unwind`) before the process ends (`die`),
and between the two a client's send panics. `mine`,
`stateBy`, `speedBy` and `late` are history: they are written and only read by
properties. Each call's history is forgotten when the call ends.

### Server and the code

An output is its number, in the order in which the engine sends its outputs
(dropped ones are counted). The engine's part is one action, `Output`: into
`outputChan` if there is room, else lost. The fan-out is at `receive`, `store`,
`lock`, `range`, `drain` or `push`; `left` is what its range over the listeners
has still to visit, in any order. A handler is at `new`, `accept`, `select`,
`write`, and then in its defers at `cancel`, `wait`, `remove`, `close`. The
channels `readerMsgChan` and `readerErrChan` are the counter `pending` and the
reader's state. `readerGone` is either of two cases of the select once the
reader has ended: its error, or the nil that a closed and empty `readerMsgChan`
gives, which `SubmitMessage` panics on; both end the handler through its defers.
So does a message on which `SubmitMessage` panics (`submitPanics`): an empty one,
or `SetCells` with fewer cells than its count where the length check has wrapped.
Clients send without end, so a reader also waits at a full `readerMsgChan`.
The write lock of the RWMutex is held within one step (`addListener`,
`removeListener`), the read lock over several (`reading`).

### System, Service and the code

`System` runs `Server` inside a process that is `up`, `closing` (`main` has
received the signal: `Shutdown` accepts nothing new, and open sockets, which
`Shutdown` does not know once they are hijacked, go on) or `down`. `stop` is
both a crash and the end of `main`, at any moment in either phase: all of the
server's state is lost, only `seed` and `row` survive, since nothing is saved at
an end. `start` is `GetSeed` and `NewEngine`: `row`, what `WriteSeed` stored, is
the bytes of an output as `Protocol` encodes it, and `setSeed` decodes it, so the
next life's first output passes through `encodeOutput` and `decodeOutput`.
A save writes in the step in which `request` becomes `saved`; two saves may load
in one order and write in the other.

`Service` says the same without queues, locks or goroutines: one world that goes
forward, clients shown it in order, a seed that is one of the worlds there were
and never older than `kept`, the newest world saved by a save that no other
overlapped. `ImplementsService` maps `current` to `world` and `shown` to `got`.

### Protocol and the code

Of the bytes of a message its fields, as many bits as the bytes hold, and its
length are kept. What the code computes in 16 or 24 bits is so in the module:
`needed` (the product of a uint16 count and 9 wraps), the 24 bits of an output's
count and of a colour, the 16 of ages and coordinates.

### Terminal, Game, Overlays, LruCache, Patterns and the code

bubbletea calls `View` after each `Update`, so one action of `Terminal` is one
message through `Update` and the `View` that follows; the steps of a `tea.Cmd`,
in its own goroutine, are actions of their own. `gameModel` is the record
`game`; its methods are operators of `Game` from record to record, composed as
the code composes them. `grid`, `prev`, `dirty` are `grid`, `prevRenderedCells`
and the dirty rows; `rows` is the text of the rows, as its runs: prefix, half or
full cells, length. The SGR prefix of a colour is the pair `<<"sgr", colour>>`,
kept in `LruCache` with the list and the map apart. `mail` is the messages of
finished commands, a set, since they reach `Update` in any order; `sending` the
bag of send goroutines, which write in any order. `foreground` is
`foregroundModel` with the colour picker (`rgb`, slider) and the selector
(`selected`, scroll offset). `key` is the routing of `UIModel.Update`: to the
overlay if it is in front or the key opens it, else to the game. Once a read has
failed a write may fail too, is logged and nothing more (`Broken`).
`PatternList` is `Patterns.Table` of small pictures, parsed as `parsePattern`
does.

### Browser, Canvas and the code

A wasm worker has one thread; `main`'s loop, `onMessage` and `drawFunc` do not
wait in the middle, so each is one action. `drawer` is `canvasDrawer`, or
`NoDrawer` for nil; `frames` the callbacks the browser holds and `drawHandle`
the worker's handle of the newest. Offsets are floats in the code and multiples
of `1 / Fraction` pixel here; `Draw` gives the colour of each pixel.
`coordBoundary` and its wrap-around, `IncrementOffset`, `SetCellSize` (the zoom
around the mouse), `SetDimensions` and `PixelToCellCoord` are translated as
they stand, the negative operands of division and `%` with Go's signs, and
origins and pattern offsets through uint16, as wasm converts them.
`PixelToCellCoord` multiplies by `cellSizeInv`, a float: the product of `q *
cellSize` and the rounded inverse can fall below `q`, and is floored to `q - 1`
(49 times the float 1/49 is the greatest float below 1). `RoundsBelow` says for
which cell sizes and quotients it does, `floorInv` uses it, and nothing is
assumed of it but that the inverse of a power of two is exact
(`RoundingAssumption`). Elsewhere the division is exact: in `coordBoundary` a
rounded product could only make the visible part one cell larger, since an
offset that is not at the edge of a cell is farther from it than the rounding
reaches; a zoom is taken only from cell sizes with an exact inverse
(`ZoomIsExact`).
What the page posts is constrained as the page does it: `init` once, its settings
next, everything else after that.

## 3. What TLC checks

Deadlock is checked for `Conway` only: clients may stop sending, all connections
may be gone, users may leave, a process may stay down, and the bounds stop the
rest. What must not stop is stated by the liveness properties.

| Run | Question | Instance and why it is enough |
|---|---|---|
| `conway_edits` | Do the candidates suffice, with edits, Clear and Randomise at any time? Is it the Game of Life? Ages and colours; are candidates dropped? | 4x4, the smallest torus on which the nine cells of a block differ and do not fill it; three cells around the corner where it wraps, each in one of two colours; a `MaxAge` of 1, which survivors reach |
| `engine_safety` | Exclusion, own change and own setting in the output, late generations, panics | 2 clients and the ticker, so that every pair and triple of goroutines meets; speed 0, so that the ticker panics and its deferred close meets sends; `OutCap` 1 so that outputs are dropped; messages and ticks without end, of whose changes of the world one counts, whichever it is: every other may leave the world as it was, so that any change can be the one whose output is looked for |
| `engine_live` | Do calls return, does playing advance, does cancellation close? | 2 clients that take the mutex again and again, with edits and unknown commands, and pause and play, without end (no change of the world is counted, so nothing runs out); `OutCap` 1 |
| `server_fan` | Closed and full queues, the newest output, order, drained connections | 2 connections, queues of 2, 3 outputs, of ticks or of messages, and messages without end: queues fill, outputs are dropped, and both connections come, send and go |
| `system` | Does the server with its saves, crashes and restarts do what `Service` promises? Does a life begin with what was saved? Does a handler end hang on its reader? | 1 connection that sends without end, so that its reader waits at a full `readerMsgChan`, and leaves, 2 savers whose loads and writes overlap, 2 ends of a process, so that a restarted one ends again; `OutCap` 1, so that an output is dropped; contents that use every field of an output |
| `terminal` | Screen = redraw, clicks, patterns, agreement with the server, listening, cache | 4x4 torus under smaller windows of three sizes, with a half column and without; six users (below); a cache of 2 prefixes for more colours than that, so that it evicts |
| `browser` | One frame, canvas = torus, clicks, patterns, visible coordinates, the newest output | 4x4 torus, cells of 1 and 2 pixels, and of 49, the least size at which the rounding of its inverse shows, half-pixel offsets, two canvases, one of them wider than the smaller world, so that the visible coordinates are all, within, and wrapped; three users |
| `engine_order`, `engine_setspeed`, `server_state`, `server_settled`, `terminal_place` | violations, see 6 | |

Every property has a mutant in `PROJECT.json`: an operator in the module with a
plausible bug in it, under which TLC finds the property violated.

### Bounds

* `MaxWorld` bounds the revisions of the world in `Engine`, where a change beyond
  it leaves the world as it was, and the outputs in `Server`, where a message
  beyond it is answered with nothing; in neither does it end messages or calls.
  `MaxStops` bounds the ends of a process, `MaxOutputs` the outputs of the browser's server (its
  other clients leave room for the answer to the request that is under way).
* Queue capacities are smaller than in the code (`l.msgs` 4, `readerMsgChan` 10,
  the cache 2048), so that they are reached; the proofs are for every capacity.
* `users` of `Terminal` and `Browser`: a run has one user, chosen in `Init`, who
  presses some of the keys; each group of keys meets what it interacts with (a
  mover resizes; a placer moves and is overtaken by the server's changes; an
  operator's commands overtake each other; a painter clicks and picks colours; a
  chooser opens the overlays without a connection). `user.sends` and
  `user.changes` bound messages and the server's own changes. `user.cellSizes`
  are the cell sizes a user of the browser chooses from.
* `Width16 = 16` in `Game`: a uint16 of 16 values on a torus of 4, which divides
  it as every size up to 2^15 divides 2^16; positions left of the window wrap.
  `BigStep = 3` is less than the world, as 10 is less than the sizes the code is
  run with, and so the viewport wraps once per move.
* `MaxStray`: before the world's size is known the viewport moves without
  wrapping; the moves are cut off there. `MaxChannel`, `Coarse`: 255 and 51 of the
  colour picker. `ViewHeight`: lines of the pattern list that show, one, so that
  it scrolls.
* `ZoomIsExact` in `Canvas`: a zoom only from a cell size that is a power of two
  and only where the new offset is a multiple of the fraction. `ReadLimit`: 2^25 bytes in the code, 1000 here.

## 4. Fairness

* Go runs every goroutine that can run: weak fairness of a goroutine's own steps.
* `sync.Mutex` and `sync.RWMutex` do not starve a waiter: strong fairness of the
  steps that wait for them.
* A select chooses among its ready cases at random, so each is taken again and
  again: strong fairness of the cases of `Start` and of `playHandler`.
* The ticker ticks for ever, and the fan-out receives while the context lives.
* A read on a connection whose context was cancelled returns, and a write
  returns, with or without an error.
* `System`: while the process is not down, a handler whose reader has ended goes
  on, and a read or a send under a cancelled context returns.
* `Terminal`: a tick comes (bubbletea's ticker is restarted by each tick), a read
  returns when there is data, and messages of finished commands reach `Update`.
  Sends, saves and connecting need not end.
* `Browser`: the worker's thread takes what has arrived, the browser paints a
  frame that was asked for, and the page posts `init` and its first settings.

Nothing is assumed of users and clients (they need not send, save or leave), of
the network before an error, or of the context (it need not end). `FairSpec` of
`Server` takes every connection to be opened. In `System` and `Terminal` weak
fairness is written out, with the condition that enables the step in place of
`ENABLED`: []<>(not enabled) or []<>(the step).

## 5. What is proved

All theorems hold for every value of the constants that the named assumptions
allow. TLC evaluates each of them on the instances.

| Assumptions | What they say, and why |
|---|---|
| `AxisAssumption`, `AgeAssumption`, `InputAssumption` of `Conway` | the side is a power of two below 65536, as `wrapMask` needs; inputs are cells of the world |
| `ProcsAssumption`, `TypesAssumption`, `BoundsAssumption` of `Engine`; `CapacityAssumption` of `Server`; `SystemAssumption` of `System` | types of the constants; capacities are at least one |
| `ContentsFit`, hypothesis of `LivesResume` | the contents fit the fields of the row, and the first is that of an empty world |
| `GameAssumption` of `Game` | types |
| `TerminalAssumption` | the side divides the width of a uint16 (a power of two does); ten cells are no more than the side; types |
| `PicturesAssumption` of `Terminal` | the list has a pattern, and no window plus pattern reaches past a uint16: they are of some hundreds of cells, a uint16 of 65536 |
| `WorldsAssumption`, `UsersAssumption` of `Terminal` | the server's worlds are colours at cells of the world; bounds are numbers |
| `CanvasAssumption` of `Canvas` | the side is between 1 and 65535 and divides 65536 |
| `RoundingAssumption` of `Canvas` | the inverse of a power of two is not rounded; any other may be |
| `WorldsAssumption`, `PicturesAssumption`, `PageAssumption` of `Browser` | a cell of the world comes once in an output; a pattern has 65535 cells at most, the count of a message; types of what the page posts |

The theorems about the operators of `Protocol` and `LruCache` need none.

**ConwayProofs.** `TypeCorrect`; `CandidatesAlwaysSuffice`, from the invariant
`TypeOK /\ CandidatesSuffice`, which is inductive: if a cell is not a candidate
after a generation, neither it nor any neighbour changed in it, because a change
adds the nine cells of the block (lemma `Adjacency`: being in a block is
symmetric), so it has as many neighbours as before and is still neither live nor
born. `ImplementsLife` follows: restricted to candidates the rule gives the same
cells as on the whole torus. `AgesNeverWrap` and `NewbornHasThreeParents` are
step properties on top of the same invariant; the second needs that `findAlive`
has a k-th element in the order of `Rank` for each k below its size.
`StillWorldDropsCandidates`: a candidate that dies or is born shows in the change.

**EngineProofs.** `TypeCorrect`; `EncodersExclude`: `EncoderAlone` is inductive
relative to the types. `OwnChangeIsSent` adds that no goroutine's own change is
newer than the world (`MineSeen`). `OwnSettingIsSent` adds what is known of the
client that wrote a setting last (`StateOwner`, `SpeedOwner`): while its call
lasts, the setting is still its own. `PauseStopsTheTicker` adds `LateBounded`: the
ticker stands at `calc` only with no late generation so far.
`NoPanicBeforeTheEnd` adds `ClosedAtTheEnd`: a closed channel means that the
ticker has left its loop, cancelled or in its own panic, and a client that has
panicked means a closed channel.

**ServerProofs.** `TypeCorrect`; then `FanInv`, the conjunction of `Reading`
(the read lock is held exactly while listeners are served, all those still to be
served are registered), `Registered` (a registered listener's handler has not
reached its `close`), `QueuesBounded`, `PushHasRoom` and `Newest` (who has been
given what, in each phase of the fan-out). `FanServesOpenQueues` alone is not
inductive: it needs that nobody unregisters while the read lock is held. Most
steps do not touch any of this; lemma `FanCases` collects them as `Quiet`.

`ClientsGoForward`, from `Ordered`: the numbers in `outputChan` do not fall and
are no less than `lastOutput` and `o` (`ChanRises`); what a client has, what is
written to it, what its queue holds and what was put there last do not fall in
this order, and none exceeds `lastOutput` (`ConnRises`). `NeverBack` alone says
nothing of queues and is not inductive. The case that needs thought is
`addListener` between `storeLast` and the range of the fan-out: the listener
then gets the same output twice, which is why the order is not strict.
`DrainedConnectionIsCurrent` from `LastIsGiven`: the output given last is at the
end of the queue, or being written, or written; excepted is the queue that the
fan-out has just made room in, which may be empty.

**SystemProofs.** `SystemImplementsService`, the refinement of section 2 for
every number of connections, savers and ends. Its invariant is the server's
(`TypeOK`, `FanInv`, `Ordered`), which a stop and a start establish again, and
`Kept`: whatever can still be stored, which is what savers have loaded,
`lastOutput`, and what may become `lastOutput`, is no older than `kept`. A save
that is alone raises `kept` to what it stores, which nothing else that is under
way has loaded less than. Then each action is `Change`, `Show`, `Save`, `Stop`
or a stutter (`ServiceStep`).

`LivesResume` is `ResumesAsSaved` for every sequence of contents that fit the row's
fields, of which the first is that of an empty world (`ContentsFit`; the contents
of the run do). Its invariant `RowHolds`: the row is the encoding of output number
`seed`, a saver never writes output 0, and while the process is down the world is
the one the next life begins with. The rest is `OutputRoundTrip`.

**ProtocolProofs.** About the operators, for outputs and messages of every
length. `OutputRoundTrip`: decoding undoes encoding for outputs with fields and
a count that fit (`FitOutput`). `SetCellsRoundTrip`: the same for `SetCells`
with every count a uint16 holds; the length needed is reckoned in 16 bits and
wraps from 7282 cells on, but it only falls by that, so no whole message is
refused. `FullWorldLooksEmpty`: with 2^24 live cells the count on the wire is 0,
and the output is decoded, without an error, as one without cells; a world of
4096 by 4096 is the smallest that can be so full.

**GameProofs.** About the operators of `LruCache` and `Game`. `GetAgrees` and
`AddAgrees`, for every cache that satisfies `Agree` and `Bounded`, which
`NewLruCache` does: list and map hold the same keys after `Get` and `Add`, the
capacity holds, the entry used is in front, the key added answers with its
value, and the evicted key is never the new one (the list has two entries at
least when something is evicted, as a capacity is at least one). Lists are
treated as sets of keys without repetition (`Keys`, `Distinct`): `MoveToFront`
is a permutation, `PushFront` adds a key, the back takes one away.
`OneWrapIsEnough`: `movedAxis` stays in the world for a move of at most one
world. `ViewportInverse`: `worldToViewport` and `viewportToWorld` undo each
other on the world.

The rest are lemmas for `TerminalProofs`. `RowIsDrawn` and those before it are
about the renderer: after n columns of `scan` the runs that are written, and the
one that grows, cover the first n columns, each with the prefix of its own
colour, whether the cache had it or not. `GridUpdates` and those after it are
about the differential update. Between Update and View a game is `Updated`: its
grid is what the cells are on the screen, and a row that is not to be drawn
shows the grid as it is (`Ready`). After View it is `Viewed`: all rows do
(`Painted`). Each message of Update leads from `Viewed` to `Updated`, View back.
What a message leaves alone is stated once for it (`Agreeing`).

**TerminalProofs.** The inductive invariant is `IInv`, of four parts.

* `Typed`: the game is `Viewed` and its other fields have their types; the
  selected pattern is among the lines that show; messages, sends, outputs and
  the server are of colours and coordinates. `TerminalTyped`, `CacheHolds` and
  `SelectionShown` follow from it. It also gives `ScreenRedrawn`: the screen
  shows the grid, the grid the cells, and for a viewport in the world a cell is
  placed where the torus has it (`ScreenCells`). The pattern shown is the one
  around the middle, since a position that wraps in 16 bits does not come back
  onto the screen (`UintShift`); this needs `PicturesAssumption`. `ClicksHit` is
  `ScreenRedrawn` at the place that was clicked.
* `OneReader`: of dialling, the listener and the messages it brings there is one
  at most. Without it a newer output could overtake an older one in `mail`.
* `Before`: until the connection is there nothing is known and nothing is sent.
* `Newest`: while the connection lives, the newest of what is on its way (the
  last output, else the message, else what waits for a tick, else the game) is
  what the server has. The speed is excepted while a `SetSpeed` is being sent:
  the keys `s` and `S` change the terminal's own speed at once. `SettledShows`
  follows; alone it is not inductive, since it says nothing of what is under
  way.

`ViewportStays` and `PatternWhole` are step properties on top of `IInv`. The
second is arithmetic: the side of the world divides the width of a uint16, so
that a position that wrapped is the same cell of the world (`SameCell`).

**BrowserProofs.** `IInv` is `Socket` (outputs and requests under way are the
bytes of worlds and of messages, with at most one request), `Newest` (the
decoded output has each cell once and counts them), `Worker` (a drawer is
`Sound`: offsets within one world, visible coordinates that are those of offset,
size and cell size unless a resize has left them stale) and `Painted` (the
browser holds no frame but `drawHandle`, and with none asked for the canvas is
what `Draw` makes of drawer and output). `Typed`, `OneFrame` and `Current`
follow. The work of `Current` is that drawing cell by cell gives the torus pixel
by pixel: `positions` cuts a square at the edge into the pieces that `fillRect`
writes, no other cell writes there, and a cell that is left out as not visible
has no pixel on the canvas. `ClickHits` inverts that for one pixel: the click goes
to the cell drawn there or, on the first pixel of a square where the offset has
a fraction or the cell size is no power of two, to the one before. It holds for
every way in which inverses may be rounded down. `Follow` and
`Dropped` are step properties; `Dropped` rests on `SetCellsRoundTrip` and on
`SumCoords` being addition on the torus.

Only model-checked: the liveness properties (`CallsReturn`, `PlayingAdvances`,
`CancelCloses`, `HandlersEnd`, `OutputsAreShown`, `OutputIsDrawn`), as fairness
and `ENABLED` are beyond the prover, and the properties that are violated. What
recursive functions compute over rows and cells is proved by induction over sets
of numbers (`WFMin` of the library, applied to the set of counterexamples),
since the library's induction theorems take an operator.

## 6. Where code and documents disagree

Each has a run that expects the violation.

1. `engine_setspeed` (`engine.go:95-97`): a `SetSpeed` between the ticker's
   `Reset` and its `speedChanged.Store(false)` is never taken over. Clearing the
   flag first would do.
2. `engine_order` (`engine.go:157-160`): outputs can be sent in the wrong order,
   so that clients, which keep the last one (`internal/tui/game.go:265`), stay
   at an older world while paused.
3. `server_state` (`server.go:72`): the fan-out can wait for ever on a queue
   that was full and is empty, with the read lock held; a new connection then
   never gets the initial state the integration test expects. It needs a handler
   that takes the last queued output between the default of the select and the
   receive, and no output from elsewhere: nobody else sends to the queue.
4. `server_settled` (`engine.go:161`): the output dropped at a full channel is
   the newest, so `lastOutput` and every client stay behind a processed edit,
   and a save stores a seed without it.
5. `terminal_place` (`game.go:659`): the loop of `updatePatternCanPlace` assigns
   for every visible position, so the last one alone decides. The terminal says
   that a pattern can be placed over a living cell, and the server refuses all
   of it.

Met while modelling, without a run of their own: `Next` checks `state` before it
takes the mutex, so it can step a world that another client has set playing
meanwhile (`engine.go:173`); `SetDimensions` reckons the visible coordinates
before it stores the new size (`canvas_drawer.go:191`), so that after a resize
cells may be missing until the next drag or zoom. `CanvasIsCurrent` allows
exactly that and `BoundariesFollow` that it ends there. `PixelToCellCoord`
floors an offset's fraction where drawing cuts it, so that with an offset
between two pixels the first pixel of a square is clicked as the cell before; so
it may be at a cell size whose inverse is rounded (`canvas_drawer.go:157`; at
size 49 and offset 0, pixel 49 is clicked as cell 0). `ClickHitsDrawnCell` allows
these two cases and no other. When `Reset` panics on a speed of zero, the
deferred function closes `outputChan` before the process dies
(`engine.go:80-84`, `engine.go:96`), so that a client that sends just then panics
without any cancellation; `NoPanicWhileRunning` allows that. A viewport of the terminal moved to the left or up
before the connection stays outside the world: `worldSize` is 0, the wrap of
`moveViewport` adds nothing, and nothing wraps it when the size arrives. Then
`worldToViewport` (`game.go:673`), which wraps once, places cells off the screen
that belong on it, until the next move along that axis, although `game.go:607`
says that it "handles wrap-around correctly". So `ScreenIsRedraw`,
`ClickHitsWhatIsShown` and `PatternIsPlacedWhole` are about a viewport in the
world, where `StaysInWorld` keeps it.

## 7. What is not modelled

* The engine with cells outside the world: coordinates of a message are not
  masked by the server. The browser masks what it sends, and patterns are shown
  to be sent as cells of the world (`PatternIsPlacedWhole`,
  `PatternIsDroppedWhole`). A click in the terminal may be sent as a cell outside
  it while the viewport is outside the world, which it can be only when it was
  moved before the connection was up (see 6).
* Of the server, its read-only routes and the end of the fan-out by its context.
* Of the terminal: the spinner, the text and the styles of header and overlays,
  lipgloss's layout (a header that breaks into more lines in a narrow
  terminal), clicks on the border. They carry no state of the game.
* Of the canvas: grid lines, `drawMode` and the cache of colours, which `Draw`
  never reads; the rounding of `1 / cellSize` in `coordBoundary` and in zooms
  (clicks have it).
* Of the wasm client: errors it posts to the page.
* `internal/config`: three values read once, here the constants `AxisLength`,
  `axisLength` and `WorldSize`.
* The page (`cmd/web`: DOM events, the signals library, templates), the
  livereload helper, the bundler, `cmd/terminal`'s main: layout, generated code
  or no state. What the page posts is an input of `Browser`.
* An engine and a server composed step by step, with the contents of `Conway`: the
  product is beyond TLC at any size at which each part still does what is
  interesting, so each module states what it assumes of the other.

## 8. What is left to prove

Every safety and action property that a passing run checks is stated by a
theorem. What is left is liveness, beyond the prover, and the composition of
engine and server named in section 7.

--------------------------- MODULE TerminalProofs ---------------------------
(***************************************************************************)
(* Proofs about Terminal, for every size of the world, list of patterns,   *)
(* capacity of the cache, window and user: the terminal shows the world    *)
(* that the server has, the differential update of the screen misses       *)
(* nothing, and clicks and patterns reach the cells they are meant for.    *)
(***************************************************************************)
EXTENDS Terminal, GameProofs, FiniteSetTheorems

\* Coordinates are numbers of 16 bits; the cells of a world by place.
Coords == [1 .. 2 -> 0 .. Width16 - 1]

CellMaps == UNION {[D -> Colours] : D \in SUBSET Coords}

\* What an output brings.
States == [cells : CellMaps, running : BOOLEAN, speed : 0 .. Width16 - 1]

\* Positions on the screen are far from where a uint16 wraps.
Reach(i) == ToSet(PatternList[i].cells) \cup {PatternList[i].center}

Fits(h, w) == \A i \in DOMAIN PatternList :
                  \A c \in Reach(i) : w + c[1] <= Width16 /\ h + c[2] <= Width16

-----------------------------------------------------------------------------
\* The parts of the inductive invariant.  The game's fields have their types,
\* and the screen shows what View has made of them.
Fielded(g) == /\ g.viewport \in [1 .. 2 -> Int] /\ g.worldSize \in {0, WorldSize}
              /\ g.speed \in Nat /\ g.canPlace \in BOOLEAN
              /\ g.cells \in CellMaps
              /\ g.pending # NoData => g.pending \in States
              /\ g.placing => \E i \in DOMAIN PatternList : g.pattern = PatternList[i]
              /\ Fits(g.height, g.width)

Shown(g) == Viewed(g, Colours) /\ Fielded(g)

\* The overlays; the selected pattern is one of the rows in view.
Overlaid(f) == /\ DOMAIN f = {"type", "picker", "selector", "color"}
               /\ f.picker \in [rgb : Colours, slider : 0 .. 2]
               /\ DOMAIN f.selector = {"selected", "offset", "color"}
               /\ f.selector.selected \in 0 .. Len(PatternList) - 1
               /\ f.selector.offset \in Nat
               /\ f.selector.offset <= f.selector.selected
               /\ f.selector.selected < f.selector.offset + ViewHeight

\* Messages, outputs and counters.
Mailed(m) == /\ m.type \in {"color", "pattern", "connected", "data", "error", "saved"}
             /\ m.type = "color" => m.color \in Colours
             /\ m.type = "pattern" => m.number \in DOMAIN PatternList
             /\ m.type \in {"connected", "saved"} => m.ok \in BOOLEAN
             /\ m.type = "data" => m.data \in States
             /\ m.type = "error" => m = [type |-> "error"]

Sent(m) == /\ m.type = "SetCells" => m.cells \subseteq Coords /\ m.colour \in Colours
           /\ m.type = "SetSpeed" => m.speed \in 0 .. Width16 - 1

PostTyped == /\ \A m \in mail : Mailed(m)
             /\ IsABag(sending) /\ \A m \in BagToSet(sending) : Sent(m)

WorldTyped == server \in States /\ down \in Seq(States)

FlagsTyped == /\ visible \in BOOLEAN /\ listening \in BOOLEAN /\ dialling \in BOOLEAN
              /\ user \in Users /\ sends \in 0 .. user.sends /\ changes \in 0 .. user.changes

Typed == Shown(game) /\ Overlaid(foreground) /\ PostTyped /\ WorldTyped /\ FlagsTyped

\* Of the dial, the listener and its messages there is one at most.
OneReader == /\ dialling => ~listening /\ news = {}
             /\ listening => news = {}
             /\ \A m, n \in news : m = n

\* Until the connection is there, nothing is known and nothing sent.
Waiting == dialling \/ \E m \in mail : m.type = "connected"

Before == /\ Waiting => /\ ~game.connected /\ ~game.conn /\ game.pending = NoData
                        /\ game.worldSize = 0 /\ DOMAIN game.cells = {}
                        /\ sending = EmptyBag
          /\ \A m \in mail : m.type = "connected" /\ m.ok => down # <<>>
          /\ game.connected \/ game.conn => game.worldSize = WorldSize

\* While the connection lives, the newest of what is on its way, or else the
\* game, is what the server has; but a speed may have been asked for.
Live == \/ \E m \in mail : m.type = "connected" /\ m.ok
        \/ isConnected(game) /\ \A m \in mail : m.type # "error"

SpeedAsked == \E m \in BagToSet(sending) : m.type = "SetSpeed" /\ m.speed # server.speed

NoNews == down = <<>> /\ \A m \in mail : m.type # "data"

Newest == Live => /\ down # <<>> => down[Len(down)] = server
                  /\ down = <<>> => \A m \in mail : m.type = "data" => m.data = server
                  /\ NoNews /\ game.pending # NoData => game.pending = server
                  /\ AllShown => /\ game.cells = server.cells /\ game.running = server.running
                                 /\ game.speed = server.speed \/ SpeedAsked

IInv == Typed /\ OneReader /\ Before /\ Newest

-----------------------------------------------------------------------------
\* What the proofs need of the constants.
LEMMA Sizes ==
  /\ Width16 \in Nat \ {0} /\ Width16 > 1 /\ WorldSize \in Nat \ {0}
  /\ Width16 \div WorldSize \in Nat \ {0}
  /\ Width16 = WorldSize * (Width16 \div WorldSize)
  /\ WorldSize <= Width16
<1>1. Width16 \in Nat \ {0} /\ Width16 > 1 /\ WorldSize \in Nat \ {0} /\ Width16 % WorldSize = 0
  BY GameAssumption, TerminalAssumption
<1> DEFINE q == Width16 \div WorldSize
<1>2. q \in Int /\ Width16 = WorldSize * q
  BY <1>1, DivMod
<1> HIDE DEF q
<1>3. q > 0
  <2> SUFFICES ASSUME q <= 0 PROVE FALSE
    BY <1>2
  <2>1. WorldSize * q <= 0
    BY <1>1, <1>2
  <2> QED  BY <1>1, <1>2, <2>1
<1>4. WorldSize * q >= WorldSize
  <2> DEFINE r == q - 1
  <2>1. r \in Nat /\ q = r + 1
    BY <1>2, <1>3
  <2> HIDE DEF r
  <2>2. WorldSize * q = WorldSize * r + WorldSize /\ WorldSize * r >= 0
    BY <1>1, <2>1
  <2> QED  BY <1>1, <2>1, <2>2
<1> QED  BY <1>1, <1>2, <1>3, <1>4 DEF q

\* Colours are never empty, and dimming them gives colours.
LEMMA Palette == IsPalette(Colours) /\ White \in Colours
<1>1. MaxChannel \in Nat
  BY PickerAssumption
<1>2. Empty \notin Colours
  <2> SUFFICES ASSUME Empty \in Colours PROVE FALSE
    OBVIOUS
  <2>1. DOMAIN Empty = 1 .. 3
    BY DEF Colours
  <2>2. 1 \notin DOMAIN Empty
    BY DEF Empty
  <2> QED  BY <2>1, <2>2
<1>3. ASSUME NEW k \in Colours PROVE dimColor(k) \in Colours
  <2>1. \A i \in 1 .. 3 : k[i] \div 2 \in 0 .. MaxChannel
    BY <1>1 DEF Colours
  <2> QED  BY <2>1 DEF dimColor, Colours
<1> QED  BY <1>2, <1>3, TerminalAssumption DEF IsPalette

\* The list of patterns, and where its cells lie.
LEMMA List ==
  /\ PatternList \in Seq([cells : Seq(Nat \X Nat), center : Nat \X Nat])
  /\ Len(PatternList) \in Nat \ {0} /\ DOMAIN PatternList = 1 .. Len(PatternList)
  /\ \A i \in DOMAIN PatternList :
         /\ PatternList[i].cells \in Seq(Nat \X Nat) /\ PatternList[i].center \in Nat \X Nat
         /\ Reach(i) \subseteq Nat \X Nat
<1>1. /\ PatternList \in Seq([cells : Seq(Nat \X Nat), center : Nat \X Nat])
      /\ PatternList # <<>>
  BY PicturesAssumption
<1> HIDE DEF PatternList
<1>2. Len(PatternList) \in Nat \ {0} /\ DOMAIN PatternList = 1 .. Len(PatternList)
  BY <1>1
<1>3. ASSUME NEW i \in DOMAIN PatternList
      PROVE  /\ PatternList[i].cells \in Seq(Nat \X Nat) /\ PatternList[i].center \in Nat \X Nat
             /\ Reach(i) \subseteq Nat \X Nat
  <2> DEFINE all == [cells : Seq(Nat \X Nat), center : Nat \X Nat]
  <2>0. PatternList \in Seq(all) /\ i \in 1 .. Len(PatternList)
    BY <1>1, <1>2
  <2> HIDE DEF all
  <2>1. PatternList[i] \in all
    BY <2>0
  <2> USE DEF all
  <2>2. PatternList[i].cells \in Seq(Nat \X Nat) /\ PatternList[i].center \in Nat \X Nat
    BY <2>1
  <2>3. ToSet(PatternList[i].cells) \subseteq Nat \X Nat
    BY <2>2 DEF ToSet
  <2> QED  BY <2>2, <2>3 DEF Reach
<1> QED  BY <1>1, <1>2, <1>3

\* No window is too wide or too tall.
LEMMA WindowsFit ==
  /\ Fits(InitHeight, InitWidth)
  /\ \A s \in WindowSizes : Fits(s[1], s[2])
<1> HIDE DEF PatternList
<1> DEFINE all == WindowSizes \cup {<<InitHeight, InitWidth>>}
<1>1. ASSUME NEW s \in all PROVE Fits(s[1], s[2])
  BY PicturesAssumption DEF Fits, Reach
<1>2. <<InitHeight, InitWidth>> \in all
  OBVIOUS
<1>3. Fits(<<InitHeight, InitWidth>>[1], <<InitHeight, InitWidth>>[2])
  BY <1>1, <1>2
<1>4. <<InitHeight, InitWidth>>[1] = InitHeight /\ <<InitHeight, InitWidth>>[2] = InitWidth
  OBVIOUS
<1> QED  BY <1>1, <1>3, <1>4

LEMMA SmallerFits ==
  ASSUME NEW h \in Nat, NEW w \in Nat, Fits(h, w), NEW a \in Nat, a <= h, NEW b \in Nat, b <= w
  PROVE  Fits(a, b)
<1> SUFFICES ASSUME NEW i \in DOMAIN PatternList, NEW c \in Reach(i)
             PROVE  b + c[1] <= Width16 /\ a + c[2] <= Width16
  BY DEF Fits
<1> HIDE DEF PatternList, Reach
<1>1. c[1] \in Nat /\ c[2] \in Nat
  BY List
<1>2. w + c[1] <= Width16 /\ h + c[2] <= Width16
  BY DEF Fits
<1> QED  BY <1>1, <1>2, Sizes

-----------------------------------------------------------------------------
\* Update and View: a game after Update, and from one game on the screen to the
\* next.
Ripe(g) == Updated(g, Colours) /\ Fielded(g)

Typing == {"viewport", "worldSize", "speed", "canPlace", "cells", "pending", "placing", "pattern",
           "height", "width"}

LEMMA FieldedStays ==
  ASSUME NEW g, NEW h, NEW X, Agreeing(g, h, X), X \cap Typing = {}, Fielded(g)
  PROVE  Fielded(h)
<1>1. \A x \in Typing : h[x] = g[x]
  <2>1. Typing \subseteq GameFields \ X
    BY DEF Typing, GameFields
  <2> QED  BY <2>1 DEF Agreeing
<1>2. /\ h.viewport = g.viewport /\ h.worldSize = g.worldSize /\ h.speed = g.speed
      /\ h.canPlace = g.canPlace /\ h.cells = g.cells /\ h.pending = g.pending
      /\ h.placing = g.placing /\ h.pattern = g.pattern /\ h.height = g.height
      /\ h.width = g.width
  BY <1>1 DEF Typing
<1> HIDE DEF PatternList, CellMaps, States, Fits
<1> QED  BY <1>2 DEF Fielded

LEMMA ShownIs ==
  ASSUME NEW g, Shown(g)
  PROVE  /\ IsGame(g) /\ Updated(g, Colours) /\ Fielded(g) /\ g.currentColor \in Colours
         /\ Ripe(g) /\ g.height \in Nat \ {0} /\ g.width \in Nat \ {0}
BY ViewedClean DEF Shown, Ripe, Viewed, Coloured, Sized

Screen == {"rows", "sgr", "dirty"}

LEMMA ViewShows ==
  ASSUME NEW g, Ripe(g)
  PROVE  /\ Shown(View(g))
         /\ Agreeing(g, View(g), Screen)
<1>1. IsGame(g)
  BY DEF Ripe, Updated
<1>2. Agreeing(g, View(g), Screen)
  BY <1>1, ViewKeeps DEF Screen
<1>3. Viewed(View(g), Colours)
  BY Palette, ViewPaints DEF Ripe
<1>4. Screen \cap Typing = {}
  BY DEF Screen, Typing
<1>5. Fielded(View(g))
  BY <1>2, <1>4, FieldedStays DEF Ripe
<1> QED  BY <1>2, <1>3, <1>5 DEF Shown

\* What stands beside the grid.
LEMMA BesideShows ==
  ASSUME NEW g, Shown(g), NEW h, NEW X, Agreeing(g, h, X), X \subseteq Beside \ {"speed", "pending"},
         h.currentColor \in Colours
  PROVE  Ripe(h)
<1>1. X \cap Typing = {}
  BY DEF Beside, Typing
<1>2. Fielded(h)
  BY <1>1, FieldedStays DEF Shown
<1>3. Agreeing(g, h, Beside)
  BY DEF Agreeing
<1>4. Updated(h, Colours)
  BY <1>3, BesideUpdates DEF Shown
<1> QED  BY <1>2, <1>4 DEF Ripe

\* A step of a key is no longer than the world.
LEMMA Steps ==
  ASSUME NEW k \in MoveKeys, NEW i \in 1 .. 2
  PROVE  Delta(k)[i] \in -WorldSize .. WorldSize
<1>1. BigStep \in Nat /\ WorldSize \in Nat \ {0} /\ BigStep <= WorldSize
  BY GameAssumption, TerminalAssumption
<1>2. Delta(k) \in {<<-1, 0>>, <<-BigStep, 0>>, <<0, 1>>, <<0, BigStep>>, <<0, -1>>,
                   <<0, -BigStep>>, <<1, 0>>, <<BigStep, 0>>}
  BY DEF Delta, MoveKeys
<1>3. \A d \in {<<-1, 0>>, <<-BigStep, 0>>, <<0, 1>>, <<0, BigStep>>, <<0, -1>>,
                <<0, -BigStep>>, <<1, 0>>, <<BigStep, 0>>} :
          d[1] \in -WorldSize .. WorldSize /\ d[2] \in -WorldSize .. WorldSize
  BY <1>1
<1>4. i = 1 \/ i = 2
  OBVIOUS
<1> QED  BY <1>2, <1>3, <1>4

\* Typed, a game stays typed when these fields have their types.
LEMMA KeyShows ==
  ASSUME NEW g, Shown(g), NEW k
  PROVE  Ripe(keyPressed(g, k))
<1>1. /\ IsGame(g) /\ Updated(g, Colours) /\ Fielded(g) /\ Ripe(g) /\ g.currentColor \in Colours
      /\ Viewed(g, Colours)
  BY ShownIs DEF Shown
<1>2. Updated(keyPressed(g, k), Colours)
  BY <1>1, KeyUpdates
<1>3. CASE k \in MoveKeys /\ keyPressed(g, k) = moveViewport(g, Delta(k))
  <2> DEFINE h == moveViewport(g, Delta(k))
  <2>1. /\ Agreeing(g, h, Moved)
        /\ h.viewport = [i \in 1 .. 2 |-> movedAxis(g.viewport[i], Delta(k)[i], g.worldSize)]
        /\ g.canPlace \in BOOLEAN => h.canPlace \in BOOLEAN
    BY <1>1, MoveFrame
  <2> HIDE DEF h
  <2>2. /\ h.worldSize = g.worldSize /\ h.speed = g.speed /\ h.cells = g.cells
        /\ h.pending = g.pending /\ h.placing = g.placing /\ h.pattern = g.pattern
        /\ h.height = g.height /\ h.width = g.width
    BY <2>1 DEF Agreeing, Moved, GameFields
  <2>3. g.worldSize \in Int /\ g.viewport \in [1 .. 2 -> Int]
    BY <1>1, Sizes DEF Fielded
  <2>4. \A i \in 1 .. 2 : movedAxis(g.viewport[i], Delta(k)[i], g.worldSize) \in Int
    <3> TAKE i \in 1 .. 2
    <3>1. Delta(k)[i] \in Int /\ g.viewport[i] \in Int
      BY <1>3, <2>3, Steps, Sizes
    <3> QED  BY <2>3, <3>1 DEF movedAxis
  <2>5. h.viewport \in [1 .. 2 -> Int]
    BY <2>1, <2>4
  <2> HIDE DEF PatternList, CellMaps, States, Fits
  <2>6. Fielded(h)
    BY <1>1, <2>1, <2>2, <2>5 DEF Fielded
  <2> QED  BY <1>2, <1>3, <2>6 DEF Ripe, h
<1>4. CASE keyPressed(g, k) = g
  BY <1>1, <1>4
<1>5. CASE keyPressed(g, k) = stopPlacing(g)
  <2> DEFINE h == stopPlacing(g)
  <2>1. Agreeing(g, h, {"placing", "dirty"}) /\ h.placing = FALSE
    BY <1>1, StopFrame
  <2> HIDE DEF h
  <2>2. /\ h.worldSize = g.worldSize /\ h.speed = g.speed /\ h.cells = g.cells
        /\ h.pending = g.pending /\ h.viewport = g.viewport /\ h.canPlace = g.canPlace
        /\ h.height = g.height /\ h.width = g.width
    BY <2>1 DEF Agreeing, GameFields
  <2> HIDE DEF PatternList, CellMaps, States, Fits
  <2>3. Fielded(h)
    BY <1>1, <2>1, <2>2 DEF Fielded
  <2> QED  BY <1>2, <1>5, <2>3 DEF Ripe, h
<1>6. CASE /\ Agreeing(g, keyPressed(g, k), {"speed", "saving"})
           /\ k = "S" => keyPressed(g, k).speed = g.speed + 1
           /\ k = "s" => keyPressed(g, k).speed = IF g.speed > 1 THEN g.speed - 1 ELSE g.speed
           /\ k \notin {"S", "s"} => keyPressed(g, k).speed = g.speed
  <2> DEFINE h == keyPressed(g, k)
  <2>1. Agreeing(g, h, {"speed", "saving"})
    BY <1>6
  <2>2. g.speed \in Nat
    BY <1>1 DEF Fielded
  <2>3. h.speed \in Nat
    BY <1>6, <2>2
  <2> HIDE DEF h
  <2>4. /\ h.worldSize = g.worldSize /\ h.canPlace = g.canPlace /\ h.cells = g.cells
        /\ h.pending = g.pending /\ h.placing = g.placing /\ h.pattern = g.pattern
        /\ h.height = g.height /\ h.width = g.width /\ h.viewport = g.viewport
    BY <2>1 DEF Agreeing, GameFields
  <2> HIDE DEF PatternList, CellMaps, States, Fits
  <2>5. Fielded(h)
    BY <1>1, <2>3, <2>4 DEF Fielded
  <2> QED  BY <1>2, <2>5 DEF Ripe, h
<1> QED  BY <1>1, <1>3, <1>4, <1>5, <1>6, KeyFrame

LEMMA SizeIs ==
  ASSUME NEW g, IsGame(g), NEW height, NEW width, NEW half
  PROVE  /\ IsGame(setDimensions(g, height, width, half))
         /\ setDimensions(g, height, width, half).height = height
         /\ setDimensions(g, height, width, half).width = IF half THEN width + 1 ELSE width
BY DEF setDimensions, IsGame, GameFields

LEMMA WindowShows ==
  ASSUME NEW g, Shown(g), NEW s \in WindowSizes
  PROVE  Ripe(windowSize(g, s[1], s[2]))
<1> DEFINE h == s[1]
           w == s[2]
           n == windowSize(g, h, w)
<1>1. h \in Nat /\ w \in Nat /\ Fits(h, w)
  BY TerminalAssumption, WindowsFit
<1>2. /\ IsGame(g) /\ Fielded(g) /\ Viewed(g, Colours)
      /\ g.height \in Nat \ {0} /\ g.width \in Nat \ {0}
  BY ShownIs DEF Shown
<1>3. Updated(n, Colours)
  BY <1>1, <1>2, WindowUpdates
<1>4. /\ Agreeing(g, n, Resized)
      /\ g.canPlace \in BOOLEAN => n.canPlace \in BOOLEAN
  BY <1>2, WindowFrame
<1>5. \/ n = g
      \/ n.height \in Nat /\ n.height <= h /\ n.width \in Nat /\ n.width <= w
  <2> DEFINE half == (w - 2) % 2 = 1
             width == (w - 2) \div 2
             d == setDimensions(g, h - 3, width, half)
             c == markAllRowsDirty(clearPrev(d))
             u == updateGrid(c)
             big == h > 3 /\ w > 6 /\ (h - 3 # g.height \/ width # g.width \/ half # g.half)
  <2>1. n = IF big THEN updatePatternCanPlace(u) ELSE g
    BY DEF windowSize
  <2>2. CASE big
    <3>1. width \in Nat /\ width + 1 <= w /\ h - 3 \in Nat /\ h - 3 <= h
      BY <1>1, <2>2
    <3> HIDE DEF width, half
    <3>2. IsGame(d) /\ d.height = h - 3 /\ d.width = IF half THEN width + 1 ELSE width
      BY <1>2, SizeIs
    <3> HIDE DEF d
    <3>3. clearPrev(d) = [d EXCEPT !.prev = NoCells]
      BY DEF clearPrev
    <3>4. /\ IsGame(clearPrev(d)) /\ clearPrev(d).height = d.height
          /\ clearPrev(d).width = d.width
      BY <3>2, <3>3 DEF IsGame, GameFields
    <3>5. Agreeing(clearPrev(d), c, {"dirty"})
      BY <3>4, DirtyFrame
    <3>6. IsGame(c) /\ c.height = d.height /\ c.width = d.width
      BY <3>4, <3>5 DEF Agreeing, GameFields
    <3> HIDE DEF c
    <3>7. Agreeing(c, u, {"grid", "dirty", "prev"})
      BY <3>6, GridFrame
    <3>8. IsGame(u) /\ u.height = d.height /\ u.width = d.width
      BY <3>6, <3>7 DEF Agreeing, GameFields
    <3> HIDE DEF u
    <3>9. Agreeing(u, updatePatternCanPlace(u), {"canPlace", "dirty"})
      BY <3>8, CanPlaceUpdates
    <3>10. n.height = d.height /\ n.width = d.width
      BY <2>1, <2>2, <3>8, <3>9 DEF Agreeing, GameFields
    <3> QED  BY <1>1, <3>1, <3>2, <3>10
  <2> QED  BY <2>1, <2>2
<1> HIDE DEF n, h, w
<1>6. CASE n = g
  BY <1>2, <1>3, <1>6 DEF Ripe, n, h, w
<1>7. CASE n.height \in Nat /\ n.height <= h /\ n.width \in Nat /\ n.width <= w
  <2>1. Fits(n.height, n.width)
    BY <1>1, <1>7, SmallerFits
  <2>2. /\ n.worldSize = g.worldSize /\ n.speed = g.speed /\ n.cells = g.cells
        /\ n.pending = g.pending /\ n.placing = g.placing /\ n.pattern = g.pattern
        /\ n.viewport = g.viewport
    BY <1>4 DEF Agreeing, Resized, Sizing, GameFields
  <2> HIDE DEF PatternList, CellMaps, States, Fits
  <2>3. Fielded(n)
    BY <1>2, <1>4, <2>1, <2>2 DEF Fielded
  <2> QED  BY <1>3, <2>3 DEF Ripe, n, h, w
<1> QED  BY <1>5, <1>6, <1>7

LEMMA MapColours ==
  ASSUME NEW m \in CellMaps
  PROVE  DOMAIN m \subseteq Coords /\ \A c \in DOMAIN m : m[c] \in Colours
<1> HIDE DEF Coords, Colours
<1> QED  BY DEF CellMaps

LEMMA TickShows ==
  ASSUME NEW g, Shown(g), g.pending # NoData
  PROVE  Ripe(tickMsg(g))
<1> DEFINE n == tickMsg(g)
<1>1. IsGame(g) /\ Fielded(g) /\ Viewed(g, Colours)
  BY ShownIs DEF Shown
<1>2. g.pending.cells \in CellMaps /\ g.pending.speed \in Nat
  BY <1>1, Sizes DEF Fielded, States
<1>3. Updated(n, Colours)
  BY <1>1, <1>2, MapColours, TickUpdates
<1>4. /\ Agreeing(g, n, {"cells", "running", "speed", "grid", "dirty", "prev", "pending"})
      /\ n.cells = g.pending.cells /\ n.speed = g.pending.speed /\ n.pending = NoData
  BY <1>1, TickFrame
<1> HIDE DEF n
<1>5. /\ n.worldSize = g.worldSize /\ n.canPlace = g.canPlace /\ n.viewport = g.viewport
      /\ n.placing = g.placing /\ n.pattern = g.pattern
      /\ n.height = g.height /\ n.width = g.width
  BY <1>4 DEF Agreeing, GameFields
<1> HIDE DEF PatternList, CellMaps, States, Fits
<1>6. Fielded(n)
  BY <1>1, <1>2, <1>4, <1>5 DEF Fielded
<1> QED  BY <1>3, <1>6 DEF Ripe, n

LEMMA PatternShows ==
  ASSUME NEW g, Shown(g), NEW i \in DOMAIN PatternList
  PROVE  Ripe(patternSelected(g, PatternList[i]))
<1> DEFINE n == patternSelected(g, PatternList[i])
<1> HIDE DEF PatternList
<1>1. IsGame(g) /\ Fielded(g) /\ Viewed(g, Colours)
  BY ShownIs DEF Shown
<1>2. /\ Agreeing(g, n, {"placing", "pattern", "canPlace", "dirty"})
      /\ n.pattern = PatternList[i]
      /\ n.dirty = 0 .. g.height - 1
      /\ g.canPlace \in BOOLEAN => n.canPlace \in BOOLEAN
  BY <1>1, PatternFrame
<1>3. Updated(n, Colours)
  BY <1>1, <1>2, PlacingUpdates
<1> HIDE DEF n
<1>4. /\ n.worldSize = g.worldSize /\ n.speed = g.speed /\ n.cells = g.cells
      /\ n.pending = g.pending /\ n.viewport = g.viewport
      /\ n.height = g.height /\ n.width = g.width
  BY <1>2 DEF Agreeing, GameFields
<1> HIDE DEF CellMaps, States, Fits
<1>5. Fielded(n)
  BY <1>1, <1>2, <1>4 DEF Fielded
<1> QED  BY <1>3, <1>5 DEF Ripe, n

\* The answer of the server comes while no cells are known.
LEMMA ConnectionShows ==
  ASSUME NEW g, Shown(g), DOMAIN g.cells = {}, NEW ok \in BOOLEAN
  PROVE  /\ Ripe(connectionResult(g, ok, WorldSize))
         /\ Agreeing(g, connectionResult(g, ok, WorldSize), {"connected", "conn", "err", "worldSize"})
<1> DEFINE n == connectionResult(g, ok, WorldSize)
<1>1. IsGame(g) /\ Fielded(g) /\ Viewed(g, Colours)
  BY ShownIs DEF Shown
<1>2. n = [g EXCEPT !.connected = ok, !.conn = ok, !.err = ~ok,
                    !.worldSize = IF ok THEN WorldSize ELSE 0]
  BY DEF connectionResult
<1>3. Agreeing(g, n, {"connected", "conn", "err", "worldSize"})
  BY <1>1, <1>2 DEF Agreeing, IsGame, GameFields
<1>4. Updated(n, Colours)
  BY <1>1, <1>3, WorldSizeUpdates
<1>5. n.worldSize \in {0, WorldSize}
  BY <1>1, <1>2 DEF IsGame, GameFields
<1> HIDE DEF n
<1>6. /\ n.speed = g.speed /\ n.cells = g.cells /\ n.pending = g.pending
      /\ n.viewport = g.viewport /\ n.canPlace = g.canPlace /\ n.placing = g.placing
      /\ n.pattern = g.pattern /\ n.height = g.height /\ n.width = g.width
  BY <1>3 DEF Agreeing, GameFields
<1> HIDE DEF PatternList, CellMaps, States, Fits
<1>7. Fielded(n)
  BY <1>1, <1>5, <1>6 DEF Fielded
<1> QED  BY <1>3, <1>4, <1>7 DEF Ripe, n

LEMMA DataShows ==
  ASSUME NEW g, Shown(g), NEW data \in States
  PROVE  /\ Ripe(cacheData(g, data))
         /\ Agreeing(g, cacheData(g, data), {"pending"}) /\ cacheData(g, data).pending = data
<1> DEFINE n == cacheData(g, data)
<1>1. IsGame(g) /\ Fielded(g) /\ Viewed(g, Colours) /\ g.currentColor \in Colours
  BY ShownIs DEF Shown
<1> HIDE DEF States
<1>2. Agreeing(g, n, {"pending"}) /\ n.pending = data
  BY <1>1 DEF cacheData, Agreeing, IsGame, GameFields
<1> HIDE DEF n
<1>3. /\ n.speed = g.speed /\ n.cells = g.cells /\ n.worldSize = g.worldSize
      /\ n.viewport = g.viewport /\ n.canPlace = g.canPlace /\ n.placing = g.placing
      /\ n.pattern = g.pattern /\ n.height = g.height /\ n.width = g.width
      /\ n.currentColor = g.currentColor
  BY <1>2 DEF Agreeing, GameFields
<1>4. Agreeing(g, n, Beside)
  BY <1>2 DEF Agreeing, Beside
<1>5. Updated(n, Colours)
  BY <1>1, <1>3, <1>4, BesideUpdates
<1> HIDE DEF PatternList, CellMaps, Fits
<1>6. Fielded(n)
  BY <1>1, <1>2, <1>3 DEF Fielded
<1> QED  BY <1>2, <1>5, <1>6 DEF Ripe, n

\* The other messages, and ctrl+c.
LEMMA FlagsShow ==
  ASSUME NEW g, Shown(g)
  PROVE  /\ Ripe(g)
         /\ Ripe(wsError(g)) /\ Agreeing(g, wsError(g), {"err", "connected"})
         /\ wsError(g).connected = FALSE
         /\ Ripe(quitMessage(g)) /\ Agreeing(g, quitMessage(g), {"conn"})
         /\ quitMessage(g).conn = FALSE
         /\ \A ok : Ripe(saveResult(g, ok)) /\ Agreeing(g, saveResult(g, ok), {"err", "saving"})
         /\ \A color \in Colours : /\ Ripe(colorSelected(g, color))
                                   /\ Agreeing(g, colorSelected(g, color), {"currentColor"})
<1>1. IsGame(g) /\ Ripe(g) /\ g.currentColor \in Colours
  BY ShownIs
<1>2. Agreeing(g, wsError(g), {"err", "connected"}) /\ wsError(g).connected = FALSE
  BY <1>1 DEF wsError, Agreeing, IsGame, GameFields
<1>3. Agreeing(g, quitMessage(g), {"conn"}) /\ quitMessage(g).conn = FALSE
  BY <1>1 DEF quitMessage, Agreeing, IsGame, GameFields
<1>4. ASSUME NEW ok PROVE Agreeing(g, saveResult(g, ok), {"err", "saving"})
  BY <1>1 DEF saveResult, Agreeing, IsGame, GameFields
<1>5. ASSUME NEW color \in Colours
      PROVE  /\ Agreeing(g, colorSelected(g, color), {"currentColor"})
             /\ colorSelected(g, color).currentColor \in Colours
  BY <1>1 DEF colorSelected, Agreeing, IsGame, GameFields
<1>6. wsError(g).currentColor \in Colours /\ quitMessage(g).currentColor \in Colours
  BY <1>1, <1>2, <1>3 DEF Agreeing, GameFields
<1>7. \A ok : saveResult(g, ok).currentColor \in Colours
  BY <1>1, <1>4 DEF Agreeing, GameFields
<1>8. /\ {"err", "connected"} \subseteq Beside \ {"speed", "pending"}
      /\ {"conn"} \subseteq Beside \ {"speed", "pending"}
      /\ {"err", "saving"} \subseteq Beside \ {"speed", "pending"}
      /\ {"currentColor"} \subseteq Beside \ {"speed", "pending"}
  BY DEF Beside
<1>9. Ripe(wsError(g))
  BY <1>2, <1>6, <1>8, BesideShows
<1>10. Ripe(quitMessage(g))
  BY <1>3, <1>6, <1>8, BesideShows
<1>11. ASSUME NEW ok PROVE Ripe(saveResult(g, ok))
  BY <1>4, <1>7, <1>8, BesideShows
<1>12. ASSUME NEW color \in Colours PROVE Ripe(colorSelected(g, color))
  BY <1>5, <1>8, BesideShows
<1> QED  BY <1>1, <1>2, <1>3, <1>4, <1>5, <1>9, <1>10, <1>11, <1>12

\* The first game, with no world and an empty screen.
LEMMA InitShows ==
  /\ Ripe(InitGame)
  /\ ~InitGame.connected /\ ~InitGame.conn /\ InitGame.pending = NoData
  /\ InitGame.worldSize = 0 /\ DOMAIN InitGame.cells = {}
<1> DEFINE g == InitGame
           K == Colours
<1>1. /\ g.worldSize = 0 /\ g.cells = NoCells /\ g.width = InitWidth /\ g.height = InitHeight
      /\ g.prev = NoCells /\ g.sgr = NewLruCache /\ g.speed = 0 /\ g.connected = FALSE
      /\ g.conn = FALSE /\ g.viewport = <<0, 0>> /\ g.currentColor = White
      /\ g.placing = FALSE /\ g.canPlace = FALSE /\ g.pending = NoData
      /\ g.dirty = 0 .. g.height - 1 /\ g.grid = [p \in Window(g) |-> Empty]
      /\ IsGame(g)
  BY DEF InitGame, markAllRowsDirty, setDimensions, IsGame, GameFields, Window
<1> HIDE DEF g, K
<1>2. DOMAIN NoCells = {}
  BY DEF NoCells
<1>3. InitHeight \in Nat \ {0} /\ InitWidth \in Nat \ {0} /\ White \in K
  BY TerminalAssumption DEF K
<1>4. Sized(g) /\ Coloured(g, K)
  BY <1>1, <1>2, <1>3 DEF Sized, Coloured
<1>5. Gridded(g, K)
  BY <1>1, <1>2 DEF Gridded, OnScreen
<1>6. currentCells(g) = NoCells
  <2>1. DOMAIN currentCells(g) = {}
    BY <1>1, <1>2 DEF currentCells
  <2>2. \E D, e : currentCells(g) = [p \in D |-> e[p]]
    <3> DEFINE place == [c \in DOMAIN g.cells |-> worldToViewport(g, c)]
               on == {c \in DOMAIN g.cells : place[c] \in Window(g)}
               D == {place[c] : c \in on}
               e == [p \in D |-> g.cells[CHOOSE c \in on : place[c] = p]]
    <3>1. currentCells(g) = e
      BY DEF currentCells
    <3> HIDE DEF on, D, place
    <3>2. e = [p \in D |-> e[p]]
      OBVIOUS
    <3> HIDE DEF e
    <3> QED  BY <3>1, <3>2
  <2>3. PICK D, e : currentCells(g) = [p \in D |-> e[p]]
    BY <2>2
  <2>4. D = {}
    BY <2>1, <2>3
  <2> QED  BY <2>3, <2>4 DEF NoCells
<1>7. Caching(g.sgr, K)
  <2>1. NewLruCache.ll = <<>> /\ DOMAIN NewLruCache.m = {}
    BY DEF NewLruCache
  <2>2. Agree(NewLruCache) /\ Bounded(NewLruCache, CacheCap)
    BY <2>1, GameAssumption DEF Agree, Bounded, capOf
  <2> QED  BY <1>1, <2>1, <2>2 DEF Caching, IsCache
<1>8. Ready(g)
  BY <1>1, <1>3 DEF Ready, drawn, Window
<1>9. Updated(g, K)
  BY <1>1, <1>4, <1>5, <1>6, <1>7, <1>8 DEF Updated
<1>10. NoCells \in CellMaps
  <2>1. NoCells \in [{} -> Colours]
    BY DEF NoCells
  <2> QED  BY <2>1 DEF CellMaps
<1>11. <<0, 0>> \in [1 .. 2 -> Int]
  OBVIOUS
<1> HIDE DEF CellMaps, States, Fits, PatternList
<1>12. Fielded(g)
  <2>1. g.viewport \in [1 .. 2 -> Int] /\ g.worldSize \in {0, WorldSize} /\ g.speed \in Nat
    BY <1>1, <1>11
  <2>2. g.canPlace \in BOOLEAN /\ g.cells \in CellMaps /\ ~(g.pending # NoData) /\ ~g.placing
    BY <1>1, <1>10
  <2>3. Fits(g.height, g.width)
    BY <1>1, WindowsFit
  <2> QED  BY <2>1, <2>2, <2>3 DEF Fielded
<1> QED  BY <1>1, <1>2, <1>9, <1>12 DEF Ripe, g, K

-----------------------------------------------------------------------------
\* The overlays.
LEMMA FirstOverlay == Overlaid(InitForeground(White))
<1>1. NewPicker \in [rgb : Colours, slider : 0 .. 2]
  BY PickerAssumption DEF NewPicker, Colours
<1>2. Len(PatternList) \in Nat \ {0} /\ ViewHeight \in Nat \ {0}
  BY List, PickerAssumption
<1> HIDE DEF PatternList, Colours, NewPicker
<1> DEFINE f == InitForeground(White)
<1>3. DOMAIN f = {"type", "picker", "selector", "color"} /\ f.picker = NewPicker
  BY DEF InitForeground
<1>4. /\ DOMAIN f.selector = {"selected", "offset", "color"}
      /\ f.selector.selected = 0 /\ f.selector.offset = 0
  BY DEF InitForeground, NewSelector
<1> HIDE DEF f
<1>5. Overlaid(f)
  BY <1>1, <1>2, <1>3, <1>4 DEF Overlaid
<1> QED  BY <1>5 DEF f

\* A step of a slider stays in its range.
LEMMA PickerTyped ==
  ASSUME NEW p \in [rgb : Colours, slider : 0 .. 2], NEW k
  PROVE  pickerKey(p, k) \in [rgb : Colours, slider : 0 .. 2]
<1>1. MaxChannel \in Nat /\ Coarse \in Nat
  BY PickerAssumption
<1>2. p.rgb \in Colours /\ p.slider \in 0 .. 2 /\ p.slider + 1 \in 1 .. 3
  OBVIOUS
<1>3. CASE k \in {"k", "j"}
  <2> DEFINE v == IF k = "k" THEN (IF p.slider = 0 THEN 2 ELSE p.slider - 1)
                  ELSE IF p.slider = 2 THEN 0 ELSE p.slider + 1
  <2>1. pickerKey(p, k) = [p EXCEPT !.slider = v]
    <3>1. CASE k = "k"
      <4>1. v = IF p.slider = 0 THEN 2 ELSE p.slider - 1
        BY <3>1
      <4> HIDE DEF v
      <4> QED  BY <3>1, <4>1 DEF pickerKey, StepOf
    <3>2. CASE k = "j"
      <4>1. v = IF p.slider = 2 THEN 0 ELSE p.slider + 1
        BY <3>2
      <4> HIDE DEF v
      <4> QED  BY <3>2, <4>1 DEF pickerKey, StepOf
    <3> QED  BY <1>3, <3>1, <3>2
  <2>2. v \in 0 .. 2
    BY <1>2
  <2> HIDE DEF v, Colours
  <2> QED  BY <2>1, <2>2
<1>5. CASE k \in DOMAIN StepOf
  <2> DEFINE v == p.rgb[p.slider + 1]
             s == StepOf[k]
             c == adjusted(v, s)
  <2>1. v \in 0 .. MaxChannel
    BY <1>2 DEF Colours
  <2>2. k \in {"h", "l", "H", "L"}
    BY <1>5 DEF StepOf
  <2>3. s \in Int
    BY <1>1, <2>2 DEF StepOf
  <2> HIDE DEF v, s
  <2>4. c \in 0 .. MaxChannel
    BY <1>1, <2>1, <2>3 DEF adjusted
  <2>5. k # "k" /\ k # "j"
    BY <2>2
  <2>6. pickerKey(p, k) = [p EXCEPT !.rgb = [p.rgb EXCEPT ![p.slider + 1] = c]]
    BY <1>5, <2>5 DEF pickerKey, v, s
  <2> HIDE DEF c
  <2>7. [p.rgb EXCEPT ![p.slider + 1] = c] \in Colours
    BY <1>2, <2>4 DEF Colours
  <2> HIDE DEF Colours
  <2> QED  BY <2>6, <2>7
<1>6. CASE k \notin {"k", "j"} \cup DOMAIN StepOf
  BY <1>6 DEF pickerKey
<1> QED  BY <1>3, <1>5, <1>6

\* The selection moves by one and the list scrolls after it.
LEMMA SelectorTyped ==
  ASSUME NEW s, DOMAIN s = {"selected", "offset", "color"}, NEW n \in Nat \ {0},
         s.selected \in 0 .. n - 1, s.offset \in Nat, s.offset <= s.selected,
         s.selected < s.offset + ViewHeight, NEW k
  PROVE  LET t == selectorKey(s, k, n)
         IN /\ DOMAIN t = {"selected", "offset", "color"}
            /\ t.selected \in 0 .. n - 1 /\ t.offset \in Nat /\ t.offset <= t.selected
            /\ t.selected < t.offset + ViewHeight
<1> DEFINE t == selectorKey(s, k, n)
<1>1. ViewHeight \in Nat \ {0}
  BY PickerAssumption
<1>2. CASE k = "k" /\ s.selected > 0
  <2> DEFINE up == [s EXCEPT !.selected = @ - 1]
  <2>1. DOMAIN up = DOMAIN s /\ up.selected = s.selected - 1 /\ up.offset = s.offset
    OBVIOUS
  <2>2. t = [up EXCEPT !.offset = scrolledUp(up)]
    BY <1>2 DEF selectorKey
  <2> HIDE DEF up, t
  <2>3. /\ DOMAIN t = DOMAIN s /\ t.selected = s.selected - 1
        /\ t.offset = IF s.selected - 1 < s.offset THEN s.selected - 1 ELSE s.offset
    BY <2>1, <2>2 DEF scrolledUp
  <2> QED  BY <1>1, <1>2, <2>3 DEF t
<1>3. CASE k = "j" /\ s.selected < n - 1
  <2> DEFINE low == [s EXCEPT !.selected = @ + 1]
  <2>1. DOMAIN low = DOMAIN s /\ low.selected = s.selected + 1 /\ low.offset = s.offset
    OBVIOUS
  <2>2. t = [low EXCEPT !.offset = scrolledDown(low)]
    BY <1>3 DEF selectorKey
  <2> HIDE DEF low, t
  <2>3. /\ DOMAIN t = DOMAIN s /\ t.selected = s.selected + 1
        /\ t.offset = IF s.selected + 1 >= s.offset + ViewHeight
                      THEN (s.selected + 1) - ViewHeight + 1 ELSE s.offset
    BY <2>1, <2>2 DEF scrolledDown
  <2> QED  BY <1>1, <1>3, <2>3 DEF t
<1>4. CASE ~(k = "k" /\ s.selected > 0) /\ ~(k = "j" /\ s.selected < n - 1)
  BY <1>4 DEF selectorKey
<1> QED  BY <1>2, <1>3, <1>4

\* A key in front, whatever colour the list shows.
LEMMA OverlayTyped ==
  ASSUME NEW f, Overlaid(f), NEW k, NEW color
  PROVE  LET n == Len(PatternList)
             a == foregroundKey(f, k, n)
             b == foregroundKey(SetCurrentColor(f, color), k, n)
         IN Overlaid(a) /\ Overlaid(b)
<1> DEFINE n == Len(PatternList)
<1>1. n \in Nat \ {0}
  BY List
<1> HIDE DEF PatternList, Colours
<1>2. ASSUME NEW e, Overlaid(e) PROVE Overlaid(foregroundKey(e, k, n))
  <2> DEFINE h == opened(e, k)
  <2>1. /\ DOMAIN h = DOMAIN e /\ h.picker = e.picker
        /\ DOMAIN h.selector = DOMAIN e.selector
        /\ h.selector.selected = e.selector.selected /\ h.selector.offset = e.selector.offset
    BY <1>2 DEF opened, Overlaid
  <2>2. Overlaid(h)
    BY <1>2, <2>1 DEF Overlaid
  <2> HIDE DEF h
  <2>3. CASE foregroundKey(e, k, n) = [h EXCEPT !.picker = pickerKey(h.picker, k)]
    <3>1. pickerKey(h.picker, k) \in [rgb : Colours, slider : 0 .. 2]
      BY <2>2, PickerTyped DEF Overlaid
    <3> DEFINE p == pickerKey(h.picker, k)
               r == [h EXCEPT !.picker = p]
    <3> HIDE DEF p
    <3>2. DOMAIN r = DOMAIN h /\ r.picker = p /\ r.selector = h.selector
      BY <2>2 DEF Overlaid
    <3> HIDE DEF r
    <3>3. Overlaid(r)
      BY <2>2, <3>1, <3>2 DEF Overlaid, p
    <3> QED  BY <2>3, <3>3 DEF r, p
  <2>4. CASE foregroundKey(e, k, n) = [h EXCEPT !.selector = selectorKey(h.selector, k, n)]
    <3> DEFINE s == selectorKey(h.selector, k, n)
               r == [h EXCEPT !.selector = s]
    <3>1. /\ DOMAIN s = {"selected", "offset", "color"}
          /\ s.selected \in 0 .. n - 1 /\ s.offset \in Nat /\ s.offset <= s.selected
          /\ s.selected < s.offset + ViewHeight
      <4> DEFINE t == h.selector
      <4>1. /\ DOMAIN t = {"selected", "offset", "color"} /\ t.selected \in 0 .. n - 1
            /\ t.offset \in Nat /\ t.offset <= t.selected /\ t.selected < t.offset + ViewHeight
        BY <2>2 DEF Overlaid
      <4> HIDE DEF t, n
      <4>2. s = selectorKey(t, k, n)
        BY DEF t
      <4> HIDE DEF s
      <4>3. LET x == selectorKey(t, k, n)
            IN /\ DOMAIN x = {"selected", "offset", "color"}
               /\ x.selected \in 0 .. n - 1 /\ x.offset \in Nat /\ x.offset <= x.selected
               /\ x.selected < x.offset + ViewHeight
        BY <1>1, <4>1, SelectorTyped
      <4> QED  BY <4>2, <4>3
    <3> HIDE DEF s
    <3>2. DOMAIN r = DOMAIN h /\ r.picker = h.picker /\ r.selector = s
      BY <2>2 DEF Overlaid
    <3> HIDE DEF r
    <3>3. Overlaid(r)
      BY <2>2, <3>1, <3>2 DEF Overlaid
    <3> QED  BY <2>4, <3>3 DEF r, s
  <2>5. CASE foregroundKey(e, k, n) = h
    BY <2>2, <2>5
  <2>6. \/ foregroundKey(e, k, n) = [h EXCEPT !.picker = pickerKey(h.picker, k)]
        \/ foregroundKey(e, k, n) = [h EXCEPT !.selector = selectorKey(h.selector, k, n)]
        \/ foregroundKey(e, k, n) = h
    BY DEF foregroundKey, h
  <2> QED  BY <2>3, <2>4, <2>5, <2>6
<1>3. Overlaid(SetCurrentColor(f, color))
  <2> DEFINE e == SetCurrentColor(f, color)
  <2>1. /\ DOMAIN e = DOMAIN f /\ e.picker = f.picker
        /\ DOMAIN e.selector = DOMAIN f.selector
        /\ e.selector.selected = f.selector.selected /\ e.selector.offset = f.selector.offset
    BY DEF SetCurrentColor, Overlaid
  <2> HIDE DEF e
  <2>2. Overlaid(e)
    BY <2>1 DEF Overlaid
  <2> QED  BY <2>2 DEF e
<1> QED  BY <1>2, <1>3

\* What an overlay says on enter.
LEMMA OverlaySends ==
  ASSUME NEW f, Overlaid(f), NEW k, NEW m \in foregroundSends(f, k, Len(PatternList))
  PROVE  Mailed(m) /\ m.type \in {"color", "pattern"}
<1>1. Len(PatternList) \in Nat \ {0} /\ DOMAIN PatternList = 1 .. Len(PatternList)
  BY List
<1> HIDE DEF PatternList, Colours, States
<1>2. f.picker.rgb \in Colours /\ f.selector.selected \in 0 .. Len(PatternList) - 1
  BY DEF Overlaid
<1>3. \/ m = [type |-> "color", color |-> f.picker.rgb]
      \/ m = [type |-> "pattern", number |-> f.selector.selected + 1]
  BY DEF foregroundSends
<1>4. CASE m = [type |-> "color", color |-> f.picker.rgb]
  BY <1>2, <1>4 DEF Mailed
<1>5. CASE m = [type |-> "pattern", number |-> f.selector.selected + 1]
  <2>1. m.type = "pattern" /\ m.number = f.selector.selected + 1
    BY <1>5
  <2>2. m.number \in DOMAIN PatternList
    BY <1>1, <1>2, <2>1
  <2> QED  BY <2>1, <2>2 DEF Mailed
<1> QED  BY <1>3, <1>4, <1>5

-----------------------------------------------------------------------------
\* The bag of messages that send goroutines hold.
LEMMA BagOfNone == IsABag(EmptyBag) /\ BagToSet(EmptyBag) = {}
BY DEF EmptyBag, SetToBag, BagToSet, IsABag

LEMMA BagMore ==
  ASSUME NEW B, IsABag(B), NEW S
  PROVE  /\ IsABag(B (+) SetToBag(S))
         /\ BagToSet(B (+) SetToBag(S)) = BagToSet(B) \cup S
BY DEF BagToSet, SetToBag, (+), IsABag

LEMMA BagSame == EmptyBag (+) SetToBag({}) = EmptyBag
BY DEF EmptyBag, SetToBag, (+)

LEMMA BagLess ==
  ASSUME NEW B, IsABag(B), NEW m
  PROVE  /\ IsABag(B (-) SetToBag({m}))
         /\ BagToSet(B (-) SetToBag({m})) \subseteq BagToSet(B)
         /\ \A n \in BagToSet(B) : n # m => n \in BagToSet(B (-) SetToBag({m}))
BY DEF BagToSet, SetToBag, (-), IsABag

\* What the server makes of a message, and a world of Worlds, are worlds.
LEMMA WorldIsMap ==
  ASSUME NEW w \in Worlds
  PROVE  w \in CellMaps
<1>1. w \in [DOMAIN w -> Colours] /\ DOMAIN w \subseteq WorldCells
  BY WorldsAssumption
<1>2. WorldSize \in Nat \ {0} /\ Width16 \in Nat /\ WorldSize <= Width16
  BY Sizes
<1>3. \A c \in WorldCells : c \in Coords
  <2> TAKE c \in WorldCells
  <2>1. c = <<c[1], c[2]>> /\ c[1] \in 0 .. Width16 - 1 /\ c[2] \in 0 .. Width16 - 1
    BY <1>2 DEF WorldCells
  <2>2. <<c[1], c[2]>> \in [1 .. 2 -> 0 .. Width16 - 1]
    BY <2>1
  <2> QED  BY <2>1, <2>2 DEF Coords
<1> HIDE DEF Colours, Coords, WorldCells
<1> QED  BY <1>1, <1>3 DEF CellMaps

\* A state is data.
LEMMA StateIsData ==
  ASSUME NEW s \in States
  PROVE  /\ s # NoData /\ s.cells \in CellMaps /\ s.running \in BOOLEAN
         /\ s.speed \in 0 .. Width16 - 1 /\ s.speed \in Nat
         /\ \A w \in CellMaps : [s EXCEPT !.cells = w] \in States
         /\ \A r \in BOOLEAN : [s EXCEPT !.running = r] \in States
         /\ \A v \in 0 .. Width16 - 1 : [s EXCEPT !.speed = v] \in States
<1> HIDE DEF CellMaps
<1>1. Width16 \in Nat
  BY Sizes
<1>2. DOMAIN s = {"cells", "running", "speed"}
  BY DEF States
<1>3. DOMAIN NoData = {}
  BY DEF NoData
<1>4. s # NoData
  BY <1>2, <1>3
<1> QED  BY <1>1, <1>4 DEF States

-----------------------------------------------------------------------------
LEMMA Uint16Typed ==
  ASSUME NEW v \in Int
  PROVE  uint16(v) \in 0 .. Width16 - 1 /\ uint16(v) \in Int
BY Sizes, DivMod DEF uint16

\* What is sent.  A position on or off the screen is a cell of the world.
LEMMA ToCell ==
  ASSUME NEW g, Fielded(g), g.worldSize = WorldSize, NEW p, p[1] \in Int, p[2] \in Int
  PROVE  /\ [i \in 1 .. 2 |-> uint16(viewportToWorld(g, p)[i])] \in Coords
         /\ \A i \in 1 .. 2 : viewportToWorld(g, p)[i] \in Int
<1>1. WorldSize \in Nat \ {0} /\ Width16 \in Nat \ {0} /\ g.viewport \in [1 .. 2 -> Int]
  BY Sizes DEF Fielded
<1>2. ASSUME NEW i \in 1 .. 2
      PROVE  viewportToWorld(g, p)[i] \in Int /\ uint16(viewportToWorld(g, p)[i]) \in 0 .. Width16 - 1
  <2> DEFINE a == p[i] + g.viewport[i]
  <2>1. a \in Int
    BY <1>1
  <2> HIDE DEF a
  <2>2. rem(a, WorldSize) \in Int
    <3>1. a % WorldSize \in Int /\ (-a) % WorldSize \in Int
      BY <1>1, <2>1
    <3> QED  BY <3>1 DEF rem
  <2>3. viewportToWorld(g, p)[i] = rem(a, WorldSize)
    BY DEF viewportToWorld, a
  <2> QED  BY <1>1, <2>2, <2>3, DivMod DEF uint16
<1> QED  BY <1>2 DEF Coords

\* Positions of the pattern's cells, around the middle of the screen.
LEMMA PositionsTyped ==
  ASSUME NEW g, Fielded(g), g.placing, g.width \in Nat, g.height \in Nat
  PROVE  /\ g.pattern.center \in Nat \X Nat /\ ToSet(g.pattern.cells) \subseteq Nat \X Nat
         /\ ToSet(getPatternPositions(g)) =
                {[i \in 1 .. 2 |-> uint16(uint16(Middle(g)[i] - g.pattern.center[i]) + c[i])] :
                     c \in ToSet(g.pattern.cells)}
         /\ ToSet(getPatternPositions(g)) \subseteq Coords
<1>1. PICK n \in DOMAIN PatternList : g.pattern = PatternList[n]
  BY DEF Fielded
<1> DEFINE cells == g.pattern.cells
           center == g.pattern.center
<1> HIDE DEF PatternList
<1>2. cells \in Seq(Nat \X Nat) /\ center \in Nat \X Nat /\ Len(cells) \in Nat
  BY <1>1, List
<1>3. \A c \in ToSet(cells) : c[1] \in Nat /\ c[2] \in Nat
  BY <1>2 DEF ToSet
<1> DEFINE f == [c \in ToSet(cells) |->
                     [i \in 1 .. 2 |-> uint16(uint16(Middle(g)[i] - center[i]) + c[i])]]
<1>4. getPatternPositions(g) = [j \in 1 .. Len(cells) |-> f[cells[j]]]
  <2> DEFINE offset == getPatternCenterOffset(g)
  <2>1. getPatternPositions(g) =
            [j \in 1 .. Len(cells) |-> [i \in 1 .. 2 |-> uint16(offset[i] + cells[j][i])]]
    BY DEF getPatternPositions
  <2>2. \A i \in 1 .. 2 : offset[i] = uint16(Middle(g)[i] - center[i])
    <3>1. offset[1] = uint16(Middle(g)[1] - center[1]) /\ offset[2] = uint16(Middle(g)[2] - center[2])
      BY DEF getPatternCenterOffset, Middle
    <3> QED  BY <3>1
  <2> HIDE DEF offset
  <2>3. ASSUME NEW j \in 1 .. Len(cells)
        PROVE  [i \in 1 .. 2 |-> uint16(offset[i] + cells[j][i])] = f[cells[j]]
    <3>1. cells[j] \in ToSet(cells)
      BY <1>2 DEF ToSet
    <3>2. f[cells[j]] =
              [i \in 1 .. 2 |-> uint16(uint16(Middle(g)[i] - center[i]) + cells[j][i])]
      BY <3>1
    <3> HIDE DEF f
    <3> QED  BY <2>2, <3>2
  <2> HIDE DEF f
  <2> QED  BY <2>1, <2>3
<1>5. ToSet(getPatternPositions(g)) = {f[c] : c \in ToSet(cells)}
  <2> HIDE DEF f
  <2>0. DOMAIN cells = 1 .. Len(cells)
    BY <1>2
  <2> HIDE DEF cells
  <2>1. ToSet(cells) = {cells[j] : j \in 1 .. Len(cells)}
    BY <2>0 DEF ToSet
  <2> QED  BY <1>4, <2>1 DEF ToSet
<1>6. {f[c] : c \in ToSet(cells)} =
          {[i \in 1 .. 2 |-> uint16(uint16(Middle(g)[i] - center[i]) + c[i])] : c \in ToSet(cells)}
  OBVIOUS
<1>7. ASSUME NEW c \in ToSet(cells) PROVE f[c] \in Coords
  <2>1. Width16 \in Nat \ {0} /\ center[1] \in Nat /\ center[2] \in Nat
    BY <1>2, Sizes
  <2>2. Middle(g)[1] \in Int /\ Middle(g)[2] \in Int
    BY DEF Middle
  <2>3. ASSUME NEW i \in 1 .. 2
        PROVE  uint16(uint16(Middle(g)[i] - center[i]) + c[i]) \in 0 .. Width16 - 1
    <3>1. Middle(g)[i] - center[i] \in Int /\ c[i] \in Int
      BY <1>3, <2>1, <2>2
    <3>2. uint16(Middle(g)[i] - center[i]) \in Int
      BY <3>1, Uint16Typed
    <3>3. uint16(Middle(g)[i] - center[i]) + c[i] \in Int
      BY <3>1, <3>2
    <3> HIDE DEF center
    <3> QED  BY <3>3, Uint16Typed
  <2> QED  BY <2>3 DEF Coords
<1>8. ToSet(cells) \subseteq Nat \X Nat
  BY <1>2 DEF ToSet
<1> HIDE DEF f
<1> QED  BY <1>2, <1>5, <1>6, <1>7, <1>8

LEMMA PlacedTyped ==
  ASSUME NEW g, Shown(g), g.placing, g.worldSize = WorldSize
  PROVE  getPatternCells(g) \subseteq Coords
<1>1. Fielded(g) /\ g.width \in Nat /\ g.height \in Nat
  BY ShownIs
<1>2. ToSet(getPatternPositions(g)) \subseteq Coords
  BY <1>1, PositionsTyped
<1>3. \A p \in Coords : p[1] \in Int /\ p[2] \in Int
  BY Sizes DEF Coords
<1> QED  BY <1>1, <1>2, <1>3, ToCell DEF getPatternCells

LEMMA ClickTyped ==
  ASSUME NEW g, Shown(g), g.worldSize = WorldSize, NEW c \in Clicks
  PROVE  clickedCell(g, c[1], c[2]) \in Coords
<1>1. Fielded(g) /\ g.width \in Nat /\ g.height \in Nat /\ c[1] \in Int /\ c[2] \in Int
  BY ShownIs, TerminalAssumption
<1> DEFINE p == clicked(g, c[1], c[2])
<1>2. p[1] \in Int /\ p[2] \in Int
  <2>1. (c[1] - 1) \div 2 \in Int /\ headerLines(g) \in Int
    BY <1>1 DEF headerLines
  <2> QED  BY <1>1, <2>1 DEF clicked
<1> QED  BY <1>1, <1>2, ToCell DEF clickedCell

\* A key sends one message at most, and none without a connection.
LEMMA KeySendsTyped ==
  ASSUME NEW g, Shown(g), g.connected \/ g.conn => g.worldSize = WorldSize, NEW k
  PROVE  /\ \A m \in keySends(g, k) : Sent(m)
         /\ Cardinality(keySends(g, k)) \in Nat
         /\ ~isConnected(g) => keySends(g, k) = {}
<1>1. /\ Fielded(g) /\ g.currentColor \in Colours /\ g.speed \in Nat /\ Width16 \in Nat \ {0}
      /\ isConnected(g) => g.worldSize = WorldSize
  BY ShownIs, Sizes DEF Fielded, isConnected
<1>2. ~isConnected(g) => keySends(g, k) = {}
  BY DEF keySends
<1> DEFINE cells == getPatternCells(g)
<1>3. \/ keySends(g, k) = {}
      \/ /\ isConnected(g) /\ g.placing
         /\ keySends(g, k) = {[type |-> "SetCells", cells |-> cells, colour |-> g.currentColor]}
      \/ \E t \in {"Pause", "Play", "Randomise", "Clear", "Next"} : keySends(g, k) = {[type |-> t]}
      \/ \E v \in Int : keySends(g, k) = {[type |-> "SetSpeed", speed |-> uint16(v)]}
  <2> HIDE DEF cells
  <2>1. CASE ~isConnected(g)
    BY <1>2, <2>1
  <2>2. CASE isConnected(g) /\ g.placing
    BY <2>2 DEF keySends, cells
  <2>3. CASE isConnected(g) /\ ~g.placing /\ k = " "
    BY <2>3 DEF keySends, Commands
  <2>4. CASE isConnected(g) /\ ~g.placing /\ k \in DOMAIN Commands
    BY <2>4 DEF keySends, Commands
  <2>5. CASE isConnected(g) /\ ~g.placing /\ k = "S"
    BY <1>1, <2>5 DEF keySends, Commands
  <2>6. CASE isConnected(g) /\ ~g.placing /\ k = "s" /\ g.speed > 1
    BY <1>1, <2>6 DEF keySends, Commands
  <2>7. CASE isConnected(g) /\ ~g.placing /\ k \notin {" ", "S"} \cup DOMAIN Commands
             /\ ~(k = "s" /\ g.speed > 1)
    BY <2>7 DEF keySends
  <2> QED  BY <2>1, <2>2, <2>3, <2>4, <2>5, <2>6, <2>7
<1>4. Cardinality({}) \in Nat /\ \A m : Cardinality({m}) \in Nat
  BY FS_EmptySet, FS_Singleton
<1>5. CASE keySends(g, k) = {}
  BY <1>2, <1>4, <1>5
<1>6. ASSUME NEW m, keySends(g, k) = {m}, Sent(m)
      PROVE  /\ \A n \in keySends(g, k) : Sent(n)
             /\ Cardinality(keySends(g, k)) \in Nat
             /\ ~isConnected(g) => keySends(g, k) = {}
  BY <1>2, <1>4, <1>6
<1>7. CASE /\ isConnected(g) /\ g.placing
           /\ keySends(g, k) = {[type |-> "SetCells", cells |-> cells, colour |-> g.currentColor]}
  <2>1. cells \subseteq Coords
    BY <1>1, <1>7, PlacedTyped
  <2> HIDE DEF cells, Coords, Colours
  <2>2. Sent([type |-> "SetCells", cells |-> cells, colour |-> g.currentColor])
    BY <1>1, <2>1 DEF Sent
  <2> QED  BY <1>6, <1>7, <2>2
<1>8. CASE \E t \in {"Pause", "Play", "Randomise", "Clear", "Next"} : keySends(g, k) = {[type |-> t]}
  <2>1. PICK t \in {"Pause", "Play", "Randomise", "Clear", "Next"} : keySends(g, k) = {[type |-> t]}
    BY <1>8
  <2>2. Sent([type |-> t])
    BY DEF Sent
  <2> QED  BY <1>6, <2>1, <2>2
<1>9. CASE \E v \in Int : keySends(g, k) = {[type |-> "SetSpeed", speed |-> uint16(v)]}
  <2>1. PICK v \in Int : keySends(g, k) = {[type |-> "SetSpeed", speed |-> uint16(v)]}
    BY <1>9
  <2>2. Sent([type |-> "SetSpeed", speed |-> uint16(v)])
    BY Uint16Typed DEF Sent
  <2> QED  BY <1>6, <2>1, <2>2
<1> QED  BY <1>3, <1>5, <1>7, <1>8, <1>9

\* The server stays a world.
LEMMA HandledTyped ==
  ASSUME server \in States, NEW m, Sent(m), NEW new \in Handled(m)
  PROVE  new \in States
<1> HIDE DEF States
<1>1. CASE m.type = "SetCells"
  <2>1. new = [server EXCEPT !.cells = WithCells(m)]
    BY <1>1 DEF Handled
  <2>2. /\ DOMAIN server.cells \subseteq Coords /\ m.cells \subseteq Coords /\ m.colour \in Colours
        /\ \A c \in DOMAIN server.cells : server.cells[c] \in Colours
    BY <1>1, StateIsData, MapColours DEF Sent
  <2> DEFINE D == DOMAIN server.cells \cup m.cells
  <2> HIDE DEF Coords, Colours
  <2>3. WithCells(m) \in [D -> Colours] /\ D \subseteq Coords
    BY <2>2 DEF WithCells
  <2>4. WithCells(m) \in CellMaps
    BY <2>3 DEF CellMaps
  <2> QED  BY <2>1, <2>4, StateIsData
<1>2. CASE m.type = "SetSpeed"
  BY <1>2, StateIsData DEF Handled, Sent
<1>3. CASE m.type \in {"Play", "Pause"}
  BY <1>3, StateIsData DEF Handled
<1>4. CASE m.type = "Clear"
  <2>1. NoCells \in [{} -> Colours]
    BY DEF NoCells
  <2>2. NoCells \in CellMaps
    BY <2>1 DEF CellMaps
  <2> QED  BY <1>4, <2>2, StateIsData DEF Handled
<1>5. CASE m.type \notin {"SetCells", "SetSpeed", "Play", "Pause", "Clear"}
  BY <1>5, StateIsData, WorldIsMap DEF Handled
<1> QED  BY <1>1, <1>2, <1>3, <1>4, <1>5

-----------------------------------------------------------------------------
\* What the connection and the server's outputs are kept in.
News == {"connected", "conn", "pending", "worldSize", "cells", "running", "speed"}

Keeping(g, h, X) == \A x \in News \ X : h[x] = g[x]

LEMMA AgreeingKeeps ==
  ASSUME NEW g, NEW h, NEW X, Agreeing(g, h, X), NEW Y, X \cap News \subseteq Y
  PROVE  Keeping(g, h, Y)
<1>1. News \subseteq GameFields
  BY DEF News, GameFields
<1> QED  BY <1>1 DEF Agreeing, Keeping

LEMMA ViewKeepsNews ==
  ASSUME NEW g, Ripe(g)
  PROVE  Keeping(g, View(g), {}) /\ Shown(View(g))
<1>1. Agreeing(g, View(g), Screen) /\ Screen \cap News \subseteq {} /\ Shown(View(g))
  BY ViewShows DEF Screen, News
<1> QED  BY <1>1, AgreeingKeeps

LEMMA KeepingTrans ==
  ASSUME NEW g, NEW h, NEW k, NEW X, Keeping(g, h, X), Keeping(h, k, {})
  PROVE  Keeping(g, k, X)
BY DEF Keeping

\* Only s and S change any of it, and they ask the server for the same.
LEMMA KeyKeeps ==
  ASSUME NEW g, Shown(g), NEW k
  PROVE  /\ Keeping(g, keyPressed(g, k), {"speed"})
         /\ keyPressed(g, k).speed # g.speed =>
                \E v \in {g.speed - 1, g.speed + 1} :
                    keySends(g, k) = {[type |-> "SetSpeed", speed |-> uint16(v)]}
<1> DEFINE h == keyPressed(g, k)
<1>1. IsGame(g) /\ g.speed \in Nat
  BY ShownIs DEF Fielded
<1>2. CASE k \in MoveKeys /\ h = moveViewport(g, Delta(k))
  <2>1. Agreeing(g, h, Moved) /\ Moved \cap News \subseteq {}
    BY <1>1, <1>2, MoveFrame DEF Moved, News
  <2>2. Keeping(g, h, {})
    BY <2>1, AgreeingKeeps
  <2> HIDE DEF h
  <2> QED  BY <2>2 DEF Keeping, News, h
<1>3. CASE h = g
  BY <1>3 DEF Keeping
<1>4. CASE h = stopPlacing(g)
  <2>1. Agreeing(g, h, {"placing", "dirty"}) /\ {"placing", "dirty"} \cap News \subseteq {}
    BY <1>1, <1>4, StopFrame DEF News
  <2>2. Keeping(g, h, {})
    BY <2>1, AgreeingKeeps
  <2> HIDE DEF h
  <2> QED  BY <2>2 DEF Keeping, News, h
<1>5. CASE /\ ~g.placing /\ isConnected(g)
           /\ Agreeing(g, h, {"speed", "saving"})
           /\ k = "S" => h.speed = g.speed + 1
           /\ k = "s" => h.speed = IF g.speed > 1 THEN g.speed - 1 ELSE g.speed
           /\ k \notin {"S", "s"} => h.speed = g.speed
  <2>1. {"speed", "saving"} \cap News \subseteq {"speed"}
    BY DEF News
  <2> HIDE DEF h
  <2>2. Keeping(g, h, {"speed"})
    BY <1>5, <2>1, AgreeingKeeps
  <2>3. CASE k = "S"
    <3>1. keySends(g, k) = {[type |-> "SetSpeed", speed |-> uint16(g.speed + 1)]}
      BY <1>5, <2>3 DEF keySends, Commands
    <3> QED  BY <2>2, <3>1 DEF h
  <2>4. CASE k = "s" /\ g.speed > 1
    <3>1. keySends(g, k) = {[type |-> "SetSpeed", speed |-> uint16(g.speed - 1)]}
      BY <1>5, <2>4 DEF keySends, Commands
    <3> QED  BY <2>2, <3>1 DEF h
  <2>5. CASE h.speed = g.speed
    BY <2>2, <2>5 DEF h
  <2>6. h.speed = g.speed \/ k = "S" \/ (k = "s" /\ g.speed > 1)
    BY <1>1, <1>5
  <2> QED  BY <2>3, <2>4, <2>5, <2>6
<1> QED  BY <1>1, <1>2, <1>3, <1>4, <1>5, KeyFrame

\* A key of the user, to the overlay in front or to the game.
LEMMA KeyStep ==
  ASSUME Typed, Before, NEW k, key(k)
  PROVE  /\ Typed'
         /\ Keeping(game, game', {"speed"})
         /\ mail \subseteq mail' /\ \A m \in mail' : m \in mail \/ m.type \in {"color", "pattern"}
         /\ BagToSet(sending) \subseteq BagToSet(sending')
         /\ ~isConnected(game) /\ sending = EmptyBag => sending' = EmptyBag
         /\ game'.speed # game.speed =>
                \E m \in BagToSet(sending'), v \in {game.speed - 1, game.speed + 1} :
                    m.type = "SetSpeed" /\ m.speed = uint16(v)
         /\ UNCHANGED <<dialling, listening, server, down>>
<1>1. /\ Shown(game) /\ Overlaid(foreground) /\ PostTyped /\ WorldTyped /\ FlagsTyped
      /\ Ripe(game)
  BY ShownIs DEF Typed
<1>2. UNCHANGED <<dialling, listening, server, down, running, user, changes>> /\ visible' \in BOOLEAN
  BY DEF key
<1>3. WorldTyped'
  BY <1>1, <1>2 DEF WorldTyped
<1>4. CASE toForeground(k)
  <2>1. /\ game' = View(game) /\ foreground' = foregroundKey(synced(k), k, Len(PatternList))
        /\ mail' = mail \cup foregroundSends(foreground', k, Len(PatternList))
        /\ UNCHANGED <<saves, sending, sends>>
    BY <1>4 DEF toForeground, Show
  <2>2. Keeping(game, game', {}) /\ Shown(game')
    BY <1>1, <2>1, ViewKeepsNews
  <2>3. Overlaid(foreground')
    BY <1>1, <2>1, OverlayTyped DEF synced
  <2> HIDE DEF PatternList
  <2>4. \A m \in mail' : m \in mail \/ (Mailed(m) /\ m.type \in {"color", "pattern"})
    BY <2>1, <2>3, OverlaySends
  <2>5. PostTyped'
    BY <1>1, <2>1, <2>4 DEF PostTyped
  <2>6. FlagsTyped'
    BY <1>1, <1>2, <2>1 DEF FlagsTyped
  <2>7. Typed'
    BY <1>3, <2>2, <2>3, <2>5, <2>6 DEF Typed
  <2>8. Keeping(game, game', {"speed"}) /\ game'.speed = game.speed
    BY <2>2 DEF Keeping, News
  <2> QED  BY <1>2, <2>1, <2>4, <2>7, <2>8
<1>5. CASE toGame(k)
  <2> DEFINE S == keySends(game, k)
             g == keyPressed(game, k)
  <2>1. /\ game' = View(g) /\ Send(S) /\ UNCHANGED <<foreground, mail>>
    BY <1>5 DEF toGame, Show
  <2>2. Ripe(g)
    BY <1>1, KeyShows
  <2>3. Shown(game') /\ Keeping(g, game', {})
    BY <2>1, <2>2, ViewKeepsNews
  <2>4. /\ Keeping(game, g, {"speed"})
        /\ g.speed # game.speed => \E v \in {game.speed - 1, game.speed + 1} :
                                       S = {[type |-> "SetSpeed", speed |-> uint16(v)]}
    BY <1>1, KeyKeeps
  <2>5. /\ \A m \in S : Sent(m)
        /\ Cardinality(S) \in Nat
        /\ ~isConnected(game) => S = {}
    BY <1>1, KeySendsTyped DEF Before
  <2> HIDE DEF S, g
  <2>6. Keeping(game, game', {"speed"}) /\ game'.speed = g.speed
    BY <2>3, <2>4, KeepingTrans DEF Keeping, News
  <2>7. /\ sends + Cardinality(S) <= user.sends /\ sends' = sends + Cardinality(S)
        /\ sending' = sending (+) SetToBag(S)
    BY <2>1 DEF Send
  <2>8. IsABag(sending') /\ BagToSet(sending') = BagToSet(sending) \cup S
    BY <1>1, <2>7, BagMore DEF PostTyped
  <2>9. PostTyped'
    BY <1>1, <2>1, <2>5, <2>8 DEF PostTyped
  <2>10. user.sends \in Nat
    BY <1>1, UsersAssumption DEF FlagsTyped
  <2>11. sends' \in 0 .. user.sends
    BY <1>1, <2>5, <2>7, <2>10 DEF FlagsTyped
  <2>12. FlagsTyped'
    BY <1>1, <1>2, <2>11 DEF FlagsTyped
  <2>13. Typed'
    BY <1>1, <1>3, <2>1, <2>3, <2>9, <2>12 DEF Typed
  <2>14. ~isConnected(game) /\ sending = EmptyBag => sending' = EmptyBag
    BY <2>5, <2>7, BagSame
  <2>15. game'.speed # game.speed =>
                \E m \in BagToSet(sending'), v \in {game.speed - 1, game.speed + 1} :
                    m.type = "SetSpeed" /\ m.speed = uint16(v)
    <3> SUFFICES ASSUME game'.speed # game.speed
                 PROVE  \E m \in BagToSet(sending'), v \in {game.speed - 1, game.speed + 1} :
                            m.type = "SetSpeed" /\ m.speed = uint16(v)
      OBVIOUS
    <3>1. PICK v \in {game.speed - 1, game.speed + 1} :
              S = {[type |-> "SetSpeed", speed |-> uint16(v)]}
      BY <2>4, <2>6
    <3> DEFINE m == [type |-> "SetSpeed", speed |-> uint16(v)]
    <3>2. m \in BagToSet(sending') /\ m.type = "SetSpeed" /\ m.speed = uint16(v)
      BY <2>8, <3>1
    <3> HIDE DEF m
    <3> QED  BY <3>2
  <2> QED  BY <1>2, <2>1, <2>6, <2>8, <2>13, <2>14, <2>15
<1> QED  BY <1>4, <1>5 DEF key

\* A click.
LEMMA MouseStep ==
  ASSUME Typed, Before, NEW c \in Clicks, mouse(c[1], c[2])
  PROVE  /\ Typed' /\ isConnected(game)
         /\ Keeping(game, game', {})
         /\ BagToSet(sending) \subseteq BagToSet(sending')
         /\ UNCHANGED <<mail, dialling, listening, server, down>>
<1>1. /\ Shown(game) /\ Overlaid(foreground) /\ PostTyped /\ WorldTyped /\ FlagsTyped
      /\ Ripe(game) /\ game.currentColor \in Colours
  BY ShownIs DEF Typed
<1> DEFINE m == [type |-> "SetCells", cells |-> {clickedCell(game, c[1], c[2])},
                 colour |-> game.currentColor]
<1>2. /\ isConnected(game) /\ game' = View(game) /\ Send({m})
      /\ UNCHANGED <<foreground, visible, mail, dialling, listening, saves, server, down,
                     running, user, changes>>
  BY DEF mouse, clickSends, Show
<1>3. clickedCell(game, c[1], c[2]) \in Coords
  BY <1>1, <1>2, ClickTyped DEF Before, isConnected
<1> HIDE DEF Coords, Colours
<1>4. Sent(m)
  BY <1>1, <1>3 DEF Sent
<1> HIDE DEF m
<1>5. Shown(game') /\ Keeping(game, game', {})
  BY <1>1, <1>2, ViewKeepsNews
<1>6. /\ sends + Cardinality({m}) <= user.sends /\ sends' = sends + Cardinality({m})
      /\ sending' = sending (+) SetToBag({m})
  BY <1>2 DEF Send
<1>7. Cardinality({m}) = 1 /\ user.sends \in Nat
  BY <1>1, FS_Singleton, UsersAssumption DEF FlagsTyped
<1>8. IsABag(sending') /\ BagToSet(sending') = BagToSet(sending) \cup {m}
  BY <1>1, <1>6, BagMore DEF PostTyped
<1>9. PostTyped' /\ WorldTyped'
  BY <1>1, <1>2, <1>4, <1>8 DEF PostTyped, WorldTyped
<1>10. sends' \in 0 .. user.sends
  BY <1>1, <1>6, <1>7 DEF FlagsTyped
<1>11. FlagsTyped'
  BY <1>1, <1>2, <1>10 DEF FlagsTyped
<1>12. Typed'
  BY <1>1, <1>2, <1>5, <1>9, <1>11 DEF Typed
<1> QED  BY <1>2, <1>5, <1>8, <1>12

\* ctrl+c, a new size of the window and a tick.
LEMMA RestTyped ==
  ASSUME Typed, Shown(game'), UNCHANGED <<foreground, visible, mail, net, bounds>>
  PROVE  Typed'
<1>1. /\ Overlaid(foreground) /\ PostTyped /\ WorldTyped /\ FlagsTyped
  BY DEF Typed
<1>2. PostTyped' /\ WorldTyped' /\ FlagsTyped'
  BY <1>1 DEF PostTyped, WorldTyped, FlagsTyped, net, bounds
<1> QED  BY <1>1, <1>2 DEF Typed

LEMMA QuitStep ==
  ASSUME Typed, quit
  PROVE  /\ Typed' /\ UNCHANGED <<mail, net>>
         /\ Keeping(game, game', {"conn"}) /\ game'.conn = FALSE
<1>1. Shown(game)
  BY DEF Typed
<1>2. /\ game' = View(quitMessage(game))
      /\ UNCHANGED <<foreground, visible, mail, saves, net, bounds>>
  BY DEF quit, Show
<1>3. /\ Ripe(quitMessage(game)) /\ Agreeing(game, quitMessage(game), {"conn"})
      /\ quitMessage(game).conn = FALSE /\ {"conn"} \cap News \subseteq {"conn"}
  BY <1>1, FlagsShow
<1>4. Keeping(game, quitMessage(game), {"conn"})
  BY <1>3, AgreeingKeeps
<1>5. Shown(game') /\ Keeping(quitMessage(game), game', {})
  BY <1>2, <1>3, ViewKeepsNews
<1>6. Keeping(game, game', {"conn"}) /\ game'.conn = FALSE
  BY <1>3, <1>4, <1>5, KeepingTrans DEF Keeping, News
<1> QED  BY <1>2, <1>5, <1>6, RestTyped

LEMMA ResizeStep ==
  ASSUME Typed, NEW s \in WindowSizes, resize(s)
  PROVE  /\ Typed' /\ UNCHANGED <<mail, net>>
         /\ Keeping(game, game', {})
<1>1. Shown(game) /\ IsGame(game)
  BY ShownIs DEF Typed
<1> DEFINE g == windowSize(game, s[1], s[2])
<1>2. /\ game' = View(g)
      /\ UNCHANGED <<foreground, visible, mail, saves, net, bounds>>
  BY DEF resize, Show
<1>3. Ripe(g) /\ Agreeing(game, g, Resized) /\ Resized \cap News \subseteq {}
  BY <1>1, WindowShows, WindowFrame DEF Resized, Sizing, News
<1> HIDE DEF g
<1>4. Keeping(game, g, {})
  BY <1>3, AgreeingKeeps
<1>5. Shown(game') /\ Keeping(g, game', {})
  BY <1>2, <1>3, ViewKeepsNews
<1>6. Keeping(game, game', {})
  BY <1>4, <1>5, KeepingTrans
<1> QED  BY <1>2, <1>5, <1>6, RestTyped

LEMMA TickStep ==
  ASSUME Typed, tick
  PROVE  /\ Typed' /\ UNCHANGED <<mail, net>>
         /\ game.pending # NoData /\ game.pending \in States
         /\ Keeping(game, game', {"pending", "cells", "running", "speed"})
         /\ game'.pending = NoData /\ game'.cells = game.pending.cells
         /\ game'.running = game.pending.running /\ game'.speed = game.pending.speed
<1>1. Shown(game) /\ IsGame(game)
  BY ShownIs DEF Typed
<1> DEFINE g == tickMsg(game)
<1>2. /\ game' = View(g) /\ game.pending # NoData
      /\ UNCHANGED <<foreground, visible, mail, saves, net, bounds>>
  BY DEF tick, Show
<1>3. Ripe(g)
  BY <1>1, <1>2, TickShows
<1>4. /\ Agreeing(game, g, {"cells", "running", "speed", "grid", "dirty", "prev", "pending"})
      /\ g.cells = game.pending.cells /\ g.running = game.pending.running
      /\ g.speed = game.pending.speed /\ g.pending = NoData
  BY <1>1, <1>2, TickFrame
<1> HIDE DEF g
<1>5. {"cells", "running", "speed", "grid", "dirty", "prev", "pending"} \cap News
          \subseteq {"pending", "cells", "running", "speed"}
  BY DEF News
<1>6. Keeping(game, g, {"pending", "cells", "running", "speed"})
  BY <1>4, <1>5, AgreeingKeeps
<1>7. Shown(game') /\ Keeping(g, game', {})
  BY <1>2, <1>3, ViewKeepsNews
<1>8. Keeping(game, game', {"pending", "cells", "running", "speed"})
  BY <1>6, <1>7, KeepingTrans
<1>9. /\ game'.pending = g.pending /\ game'.cells = g.cells /\ game'.running = g.running
      /\ game'.speed = g.speed
  BY <1>7 DEF Keeping, News
<1>10. game.pending \in States
  BY <1>1, <1>2 DEF Shown, Fielded
<1> QED  BY <1>2, <1>4, <1>7, <1>8, <1>9, <1>10, RestTyped

\* A message of a finished command.
LEMMA DeliverStep ==
  ASSUME Typed, Before, NEW m \in mail, deliver(m)
  PROVE  /\ Typed' /\ mail' = mail \ {m} /\ Mailed(m)
         /\ listening' = (listening \/ listensAfter(m))
         /\ UNCHANGED <<dialling, sending, server, down>>
         /\ m.type \in {"color", "pattern", "saved"} => Keeping(game, game', {})
         /\ m.type = "connected" =>
                /\ Keeping(game, game', {"connected", "conn", "worldSize"})
                /\ game'.connected = m.ok /\ game'.conn = m.ok
                /\ game'.worldSize = IF m.ok THEN WorldSize ELSE 0
         /\ m.type = "data" => Keeping(game, game', {"pending"}) /\ game'.pending = m.data
         /\ m.type = "error" => Keeping(game, game', {"connected"}) /\ game'.connected = FALSE
<1>1. /\ Shown(game) /\ Overlaid(foreground) /\ PostTyped /\ WorldTyped /\ FlagsTyped
      /\ Mailed(m) /\ IsGame(game)
  BY ShownIs DEF Typed, PostTyped
<1> DEFINE g == updated(m)
<1>2. /\ game' = View(g) /\ mail' = mail \ {m}
      /\ visible' = (visible /\ m.type \notin {"color", "pattern"})
      /\ listening' = (listening \/ listensAfter(m))
      /\ UNCHANGED <<foreground, dialling, saves, sending, server, down, running, bounds>>
  BY DEF deliver, Show
<1>3. ASSUME Ripe(g) PROVE Typed' /\ Keeping(g, game', {})
  <2>1. Shown(game') /\ Keeping(g, game', {})
    BY <1>2, <1>3, ViewKeepsNews
  <2>2. PostTyped' /\ WorldTyped'
    BY <1>1, <1>2 DEF PostTyped, WorldTyped
  <2>3. visible' \in BOOLEAN /\ listening' \in BOOLEAN
    BY <1>1, <1>2 DEF FlagsTyped
  <2>4. FlagsTyped'
    BY <1>1, <1>2, <2>3 DEF FlagsTyped, bounds
  <2> QED  BY <1>1, <1>2, <2>1, <2>2, <2>4 DEF Typed
<1>4. CASE m.type = "color"
  <2>1. g = colorSelected(game, m.color) /\ m.color \in Colours
    BY <1>1, <1>4 DEF updated, Mailed
  <2>2. Ripe(g) /\ Agreeing(game, g, {"currentColor"}) /\ {"currentColor"} \cap News \subseteq {}
    BY <1>1, <2>1, FlagsShow DEF News
  <2> HIDE DEF g
  <2>3. Keeping(game, g, {})
    BY <2>2, AgreeingKeeps
  <2> QED  BY <1>1, <1>2, <1>3, <1>4, <2>2, <2>3, KeepingTrans
<1>5. CASE m.type = "pattern"
  <2>1. g = patternSelected(game, PatternList[m.number]) /\ m.number \in DOMAIN PatternList
    BY <1>1, <1>5 DEF updated, Mailed
  <2> HIDE DEF PatternList
  <2> HIDE DEF g
  <2>2. /\ Ripe(g) /\ Agreeing(game, g, {"placing", "pattern", "canPlace", "dirty"})
        /\ {"placing", "pattern", "canPlace", "dirty"} \cap News \subseteq {}
    <3>1. Ripe(g)
      BY <1>1, <2>1, PatternShows
    <3>2. Agreeing(game, g, {"placing", "pattern", "canPlace", "dirty"})
      BY <1>1, <2>1, PatternFrame
    <3> QED  BY <3>1, <3>2 DEF News
  <2>3. Keeping(game, g, {})
    BY <2>2, AgreeingKeeps
  <2> QED  BY <1>1, <1>2, <1>3, <1>5, <2>2, <2>3, KeepingTrans
<1>6. CASE m.type = "saved"
  <2>1. g = saveResult(game, m.ok)
    BY <1>6 DEF updated
  <2>2. Ripe(g) /\ Agreeing(game, g, {"err", "saving"}) /\ {"err", "saving"} \cap News \subseteq {}
    BY <1>1, <2>1, FlagsShow DEF News
  <2> HIDE DEF g
  <2>3. Keeping(game, g, {})
    BY <2>2, AgreeingKeeps
  <2> QED  BY <1>1, <1>2, <1>3, <1>6, <2>2, <2>3, KeepingTrans
<1>7. CASE m.type = "connected"
  <2>1. g = connectionResult(game, m.ok, WorldSize) /\ m.ok \in BOOLEAN
    BY <1>1, <1>7 DEF updated, Mailed
  <2>2. DOMAIN game.cells = {}
    BY <1>7 DEF Before, Waiting
  <2>3. /\ Ripe(g) /\ Agreeing(game, g, {"connected", "conn", "err", "worldSize"})
        /\ {"connected", "conn", "err", "worldSize"} \cap News
               \subseteq {"connected", "conn", "worldSize"}
    BY <1>1, <2>1, <2>2, ConnectionShows DEF News
  <2>4. /\ g.connected = m.ok /\ g.conn = m.ok
        /\ g.worldSize = IF m.ok THEN WorldSize ELSE 0
    BY <1>1, <2>1 DEF connectionResult, IsGame, GameFields
  <2> HIDE DEF g
  <2>5. Keeping(game, g, {"connected", "conn", "worldSize"})
    BY <2>3, AgreeingKeeps
  <2>6. Typed' /\ Keeping(g, game', {})
    BY <1>3, <2>3
  <2>7. /\ game'.connected = m.ok /\ game'.conn = m.ok
        /\ game'.worldSize = IF m.ok THEN WorldSize ELSE 0
    BY <2>4, <2>6 DEF Keeping, News
  <2> QED  BY <1>1, <1>2, <1>7, <2>5, <2>6, <2>7, KeepingTrans
<1>8. CASE m.type = "data"
  <2>1. g = cacheData(game, m.data) /\ m.data \in States
    BY <1>1, <1>8 DEF updated, Mailed
  <2>2. /\ Ripe(g) /\ Agreeing(game, g, {"pending"}) /\ g.pending = m.data
        /\ {"pending"} \cap News \subseteq {"pending"}
    BY <1>1, <2>1, DataShows
  <2> HIDE DEF g
  <2>3. Keeping(game, g, {"pending"})
    BY <2>2, AgreeingKeeps
  <2>4. Typed' /\ Keeping(g, game', {})
    BY <1>3, <2>2
  <2>5. game'.pending = m.data
    BY <2>2, <2>4 DEF Keeping, News
  <2> QED  BY <1>1, <1>2, <1>8, <2>3, <2>4, <2>5, KeepingTrans
<1>9. CASE m.type = "error"
  <2>1. g = wsError(game)
    BY <1>9 DEF updated
  <2>2. Ripe(g) /\ Agreeing(game, g, {"err", "connected"}) /\ g.connected = FALSE
        /\ {"err", "connected"} \cap News \subseteq {"connected"}
    BY <1>1, <2>1, FlagsShow DEF News
  <2> HIDE DEF g
  <2>3. Keeping(game, g, {"connected"})
    BY <2>2, AgreeingKeeps
  <2>4. Typed' /\ Keeping(g, game', {})
    BY <1>3, <2>2
  <2>5. game'.connected = FALSE
    BY <2>2, <2>4 DEF Keeping, News
  <2> QED  BY <1>1, <1>2, <1>9, <2>3, <2>4, <2>5, KeepingTrans
<1> QED  BY <1>1, <1>4, <1>5, <1>6, <1>7, <1>8, <1>9 DEF Mailed

-----------------------------------------------------------------------------
\* The steps of the commands' goroutines and of the server.
LEMMA CommandsTyped ==
  ASSUME Typed, \/ connect \/ listenForMessages \/ saveDone \/ change
                \/ \E m \in BagToSet(sending) : write(m)
  PROVE  Typed'
<1>1. /\ Shown(game) /\ Overlaid(foreground) /\ PostTyped /\ WorldTyped /\ FlagsTyped
      /\ user.changes \in Nat /\ server \in States /\ down \in Seq(States)
  BY UsersAssumption DEF Typed, WorldTyped, FlagsTyped
<1> HIDE DEF States, CellMaps, Colours, PatternList, Coords
<1>2. CASE connect
  <2>1. PICK ok \in user.dials : /\ mail' = mail \cup {[type |-> "connected", ok |-> ok]}
                                 /\ down' = IF ok THEN <<server>> ELSE <<>>
    BY <1>2 DEF connect
  <2>2. ok \in BOOLEAN
    BY <1>1, UsersAssumption DEF FlagsTyped
  <2>3. down' \in Seq(States)
    <3>1. <<server>> \in Seq(States) /\ <<>> \in Seq(States)
      BY <1>1
    <3> QED  BY <2>1, <2>2, <3>1
  <2>4. Mailed([type |-> "connected", ok |-> ok])
    BY <2>2 DEF Mailed
  <2>5. UNCHANGED <<ui, listening, saves, sending, server, running, bounds>> /\ dialling' = FALSE
    BY <1>2 DEF connect
  <2>6. PostTyped'
    BY <1>1, <2>1, <2>4, <2>5 DEF PostTyped
  <2>7. WorldTyped' /\ FlagsTyped'
    BY <1>1, <2>3, <2>5 DEF WorldTyped, FlagsTyped, ui, bounds
  <2> QED  BY <1>1, <2>5, <2>6, <2>7 DEF Typed, ui
<1>3. CASE listenForMessages
  <2>1. UNCHANGED <<ui, dialling, saves, sending, server, running, bounds>> /\ listening' = FALSE
    BY <1>3 DEF listenForMessages
  <2>2. \/ /\ down # <<>> /\ mail' = mail \cup {[type |-> "data", data |-> Head(down)]}
           /\ down' = Tail(down)
        \/ mail' = mail \cup {[type |-> "error"]} /\ UNCHANGED down
    BY <1>3 DEF listenForMessages
  <2>3. down # <<>> => Head(down) \in States /\ Tail(down) \in Seq(States)
    BY <1>1
  <2>4. Mailed([type |-> "error"])
    BY DEF Mailed
  <2>5. down # <<>> => Mailed([type |-> "data", data |-> Head(down)])
    BY <2>3 DEF Mailed
  <2>6. PostTyped' /\ down' \in Seq(States)
    BY <1>1, <2>1, <2>2, <2>3, <2>4, <2>5 DEF PostTyped
  <2>7. WorldTyped' /\ FlagsTyped'
    BY <1>1, <2>1, <2>6 DEF WorldTyped, FlagsTyped, ui, bounds
  <2> QED  BY <1>1, <2>1, <2>6, <2>7 DEF Typed, ui
<1>4. CASE saveDone
  <2>1. UNCHANGED <<ui, net, running, bounds>>
    BY <1>4 DEF saveDone
  <2>2. PICK ok \in BOOLEAN : mail' = mail \cup {[type |-> "saved", ok |-> ok]}
    BY <1>4 DEF saveDone
  <2>3. Mailed([type |-> "saved", ok |-> ok])
    BY DEF Mailed
  <2>4. PostTyped' /\ WorldTyped' /\ FlagsTyped'
    BY <1>1, <2>1, <2>2, <2>3 DEF PostTyped, WorldTyped, FlagsTyped, ui, net, bounds
  <2> QED  BY <1>1, <2>1, <2>4 DEF Typed, ui
<1>5. ASSUME NEW new \in States, serve(new) PROVE WorldTyped'
  BY <1>1, <1>5 DEF serve, WorldTyped
<1>6. CASE change
  <2>1. /\ changes < user.changes /\ changes' = changes + 1
        /\ UNCHANGED <<ui, mail, dialling, listening, saves, sending, running, user, sends>>
    BY <1>6 DEF change
  <2>2. PICK w \in Worlds : serve([server EXCEPT !.cells = w])
    BY <1>6 DEF change
  <2>3. [server EXCEPT !.cells = w] \in States
    BY <1>1, WorldIsMap, StateIsData
  <2>4. WorldTyped' /\ changes' \in 0 .. user.changes
    BY <1>1, <1>5, <2>1, <2>2, <2>3 DEF FlagsTyped
  <2>5. PostTyped' /\ FlagsTyped'
    BY <1>1, <2>1, <2>4 DEF PostTyped, FlagsTyped, ui
  <2> QED  BY <1>1, <2>1, <2>4, <2>5 DEF Typed, ui
<1>7. ASSUME NEW m \in BagToSet(sending), write(m) PROVE Typed'
  <2>1. /\ sending' = sending (-) SetToBag({m})
        /\ UNCHANGED <<ui, mail, dialling, listening, saves, running, bounds>>
    BY <1>7 DEF write
  <2>2. \/ UNCHANGED <<server, down>>
        \/ \E new \in Handled(m) : serve(new)
    BY <1>7 DEF write
  <2>3. \A new \in Handled(m) : new \in States
    BY <1>1, HandledTyped DEF PostTyped
  <2>4. WorldTyped'
    BY <1>1, <1>5, <2>2, <2>3 DEF WorldTyped
  <2>5. PostTyped'
    BY <1>1, <2>1, BagLess DEF PostTyped
  <2>6. FlagsTyped'
    BY <1>1, <2>1 DEF FlagsTyped, ui, bounds
  <2> QED  BY <1>1, <2>1, <2>4, <2>5, <2>6 DEF Typed, ui
<1> QED  BY <1>2, <1>3, <1>4, <1>6, <1>7

\* The steps there are.
LEMMA StepCases ==
  ASSUME [Next]_vars
  PROVE  \/ \E k : k \in user.does /\ key(k)
         \/ quit
         \/ \E c \in Clicks : mouse(c[1], c[2])
         \/ \E s \in WindowSizes : resize(s)
         \/ tick
         \/ \E m \in mail : deliver(m)
         \/ connect
         \/ listenForMessages
         \/ \E m \in BagToSet(sending) : write(m)
         \/ saveDone
         \/ change
         \/ UNCHANGED vars
BY DEF Next, client, commands

LEMMA TypedStays ==
  ASSUME Typed, Before, [Next]_vars
  PROVE  Typed'
<1>1. CASE UNCHANGED vars
  BY <1>1 DEF vars, Typed, PostTyped, WorldTyped, FlagsTyped
<1> QED  BY <1>1, StepCases, KeyStep, QuitStep, MouseStep, ResizeStep, TickStep, DeliverStep,
            CommandsTyped

-----------------------------------------------------------------------------
\* One listener at most.
LEMMA ReaderStays ==
  ASSUME Typed, OneReader, Before, [Next]_vars
  PROVE  OneReader'
<1>1. CASE mail' = mail /\ UNCHANGED <<dialling, listening>>
  BY <1>1 DEF OneReader, news
<1>2. CASE \E k : k \in user.does /\ key(k)
  <2>1. /\ mail \subseteq mail' /\ \A m \in mail' : m \in mail \/ m.type \in {"color", "pattern"}
        /\ UNCHANGED <<dialling, listening>>
    BY <1>2, KeyStep
  <2>2. news' = news
    BY <2>1 DEF news
  <2> QED  BY <2>1, <2>2 DEF OneReader
<1>3. CASE quit \/ tick \/ \E s \in WindowSizes : resize(s)
  BY <1>1, <1>3, QuitStep, TickStep, ResizeStep DEF net
<1>4. CASE \E c \in Clicks : mouse(c[1], c[2])
  BY <1>1, <1>4, MouseStep
<1>5. ASSUME NEW m \in mail, deliver(m) PROVE OneReader'
  <2>1. /\ mail' = mail \ {m} /\ dialling' = dialling
        /\ listening' = (listening \/ listensAfter(m))
    BY <1>5, DeliverStep
  <2>2. news' = news \ {m}
    BY <2>1 DEF news
  <2>3. CASE m \in news
    <3>1. news' = {} /\ ~dialling
      BY <2>2, <2>3 DEF OneReader
    <3> QED  BY <2>1, <3>1 DEF OneReader
  <2>4. CASE m \notin news
    <3>1. ~listensAfter(m) /\ news' = news
      BY <2>2, <2>4 DEF listensAfter, news
    <3> QED  BY <2>1, <3>1 DEF OneReader
  <2> QED  BY <2>3, <2>4
<1>6. CASE connect
  <2>1. dialling /\ dialling' = FALSE /\ listening' = listening
    BY <1>6 DEF connect
  <2>2. PICK ok \in user.dials : mail' = mail \cup {[type |-> "connected", ok |-> ok]}
    BY <1>6 DEF connect
  <2>3. news = {} /\ ~listening
    BY <2>1 DEF OneReader
  <2>4. news' = {[type |-> "connected", ok |-> ok]}
    BY <2>2, <2>3 DEF news
  <2> QED  BY <2>1, <2>3, <2>4 DEF OneReader
<1>7. CASE listenForMessages
  <2>1. listening /\ listening' = FALSE /\ dialling' = dialling
    BY <1>7 DEF listenForMessages
  <2>2. \/ mail' = mail \cup {[type |-> "data", data |-> Head(down)]}
        \/ mail' = mail \cup {[type |-> "error"]}
    BY <1>7 DEF listenForMessages
  <2>3. news = {} /\ ~dialling
    BY <2>1 DEF OneReader
  <2>4. news' \subseteq {[type |-> "data", data |-> Head(down)]} \/ news' \subseteq {[type |-> "error"]}
    BY <2>2, <2>3 DEF news
  <2> QED  BY <2>1, <2>3, <2>4 DEF OneReader
<1>8. CASE \E m \in BagToSet(sending) : write(m)
  BY <1>1, <1>8 DEF write
<1>9. CASE saveDone
  <2>1. UNCHANGED net
    BY <1>9 DEF saveDone
  <2>2. PICK ok \in BOOLEAN : mail' = mail \cup {[type |-> "saved", ok |-> ok]}
    BY <1>9 DEF saveDone
  <2>3. news' = news
    BY <2>2 DEF news
  <2> QED  BY <2>1, <2>3 DEF OneReader, net
<1>10. CASE change
  BY <1>1, <1>10 DEF change
<1>11. CASE UNCHANGED vars
  BY <1>1, <1>11 DEF vars
<1> QED  BY <1>2, <1>3, <1>4, <1>5, <1>6, <1>7, <1>8, <1>9, <1>10, <1>11, StepCases

-----------------------------------------------------------------------------
\* Until the connection is there nothing is known, and later it may be lost only.
LEMMA BeforeStays ==
  ASSUME Typed, OneReader, Before, [Next]_vars
  PROVE  Before'
<1>0. ASSUME NEW X, Keeping(game, game', X)
      PROVE  /\ "connected" \notin X => game'.connected = game.connected
             /\ "conn" \notin X => game'.conn = game.conn
             /\ "pending" \notin X => game'.pending = game.pending
             /\ "worldSize" \notin X => game'.worldSize = game.worldSize
             /\ "cells" \notin X => game'.cells = game.cells
  BY <1>0 DEF Keeping, News
<1>2. CASE \E k : k \in user.does /\ key(k)
  <2>1. /\ mail \subseteq mail' /\ \A m \in mail' : m \in mail \/ m.type \in {"color", "pattern"}
        /\ UNCHANGED <<dialling, down>>
        /\ ~isConnected(game) /\ sending = EmptyBag => sending' = EmptyBag
        /\ Keeping(game, game', {"speed"})
    BY <1>2, KeyStep
  <2>2. /\ game'.connected = game.connected /\ game'.conn = game.conn
        /\ game'.pending = game.pending /\ game'.worldSize = game.worldSize
        /\ game'.cells = game.cells
    BY <1>0, <2>1
  <2>3. (Waiting' <=> Waiting) /\ \A m \in mail' : m.type = "connected" => m \in mail
    BY <2>1 DEF Waiting
  <2> QED  BY <2>1, <2>2, <2>3 DEF Before, isConnected
<1>3. CASE quit
  <2>1. UNCHANGED <<mail, net>> /\ Keeping(game, game', {"conn"}) /\ game'.conn = FALSE
    BY <1>3, QuitStep
  <2>2. /\ game'.connected = game.connected
        /\ game'.pending = game.pending /\ game'.worldSize = game.worldSize
        /\ game'.cells = game.cells
    BY <1>0, <2>1
  <2> QED  BY <2>1, <2>2 DEF Before, Waiting, net
<1>4. CASE \E c \in Clicks : mouse(c[1], c[2])
  <2>1. /\ isConnected(game) /\ Keeping(game, game', {})
        /\ UNCHANGED <<mail, dialling, listening, server, down>>
    BY <1>4, MouseStep
  <2>2. /\ game'.connected = game.connected /\ game'.conn = game.conn
        /\ game'.worldSize = game.worldSize
    BY <1>0, <2>1
  <2> QED  BY <2>1, <2>2 DEF Before, Waiting, isConnected
<1>5. CASE \E s \in WindowSizes : resize(s)
  <2>1. UNCHANGED <<mail, net>> /\ Keeping(game, game', {})
    BY <1>5, ResizeStep
  <2>2. /\ game'.connected = game.connected /\ game'.conn = game.conn
        /\ game'.pending = game.pending /\ game'.worldSize = game.worldSize
        /\ game'.cells = game.cells
    BY <1>0, <2>1
  <2> QED  BY <2>1, <2>2 DEF Before, Waiting, net
<1>6. CASE tick
  <2>1. /\ UNCHANGED <<mail, net>> /\ game.pending # NoData
        /\ Keeping(game, game', {"pending", "cells", "running", "speed"})
    BY <1>6, TickStep
  <2>2. /\ game'.connected = game.connected /\ game'.conn = game.conn
        /\ game'.worldSize = game.worldSize
    BY <1>0, <2>1
  <2> QED  BY <2>1, <2>2 DEF Before, Waiting, net
<1>7. ASSUME NEW m \in mail, deliver(m) PROVE Before'
  <2>1. /\ mail' = mail \ {m} /\ Mailed(m) /\ UNCHANGED <<dialling, sending, server, down>>
        /\ m.type \in {"color", "pattern", "saved"} => Keeping(game, game', {})
        /\ m.type = "connected" =>
               /\ Keeping(game, game', {"connected", "conn", "worldSize"})
               /\ game'.connected = m.ok /\ game'.conn = m.ok
               /\ game'.worldSize = IF m.ok THEN WorldSize ELSE 0
        /\ m.type = "data" => Keeping(game, game', {"pending"}) /\ game'.pending = m.data
        /\ m.type = "error" => Keeping(game, game', {"connected"}) /\ game'.connected = FALSE
    BY <1>7, DeliverStep
  <2>2. m \in news => ~Waiting'
    <3> SUFFICES ASSUME m \in news, Waiting' PROVE FALSE
      OBVIOUS
    <3>1. ~dialling'
      BY <2>1 DEF OneReader
    <3>2. PICK n \in mail' : n.type = "connected"
      BY <3>1 DEF Waiting
    <3>3. n \in news /\ n # m
      BY <2>1, <3>2 DEF news
    <3> QED  BY <3>3 DEF OneReader
  <2>3. \A n \in mail' : n.type = "connected" /\ n.ok => down' # <<>>
    BY <2>1 DEF Before
  <2>4. CASE m.type = "connected"
    <3>1. ~Waiting'
      BY <2>2, <2>4 DEF news
    <3>2. game'.connected \/ game'.conn => game'.worldSize = WorldSize
      BY <2>1, <2>4 DEF Mailed
    <3> QED  BY <2>3, <3>1, <3>2 DEF Before
  <2>5. CASE m.type \in {"data", "error"}
    <3>1. ~Waiting'
      BY <2>2, <2>5 DEF news
    <3>2. \/ Keeping(game, game', {"pending"})
          \/ Keeping(game, game', {"connected"}) /\ ~game'.connected
      BY <2>1, <2>5
    <3>3. /\ game'.connected => game.connected
          /\ game'.conn = game.conn /\ game'.worldSize = game.worldSize
      BY <1>0, <3>2
    <3> QED  BY <2>3, <3>1, <3>3 DEF Before
  <2>6. CASE m.type \in {"color", "pattern", "saved"}
    <3>1. Keeping(game, game', {})
      BY <2>1, <2>6
    <3>2. /\ game'.connected = game.connected /\ game'.conn = game.conn
          /\ game'.pending = game.pending /\ game'.worldSize = game.worldSize
          /\ game'.cells = game.cells
      BY <1>0, <3>1
    <3>3. Waiting' => Waiting
      BY <2>1 DEF Waiting
    <3> QED  BY <2>1, <2>3, <3>2, <3>3 DEF Before
  <2> QED  BY <2>1, <2>4, <2>5, <2>6 DEF Mailed
<1>8. CASE connect
  <2>1. /\ dialling /\ UNCHANGED <<ui, sending>> /\ Waiting
    BY <1>8 DEF connect, Waiting
  <2>2. PICK ok \in user.dials : /\ mail' = mail \cup {[type |-> "connected", ok |-> ok]}
                                 /\ down' = IF ok THEN <<server>> ELSE <<>>
    BY <1>8 DEF connect
  <2>3. ASSUME NEW m \in mail', m.type = "connected", m.ok PROVE down' # <<>>
    <3>1. \A n \in mail : n.type # "connected"
      BY <2>1 DEF OneReader, news
    <3>2. m = [type |-> "connected", ok |-> ok]
      BY <2>2, <2>3, <3>1
    <3>3. down' = <<server>>
      BY <2>2, <2>3, <3>2
    <3> QED  BY <3>3
  <2> QED  BY <2>1, <2>3 DEF Before, ui
<1>9. CASE listenForMessages
  <2>1. /\ listening /\ UNCHANGED <<ui, dialling, sending>>
    BY <1>9 DEF listenForMessages
  <2>2. \/ mail' = mail \cup {[type |-> "data", data |-> Head(down)]}
        \/ mail' = mail \cup {[type |-> "error"]}
    BY <1>9 DEF listenForMessages
  <2>3. \A m \in mail : m.type # "connected"
    BY <2>1 DEF OneReader, news
  <2>4. \A m \in mail' : m.type # "connected"
    BY <2>2, <2>3
  <2>5. ~Waiting'
    BY <2>1, <2>4 DEF Waiting, OneReader
  <2> QED  BY <2>1, <2>4, <2>5 DEF Before, ui
<1>10. ASSUME NEW m \in BagToSet(sending), write(m) PROVE Before'
  <2>1. UNCHANGED <<ui, mail, dialling>>
    BY <1>10 DEF write
  <2>2. down' = down \/ \E new : down' = Append(down, new)
    BY <1>10 DEF write, serve
  <2>3. down # <<>> => down' # <<>>
    BY <2>2 DEF Typed, WorldTyped
  <2>4. sending # EmptyBag
    BY BagOfNone
  <2> QED  BY <2>1, <2>3, <2>4 DEF Before, Waiting, ui
<1>11. CASE saveDone
  <2>1. UNCHANGED <<ui, net>>
    BY <1>11 DEF saveDone
  <2>2. PICK ok \in BOOLEAN : mail' = mail \cup {[type |-> "saved", ok |-> ok]}
    BY <1>11 DEF saveDone
  <2>3. (Waiting' <=> Waiting) /\ \A m \in mail' : m.type = "connected" => m \in mail
    BY <2>1, <2>2 DEF Waiting, net
  <2> QED  BY <2>1, <2>3 DEF Before, ui, net
<1>12. CASE change
  <2>1. UNCHANGED <<ui, mail, dialling, sending>> /\ \E new : down' = Append(down, new)
    BY <1>12 DEF change, serve
  <2>2. down' # <<>>
    BY <2>1 DEF Typed, WorldTyped
  <2> QED  BY <2>1, <2>2 DEF Before, Waiting, ui
<1>13. CASE UNCHANGED vars
  BY <1>13 DEF vars, Before, Waiting
<1> QED  BY <1>2, <1>3, <1>4, <1>5, <1>6, <1>7, <1>8, <1>9, <1>10, <1>11, <1>12, <1>13, StepCases

-----------------------------------------------------------------------------
\* The last output of those on their way.
LEMMA LastOfTail ==
  ASSUME NEW S, NEW s \in Seq(S), s # <<>>
  PROVE  /\ Tail(s) = <<>> => Head(s) = s[Len(s)]
         /\ Tail(s) # <<>> => Tail(s)[Len(Tail(s))] = s[Len(s)]
<1>1. Len(s) \in Nat \ {0} /\ Tail(s) \in Seq(S) /\ Len(Tail(s)) = Len(s) - 1
  OBVIOUS
<1>2. Tail(s) = <<>> => Len(s) = 1
  <2>1. Len(<<>>) = 0
    OBVIOUS
  <2>2. Tail(s) = <<>> => Len(Tail(s)) = 0
    BY <2>1
  <2> QED  BY <1>1, <2>2
<1>3. Tail(s) # <<>> => Len(Tail(s)) \in 1 .. Len(Tail(s))
  BY <1>1
<1>4. \A i \in 1 .. Len(Tail(s)) : Tail(s)[i] = s[i + 1]
  BY <1>1
<1>5. Tail(s) # <<>> => Tail(s)[Len(Tail(s))] = s[Len(s)]
  BY <1>1, <1>3, <1>4
<1> QED  BY <1>2, <1>5

LEMMA LastOfAppend ==
  ASSUME NEW S, NEW s \in Seq(S), NEW e
  PROVE  Append(s, e) # <<>> /\ Append(s, e)[Len(Append(s, e))] = e
OBVIOUS

\* A step that leaves the server and what is on its way alone.
LEMMA NewestKept ==
  ASSUME Newest, Live' => Live, UNCHANGED <<server, down>>,
         \A m \in mail' : m.type = "data" => m \in mail,
         \A m \in mail : m.type = "data" => m \in mail',
         game'.pending = game.pending, game'.cells = game.cells, game'.running = game.running,
         AllShown /\ (game.speed = server.speed \/ SpeedAsked)
             => game'.speed = server.speed \/ SpeedAsked'
  PROVE  Newest'
<1>1. (NoNews' <=> NoNews) /\ (AllShown' <=> AllShown)
  BY DEF NoNews, AllShown
<1> QED  BY <1>1 DEF Newest

LEMMA AskedStays ==
  ASSUME SpeedAsked, server' = server, BagToSet(sending) \subseteq BagToSet(sending')
  PROVE  SpeedAsked'
BY DEF SpeedAsked

LEMMA ServeNewest ==
  ASSUME down \in Seq(States), NEW new, serve(new)
  PROVE  Newest'
<1> HIDE DEF States
<1>1. down' # <<>> /\ down'[Len(down')] = server'
  BY LastOfAppend DEF serve
<1> QED  BY <1>1 DEF Newest, NoNews, AllShown

\* What comes last is what the server has.
LEMMA NewestStays ==
  ASSUME Typed, OneReader, Before, Newest, [Next]_vars
  PROVE  Newest'
<1> HIDE DEF States, PatternList
<1>0. ASSUME NEW X, Keeping(game, game', X)
      PROVE  /\ "connected" \notin X => game'.connected = game.connected
             /\ "conn" \notin X => game'.conn = game.conn
             /\ "pending" \notin X => game'.pending = game.pending
             /\ "cells" \notin X => game'.cells = game.cells
             /\ "running" \notin X => game'.running = game.running
             /\ "speed" \notin X => game'.speed = game.speed
  BY <1>0 DEF Keeping, News
<1>1. /\ down \in Seq(States) /\ server \in States /\ Shown(game) /\ game.speed \in Nat
      /\ IsABag(sending)
  BY ShownIs DEF Typed, WorldTyped, PostTyped, Fielded
<1>2. CASE \E k : k \in user.does /\ key(k)
  <2>1. /\ mail \subseteq mail' /\ \A m \in mail' : m \in mail \/ m.type \in {"color", "pattern"}
        /\ UNCHANGED <<server, down>>
        /\ BagToSet(sending) \subseteq BagToSet(sending')
        /\ Keeping(game, game', {"speed"})
        /\ game'.speed # game.speed =>
               \E m \in BagToSet(sending'), v \in {game.speed - 1, game.speed + 1} :
                   m.type = "SetSpeed" /\ m.speed = uint16(v)
    BY <1>2, KeyStep
  <2>2. /\ game'.connected = game.connected /\ game'.conn = game.conn
        /\ game'.pending = game.pending /\ game'.cells = game.cells
        /\ game'.running = game.running
    BY <1>0, <2>1
  <2>3. /\ Live' => Live
        /\ \A m \in mail' : m.type = "data" => m \in mail
        /\ \A m \in mail : m.type = "data" => m \in mail'
    BY <2>1, <2>2 DEF Live, isConnected
  <2>4. ASSUME game.speed = server.speed \/ SpeedAsked
        PROVE  game'.speed = server.speed \/ SpeedAsked'
    <3>1. CASE SpeedAsked
      BY <2>1, <3>1, AskedStays
    <3>2. CASE game.speed = server.speed /\ game'.speed = game.speed
      BY <3>2
    <3>3. CASE game.speed = server.speed /\ game'.speed # game.speed
      <4>1. PICK m \in BagToSet(sending'), v \in {game.speed - 1, game.speed + 1} :
                m.type = "SetSpeed" /\ m.speed = uint16(v)
        BY <2>1, <3>3
      <4>2. uint16(v) # server.speed
        <5>1. /\ game.speed \in 0 .. Width16 - 1 /\ Width16 \in Nat \ {0} /\ Width16 > 1
          BY <1>1, <3>3, StateIsData, Sizes
        <5> SUFFICES ASSUME v % Width16 = game.speed PROVE FALSE
          BY <3>3 DEF uint16
        <5>2. v \in Int /\ v = Width16 * (v \div Width16) + game.speed /\ v \div Width16 \in Int
          BY <5>1, DivMod
        <5> DEFINE q == v \div Width16
        <5> HIDE DEF q
        <5>3. v = Width16 * q + game.speed /\ q \in Int
          BY <5>2 DEF q
        <5>4. Width16 * q \in {-1, 1}
          BY <4>1, <5>1, <5>3
        <5>5. CASE q >= 1
          <6> DEFINE d == q - 1
          <6>1. q = d + 1 /\ d \in Nat
            BY <5>3, <5>5
          <6> HIDE DEF d
          <6>2. Width16 * q = Width16 * d + Width16 /\ Width16 * d >= 0
            BY <5>1, <6>1
          <6> QED  BY <5>1, <5>4, <6>2
        <5>6. CASE q <= -1
          <6> DEFINE d == -1 - q
          <6>1. q = -1 - d /\ d \in Nat
            BY <5>3, <5>6
          <6> HIDE DEF d
          <6>2. Width16 * q = -Width16 - Width16 * d /\ Width16 * d >= 0
            BY <5>1, <6>1
          <6> QED  BY <5>1, <5>4, <6>2
        <5>7. CASE q = 0
          BY <5>1, <5>4, <5>7
        <5> QED  BY <5>3, <5>5, <5>6, <5>7
      <4> QED  BY <2>1, <4>1, <4>2 DEF SpeedAsked
    <3> QED  BY <2>4, <3>1, <3>2, <3>3
  <2> QED  BY <2>1, <2>2, <2>3, <2>4, NewestKept
<1>3. CASE quit
  <2>1. UNCHANGED <<mail, net>> /\ Keeping(game, game', {"conn"}) /\ game'.conn = FALSE
    BY <1>3, QuitStep
  <2>2. /\ game'.pending = game.pending /\ game'.cells = game.cells
        /\ game'.running = game.running /\ game'.speed = game.speed
    BY <1>0, <2>1
  <2>3. Live' => Live
    BY <2>1 DEF Live, isConnected
  <2>4. SpeedAsked => SpeedAsked'
    BY <2>1 DEF SpeedAsked, net
  <2> QED  BY <2>1, <2>2, <2>3, <2>4, NewestKept DEF net
<1>4. CASE \E c \in Clicks : mouse(c[1], c[2])
  <2>1. /\ Keeping(game, game', {}) /\ BagToSet(sending) \subseteq BagToSet(sending')
        /\ UNCHANGED <<mail, dialling, listening, server, down>>
    BY <1>4, MouseStep
  <2>2. /\ game'.connected = game.connected /\ game'.conn = game.conn
        /\ game'.pending = game.pending /\ game'.cells = game.cells
        /\ game'.running = game.running /\ game'.speed = game.speed
    BY <1>0, <2>1
  <2>3. Live' => Live
    BY <2>1, <2>2 DEF Live, isConnected
  <2> QED  BY <2>1, <2>2, <2>3, AskedStays, NewestKept
<1>5. CASE \E s \in WindowSizes : resize(s)
  <2>1. UNCHANGED <<mail, net>> /\ Keeping(game, game', {})
    BY <1>5, ResizeStep
  <2>2. /\ game'.connected = game.connected /\ game'.conn = game.conn
        /\ game'.pending = game.pending /\ game'.cells = game.cells
        /\ game'.running = game.running /\ game'.speed = game.speed
    BY <1>0, <2>1
  <2>3. Live' => Live
    BY <2>1, <2>2 DEF Live, isConnected
  <2>4. SpeedAsked => SpeedAsked'
    BY <2>1 DEF SpeedAsked, net
  <2> QED  BY <2>1, <2>2, <2>3, <2>4, NewestKept DEF net
<1>6. CASE tick
  <2>1. /\ UNCHANGED <<mail, net>> /\ game.pending # NoData /\ game.pending \in States
        /\ Keeping(game, game', {"pending", "cells", "running", "speed"})
        /\ game'.pending = NoData /\ game'.cells = game.pending.cells
        /\ game'.running = game.pending.running /\ game'.speed = game.pending.speed
    BY <1>6, TickStep
  <2>2. game'.connected = game.connected /\ game'.conn = game.conn
    BY <1>0, <2>1
  <2>3. Live' => Live
    BY <2>1, <2>2 DEF Live, isConnected
  <2>4. server' = server /\ down' = down
    BY <2>1 DEF net
  <2>5. Live' /\ AllShown' => game.pending = server
    BY <2>1, <2>3, <2>4 DEF Newest, NoNews, AllShown
  <2> QED  BY <2>1, <2>3, <2>4, <2>5 DEF Newest
<1>7. ASSUME NEW m \in mail, deliver(m) PROVE Newest'
  <2>1. /\ mail' = mail \ {m} /\ Mailed(m) /\ UNCHANGED <<dialling, sending, server, down>>
        /\ m.type \in {"color", "pattern", "saved"} => Keeping(game, game', {})
        /\ m.type = "connected" =>
               /\ Keeping(game, game', {"connected", "conn", "worldSize"})
               /\ game'.connected = m.ok /\ game'.conn = m.ok
        /\ m.type = "data" => Keeping(game, game', {"pending"}) /\ game'.pending = m.data
        /\ m.type = "error" => Keeping(game, game', {"connected"}) /\ game'.connected = FALSE
    BY <1>7, DeliverStep
  <2>2. m \in news => \A n \in mail' : n.type \notin {"connected", "data", "error"}
    BY <2>1 DEF OneReader, news
  <2>3. SpeedAsked => SpeedAsked'
    BY <2>1 DEF SpeedAsked
  <2>4. CASE m.type \in {"color", "pattern", "saved"}
    <3>1. /\ game'.connected = game.connected /\ game'.conn = game.conn
          /\ game'.pending = game.pending /\ game'.cells = game.cells
          /\ game'.running = game.running /\ game'.speed = game.speed
      BY <1>0, <2>1, <2>4
    <3>2. Live' => Live
      BY <2>1, <2>4, <3>1 DEF Live, isConnected
    <3> QED  BY <2>1, <2>3, <2>4, <3>1, <3>2, NewestKept
  <2>5. CASE m.type = "connected"
    <3>1. /\ game'.pending = game.pending /\ game'.cells = game.cells
          /\ game'.running = game.running /\ game'.speed = game.speed
          /\ game'.connected = m.ok
      BY <1>0, <2>1, <2>5
    <3>2. m \in news
      BY <2>5 DEF news
    <3>3. Live' => Live
      BY <2>1, <2>2, <2>5, <3>1, <3>2 DEF Live, isConnected
    <3> QED  BY <2>1, <2>3, <2>5, <3>1, <3>3, NewestKept
  <2>6. CASE m.type = "error"
    <3>1. m \in news /\ ~game'.connected
      BY <2>1, <2>6 DEF news
    <3>2. ~Live'
      BY <2>2, <3>1 DEF Live, isConnected
    <3> QED  BY <3>2 DEF Newest
  <2>7. CASE m.type = "data"
    <3>1. game'.connected = game.connected /\ game'.conn = game.conn /\ game'.pending = m.data
      BY <1>0, <2>1, <2>7
    <3>2. m \in news /\ m.data # NoData
      BY <2>1, <2>7, StateIsData DEF news, Mailed
    <3>3. Live' => Live
      BY <2>1, <2>7, <3>1 DEF Live, isConnected
    <3>4. ~AllShown'
      BY <3>1, <3>2 DEF AllShown
    <3>5. Live' /\ down = <<>> => m.data = server
      BY <2>7, <3>3 DEF Newest
    <3>6. \A n \in mail' : n.type # "data"
      BY <2>2, <3>2
    <3>7. Live' /\ down # <<>> => down[Len(down)] = server
      BY <3>3 DEF Newest
    <3> QED  BY <2>1, <3>1, <3>4, <3>5, <3>6, <3>7 DEF Newest, NoNews
  <2> QED  BY <2>1, <2>4, <2>5, <2>6, <2>7 DEF Mailed
<1>8. CASE connect
  <2>1. /\ dialling /\ UNCHANGED <<ui, server>>
    BY <1>8 DEF connect
  <2>2. PICK ok \in user.dials : /\ mail' = mail \cup {[type |-> "connected", ok |-> ok]}
                                 /\ down' = IF ok THEN <<server>> ELSE <<>>
    BY <1>8 DEF connect
  <2>3. ~game'.connected /\ \A m \in mail : m.type # "connected"
    BY <2>1 DEF Before, Waiting, OneReader, news, ui
  <2>4. Live' => ok
    BY <2>2, <2>3 DEF Live, isConnected
  <2>5. ok => down' # <<>> /\ down'[Len(down')] = server'
    BY <2>1, <2>2
  <2> QED  BY <2>4, <2>5 DEF Newest, NoNews, AllShown
<1>9. CASE listenForMessages
  <2>1. /\ listening /\ UNCHANGED <<ui, server>>
        /\ \/ /\ down # <<>> /\ mail' = mail \cup {[type |-> "data", data |-> Head(down)]}
              /\ down' = Tail(down)
           \/ mail' = mail \cup {[type |-> "error"]}
    BY <1>9 DEF listenForMessages
  <2>2. news = {}
    BY <2>1 DEF OneReader
  <2>3. \A m \in mail : m.type \notin {"connected", "data", "error"}
    BY <2>2 DEF news
  <2>4. CASE mail' = mail \cup {[type |-> "error"]}
    <3> DEFINE e == [type |-> "error"]
    <3>1. e \in mail' /\ e.type = "error"
      BY <2>4
    <3>2. \A m \in mail' : m \in mail \/ m = e
      BY <2>4
    <3> HIDE DEF e
    <3>3. \A m \in mail' : m.type # "connected"
      BY <2>3, <3>1, <3>2
    <3>4. ~Live'
      BY <3>1, <3>3 DEF Live
    <3> QED  BY <3>4 DEF Newest
  <2>5. CASE /\ down # <<>> /\ mail' = mail \cup {[type |-> "data", data |-> Head(down)]}
             /\ down' = Tail(down)
    <3>1. Live' => Live
      BY <2>1, <2>3, <2>5 DEF Live, isConnected, ui
    <3>2. [type |-> "data", data |-> Head(down)] \in mail'
      BY <2>5
    <3>3. ~NoNews' /\ ~AllShown'
      BY <3>2 DEF NoNews, AllShown
    <3>4. Live' => down[Len(down)] = server
      BY <2>5, <3>1 DEF Newest
    <3>5. /\ Tail(down) = <<>> => Head(down) = down[Len(down)]
          /\ Tail(down) # <<>> => Tail(down)[Len(Tail(down))] = down[Len(down)]
      BY <1>1, <2>5, LastOfTail
    <3>6. \A m \in mail' : m.type = "data" => m.data = Head(down)
      BY <2>3, <2>5
    <3> QED  BY <2>1, <2>5, <3>3, <3>4, <3>5, <3>6 DEF Newest
  <2> QED  BY <2>1, <2>4, <2>5
<1>10. ASSUME NEW m \in BagToSet(sending), write(m) PROVE Newest'
  <2>1. /\ sending' = sending (-) SetToBag({m}) /\ UNCHANGED <<ui, mail>>
        /\ \/ (Broken \/ Refused(m)) /\ UNCHANGED <<server, down>>
           \/ \E new : serve(new)
    BY <1>10 DEF write
  <2>2. CASE \E new : serve(new)
    BY <1>1, <2>2, ServeNewest
  <2>3. CASE (Broken \/ Refused(m)) /\ UNCHANGED <<server, down>>
    <3>1. ASSUME Live, SpeedAsked PROVE SpeedAsked'
      <4>1. PICK n \in BagToSet(sending) : n.type = "SetSpeed" /\ n.speed # server.speed
        BY <3>1 DEF SpeedAsked
      <4>2. CASE n # m
        BY <1>1, <2>1, <2>3, <4>1, <4>2, BagLess DEF SpeedAsked
      <4>3. CASE n = m
        <5>1. ~Refused(m)
          BY <4>1, <4>3 DEF Refused
        <5>2. sending # EmptyBag
          BY BagOfNone
        <5>3. ~Waiting
          BY <5>2 DEF Before
        <5>4. isConnected(game) /\ \A x \in mail : x.type # "error"
          BY <3>1, <5>3 DEF Live, Waiting
        <5>5. ~Broken
          BY <5>4 DEF Broken, isConnected
        <5> QED  BY <2>3, <5>1, <5>5
      <4> QED  BY <4>2, <4>3
    <3>2. Live' = Live
      BY <2>1 DEF Live, isConnected, ui
    <3>3. CASE Live
      BY <2>1, <2>3, <3>1, <3>2, <3>3, NewestKept DEF ui
    <3>4. CASE ~Live
      BY <3>2, <3>4 DEF Newest
    <3> QED  BY <3>3, <3>4
  <2> QED  BY <2>1, <2>2, <2>3
<1>11. CASE saveDone
  <2>1. UNCHANGED <<ui, net>>
    BY <1>11 DEF saveDone
  <2>2. PICK ok \in BOOLEAN : mail' = mail \cup {[type |-> "saved", ok |-> ok]}
    BY <1>11 DEF saveDone
  <2>3. Live' => Live
    BY <2>1, <2>2 DEF Live, isConnected, ui
  <2>4. SpeedAsked => SpeedAsked'
    BY <2>1 DEF SpeedAsked, net
  <2> QED  BY <2>1, <2>2, <2>3, <2>4, NewestKept DEF ui, net
<1>12. CASE change
  BY <1>1, <1>12, ServeNewest DEF change
<1>13. CASE UNCHANGED vars
  <2>1. UNCHANGED <<game, mail, sending, server, down>>
    BY <1>13 DEF vars
  <2> QED  BY <2>1 DEF Newest, Live, NoNews, AllShown, SpeedAsked
<1> QED  BY <1>2, <1>3, <1>4, <1>5, <1>6, <1>7, <1>8, <1>9, <1>10, <1>11, <1>12, <1>13, StepCases

-----------------------------------------------------------------------------
\* The inductive invariant, from the first state on.
LEMMA InitInv == Init => IInv
<1> SUFFICES ASSUME Init PROVE IInv
  OBVIOUS
<1>1. /\ Ripe(InitGame) /\ ~InitGame.connected /\ ~InitGame.conn /\ InitGame.pending = NoData
      /\ InitGame.worldSize = 0 /\ DOMAIN InitGame.cells = {}
  BY InitShows
<1>2. game = View(InitGame)
  BY DEF Init
<1>3. Shown(game) /\ Keeping(InitGame, game, {})
  BY <1>1, <1>2, ViewKeepsNews
<1>4. /\ ~game.connected /\ ~game.conn /\ game.pending = NoData
      /\ game.worldSize = 0 /\ DOMAIN game.cells = {}
  BY <1>1, <1>3 DEF Keeping, News
<1>5. Overlaid(foreground)
  BY FirstOverlay DEF Init
<1>6. PostTyped
  BY BagOfNone DEF Init, PostTyped
<1>7. WorldTyped
  <2>1. PICK w \in Worlds : server = [cells |-> w, running |-> FALSE, speed |-> 1]
    BY DEF Init
  <2>2. w \in CellMaps /\ 1 \in 0 .. Width16 - 1
    BY WorldIsMap, Sizes
  <2> HIDE DEF CellMaps
  <2>3. server \in States
    BY <2>1, <2>2 DEF States
  <2> QED  BY <2>3 DEF Init, WorldTyped
<1>8. FlagsTyped
  <2>1. user \in Users /\ user.sends \in Nat /\ user.changes \in Nat
    BY UsersAssumption DEF Init
  <2>2. sends = 0 /\ changes = 0 /\ visible = FALSE /\ listening = FALSE /\ dialling = TRUE
    BY DEF Init
  <2>3. sends \in 0 .. user.sends /\ changes \in 0 .. user.changes
    BY <2>1, <2>2
  <2> QED  BY <2>1, <2>2, <2>3 DEF FlagsTyped
<1>9. Typed
  BY <1>3, <1>5, <1>6, <1>7, <1>8 DEF Typed
<1>10. OneReader
  BY DEF Init, OneReader, news
<1>11. Before
  BY <1>4 DEF Init, Before
<1>12. Newest
  BY <1>4 DEF Init, Newest, Live, isConnected
<1> QED  BY <1>9, <1>10, <1>11, <1>12 DEF IInv

LEMMA InvStays == IInv /\ [Next]_vars => IInv'
BY TypedStays, ReaderStays, BeforeStays, NewestStays DEF IInv

LEMMA Invariance == Spec => []IInv
BY InitInv, InvStays, PTL DEF Spec

-----------------------------------------------------------------------------
\* Every field of the game, the overlays and the counters has its type; the
\* differential update leaves nothing dirty.
THEOREM TerminalTyped == Spec => []TypeOK
<1>1. IInv => TypeOK
  <2> SUFFICES ASSUME IInv PROVE TypeOK
    OBVIOUS
  <2>1. /\ Shown(game) /\ Overlaid(foreground) /\ WorldTyped /\ FlagsTyped
        /\ Viewed(game, Colours) /\ Fielded(game)
    BY DEF IInv, Typed, Shown
  <2> HIDE DEF Colours
  <2>2. /\ game.width \in Nat \ {0} /\ game.height \in Nat \ {0}
        /\ DOMAIN game.rows = 0 .. game.height - 1 /\ game.dirty = {}
        /\ game.currentColor \in Colours
    BY <2>1 DEF Viewed, Sized, Coloured
  <2>3. game.grid \in [Window(game) -> Colours \cup {Empty}]
    <3>1. /\ game.grid = [p \in Window(game) |-> OnScreen(game.prev, p)]
          /\ \A p \in DOMAIN game.prev : game.prev[p] \in Colours
      BY <2>1 DEF Viewed, Gridded
    <3>2. \A p : OnScreen(game.prev, p) \in Colours \cup {Empty}
      BY <3>1 DEF OnScreen
    <3> QED  BY <3>1, <3>2
  <2>4. game.viewport \in [1 .. 2 -> Int] /\ game.speed \in Nat
    BY <2>1 DEF Fielded
  <2>5. foreground.picker \in [rgb : Colours, slider : 0 .. 2]
    BY <2>1 DEF Overlaid
  <2>6. server.speed \in 0 .. Width16 - 1
    BY <2>1, StateIsData DEF WorldTyped
  <2> QED  BY <2>1, <2>2, <2>3, <2>4, <2>5, <2>6 DEF TypeOK, FlagsTyped
<1> QED  BY <1>1, Invariance, PTL

\* The list and the map of the prefix cache lose the same entry at capacity,
\* whatever is drawn.
THEOREM CacheHolds == Spec => []CacheAgrees
<1>1. IInv => CacheAgrees
  BY DEF IInv, Typed, Shown, Viewed, Caching, IsCache, CacheAgrees
<1> QED  BY <1>1, Invariance, PTL

\* Moving up and down the list of patterns never leaves the selection out of
\* the rows that are shown.
THEOREM SelectionShown == Spec => []SelectionIsVisible
<1>1. IInv => SelectionIsVisible
  <2> SUFFICES ASSUME IInv PROVE SelectionIsVisible
    OBVIOUS
  <2> DEFINE n == Len(PatternList)
             s == foreground.selector
  <2>1. n \in Nat \ {0} /\ ViewHeight \in Nat \ {0}
    BY List, PickerAssumption
  <2>2. /\ s.selected \in 0 .. n - 1 /\ s.offset \in Nat
        /\ s.offset <= s.selected /\ s.selected < s.offset + ViewHeight
    BY DEF IInv, Typed, Overlaid
  <2> HIDE DEF n, s
  <2>3. s.selected \in visibleRange(s, n)
    BY <2>1, <2>2 DEF visibleRange
  <2> QED  BY <2>3 DEF SelectionIsVisible, n, s
<1> QED  BY <1>1, Invariance, PTL

\* With nothing under way in either direction the terminal shows the world, the
\* state and the speed of the server, in whatever order the sends were written
\* and however many outputs a tick skipped.
THEOREM SettledShows == Spec => []SettledShowsServer
<1>1. IInv => SettledShowsServer
  <2> SUFFICES ASSUME IInv, Settled
               PROVE  /\ game.cells = server.cells /\ game.running = server.running
                      /\ game.speed = server.speed
    BY DEF SettledShowsServer
  <2>1. isConnected(game) /\ ~Broken /\ sending = EmptyBag /\ AllShown
    BY DEF Settled
  <2>2. \A m \in mail : m.type # "error"
    <3> SUFFICES ASSUME NEW m \in mail, m.type = "error" PROVE FALSE
      OBVIOUS
    <3>1. [type |-> "error"] \notin mail
      BY <2>1 DEF Broken
    <3>2. m = [type |-> "error"]
      BY DEF IInv, Typed, PostTyped, Mailed
    <3> QED  BY <3>1, <3>2
  <2>3. Live
    BY <2>1, <2>2 DEF Live
  <2>4. ~SpeedAsked
    BY <2>1, BagOfNone DEF SpeedAsked
  <2> QED  BY <2>1, <2>3, <2>4 DEF IInv, Newest
<1> QED  BY <1>1, Invariance, PTL

-----------------------------------------------------------------------------
\* The screen over the world.
LEMMA InWorldIs ==
  ASSUME NEW g, Fielded(g), InWorld(g)
  PROVE  g.worldSize = WorldSize /\ Placed(g) /\ InWorldOf(g) = [1 .. 2 -> 0 .. WorldSize - 1]
<1>1. g.worldSize = WorldSize /\ WorldSize \in Nat \ {0} /\ g.viewport \in [1 .. 2 -> Int]
  BY Sizes DEF Fielded, InWorld
<1> QED  BY <1>1 DEF InWorld, Placed, InWorldOf

\* A position over the world is the world's cell there; both ways of wrapping
\* agree.
LEMMA OverIs ==
  ASSUME NEW g, Fielded(g), InWorld(g), NEW p \in [1 .. 2 -> 0 .. WorldSize - 1]
  PROVE  WorldAt(g, p) = viewportToWorld(g, p) /\ WorldAt(g, p) \in [1 .. 2 -> 0 .. WorldSize - 1]
<1>1. g.worldSize = WorldSize /\ Placed(g) /\ InWorldOf(g) = [1 .. 2 -> 0 .. WorldSize - 1]
  BY InWorldIs
<1>2. \A i \in 1 .. 2 : p[i] + g.viewport[i] \in Nat
  BY <1>1 DEF Placed
<1>3. WorldAt(g, p) = viewportToWorld(g, p)
  BY <1>1, <1>2 DEF WorldAt, viewportToWorld, rem
<1> QED  BY <1>1, <1>3, ViewportInverse

\* A pair of two numbers.
LEMMA Pairs ==
  ASSUME NEW A, NEW B
  PROVE  /\ \A p \in A \X B : p \in [1 .. 2 -> A \cup B] /\ p[1] \in A /\ p[2] \in B
         /\ \A f : DOMAIN f = 1 .. 2 /\ f = [i \in 1 .. 2 |-> f[i]] => f = <<f[1], f[2]>>
<1>1. ASSUME NEW p \in A \X B PROVE p \in [1 .. 2 -> A \cup B] /\ p[1] \in A /\ p[2] \in B
  <2>1. p = <<p[1], p[2]>> /\ p[1] \in A /\ p[2] \in B
    OBVIOUS
  <2>2. <<p[1], p[2]>> \in [1 .. 2 -> A \cup B]
    BY <2>1
  <2> QED  BY <2>1, <2>2
<1>2. ASSUME NEW f, DOMAIN f = 1 .. 2, f = [i \in 1 .. 2 |-> f[i]] PROVE f = <<f[1], f[2]>>
  BY <1>2
<1> QED  BY <1>1, <1>2

\* What currentCells puts on the screen: at a position over the world the cell
\* that is there, and nothing elsewhere.
LEMMA ScreenCells ==
  ASSUME NEW g, Fielded(g), g.width \in Nat, g.height \in Nat, InWorld(g), CellsInWorld(g),
         NEW p \in Window(g)
  PROVE  OnScreen(currentCells(g), p) = IF OverWorld(p) /\ WorldAt(g, p) \in DOMAIN g.cells
                                        THEN g.cells[WorldAt(g, p)] ELSE Empty
<1> DEFINE W == [1 .. 2 -> 0 .. WorldSize - 1]
           place == [c \in DOMAIN g.cells |-> worldToViewport(g, c)]
           on == {c \in DOMAIN g.cells : place[c] \in Window(g)}
           current == currentCells(g)
<1>1. /\ g.worldSize = WorldSize /\ Placed(g) /\ InWorldOf(g) = W
      /\ WorldSize \in Nat \ {0}
  BY InWorldIs, Sizes
<1>2. DOMAIN g.cells \subseteq W
  <2>1. \A c \in WorldCells : c \in W
    BY Pairs DEF WorldCells
  <2> QED  BY <2>1 DEF CellsInWorld
<1>3. OverWorld(p) <=> p \in W
  <2>1. p \in [1 .. 2 -> (0 .. g.width - 1) \cup (0 .. g.height - 1)]
    BY Pairs DEF Window
  <2>2. p[1] \in Nat /\ p[2] \in Nat
    BY Pairs DEF Window
  <2>3. p \in W => OverWorld(p)
    BY <1>1 DEF OverWorld
  <2>4. ASSUME OverWorld(p) PROVE p \in W
    <3>1. \A i \in 1 .. 2 : p[i] \in 0 .. WorldSize - 1
      BY <1>1, <2>2, <2>4 DEF OverWorld
    <3> QED  BY <2>1, <3>1
  <2> QED  BY <2>3, <2>4
<1>4. current = [q \in {place[c] : c \in on} |-> g.cells[CHOOSE c \in on : place[c] = q]]
  BY DEF currentCells
<1> HIDE DEF W, current
<1>5. ASSUME NEW c \in on, place[c] = p
      PROVE  p \in W /\ WorldAt(g, p) = c
  <2>1. c \in W /\ worldToViewport(g, c) = p
    BY <1>2, <1>5
  <2>2. worldToViewport(g, c) \in W /\ viewportToWorld(g, worldToViewport(g, c)) = c
    BY <1>1, <2>1, ViewportInverse
  <2>3. p \in W /\ viewportToWorld(g, p) = c
    BY <2>1, <2>2
  <2> QED  BY <2>3, OverIs DEF W
<1>6. ASSUME p \in W, WorldAt(g, p) \in DOMAIN g.cells
      PROVE  WorldAt(g, p) \in on /\ place[WorldAt(g, p)] = p
  <2>1. WorldAt(g, p) = viewportToWorld(g, p)
    BY <1>6, OverIs DEF W
  <2>2. worldToViewport(g, viewportToWorld(g, p)) = p
    BY <1>1, <1>6, ViewportInverse
  <2>3. place[WorldAt(g, p)] = p
    BY <1>6, <2>1, <2>2
  <2> QED  BY <1>6, <2>3
<1> HIDE DEF place, on
<1>7. CASE p \in W /\ WorldAt(g, p) \in DOMAIN g.cells
  <2> DEFINE d == WorldAt(g, p)
             e == CHOOSE c \in on : place[c] = p
  <2>1. d \in on /\ place[d] = p
    BY <1>6, <1>7
  <2> HIDE DEF d
  <2>2. e \in on /\ place[e] = p
    BY <2>1
  <2>3. e = d
    BY <1>5, <2>2 DEF d
  <2>4. p \in DOMAIN current /\ current[p] = g.cells[e]
    BY <1>4, <2>1
  <2> HIDE DEF e
  <2> QED  BY <1>3, <1>7, <2>3, <2>4 DEF OnScreen, d, current
<1>8. CASE ~(p \in W /\ WorldAt(g, p) \in DOMAIN g.cells)
  <2>1. p \notin DOMAIN current
    <3> SUFFICES ASSUME p \in DOMAIN current PROVE FALSE
      OBVIOUS
    <3>1. PICK c \in on : place[c] = p
      BY <1>4
    <3>2. c \in DOMAIN g.cells
      BY DEF on
    <3> QED  BY <1>5, <1>8, <3>1, <3>2
  <2> QED  BY <1>3, <1>8, <2>1 DEF OnScreen, current
<1> QED  BY <1>7, <1>8

\* What a position relative to the screen, seen through uint16, is on it.
LEMMA UintShift ==
  ASSUME NEW a \in Int, NEW c \in Nat, NEW w \in Nat, NEW x \in 0 .. w - 1,
         w <= Width16, a + c < Width16, w - Width16 <= a
  PROVE  uint16(uint16(a) + c) = x <=> a + c = x
<1> DEFINE n == Width16
<1>1. n \in Nat \ {0}
  BY Sizes
<1> HIDE DEF n
<1>2. a \div n \in Int /\ a % n \in 0 .. n - 1 /\ a = n * (a \div n) + (a % n)
  BY <1>1, DivMod
<1> DEFINE q == -(a \div n)
<1>3. q \in Int /\ a % n = a + n * q
  <2> DEFINE d == a \div n
  <2>1. d \in Int /\ a = n * d + (a % n) /\ a % n \in Int
    BY <1>2
  <2> HIDE DEF d
  <2>2. n * (-d) = -(n * d) /\ n * d \in Int
    BY <1>1, <2>1
  <2> QED  BY <2>1, <2>2 DEF d
<1> HIDE DEF q
<1>4. (a + c + n * q) % n = (a + c) % n
  <2> DEFINE b == a + c
  <2>1. b \in Int
    OBVIOUS
  <2> HIDE DEF b
  <2>2. (b + n * q) % n = b % n
    BY <1>1, <1>3, <2>1, ModShift
  <2> QED  BY <2>2 DEF b
<1>5. n * q \in Int
  BY <1>1, <1>3
<1>6. (a % n) + c = a + c + n * q
  BY <1>3, <1>5
<1>7. uint16(uint16(a) + c) = (a + c) % n
  BY <1>4, <1>6 DEF uint16, n
<1>8. CASE a + c >= 0
  <2>1. a + c \in 0 .. n - 1 /\ a + c = n * 0 + (a + c)
    BY <1>1, <1>8 DEF n
  <2>2. (a + c) % n = a + c
    BY <1>1, <2>1, DivIs
  <2> QED  BY <1>7, <2>2
<1>9. CASE a + c < 0
  <2>1. a + c + n \in 0 .. n - 1 /\ a + c = n * (-1) + (a + c + n) /\ a + c + n >= w
    BY <1>1, <1>9 DEF n
  <2>2. (a + c) % n = a + c + n
    BY <1>1, <2>1, DivIs
  <2> QED  BY <1>7, <1>9, <2>1, <2>2
<1> QED  BY <1>8, <1>9

\* What the screen shows of the pattern is what lies on it of the pattern around
\* its middle, although the positions pass through uint16.
LEMMA PatternOnScreen ==
  ASSUME NEW g, Fielded(g), Sized(g), g.placing, NEW p \in Window(g)
  PROVE  isPatternCell(g, p) <=> p \in Places(g)
<1> DEFINE cells == ToSet(g.pattern.cells)
           center == g.pattern.center
           a == [i \in 1 .. 2 |-> Middle(g)[i] - center[i]]
           w == <<g.width, g.height>>
<1>1. /\ g.width \in Nat \ {0} /\ g.height \in Nat \ {0} /\ Width16 \in Nat \ {0}
  BY Sizes DEF Sized
<1>2. /\ center \in Nat \X Nat /\ cells \subseteq Nat \X Nat
      /\ ToSet(getPatternPositions(g)) =
             {[i \in 1 .. 2 |-> uint16(uint16(Middle(g)[i] - center[i]) + c[i])] : c \in cells}
  BY <1>1, PositionsTyped
<1>3. PICK n \in DOMAIN PatternList : g.pattern = PatternList[n]
  BY DEF Fielded
<1> HIDE DEF PatternList
<1>4. \A c \in cells \cup {center} : g.width + c[1] <= Width16 /\ g.height + c[2] <= Width16
  BY <1>3 DEF Fielded, Fits, Reach
<1>5. /\ Middle(g)[1] \in 0 .. g.width - 1 /\ Middle(g)[2] \in 0 .. g.height - 1
  BY <1>1 DEF Middle
<1>6. p \in [1 .. 2 -> (0 .. g.width - 1) \cup (0 .. g.height - 1)]
      /\ p[1] \in 0 .. g.width - 1 /\ p[2] \in 0 .. g.height - 1
  BY Pairs DEF Window
<1> HIDE DEF cells, center
<1>7. ASSUME NEW c \in cells, NEW i \in 1 .. 2
      PROVE  uint16(uint16(a[i]) + c[i]) = p[i] <=> a[i] + c[i] = p[i]
  <2>1. /\ c[1] \in Nat /\ c[2] \in Nat /\ center[1] \in Nat /\ center[2] \in Nat
    BY <1>2
  <2>2. /\ g.width + c[1] <= Width16 /\ g.height + c[2] <= Width16
        /\ g.width + center[1] <= Width16 /\ g.height + center[2] <= Width16
    BY <1>4
  <2>3. a[1] = Middle(g)[1] - center[1] /\ a[2] = Middle(g)[2] - center[2]
    OBVIOUS
  <2> HIDE DEF a
  <2>4. CASE i = 1
    <3>1. /\ a[1] \in Int /\ a[1] + c[1] < Width16 /\ g.width - Width16 <= a[1]
          /\ g.width <= Width16 /\ g.width \in Nat
      BY <1>1, <1>5, <2>1, <2>2, <2>3
    <3> QED  BY <1>6, <2>1, <2>4, <3>1, UintShift
  <2>5. CASE i = 2
    <3>1. /\ a[2] \in Int /\ a[2] + c[2] < Width16 /\ g.height - Width16 <= a[2]
          /\ g.height <= Width16 /\ g.height \in Nat
      BY <1>1, <1>5, <2>1, <2>2, <2>3
    <3> QED  BY <1>6, <2>1, <2>5, <3>1, UintShift
  <2> QED  BY <2>4, <2>5
<1>8. isPatternCell(g, p) <=> \E c \in cells : \A i \in 1 .. 2 : uint16(uint16(a[i]) + c[i]) = p[i]
  <2>1. isPatternCell(g, p) <=> \E c \in cells : p = [i \in 1 .. 2 |-> uint16(uint16(Middle(g)[i] - center[i]) + c[i])]
    BY <1>2 DEF isPatternCell
  <2>2. ASSUME NEW c \in cells
        PROVE  p = [i \in 1 .. 2 |-> uint16(uint16(Middle(g)[i] - center[i]) + c[i])]
                   <=> \A i \in 1 .. 2 : uint16(uint16(a[i]) + c[i]) = p[i]
    BY <1>6
  <2> HIDE DEF a
  <2> QED  BY <2>1, <2>2
<1>9. p \in Places(g) <=> \E c \in cells : \A i \in 1 .. 2 : a[i] + c[i] = p[i]
  <2>1. p \in Places(g) <=> \E c \in cells : p = [i \in 1 .. 2 |-> Middle(g)[i] - center[i] + c[i]]
    BY DEF Places, cells, center
  <2>2. ASSUME NEW c \in cells
        PROVE  p = [i \in 1 .. 2 |-> Middle(g)[i] - center[i] + c[i]]
                   <=> \A i \in 1 .. 2 : a[i] + c[i] = p[i]
    BY <1>6
  <2> HIDE DEF a
  <2> QED  BY <2>1, <2>2
<1> HIDE DEF a
<1> QED  BY <1>7, <1>8, <1>9

\* A position of the screen looks as a redraw from the newest cells would.
LEMMA LooksRedrawn ==
  ASSUME NEW g, Shown(g), InWorld(g), CellsInWorld(g), NEW p \in Window(g)
  PROVE  Look(g, p) = Redrawn(g, p)
<1>1. /\ Viewed(g, Colours) /\ Fielded(g) /\ Sized(g) /\ Coloured(g, Colours)
      /\ g.width \in Nat /\ g.height \in Nat
  BY DEF Shown, Viewed, Sized
<1>2. /\ Look(g, p) = textOf(displayColor(g, p))
      /\ g.grid[p] = OnScreen(currentCells(g), p)
      /\ displayColor(g, p) \in Colours \cup {Empty}
  BY <1>1, Palette, DisplayInPalette DEF Viewed, Painted, Gridded
<1> HIDE DEF Colours
<1>3. Empty \notin Colours /\ \A k \in Colours : dimColor(k) \in Colours
  BY Palette DEF IsPalette
<1> DEFINE alive == OverWorld(p) /\ WorldAt(g, p) \in DOMAIN g.cells
           cell == g.cells[WorldAt(g, p)]
<1>4. g.grid[p] = IF alive THEN cell ELSE Empty
  BY <1>1, <1>2, ScreenCells
<1>5. alive => cell \in Colours
  BY <1>1 DEF Coloured
<1>6. g.placing => (isPatternCell(g, p) <=> p \in Places(g))
  BY <1>1, PatternOnScreen
<1>7. Redrawn(g, p) = IF g.placing /\ p \in Places(g)
                      THEN prefixOf(IF g.canPlace THEN g.currentColor ELSE dimColor(g.currentColor))
                      ELSE IF alive THEN prefixOf(IF g.placing THEN dimColor(cell) ELSE cell)
                      ELSE Empty
  BY DEF Redrawn
<1> HIDE DEF alive, cell
<1>8. CASE g.placing /\ p \in Places(g)
  <2> DEFINE color == IF g.canPlace THEN g.currentColor ELSE dimColor(g.currentColor)
  <2>1. displayColor(g, p) = color
    BY <1>6, <1>8 DEF displayColor
  <2>2. color \in Colours
    BY <1>1, <1>3 DEF Coloured
  <2>3. Redrawn(g, p) = prefixOf(color)
    BY <1>7, <1>8
  <2> HIDE DEF color
  <2> QED  BY <1>2, <1>3, <2>1, <2>2, <2>3 DEF textOf
<1>9. CASE ~(g.placing /\ p \in Places(g)) /\ alive
  <2> DEFINE color == IF g.placing THEN dimColor(cell) ELSE cell
  <2>1. displayColor(g, p) = color
    BY <1>3, <1>4, <1>5, <1>6, <1>9 DEF displayColor
  <2>2. color \in Colours
    BY <1>3, <1>5, <1>9
  <2>3. Redrawn(g, p) = prefixOf(color)
    BY <1>7, <1>9
  <2> HIDE DEF color
  <2> QED  BY <1>2, <1>3, <2>1, <2>2, <2>3 DEF textOf
<1>10. CASE ~(g.placing /\ p \in Places(g)) /\ ~alive
  <2>1. displayColor(g, p) = Empty
    BY <1>4, <1>6, <1>10 DEF displayColor
  <2>2. Redrawn(g, p) = Empty
    BY <1>7, <1>10
  <2> QED  BY <1>2, <2>1, <2>2 DEF textOf
<1> QED  BY <1>8, <1>9, <1>10

\* Whatever was moved, resized, placed, coloured or received, in whatever order,
\* the screen is the newest cells redrawn: the rows that are kept, the prefixes
\* that are cached and the update of the grid by what changed miss nothing.
THEOREM ScreenRedrawn == Spec => []ScreenIsRedraw
<1>1. IInv => ScreenIsRedraw
  BY LooksRedrawn DEF IInv, Typed, ScreenIsRedraw
<1> QED  BY <1>1, Invariance, PTL

\* A click goes to the cell of the world that the user sees under the mouse.
THEOREM ClicksHit == Spec => []ClickHitsWhatIsShown
<1>1. IInv => ClickHitsWhatIsShown
  <2> SUFFICES ASSUME IInv, InWorld(game), CellsInWorld(game), ~game.placing, isConnected(game),
                      NEW c \in Clicks,
                      NEW x, x = (c[1] - 1) \div 2,
                      NEW y, y = c[2] - (IF game.err THEN 3 ELSE 2),
                      NEW cell, cell = clickedCell(game, c[1], c[2]),
                      <<x, y>> \in Window(game), OverWorld(<<x, y>>)
               PROVE  /\ clickSends(game, c[1], c[2])
                      /\ Look(game, <<x, y>>) = IF cell \in DOMAIN game.cells
                                                THEN prefixOf(game.cells[cell]) ELSE Empty
    BY DEF ClickHitsWhatIsShown
  <2> DEFINE p == <<x, y>>
             W == [1 .. 2 -> 0 .. WorldSize - 1]
  <2>1. /\ Shown(game) /\ Fielded(game) /\ c[1] \in Int /\ c[2] \in Int
        /\ game.width \in Nat \ {0} /\ game.height \in Nat \ {0}
        /\ game.worldSize = WorldSize
    BY ShownIs, InWorldIs, TerminalAssumption DEF IInv, Typed
  <2>2. x \in 0 .. game.width - 1 /\ y \in 0 .. game.height - 1
    BY DEF Window
  <2>3. clicked(game, c[1], c[2]) = <<x, y>>
    <3>1. (game.half /\ x >= game.width - 1) => x = game.width - 1
      BY <2>1, <2>2
    <3>2. c[2] - headerLines(game) - 1 = y
      BY <2>1 DEF headerLines
    <3> QED  BY <3>1, <3>2 DEF clicked
  <2>4. c[1] >= 1
    BY <2>1, <2>2
  <2>5. clickSends(game, c[1], c[2])
    BY <2>2, <2>3, <2>4 DEF clickSends
  <2>6. p \in W
    <3>1. WorldSize \in Nat /\ x < WorldSize /\ y < WorldSize
      BY Sizes DEF OverWorld
    <3>2. x \in 0 .. WorldSize - 1 /\ y \in 0 .. WorldSize - 1
      BY <2>2, <3>1
    <3> QED  BY <3>2
  <2> HIDE DEF p
  <2>7. WorldAt(game, p) = viewportToWorld(game, p) /\ WorldAt(game, p) \in W
    BY <2>1, <2>6, OverIs
  <2>8. cell = WorldAt(game, p)
    <3>1. cell = [i \in 1 .. 2 |-> uint16(WorldAt(game, p)[i])]
      BY <2>3, <2>7 DEF clickedCell, p
    <3>2. \A i \in 1 .. 2 : uint16(WorldAt(game, p)[i]) = WorldAt(game, p)[i]
      <4> TAKE i \in 1 .. 2
      <4>1. WorldAt(game, p)[i] \in 0 .. Width16 - 1 /\ Width16 \in Nat \ {0}
        BY <2>7, Sizes
      <4> QED  BY <4>1 DEF uint16
    <3> DEFINE v == WorldAt(game, p)
    <3>3. v \in W
      BY <2>7
    <3> HIDE DEF v
    <3>4. cell = [i \in 1 .. 2 |-> v[i]]
      BY <3>1, <3>2 DEF v
    <3> QED  BY <3>3, <3>4 DEF v
  <2>9. Look(game, p) = Redrawn(game, p)
    BY <2>1, LooksRedrawn DEF p
  <2>10. Redrawn(game, p) = IF cell \in DOMAIN game.cells THEN prefixOf(game.cells[cell]) ELSE Empty
    BY <2>8 DEF Redrawn, p
  <2> QED  BY <2>5, <2>9, <2>10 DEF p
<1> QED  BY <1>1, Invariance, PTL

-----------------------------------------------------------------------------
\* What a step may never do.
LEMMA SameWorld ==
  ASSUME NEW h, InWorld(h), NEW g, Ripe(g), NEW X, Agreeing(h, g, X),
         X \cap {"viewport", "worldSize"} = {}
  PROVE  InWorld(View(g))
<1>1. Agreeing(g, View(g), Screen)
  BY ViewShows
<1>2. g.viewport = h.viewport /\ g.worldSize = h.worldSize
  BY DEF Agreeing, GameFields
<1>3. View(g).viewport = g.viewport /\ View(g).worldSize = g.worldSize
  BY <1>1 DEF Agreeing, GameFields, Screen
<1> QED  BY <1>2, <1>3 DEF InWorld

\* A key moves the viewport within the world, by one wrap at most.
LEMMA KeyInWorld ==
  ASSUME NEW g, Shown(g), InWorld(g), NEW k
  PROVE  InWorld(View(keyPressed(g, k)))
<1> DEFINE h == keyPressed(g, k)
<1>1. IsGame(g) /\ Fielded(g) /\ Ripe(h)
  BY ShownIs, KeyShows
<1>2. CASE k \in MoveKeys /\ h = moveViewport(g, Delta(k))
  <2>1. /\ h.viewport = [i \in 1 .. 2 |-> movedAxis(g.viewport[i], Delta(k)[i], g.worldSize)]
        /\ Agreeing(g, h, Moved)
    BY <1>1, <1>2, MoveFrame
  <2> HIDE DEF h
  <2>2. h.worldSize = g.worldSize /\ g.worldSize = WorldSize /\ WorldSize \in Nat \ {0}
    BY <1>1, <2>1, InWorldIs, Sizes DEF Agreeing, Moved, GameFields
  <2>3. \A i \in 1 .. 2 : h.viewport[i] \in 0 .. WorldSize - 1
    <3> TAKE i \in 1 .. 2
    <3>1. g.viewport[i] \in 0 .. WorldSize - 1 /\ Delta(k)[i] \in -WorldSize .. WorldSize
      BY <1>2, <2>2, Steps DEF InWorld
    <3>2. movedAxis(g.viewport[i], Delta(k)[i], WorldSize) \in 0 .. WorldSize - 1
      BY <2>2, <3>1, OneWrapIsEnough
    <3> QED  BY <2>1, <2>2, <3>2
  <2>4. Agreeing(h, View(h), Screen)
    BY <1>1, ViewShows
  <2>5. View(h).viewport = h.viewport /\ View(h).worldSize = WorldSize
    BY <2>2, <2>4 DEF Agreeing, GameFields, Screen
  <2>6. InWorld(View(h))
    BY <2>2, <2>3, <2>5 DEF InWorld
  <2> QED  BY <2>6 DEF h
<1>3. CASE h = g
  <2>1. Agreeing(g, g, {})
    BY <1>1 DEF Agreeing
  <2> QED  BY <1>1, <1>3, <2>1, SameWorld
<1>4. CASE h = stopPlacing(g)
  <2>1. Agreeing(g, h, {"placing", "dirty"})
    BY <1>1, <1>4, StopFrame
  <2> HIDE DEF h
  <2>2. InWorld(View(h))
    BY <1>1, <2>1, SameWorld
  <2> QED  BY <2>2 DEF h
<1>5. CASE Agreeing(g, h, {"speed", "saving"})
  <2> HIDE DEF h
  <2>1. InWorld(View(h))
    BY <1>1, <1>5, SameWorld
  <2> QED  BY <2>1 DEF h
<1> QED  BY <1>1, <1>2, <1>3, <1>4, <1>5, KeyFrame

LEMMA InWorldStays ==
  ASSUME IInv, [Next]_vars, InWorld(game)
  PROVE  InWorld(game')
<1>1. /\ Shown(game) /\ IsGame(game) /\ Ripe(game) /\ Typed /\ Before
      /\ Agreeing(game, game, {})
  BY ShownIs DEF IInv, Typed, Agreeing
<1> HIDE DEF PatternList, States, Colours
<1>2. CASE game' = View(game)
  BY <1>1, <1>2, SameWorld
<1>3. CASE game' = game
  BY <1>3
<1>4. ASSUME NEW k, key(k) PROVE InWorld(game')
  <2>1. toForeground(k) \/ toGame(k)
    BY <1>4 DEF key
  <2>2. game' = View(game) \/ game' = View(keyPressed(game, k))
    BY <2>1 DEF toForeground, toGame, Show
  <2> QED  BY <1>1, <1>2, <2>2, KeyInWorld
<1>5. CASE quit
  <2>1. game' = View(quitMessage(game))
    BY <1>5 DEF quit, Show
  <2>2. Ripe(quitMessage(game)) /\ Agreeing(game, quitMessage(game), {"conn"})
    BY <1>1, FlagsShow
  <2> QED  BY <2>1, <2>2, SameWorld
<1>6. CASE \E c \in Clicks : mouse(c[1], c[2])
  BY <1>2, <1>6 DEF mouse, Show
<1>7. ASSUME NEW s \in WindowSizes, resize(s) PROVE InWorld(game')
  <2> DEFINE g == windowSize(game, s[1], s[2])
  <2>1. game' = View(g)
    BY <1>7 DEF resize, Show
  <2>2. Ripe(g) /\ Agreeing(game, g, Resized) /\ Resized \cap {"viewport", "worldSize"} = {}
    BY <1>1, WindowShows, WindowFrame DEF Resized, Sizing
  <2> HIDE DEF g
  <2> QED  BY <2>1, <2>2, SameWorld
<1>8. CASE tick
  <2> DEFINE g == tickMsg(game)
             X == {"cells", "running", "speed", "grid", "dirty", "prev", "pending"}
  <2>1. game' = View(g) /\ game.pending # NoData
    BY <1>8 DEF tick, Show
  <2>2. Ripe(g)
    BY <1>1, <2>1, TickShows
  <2>3. Agreeing(game, g, X)
    BY <1>1, <2>1, TickFrame
  <2>4. X \cap {"viewport", "worldSize"} = {}
    OBVIOUS
  <2> HIDE DEF g, X
  <2> QED  BY <2>1, <2>2, <2>3, <2>4, SameWorld
<1>9. ASSUME NEW m \in mail, deliver(m) PROVE InWorld(game')
  <2> DEFINE g == updated(m)
  <2>1. game' = View(g)
    BY <1>9 DEF deliver, Show
  <2>2. Mailed(m)
    BY <1>1 DEF Typed, PostTyped
  <2>3. CASE m.type = "color"
    <3>1. g = colorSelected(game, m.color) /\ m.color \in Colours
      BY <2>2, <2>3 DEF updated, Mailed
    <3>2. Ripe(g) /\ Agreeing(game, g, {"currentColor"})
      BY <1>1, <3>1, FlagsShow
    <3> HIDE DEF g
    <3> QED  BY <2>1, <3>2, SameWorld
  <2>4. CASE m.type = "pattern"
    <3>1. g = patternSelected(game, PatternList[m.number]) /\ m.number \in DOMAIN PatternList
      BY <2>2, <2>4 DEF updated, Mailed
    <3> HIDE DEF g
    <3>2. Ripe(g)
      BY <1>1, <3>1, PatternShows
    <3>3. Agreeing(game, g, {"placing", "pattern", "canPlace", "dirty"})
      BY <1>1, <3>1, PatternFrame
    <3> QED  BY <2>1, <3>2, <3>3, SameWorld
  <2>5. CASE m.type = "connected"
    <3>1. game.worldSize = 0
      BY <2>5 DEF IInv, Before, Waiting
    <3> QED  BY <3>1 DEF InWorld
  <2>6. CASE m.type = "data"
    <3>1. g = cacheData(game, m.data) /\ m.data \in States
      BY <2>2, <2>6 DEF updated, Mailed
    <3>2. Ripe(g) /\ Agreeing(game, g, {"pending"})
      BY <1>1, <3>1, DataShows
    <3> HIDE DEF g
    <3> QED  BY <2>1, <3>2, SameWorld
  <2>7. CASE m.type = "error"
    <3>1. g = wsError(game)
      BY <2>7 DEF updated
    <3>2. Ripe(g) /\ Agreeing(game, g, {"err", "connected"})
      BY <1>1, <3>1, FlagsShow
    <3> HIDE DEF g
    <3> QED  BY <2>1, <3>2, SameWorld
  <2>8. CASE m.type = "saved"
    <3>1. g = saveResult(game, m.ok)
      BY <2>8 DEF updated
    <3>2. Ripe(g) /\ Agreeing(game, g, {"err", "saving"})
      BY <1>1, <3>1, FlagsShow
    <3> HIDE DEF g
    <3> QED  BY <2>1, <3>2, SameWorld
  <2> QED  BY <2>2, <2>3, <2>4, <2>5, <2>6, <2>7, <2>8 DEF Mailed
<1>10. CASE connect \/ listenForMessages \/ saveDone \/ change
  BY <1>3, <1>10 DEF connect, listenForMessages, saveDone, change, ui
<1>11. CASE \E m \in BagToSet(sending) : write(m)
  BY <1>3, <1>11 DEF write, ui
<1>12. CASE UNCHANGED vars
  BY <1>3, <1>12 DEF vars
<1> QED  BY <1>4, <1>5, <1>6, <1>7, <1>8, <1>9, <1>10, <1>11, <1>12, StepCases

\* Once the world's size is known and the viewport lies in the world, no key,
\* message or resize takes it out, so that one wrap is enough everywhere.
THEOREM ViewportStays == Spec => StaysInWorld
<1>1. IInv /\ [Next]_vars => [InWorld(game) => InWorld(game')]_vars
  BY InWorldStays
<1> QED  BY <1>1, Invariance, PTL DEF Spec, StaysInWorld

LEMMA Uint16Is ==
  ASSUME NEW v \in Int
  PROVE  v \div Width16 \in Int /\ uint16(v) \in Int /\ v = Width16 * (v \div Width16) + uint16(v)
<1>1. Width16 \in Nat \ {0}
  BY Sizes
<1> QED  BY <1>1, DivMod DEF uint16

\* The coordinates of the world divide those of uint16, so that a position that
\* wrapped there is the same cell.
LEMMA SameCell ==
  ASSUME NEW a \in Int, NEW c \in Int, NEW v \in Int
  PROVE  (uint16(uint16(a) + c) + v) % WorldSize = (a + c + v) % WorldSize
<1> DEFINE n == Width16
           W == WorldSize
           r == n \div W
           b == uint16(a) + c
           q1 == a \div n
           q2 == b \div n
           k == -(r * (q1 + q2))
<1>1. n \in Nat \ {0} /\ W \in Nat \ {0} /\ r \in Nat /\ n = W * r
  BY Sizes
<1> HIDE DEF n, W, r
<1>2. q1 \in Int /\ uint16(a) \in Int /\ a = n * q1 + uint16(a)
  BY Uint16Is DEF n
<1>3. b \in Int
  BY <1>2
<1> HIDE DEF b, q1
<1>4. q2 \in Int /\ uint16(b) \in Int /\ b = n * q2 + uint16(b)
  BY <1>3, Uint16Is DEF n
<1> HIDE DEF q2
<1>5. uint16(b) = a + c - n * q1 - n * q2
  <2>1. n * q1 \in Int /\ n * q2 \in Int
    BY <1>1, <1>2, <1>4
  <2>2. b = uint16(a) + c
    BY DEF b
  <2> QED  BY <1>2, <1>4, <2>1, <2>2
<1>6. W * k = -(n * q1) - n * q2 /\ k \in Int
  <2> DEFINE s == q1 + q2
  <2>1. s \in Int /\ n * s = n * q1 + n * q2
    BY <1>1, <1>2, <1>4
  <2>2. n * q1 \in Int /\ n * q2 \in Int
    BY <1>1, <1>2, <1>4
  <2> HIDE DEF s
  <2>3. W * (r * s) = n * s /\ r * s \in Int
    BY <1>1, <2>1
  <2> DEFINE t == r * s
  <2> HIDE DEF t
  <2>4. W * (-t) = -(W * t) /\ W * t \in Int /\ -t \in Int
    BY <1>1, <2>3 DEF t
  <2> QED  BY <2>1, <2>2, <2>3, <2>4 DEF s, t
<1> HIDE DEF k
<1>7. uint16(b) + v = (a + c + v) + W * k
  <2>1. n * q1 \in Int /\ n * q2 \in Int
    BY <1>1, <1>2, <1>4
  <2> QED  BY <1>2, <1>4, <1>5, <1>6, <2>1
<1>8. ((a + c + v) + W * k) % W = (a + c + v) % W
  <2> DEFINE e == a + c + v
  <2>1. e \in Int
    OBVIOUS
  <2> HIDE DEF e
  <2>2. (e + W * k) % W = e % W
    BY <1>1, <1>6, <2>1, ModShift
  <2> QED  BY <2>2 DEF e
<1> QED  BY <1>7, <1>8 DEF b, W

\* What is sent of a pattern is the pattern around the middle of the screen,
\* also where its positions are off the screen.
LEMMA PatternCells ==
  ASSUME NEW g, Fielded(g), Sized(g), InWorld(g), g.placing
  PROVE  getPatternCells(g) = Centred(g)
<1> DEFINE cells == ToSet(g.pattern.cells)
           center == g.pattern.center
           a == [i \in 1 .. 2 |-> Middle(g)[i] - center[i]]
           pos(c) == [i \in 1 .. 2 |-> uint16(uint16(Middle(g)[i] - center[i]) + c[i])]
           place(c) == [i \in 1 .. 2 |-> Middle(g)[i] - center[i] + c[i]]
           sent(p) == [i \in 1 .. 2 |-> uint16(viewportToWorld(g, p)[i])]
<1>1. /\ g.width \in Nat \ {0} /\ g.height \in Nat \ {0} /\ Width16 \in Nat \ {0}
      /\ WorldSize \in Nat \ {0} /\ WorldSize <= Width16
  BY Sizes DEF Sized
<1>2. /\ center \in Nat \X Nat /\ cells \subseteq Nat \X Nat
      /\ ToSet(getPatternPositions(g)) = {pos(c) : c \in cells}
  BY <1>1, PositionsTyped
<1>3. g.worldSize = WorldSize /\ \A i \in 1 .. 2 : g.viewport[i] \in 0 .. WorldSize - 1
  BY InWorldIs DEF InWorld
<1>4. getPatternCells(g) = {sent(pos(c)) : c \in cells}
  <2> HIDE DEF cells, pos
  <2> QED  BY <1>2 DEF getPatternCells
<1>5. Centred(g) = {WorldAt(g, place(c)) : c \in cells}
  <2>1. Places(g) = {place(c) : c \in cells}
    BY DEF Places
  <2> HIDE DEF cells, place
  <2> QED  BY <2>1 DEF Centred
<1>6. \A i \in 1 .. 2 : a[i] = Middle(g)[i] - center[i] /\ a[i] \in Int
  <2>1. Middle(g)[1] \in Int /\ Middle(g)[2] \in Int
    BY <1>1 DEF Middle
  <2>2. center[1] \in Int /\ center[2] \in Int
    BY <1>2
  <2> HIDE DEF center
  <2> QED  BY <2>1, <2>2
<1> HIDE DEF cells
<1>7. ASSUME NEW c \in cells, NEW i \in 1 .. 2
      PROVE  sent(pos(c))[i] = WorldAt(g, place(c))[i]
  <2> DEFINE v == g.viewport[i]
             e == c[i]
             b == a[i]
             u == uint16(uint16(b) + e)
             z == u + v
  <2>1. v \in Nat /\ e \in Nat /\ b \in Int
    <3>1. c[1] \in Nat /\ c[2] \in Nat
      BY <1>2
    <3> HIDE DEF a
    <3> QED  BY <1>1, <1>3, <1>6, <3>1
  <2>2. pos(c)[i] = u /\ place(c)[i] = b + e
    <3> HIDE DEF a, center
    <3> QED  BY <1>6
  <2> HIDE DEF b, e, v, pos, place
  <2>3. u \in Nat
    <3>1. uint16(b) \in Int
      BY <2>1, Uint16Typed
    <3> DEFINE s == uint16(b) + e
    <3>2. s \in Int
      BY <2>1, <3>1
    <3> HIDE DEF s
    <3>3. uint16(s) \in 0 .. Width16 - 1
      BY <3>2, Uint16Typed
    <3> QED  BY <1>1, <3>3 DEF s
  <2>4. z % WorldSize = (b + e + v) % WorldSize
    BY <2>1, SameCell
  <2> HIDE DEF u
  <2>5. z \in Nat
    BY <2>1, <2>3
  <2>6. viewportToWorld(g, pos(c))[i] = z % WorldSize
    BY <1>3, <2>2, <2>5 DEF viewportToWorld, rem, v
  <2> HIDE DEF z
  <2> DEFINE r == z % WorldSize
  <2>7. r \in 0 .. Width16 - 1
    BY <1>1, <2>5, DivMod
  <2>8. WorldAt(g, place(c))[i] = r
    BY <2>2, <2>4 DEF WorldAt, v
  <2>9. sent(pos(c))[i] = uint16(r)
    BY <2>6
  <2> HIDE DEF r, sent
  <2>10. r = Width16 * 0 + r
    BY <1>1, <2>7
  <2>11. uint16(r) = r
    BY <1>1, <2>7, <2>10, DivIs DEF uint16
  <2> QED  BY <2>8, <2>9, <2>11
<1>8. \A c \in cells : sent(pos(c)) = WorldAt(g, place(c))
  <2> TAKE c \in cells
  <2>1. sent(pos(c)) = [i \in 1 .. 2 |-> sent(pos(c))[i]]
    OBVIOUS
  <2>2. WorldAt(g, place(c)) = [i \in 1 .. 2 |-> WorldAt(g, place(c))[i]]
    BY DEF WorldAt
  <2> HIDE DEF sent, pos, place
  <2> QED  BY <1>7, <2>1, <2>2
<1> HIDE DEF sent, pos, place
<1> QED  BY <1>4, <1>5, <1>8

\* While a pattern is placed a key sends it, or nothing; what else sends, a
\* click, leaves the pattern where it is.
LEMMA KeyPlaces ==
  ASSUME Typed, Before, NEW k, key(k), game.placing, InWorld(game), sends' > sends
  PROVE  \E m \in BagToSet(sending') : m.type = "SetCells" /\ m.cells = Centred(game)
<1>1. /\ Shown(game) /\ PostTyped /\ FlagsTyped /\ Fielded(game) /\ Sized(game)
  BY ShownIs DEF Typed, Shown, Viewed
<1> HIDE DEF PatternList, Colours
<1>2. sends \in Nat
  BY <1>1 DEF FlagsTyped
<1>3. ~toForeground(k)
  BY <1>2 DEF toForeground
<1> DEFINE S == keySends(game, k)
           m == [type |-> "SetCells", cells |-> getPatternCells(game), colour |-> game.currentColor]
<1>4. Send(S)
  BY <1>3 DEF key, toGame
<1>5. S = {} \/ S = {m}
  BY DEF keySends
<1>6. m.type = "SetCells" /\ m.cells = Centred(game)
  BY <1>1, PatternCells
<1> HIDE DEF S, m
<1>7. sends' = sends + Cardinality(S) /\ sending' = sending (+) SetToBag(S)
  BY <1>4 DEF Send
<1>8. S # {}
  BY <1>2, <1>7, FS_EmptySet
<1>9. BagToSet(sending') = BagToSet(sending) \cup S
  BY <1>1, <1>7, BagMore DEF PostTyped
<1> QED  BY <1>5, <1>6, <1>8, <1>9

LEMMA PlacedWhole ==
  ASSUME IInv, [Next]_vars, game.placing, ~game'.placing, sends' > sends, InWorld(game)
  PROVE  \E m \in BagToSet(sending') : m.type = "SetCells" /\ m.cells = Centred(game)
<1>1. Typed /\ Before /\ Shown(game) /\ Ripe(game) /\ sends \in Nat
  BY ShownIs DEF IInv, Typed, FlagsTyped
<1> HIDE DEF PatternList, States, Colours
<1>2. sends' # sends
  BY <1>1
<1>3. ASSUME NEW k, key(k) PROVE \E m \in BagToSet(sending') : m.type = "SetCells" /\ m.cells = Centred(game)
  BY <1>1, <1>3, KeyPlaces
<1>4. ~quit /\ ~(\E s \in WindowSizes : resize(s)) /\ ~tick /\ ~(\E m \in mail : deliver(m))
  BY <1>2 DEF quit, resize, tick, deliver, bounds
<1>5. ~(\E c \in Clicks : mouse(c[1], c[2]))
  <2> SUFFICES ASSUME NEW c \in Clicks, mouse(c[1], c[2]) PROVE FALSE
    OBVIOUS
  <2>1. game' = View(game)
    BY DEF mouse, Show
  <2>2. Agreeing(game, View(game), Screen)
    BY <1>1, ViewShows
  <2>3. View(game).placing = game.placing
    BY <2>2 DEF Agreeing, GameFields, Screen
  <2> QED  BY <2>1, <2>3
<1>6. ~connect /\ ~listenForMessages /\ ~saveDone /\ ~change
  BY <1>2 DEF connect, listenForMessages, saveDone, change, bounds
<1>7. ~(\E m \in BagToSet(sending) : write(m))
  BY <1>2 DEF write, bounds
<1>8. ~UNCHANGED vars
  BY <1>2 DEF vars
<1> QED  BY <1>3, <1>4, <1>5, <1>6, <1>7, <1>8, StepCases

\* A pattern that is placed is sent whole, as the cells around the middle of the
\* screen, wherever its positions wrap as numbers of 16 bits.
THEOREM PatternWhole == Spec => PatternIsPlacedWhole
<1>1. IInv /\ [Next]_vars =>
          [game.placing /\ ~game'.placing /\ sends' > sends /\ InWorld(game)
               => \E m \in BagToSet(sending') : m.type = "SetCells" /\ m.cells = Centred(game)]_vars
  BY PlacedWhole
<1> QED  BY <1>1, Invariance, PTL DEF Spec, PatternIsPlacedWhole

=============================================================================

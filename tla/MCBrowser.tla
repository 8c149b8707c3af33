----------------------------- MODULE MCBrowser -----------------------------
(***************************************************************************)
(* Instances of Browser for TLC: a 4x4 torus on a canvas of a few pixels,  *)
(* offsets of half a pixel, and users of whom each does something else.    *)
(***************************************************************************)
EXTENDS Browser, TLC

Cell(x, y, c) == [x |-> x, y |-> y, colour |-> c, age |-> 1]

TwoWorlds == {<<Cell(0, 0, 1), Cell(3, 1, 2), Cell(2, 3, 3), Cell(1, 2, 2)>>, <<Cell(0, 0, 2)>>}

\* |O.|
\* |OO|
Corner == << <<TRUE, FALSE>>, <<TRUE, TRUE>> >>
OnePicture == <<Corner>>

Mover == [does |-> {"drag", "zoom"}, cellSizes |-> {1, 2}]
Resizer == [does |-> {"drag", "resize", "watch"}, cellSizes |-> {1, 2}]
Placer == [does |-> {"cell", "pattern", "command", "speed", "zoom", "disconnect"},
           cellSizes |-> {1, 2, 49}]
AllUsers == {Mover, Resizer, Placer}

\* 49 is the least cell size whose inverse is rounded so that it shows; the
\* quotients are those of IEEE 754 that occur on a torus of 4.
ThreeSizes == {1, 2, 49}
Of49 == {49} \X {1, 2, 3, 4}
Canvases == {<<3, 2>>, <<5, 1>>}
SomeDrags == {<<2, 0>>, <<-1, 3>>}
SomeMice == {<<-1, -1>>, <<1, 0>>}

=============================================================================

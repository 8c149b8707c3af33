----------------------------- MODULE MCTerminal -----------------------------
(***************************************************************************)
(* Instances of Terminal for TLC: a 4x4 torus, a uint16 of 16 values, two  *)
(* worlds, and users who each press some of the keys.                      *)
(***************************************************************************)
EXTENDS Terminal, TLC

Bright == <<2, 2, 2>>
Red == <<2, 0, 0>>

TwoWorlds == {(<<0, 0>> :> Bright) @@ (<<3, 0>> :> Red) @@ (<<1, 2>> :> Red),
              (<<0, 0>> :> Red) @@ (<<2, 2>> :> Red)}

\* |O.|
\* |OO|  and a column of three.
Corner == << <<TRUE, FALSE>>, <<TRUE, TRUE>> >>
Column == << <<TRUE>>, <<TRUE>>, <<TRUE>> >>
TwoPictures == <<Corner, Column>>

Does(keys, dials, s, c) == [does |-> keys, dials |-> dials, sends |-> s, changes |-> c]

Mover == Does({"l", "K", "resize"}, {TRUE, FALSE}, 0, 0)
Placer == Does({"ctrl+n", "j", "enter", "esc"}, {TRUE}, 1, 1)
Operator == Does({" ", "S", "s", "n", "x", "r", "q"}, {TRUE, FALSE}, 2, 1)
Saver == Does({"ctrl+s", "q"}, {TRUE}, 2, 0)
Painter == Does({"ctrl+p", "H", "enter", "esc", "mouse"}, {TRUE}, 1, 0)
Chooser == Does({"ctrl+p", "ctrl+n", "?", "j", "k", "H", "h", "l"}, {FALSE}, 0, 0)
AllUsers == {Mover, Placer, Operator, Saver, Painter, Chooser}

TwoClicks == {<<1, 3>>, <<4, 2>>}
TwoSizes == {<<6, 7>>, <<5, 8>>}

=============================================================================

------------------------------ MODULE MCConway ------------------------------
(***************************************************************************)
(* Instances of Conway for TLC.  A 4x4 torus is the smallest one on which  *)
(* the nine cells of a block are distinct and do not fill the world.       *)
(***************************************************************************)
EXTENDS Conway

\* Three cells of the block around the corner where the torus wraps.
Corner == {AxisLength - 1, 0, 1} \X {AxisLength - 1, 0, 1}
Triples == {S \in SUBSET Corner : <<0, 0>> \in S /\ Cardinality(S) = 3}

OneEdit == {{<<1, 1>>, <<3, 3>>}}
OneDot == {{<<2, 2>>}}
Young == {0}

Bytes == {0, 1}
BlackAndWhite == {<<0, 0, 0>>, <<1, 1, 1>>}

=============================================================================

------------------------------ MODULE MCSystem ------------------------------
(***************************************************************************)
(* Instances of System for TLC: contents that use all of an output's       *)
(* fields, the first of them that of an empty database.                    *)
(***************************************************************************)
EXTENDS System, TLC

Output2 == [playing |-> TRUE, speed |-> 1000, count |-> 2,
            cells |-> <<[x |-> 0, y |-> 511, colour |-> 16711680, age |-> 300],
                        [x |-> 300, y |-> 1, colour |-> 255, age |-> 0]>>]

TwoContents == <<Defaults, Output2>>

=============================================================================

------------------------------ MODULE Service ------------------------------
(***************************************************************************)
(* What the server as a whole promises: one world that only goes forward   *)
(* while the process lives, clients that are shown it in order, a seed     *)
(* that is one of the worlds there were, and a restart from the seed.  A   *)
(* save that no other save overlapped is kept: the seed never falls behind *)
(* it, whatever is saved later and however often the process stops.        *)
(* Worlds are numbered as in module Server.                                *)
(***************************************************************************)
EXTENDS Integers

CONSTANTS Conns

VARIABLES current,   \* the newest world
          shown,     \* the newest world a client was shown
          seed,      \* the saved world, 0 if there is none
          kept       \* the newest world saved for certain

vars == <<current, shown, seed, kept>>

NothingShown == [c \in Conns |-> 0]

Init == current = 1 /\ shown = NothingShown /\ seed = 0 /\ kept = 0

Change == current' = current + 1 /\ UNCHANGED <<shown, seed, kept>>

Show(c) == /\ \E n \in shown[c] .. current : shown' = [shown EXCEPT ![c] = n]
           /\ UNCHANGED <<current, seed, kept>>

Save == /\ seed' \in kept .. current
        /\ kept' \in {kept, seed'}
        /\ UNCHANGED <<current, shown>>

\* The process ends, and what comes next begins with the seed.
Stop == /\ current' = IF seed = 0 THEN 1 ELSE seed
        /\ shown' = NothingShown
        /\ kept' = seed
        /\ UNCHANGED seed

Next == Change \/ (\E c \in Conns : Show(c)) \/ Save \/ Stop

Spec == Init /\ [][Next]_vars

=============================================================================

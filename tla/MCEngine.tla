------------------------------ MODULE MCEngine ------------------------------
(***************************************************************************)
(* Instances of Engine for TLC.                                            *)
(***************************************************************************)
EXTENDS Engine, TLC

OneSpeed == {1}
TwoSpeeds == {1, 2}
WithZero == {0, 1}

\* Clear and Randomise are handled as SetCells is; Unknown is one of the Rivals.
AllTypes == {"SetCells", "Next", "Pause", "Play", "SetSpeed"}
WorldTypes == {"Next", "SetCells", "Pause", "Play"}
\* Messages with which the clients take the mutex without end: the revision is
\* bounded by 0, so that nothing they do runs out.
Rivals == {"SetCells", "Unknown", "Pause", "Play"}
OnlySetSpeed == {"SetSpeed"}

Symmetry == Permutations(Clients)

=============================================================================

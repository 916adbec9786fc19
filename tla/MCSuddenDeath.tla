--------------------------- MODULE MCSuddenDeath ----------------------------
(***************************************************************************)
(* Bounded instances of SuddenDeath for TLC.                               *)
(***************************************************************************)
EXTENDS SuddenDeath, TLC

CONSTANTS p1, p2, t1, t2

MCPlayers == {p1, p2}
MCTeams   == {t1, t2}

Symmetry == Permutations(MCPlayers)

=============================================================================

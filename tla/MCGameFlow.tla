----------------------------- MODULE MCGameFlow -----------------------------
(***************************************************************************)
(* Bounded instances of GameFlow for TLC.                                 *)
(***************************************************************************)
EXTENDS GameFlow, TLC

CONSTANTS p1, p2, t1, t2

MCPlayers == {p1, p2}
MCTeams   == {t1, t2}

Symmetry == Permutations(MCPlayers) \cup Permutations(MCTeams)

=============================================================================

------------------------------ MODULE MCRound2 ------------------------------
(***************************************************************************)
(* Bounded instances of Round2 for TLC.                                    *)
(***************************************************************************)
EXTENDS Round2, TLC

CONSTANTS p1, p2, t1, t2

MCPlayers == {p1, p2}
MCTeams   == {t1, t2}

Symmetry == Permutations(MCPlayers)

=============================================================================

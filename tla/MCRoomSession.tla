---------------------------- MODULE MCRoomSession ---------------------------
(***************************************************************************)
(* Bounded instances of RoomSession for TLC.                               *)
(***************************************************************************)
EXTENDS RoomSession, TLC

CONSTANTS p1, p2, ta, tb, c1, c2, c3

MCPlayers == {p1, p2}
MCTeams   == {ta, tb, TeamC}
MCConns   == {c1, c2, c3}

Symmetry == Permutations(MCPlayers) \cup Permutations(MCConns) \cup Permutations({ta, tb})

\* The game goes no further than its first phase, where it can already be
\* paused and have active players; whose turn it is is left out.
FirstPhase == phase \in {"TEAM_LOCK", "ROUND_INTRO", "PAUSED"} /\ turn = NoTurn

=============================================================================

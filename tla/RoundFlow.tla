------------------------------- MODULE RoundFlow -------------------------------
(***************************************************************************)
(* What a round's module takes from the game flow.  The rounds keep their  *)
(* own windows and name their own active players, so the server timer, the *)
(* turn and the Host's choice of active players are left alone here; all   *)
(* else the Host may do to a game stays free around the round.             *)
(***************************************************************************)
EXTENDS GameFlow, Windows

HostMoves ==
    \/ \E to \in Phases : AdvancePhase(to)
    \/ PrepareChallenge
    \/ StartChallenge
    \/ RequestReview
    \/ ResolveChallenge
    \/ \E p \in Players : RemoveMember(p)

GamePauses == HostPause \/ \E p \in Players : ActivePlayerDisconnect(p)

\* The engine drops whoever has left their team since.
MembersOf(ps) == ps \cap UNION {members[t] : t \in Teams}

\* One handler's prepare and start of a challenge, on from where the phase is.
\* Whatever comes after it, this much is kept.
PreparesAndStarts ==
    /\ Running
    /\ NoOpenChallenge
    /\ challenge.id < MaxChallenges
    /\ phase = "CHALLENGE_INTRO" \/ IsLegalTransition(phase, "CHALLENGE_INTRO")
    /\ challenge' = [id |-> challenge.id + 1, status |-> "active"]
    /\ phase' = "ACTIVE_PLAY"
    /\ resumePhase' = NoPhase
    /\ turn' = NoTurn
    /\ CancelTheTimer
    /\ UNCHANGED <<now, started, roundIndex, members, settlements, pausedBy>>

=============================================================================

---------------------------- MODULE MCCardsClash ----------------------------
(***************************************************************************)
(* Bounded instances of CardsClash for TLC: a hand in which every card can *)
(* be played, and one kind of challenge that takes them all.               *)
(***************************************************************************)
EXTENDS CardsClash

CONSTANTS p1, p2, p3, t1, t2, t3

TwoPlayers   == {p1, p2}
ThreePlayers == {p1, p2, p3}
TwoTeams     == {t1, t2}
ThreeTeams   == {t1, t2, t3}
MCHands   == {[DISRUPTION |-> "STEUPS", POWER |-> "DOUBLE_IT", RECOVERY |-> "FORGIVE_MEH"]}

\* Bound: a card that needs no target carries none.
IdleTargets ==
    \A p \in clash.plays : hand[p.team][p.category] \notin RequiresTarget => p.target = None

\* Bound: the game stays where a challenge is played.
ShortGame ==
    phase \in {"TEAM_LOCK", "ROUND_INTRO", "CHALLENGE_INTRO", "ACTIVE_PLAY"}

\* The teams are alike: the first to play is t1, t2 plays before t3,
\* and it is not t3 that draws the immunity.
PlaysInOrder == /\ played # {} => t1 \in played
                /\ t3 \in played => t2 \in played
                /\ t3 \notin immune

=============================================================================

------------------------------ MODULE MCRound3 ------------------------------
(***************************************************************************)
(* Bounded instances of Round3 for TLC.                                    *)
(***************************************************************************)
EXTENDS Round3

CONSTANTS p1, p2, p3, t1, t2, t3

ThreePlayers == {p1, p2, p3}
ThreeTeams == {t1, t2, t3}

ThinkFast == [format |-> "elimination", mode |-> "single", windowMs |-> 0]
Stream == [format |-> "points", mode |-> "stream", windowMs |-> 1]
MCContests == <<ThinkFast, Stream, Stream>>
MCItems == <<1, 2, 1>>

\* One player to a team, for good, and the teams named as they rank.
OneEach == members = [t \in Teams |-> CASE t = t1 -> {p1} [] t = t2 -> {p2} [] OTHER -> {p3}]

AsRanked == order \in {<<>>, <<t1, t2, t3>>}

\* Before the round the Host only goes to it; nobody but the Host pauses, and
\* the game stays in the round.
ShortGame ==
    /\ ~Begun => phase \in {"TEAM_LOCK", "ROUND_INTRO"}
    /\ {phase, resumePhase} \cap {"ROUND_COMPLETE", "SUDDEN_DEATH", "GAME_OVER", "MARKET"} = {}
    /\ pausedBy = None

\* Think Fast is won by the first team, at once or as the last one left, and
\* its topic is there.
FirstContest ==
    /\ challenge.id > 0 => Begun
    /\ slots[1].progress = "resolved" =>
           /\ slots[1].winner = t1 /\ slots[1].at = 0
           /\ slots[1].shown = 1 /\ slots[1].out \in {{}, {t2, t3}}

\* In the second contest the Host does everything in any order; it counts at
\* most one point, and none in the end.
SecondContest ==
    /\ slots[2].score \in [Teams -> 0..1] /\ slots[2].score[t2] + slots[2].score[t3] = 0
    /\ slots[2].progress = "resolved" => slots[2].shown = 1

\* Outside the second contest nothing is reviewed, and the third has no point.
ElsewherePlain ==
    LET at(n) == Cardinality(Unresolved) = 4 - n IN
    /\ ~at(2) => challenge.status # "awaiting_host"
    /\ slots[3].score = [t \in Teams |-> 0]
    /\ Complete => phase \in {"RESULT", "PAUSED"} /\ challenge.status = "resolved"

=============================================================================

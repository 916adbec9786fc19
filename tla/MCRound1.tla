------------------------------ MODULE MCRound1 ------------------------------
(***************************************************************************)
(* Bounded instances of Round1 for TLC.                                    *)
(***************************************************************************)
EXTENDS Round1

CONSTANTS p1, p2, p3, t1, t2, t3

ThreePlayers == {p1, p2, p3}
ThreeTeams == {t1, t2, t3}
MCDifficulties == {"EASY"}
MCDifficultyOf == [q \in 1..Questions |-> "EASY"]
MCAccepted == {"Ford", "Henry Ford"}
MCValue == [d \in MCDifficulties |-> 1]

\* One player to a team, for good.
OneEach == members = [t \in Teams |-> CASE t = t1 -> {p1} [] t = t2 -> {p2} [] OTHER -> {p3}]

Untouched(s, t) == t \in DOMAIN s.answers => s.answers[t] = FreshAnswer

RuledAsSent(s, t) ==
    t \in DOMAIN s.answers => LET a == s.answers[t] IN
        /\ a.sub # "fort" /\ ~a.retryOpen /\ a.retryRuling = Unruled
        /\ a.sub = NoAnswer => a.ruling = Unruled

\* The first team does everything the round allows; the second leaves
\* the judge nothing, is given no retry and is ruled only on what it sent; the third only
\* plays the tiebreak, and there like the second.
OneTeamDoesItAll ==
    /\ RuledAsSent(question, t2) /\ RuledAsSent(attempt, t2)
    /\ question.phase # "revealed" => Untouched(question, t3)
    /\ RuledAsSent(attempt, t3)
    /\ maco.viewer \in {None, p2}

\* A retry is ruled only once it is given, and the answer it replaces no more;
\* it is sent once the judge is done with that answer;
\* only the first team may be doubled.
RetriesInOrder ==
    /\ LET a == question.answers[t1] IN
           /\ a.retryRuling # Unruled => a.retryOpen
           /\ a.retryOpen => a.ruling = "INCORRECT"
           /\ a.retrySub # NoAnswer => \A k \in judging \cup KeysOf(verdicts) : k.retry
    /\ question.answers[t2].awarded < 2

\* Before the question the Host does nothing but start it, with it not go
\* past its result; nobody but the Host pauses.
ShortGame ==
    /\ question.no = 0 => phase \in {"TEAM_LOCK", "ROUND_INTRO"}
    /\ question.no > 0 => {phase, resumePhase} \subseteq
                              {"ACTIVE_PLAY", "HOST_REVIEW", "RESULT", "PAUSED", NoPhase}
    /\ question.phase = "revealed" => phase \in {"RESULT", "PAUSED"}
    /\ pausedBy = None

\* The tiebreak is of all three, nobody having answered, or of the two that
\* were right at once; its items are taken in it.
PlainTie ==
    /\ r1Phase = "tiebreak" =>
           LET as == {question.answers[t] : t \in {t1, t2}} IN
               \/ as = {FreshAnswer}
               \/ as = {[FreshAnswer EXCEPT !.sub = "Hnery Ford", !.ruling = "CORRECT",
                                            !.awarded = 1]}
    /\ drawn > 0 => r1Phase \in {"tiebreak", "complete"}

=============================================================================

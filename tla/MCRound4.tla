------------------------------ MODULE MCRound4 ------------------------------
(***************************************************************************)
(* Bounded instances of Round4 for TLC.                                    *)
(***************************************************************************)
EXTENDS Round4

CONSTANTS p1, p2, p3, t1, t2, t3

ThreePlayers == {p1, p2, p3}
ThreeTeams == {t1, t2, t3}
MCRanks == {1, 2}
MCValue == <<2, 1>>
MCDoubled == {2}

\* Two answers one letter apart, one of them with a variant, and texts that are
\* an answer, a slip from it, a slip from both, and too short to forgive.
MCForms == <<{"house"}, {"horse", "Fort"}>>
MCTexts == {"The House", "horse", "huose", "hoise", "ford"}

\* One player to a team, for good, and the teams named as they rank.
OneEach == members = [t \in Teams |-> CASE t = t1 -> {p1} [] t = t2 -> {p2} [] OTHER -> {p3}]

AsRanked == standings \in {<<>>, <<t1, t2, t3>>}

\* Before the round the Host only goes to it, and after a result to the next
\* survey; nobody but the Host pauses.
ShortGame ==
    /\ dealt = 0 => phase \in {"TEAM_LOCK", "ROUND_INTRO"}
    /\ {phase, resumePhase} \cap {"ROUND_COMPLETE", "SUDDEN_DEATH", "GAME_OVER", "MARKET"} = {}
    /\ pausedBy = None

\* In the first survey the second team buzzes; a retry is its alone; one answer
\* is taken back, from the team that gave it.
FirstSurveyBounds ==
    /\ survey.faceoff.buzzed \in {None, t2}
    /\ owed \subseteq {t2} /\ (owed # {} => survey.progress = "board_play")
    /\ \A r \in Ranks : survey.barred[r] \in {None, survey.board.holder}
    /\ survey.barred[1] # None => survey.barred[2] = None
    /\ survey.progress = "resolved" =>
           survey.board.window = NoWindow /\ survey.steal.window = NoWindow

\* Every later survey is won without a miss or a pause, for whoever it may.
LaterSurveysArePlain ==
    survey.no > 1 =>
        /\ ~Paused /\ dealt = survey.no /\ challenge.id = survey.challenge
        /\ phase \in {"ACTIVE_PLAY", "RESULT"} /\ challenge.status # "awaiting_host"
        /\ survey.faceoff.status \notin {"opponent_chance"}
        /\ survey.board.strikes = 0 /\ survey.board.window = NoWindow
        /\ survey.faceoff.window # OpenWindow(0)
        /\ owed = {} /\ \A r \in Ranks : survey.barred[r] = None

=============================================================================

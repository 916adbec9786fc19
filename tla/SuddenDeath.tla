---------------------------- MODULE SuddenDeath -----------------------------
(***************************************************************************)
(* Sudden Death (game-rules/sudden-death.ts) in the game that runs it: the *)
(* engine methods of game-engine.ts around it, the room's tick that rules  *)
(* an answer nobody gave in time, and every other intent of GameFlow,      *)
(* which the Host can still send while a face-off is open.                 *)
(***************************************************************************)
EXTENDS GameFlow, Sequences

CONSTANT AnswerMs   \* SUDDEN_DEATH_ANSWER_MS

ASSUME SuddenDeathAssumption == AnswerMs \in Nat \ {0}

VARIABLES
    sdTeams,    \* #participantTeamIds, <<>> until Sudden Death begins
    streak,     \* #streaks
    faceoff,    \* #current, its status "none" before the first
    answer,     \* #current.answerDeadline, NoTimer for null
    sdWinner    \* #winnerTeamId; #complete is sdWinner # None

sdVars == <<sdTeams, streak, faceoff, answer, sdWinner>>
allSDVars == <<vars, sdVars>>

FaceoffStatuses == {"none", "reading", "buzzed", "decided"}
Contestants == {sdTeams[i] : i \in DOMAIN sdTeams}

SDTypeOK ==
    /\ sdTeams \in {<<>>} \cup (Teams \X Teams)
    /\ streak \in [Teams -> Nat]
    /\ faceoff \in [status : FaceoffStatuses, buzzed : Teams \cup {None},
                    winner : Teams \cup {None}, noDecision : BOOLEAN]
    /\ answer \in Deadlines /\ WellFormed(now, answer)
    /\ answer # NoTimer => answer.durationMs > 0
    /\ sdWinner \in Teams \cup {None}

SDInit ==
    /\ Init
    /\ sdTeams = <<>>
    /\ streak = [t \in Teams |-> 0]
    /\ faceoff = [status |-> "none", buzzed |-> None, winner |-> None, noDecision |-> FALSE]
    /\ answer = NoTimer
    /\ sdWinner = None

-----------------------------------------------------------------------------
(* Beginning: #walkPhaseToRoundComplete hops along Path to ROUND_COMPLETE, *)
(* and one advance more enters SUDDEN_DEATH.                               *)

Path == [BOOT            |-> NoPhase,
         LOBBY           |-> NoPhase,
         TEAM_LOCK       |-> NoPhase,
         ROUND_INTRO     |-> "CHALLENGE_INTRO",
         MARKET          |-> "CHALLENGE_INTRO",
         CHALLENGE_INTRO |-> "ACTIVE_PLAY",
         ACTIVE_PLAY     |-> "RESULT",
         HOST_REVIEW     |-> "RESULT",
         RESULT          |-> "ROUND_COMPLETE",
         ROUND_COMPLETE  |-> NoPhase,
         SUDDEN_DEATH    |-> NoPhase,
         PAUSED          |-> NoPhase,
         GAME_OVER       |-> NoPhase]

CanWalkToRoundComplete == phase = "ROUND_COMPLETE" \/ Path[phase] # NoPhase

\* Nothing asks that a and b differ, and the walk leaves the challenge, the
\* timer, the turn and the active players as they were.
BeginSuddenDeath(a, b) ==
    /\ Running
    /\ sdTeams = <<>>
    /\ CanWalkToRoundComplete
    /\ phase' = "SUDDEN_DEATH"
    /\ resumePhase' = NoPhase
    /\ sdTeams' = <<a, b>>
    /\ UNCHANGED <<now, started, roundIndex, playVars, pausedBy, timerVars,
                   streak, faceoff, answer, sdWinner>>

-----------------------------------------------------------------------------
(* A face-off. *)

\* A slip the checks must catch: a face-off after the contest is over.
NoFaceoffOpen == sdTeams # <<>> /\ faceoff.status \in {"none", "decided"}

FaceoffMayStart == NoFaceoffOpen /\ sdWinner = None

StartFaceoff ==
    /\ Running
    /\ FaceoffMayStart
    /\ faceoff' = [status |-> "reading", buzzed |-> None, winner |-> None, noDecision |-> FALSE]
    /\ answer' = NoTimer
    /\ active' = UNION {members[t] : t \in Contestants}
    /\ UNCHANGED <<now, flowVars, members, challenge, settlements, turn, pausedBy, timerVars,
                   sdTeams, streak, sdWinner>>

Buzz(t) ==
    /\ Running
    /\ faceoff.status = "reading"
    /\ t \in Contestants
    /\ faceoff' = [faceoff EXCEPT !.status = "buzzed", !.buzzed = t]
    /\ answer' = StartDeadline(now, AnswerMs)
    /\ UNCHANGED <<vars, sdTeams, streak, sdWinner>>

\* A slip the checks must catch: a streak that survives a loss.
BumpKeepsLoser(winner, loser) == [streak EXCEPT ![winner] = @ + 1]

\* #bumpStreak.
BumpStreak(winner, loser) == [streak EXCEPT ![winner] = streak[winner] + 1, ![loser] = 0]

\* ruleFaceoffAnswer once a winner is known, and ruleSuddenDeathAnswer's
\* advance to GAME_OVER, whose refusal is ignored.
Decide(winner, loser) ==
    /\ faceoff' = [faceoff EXCEPT !.status = "decided", !.winner = winner]
    /\ streak' = BumpStreak(winner, loser)
    /\ active' = {}
    /\ IF streak'[winner] >= 2
       THEN sdWinner' = winner /\ TryMoveTo("GAME_OVER")
       ELSE UNCHANGED <<sdWinner, phase, resumePhase>>

\* The answer of the team that buzzed is ruled: by the board, by the Host, or
\* by the tick as wrong.  Anything but the top answer wins it for the other
\* team.  Without another team the call is refused after the face-off was
\* marked decided.
RuleAnswer(correct) ==
    /\ Running
    /\ faceoff.status = "buzzed"
    /\ answer' = NoTimer
    /\ IF Contestants = {faceoff.buzzed}
       THEN /\ faceoff' = [faceoff EXCEPT !.status = "decided"]
            /\ UNCHANGED <<streak, active, sdWinner, phase, resumePhase>>
       ELSE \E other \in Contestants \ {faceoff.buzzed} :
               IF correct THEN Decide(faceoff.buzzed, other)
                          ELSE Decide(other, faceoff.buzzed)
    /\ UNCHANGED <<now, started, roundIndex, members, challenge, settlements, turn, pausedBy,
                   timerVars, sdTeams>>

\* #pollSuddenDeathTimers.
AnswerDue == answer # NoTimer /\ HasExpired(now, answer)

\* A slip the checks must catch: the tick looks only while the phase is on.
AnswerTimeoutOnStage == AnswerDue /\ phase = "SUDDEN_DEATH" /\ RuleAnswer(FALSE)

AnswerTimeout == AnswerDue /\ RuleAnswer(FALSE)

\* Any face-off will do, a decided one included.
RecordNoDecision ==
    /\ Running
    /\ faceoff.status # "none"
    /\ faceoff' = [faceoff EXCEPT !.status = "decided", !.noDecision = TRUE]
    /\ answer' = NoTimer
    /\ active' = {}
    /\ UNCHANGED <<now, flowVars, members, challenge, settlements, turn, pausedBy, timerVars,
                   sdTeams, streak, sdWinner>>

-----------------------------------------------------------------------------
(* The game around it.  Pausing and resuming reach the answer deadline.    *)

PauseTheAnswer ==
    answer' = IF answer = NoTimer THEN answer ELSE PauseDeadline(now, answer)

ResumeTheAnswer ==
    answer' = IF answer = NoTimer THEN answer ELSE ResumeDeadline(now, answer)

SDPause ==
    /\ HostPause \/ \E p \in Players : ActivePlayerDisconnect(p)
    /\ PauseTheAnswer
    /\ UNCHANGED <<sdTeams, streak, faceoff, sdWinner>>

SDResume ==
    /\ Resume
    /\ ResumeTheAnswer
    /\ UNCHANGED <<sdTeams, streak, faceoff, sdWinner>>

\* Every other step of the game.
FlowStep ==
    /\ \/ StartGame
       \/ \E to \in Phases : AdvancePhase(to)
       \/ PrepareChallenge
       \/ StartChallenge
       \/ RequestReview
       \/ ResolveChallenge
       \/ \E t \in Teams \cup {None}, p \in Players \cup {None} : SetTurn(t, p)
       \/ \E ps \in SUBSET Players : SetActivePlayers(ps)
       \/ \E p \in Players : RemoveMember(p)
       \/ \E d \in Durations : StartTimer(d)
       \/ CancelTimer
       \/ UseExtraTime
       \/ PollTimerExpiry
       \/ ClockTick
    /\ UNCHANGED sdVars

SDNext ==
    \/ \E a, b \in Teams : BeginSuddenDeath(a, b)
    \/ StartFaceoff
    \/ \E t \in Teams : Buzz(t)
    \/ \E correct \in BOOLEAN : RuleAnswer(correct)
    \/ AnswerTimeout
    \/ RecordNoDecision
    \/ SDPause
    \/ SDResume
    \/ FlowStep

SDSpec == SDInit /\ [][SDNext]_allSDVars

\* The 250 ms tick polls the timer and the answer deadline; people are free.
FairSDSpec == SDSpec /\ WF_allSDVars(AnswerTimeout)
                     /\ WF_allSDVars(PollTimerExpiry /\ UNCHANGED sdVars)

-----------------------------------------------------------------------------
(* Properties. *)

\* The answer window exists exactly while an answer is awaited, runs while
\* the game runs and stands while it is paused: no pause, however timed, eats
\* a team's three seconds or gives it more (pauseTimers, resumeTimers).
AnswerWindowFollowsPause ==
    /\ answer # NoTimer <=> faceoff.status = "buzzed"
    /\ answer # NoTimer => (IsPaused(answer) <=> Paused)

\* Streaks are what decides: at most one team is on one, it is the team that
\* won the last decided face-off, and the contest is over exactly when a
\* streak reaches two (#bumpStreak, #checkForOverallWinner).
StreaksDecide ==
    /\ \A s, t \in Teams : streak[s] > 0 /\ streak[t] > 0 => s = t
    /\ \A t \in Teams : streak[t] <= 2
    /\ \A t \in Teams : streak[t] = 2 <=> sdWinner = t
    /\ faceoff.winner # None => streak[faceoff.winner] > 0
    /\ sdWinner # None => faceoff.status = "decided"

\* Whatever the Host, the tick and the overlay do, the contest is one of
\* face-offs won one at a time and decided by two in a row.
LastWinner == IF \E t \in Teams : streak[t] > 0
              THEN CHOOSE t \in Teams : streak[t] > 0
              ELSE None

Contest == INSTANCE TwoInARow WITH lastWinner <- LastWinner, champion <- sdWinner

ImplementsTwoInARow == Contest!TSpec

\* A team that buzzes and says nothing does not hold the face-off open: its
\* answer is ruled, or the game is paused meanwhile (#pollSuddenDeathTimers).
SilenceIsRuled == (AnswerDue /\ ~Paused) ~> (faceoff.status # "buzzed" \/ Paused)

\* What holds of the contest between any two steps: well-formed, its answer
\* window tied to the pause, and decided by the streaks and nothing else.
ContestIsSound == SDTypeOK /\ AnswerWindowFollowsPause /\ StreaksDecide

=============================================================================

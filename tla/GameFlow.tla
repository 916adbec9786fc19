------------------------------ MODULE GameFlow ------------------------------
(***************************************************************************)
(* The game engine's flow: the phase machine of protocol/lifecycle.ts and  *)
(* game-rules/transitions.ts, the current challenge, turn and active       *)
(* players of game-engine.ts, and the one server timer of timer-service.ts *)
(* that the pause overlay freezes.                                         *)
(*                                                                         *)
(* One action is one engine method, called from one intent of the Host,    *)
(* from a socket closing, or from the room's 250 ms tick.  The engine runs *)
(* on one thread and awaits nothing, so a method is atomic; the order in   *)
(* which they arrive is what is free.  A refused call changes nothing and  *)
(* is not an action.  The room polls the timer before it evaluates an      *)
(* intent, and the method then reads the clock again: a timer may fall due *)
(* between the two, so intents are not guarded by the timer not being due. *)
(*                                                                         *)
(* Not kept here: what a phase change does to the Market and advantages,   *)
(* to cards and Clashes, and BB amounts; settlements[c] only counts how    *)
(* often the result of challenge c was applied to the ledger.              *)
(***************************************************************************)
EXTENDS Deadline

CONSTANTS
    Players,        \* the players of the room
    Teams,          \* the teams the game starts with
    None,           \* null: no team, no player
    Durations,      \* lengths START_TIMER is sent
    Extension,      \* PLUS_15_SECONDS_MS
    MaxNow,         \* bound: the clock stops there
    MaxRound,       \* bound: rounds entered
    MaxChallenges,  \* bound: challenges prepared
    MaxSettlements, \* bound: times one challenge's result is applied
    MaxDuration     \* bound: how long Extra Time can make a timer

ASSUME GameFlowAssumption ==
    /\ None \notin Players \cup Teams
    /\ Durations \subseteq Nat \ {0}
    /\ Extension \in Nat \ {0}
    /\ MaxNow \in Nat /\ MaxRound \in Nat /\ MaxChallenges \in Nat
    /\ MaxSettlements \in Nat /\ MaxDuration \in Nat

VARIABLES
    now,             \* what clock.now() returns
    started,         \* #started
    phase,           \* #phase.phase
    resumePhase,     \* #phase.resumePhase, the phase a pause interrupted
    roundIndex,      \* #roundIndex
    members,         \* #teams: team -> its memberIds
    challenge,       \* #challenge: the id (0 before the first) and its status
    settlements,     \* challenge id -> times its result reached the ledger
    turn,            \* #turn
    active,          \* #activePlayers
    pausedBy,        \* #pausedByPlayerId
    timer,           \* TimerService.#deadline
    timerChallenge,  \* TimerService.#challengeId, 0 for null
    expiryReported   \* TimerService.#expiryReported

flowVars  == <<started, phase, resumePhase, roundIndex>>
playVars  == <<members, challenge, settlements, turn, active>>
timerVars == <<timer, timerChallenge, expiryReported>>
vars == <<now, flowVars, playVars, pausedBy, timerVars>>

-----------------------------------------------------------------------------
(* The phases and the transition table of lifecycle.ts. *)

NoPhase == "none"

Transitions ==
    [BOOT            |-> {"LOBBY"},
     LOBBY           |-> {"TEAM_LOCK"},
     TEAM_LOCK       |-> {"ROUND_INTRO", "LOBBY"},
     ROUND_INTRO     |-> {"MARKET", "CHALLENGE_INTRO"},
     MARKET          |-> {"CHALLENGE_INTRO", "ROUND_INTRO"},
     CHALLENGE_INTRO |-> {"ACTIVE_PLAY"},
     ACTIVE_PLAY     |-> {"HOST_REVIEW", "RESULT"},
     HOST_REVIEW     |-> {"RESULT", "ACTIVE_PLAY"},
     RESULT          |-> {"CHALLENGE_INTRO", "ROUND_COMPLETE"},
     ROUND_COMPLETE  |-> {"ROUND_INTRO", "SUDDEN_DEATH", "GAME_OVER"},
     SUDDEN_DEATH    |-> {"ACTIVE_PLAY", "RESULT", "GAME_OVER"},
     PAUSED          |-> {},
     GAME_OVER       |-> {}]

Phases == DOMAIN Transitions

\* isLegalTransition; PAUSED and GAME_OVER have no successors, which is how
\* applyTransition refuses to advance out of them.
IsLegalTransition(from, to) == to \in Transitions[from]

Statuses == {"none", "pending", "active", "awaiting_host", "resolved"}
NoTurn   == [team |-> None, player |-> None]
NoTimer  == [durationMs |-> 0, startedAt |-> 0,
             pausedAt |-> NotPaused, accumulatedPauseMs |-> 0]

TimerSet == timer # NoTimer
Paused   == phase = "PAUSED"

\* A slip the checks must catch: the guard asks only whether the game began.
RunningIgnoresPause == started

\* #requireRunning.  Note that it says nothing of GAME_OVER.
Running == started /\ ~Paused

\* TimerService.expireIfDue would report something.
ExpiryDue == TimerSet /\ ~expiryReported /\ HasExpired(now, timer)

TypeOK ==
    /\ now \in Nat
    /\ started \in BOOLEAN
    /\ phase \in Phases
    /\ resumePhase \in Phases \cup {NoPhase}
    /\ roundIndex \in Nat
    /\ members \in [Teams -> SUBSET Players]
    /\ challenge \in [id : 0..MaxChallenges, status : Statuses]
    /\ settlements \in [1..MaxChallenges -> Nat]
    /\ turn \in [team : Teams \cup {None}, player : Players \cup {None}]
    /\ active \in SUBSET Players
    /\ pausedBy \in Players \cup {None}
    /\ timer \in Deadlines /\ WellFormed(now, timer)
    /\ TimerSet => timer.durationMs > 0
    /\ timerChallenge \in 0..MaxChallenges
    /\ expiryReported \in BOOLEAN

\* The engine of a room whose teams are locked: startGame requires every
\* team to have a player, and a player is on one team.
Init ==
    /\ now = 0
    /\ started = FALSE
    /\ phase = "TEAM_LOCK"
    /\ resumePhase = NoPhase
    /\ roundIndex = 0
    /\ members \in [Teams -> SUBSET Players]
    /\ \A t \in Teams : members[t] # {}
    /\ \A s, t \in Teams : s # t => members[s] \cap members[t] = {}
    /\ challenge = [id |-> 0, status |-> "none"]
    /\ settlements = [c \in 1..MaxChallenges |-> 0]
    /\ turn = NoTurn
    /\ active = {}
    /\ pausedBy = None
    /\ timer = NoTimer
    /\ timerChallenge = 0
    /\ expiryReported = FALSE

-----------------------------------------------------------------------------
(* Effects several methods share. *)

\* A slip the checks must catch: a cancel, a pause or a resume that misses
\* the timer.
LeaveTheTimer == UNCHANGED timerVars

\* TimerService.cancel.
CancelTheTimer ==
    /\ timer' = NoTimer
    /\ timerChallenge' = 0
    /\ expiryReported' = FALSE

\* TimerService.pause and resume: no-ops without a deadline.
PauseTheTimer ==
    /\ timer' = IF TimerSet THEN PauseDeadline(now, timer) ELSE timer
    /\ UNCHANGED <<timerChallenge, expiryReported>>

ResumeTheTimer ==
    /\ timer' = IF TimerSet THEN ResumeDeadline(now, timer) ELSE timer
    /\ UNCHANGED <<timerChallenge, expiryReported>>

\* applyTransition with an advance.
MoveTo(to) ==
    /\ IsLegalTransition(phase, to)
    /\ phase' = to
    /\ resumePhase' = NoPhase

\* The same where the code ignores a refusal.
TryMoveTo(to) ==
    IF IsLegalTransition(phase, to)
    THEN phase' = to /\ resumePhase' = NoPhase
    ELSE UNCHANGED <<phase, resumePhase>>

\* The per-challenge state a new or a finished challenge leaves empty.
ClearPlay == turn' = NoTurn /\ active' = {}

-----------------------------------------------------------------------------
(* Starting and moving between phases. *)

StartGame ==
    /\ ~started
    /\ started' = TRUE
    /\ roundIndex' = 1
    /\ TryMoveTo("ROUND_INTRO")
    /\ UNCHANGED <<now, playVars, pausedBy, timerVars>>

AdvancePhase(to) ==
    /\ Running
    /\ MoveTo(to)
    /\ IF to = "ROUND_INTRO"
       THEN roundIndex < MaxRound /\ roundIndex' = roundIndex + 1
       ELSE UNCHANGED roundIndex
    /\ UNCHANGED <<now, started, playVars, pausedBy, timerVars>>

-----------------------------------------------------------------------------
(* The challenge. *)

\* A slip the checks must catch: only a challenge being played is in the way.
NotBeingPlayed == challenge.status # "active"

NoOpenChallenge == challenge.status \in {"none", "resolved"}

PrepareChallenge ==
    /\ Running
    /\ phase = "CHALLENGE_INTRO"
    /\ NoOpenChallenge
    /\ challenge.id < MaxChallenges
    /\ challenge' = [id |-> challenge.id + 1, status |-> "pending"]
    /\ ClearPlay
    /\ CancelTheTimer
    /\ UNCHANGED <<now, flowVars, members, settlements, pausedBy>>

StartChallenge ==
    /\ Running
    /\ challenge.status = "pending"
    /\ MoveTo("ACTIVE_PLAY")
    /\ challenge' = [challenge EXCEPT !.status = "active"]
    /\ UNCHANGED <<now, started, roundIndex, members, settlements, turn, active,
                   pausedBy, timerVars>>

\* Any challenge will do, a resolved one included.
RequestReview ==
    /\ Running
    /\ challenge.status # "none"
    /\ MoveTo("HOST_REVIEW")
    /\ challenge' = [challenge EXCEPT !.status = "awaiting_host"]
    /\ PauseTheTimer
    /\ UNCHANGED <<now, started, roundIndex, members, settlements, turn, active,
                   pausedBy>>

\* Legal in any phase; the move to RESULT is tried and may be refused.
ResolveChallenge ==
    /\ Running
    /\ challenge.status \notin {"none", "resolved"}
    /\ settlements[challenge.id] < MaxSettlements
    /\ settlements' = [settlements EXCEPT ![challenge.id] = @ + 1]
    /\ challenge' = [challenge EXCEPT !.status = "resolved"]
    /\ ClearPlay
    /\ CancelTheTimer
    /\ TryMoveTo("RESULT")
    /\ UNCHANGED <<now, started, roundIndex, members, pausedBy>>

-----------------------------------------------------------------------------
(* Turn, active players and rosters. *)

SetTurn(team, player) ==
    /\ Running
    /\ player # None => team # None /\ player \in members[team]
    /\ turn' = [team |-> team, player |-> player]
    /\ UNCHANGED <<now, flowVars, members, challenge, settlements, active, pausedBy,
                   timerVars>>

SetActivePlayers(ps) ==
    /\ Running
    /\ ps \subseteq UNION {members[t] : t \in Teams}
    /\ active' = ps
    /\ UNCHANGED <<now, flowVars, members, challenge, settlements, turn, pausedBy,
                   timerVars>>

TurnWithout(p) == IF turn.player = p THEN [turn EXCEPT !.player = None] ELSE turn

\* The Host removes a player from the room, paused or not.
RemoveMember(p) ==
    /\ \E t \in Teams : p \in members[t]
    /\ started
    /\ members' = [t \in Teams |-> members[t] \ {p}]
    /\ active' = active \ {p}
    /\ turn' = TurnWithout(p)
    /\ UNCHANGED <<now, flowVars, challenge, settlements, pausedBy, timerVars>>

-----------------------------------------------------------------------------
(* The timer. *)

\* A slip the checks must catch: a new timer inherits the old one's report.
StartTimerKeepsReport(d) ==
    /\ Running
    /\ timer' = StartDeadline(now, d)
    /\ timerChallenge' = challenge.id
    /\ UNCHANGED <<now, flowVars, playVars, pausedBy, expiryReported>>

StartTimer(d) ==
    /\ Running
    /\ timer' = StartDeadline(now, d)
    /\ timerChallenge' = challenge.id
    /\ expiryReported' = FALSE
    /\ UNCHANGED <<now, flowVars, playVars, pausedBy>>

CancelTimer ==
    /\ Running
    /\ TimerSet
    /\ CancelTheTimer
    /\ UNCHANGED <<now, flowVars, playVars, pausedBy>>

CanBeExtended == TimerSet /\ ~HasExpired(now, timer)

\* useAdvantage with an EXTRA_TIME: TimerService.extend refuses a timer that
\* has run out, and the advantage is spent either way.
UseExtraTime ==
    /\ Running
    /\ timer.durationMs + Extension <= MaxDuration
    /\ timer' = IF CanBeExtended
                THEN ExtendDeadline(timer, Extension)
                ELSE timer
    /\ UNCHANGED <<now, flowVars, playVars, pausedBy, timerChallenge, expiryReported>>

\* A slip the checks must catch: the expiry is announced and nothing else.
PollOnlyReports ==
    /\ Running
    /\ ExpiryDue
    /\ expiryReported' = TRUE
    /\ UNCHANGED <<now, flowVars, playVars, pausedBy, timer, timerChallenge>>

\* The tick.  An active challenge is handed to the Host if the phase allows
\* it; the deadline itself keeps running.
PollTimerExpiry ==
    /\ Running
    /\ ExpiryDue
    /\ expiryReported' = TRUE
    /\ IF challenge.status = "active" /\ IsLegalTransition(phase, "HOST_REVIEW")
       THEN /\ MoveTo("HOST_REVIEW")
            /\ challenge' = [challenge EXCEPT !.status = "awaiting_host"]
       ELSE UNCHANGED <<phase, resumePhase, challenge>>
    /\ UNCHANGED <<now, started, roundIndex, members, settlements, turn, active,
                   pausedBy, timer, timerChallenge>>

-----------------------------------------------------------------------------
(* The pause overlay. *)

Pause(by) ==
    /\ started
    /\ phase \notin {"PAUSED", "GAME_OVER"}
    /\ phase' = "PAUSED"
    /\ resumePhase' = phase
    /\ pausedBy' = by
    /\ PauseTheTimer
    /\ UNCHANGED <<now, started, roundIndex, playVars>>

HostPause == Pause(None)

\* onActivePlayerDisconnect: a player the challenge does not require does
\* not pause the game, and a paused game stays as it is.
ActivePlayerDisconnect(p) == p \in active /\ Pause(p)

\* Only the Host's intent reaches resume(true); a reconnection does not.
Resume ==
    /\ started
    /\ Paused
    /\ phase' = resumePhase
    /\ resumePhase' = NoPhase
    /\ pausedBy' = None
    /\ ResumeTheTimer
    /\ UNCHANGED <<now, started, roundIndex, playVars>>

-----------------------------------------------------------------------------
ClockTick ==
    /\ now < MaxNow
    /\ now' = now + 1
    /\ UNCHANGED <<flowVars, playVars, pausedBy, timerVars>>

Next ==
    \/ StartGame
    \/ \E to \in Phases : AdvancePhase(to)
    \/ PrepareChallenge
    \/ StartChallenge
    \/ RequestReview
    \/ ResolveChallenge
    \/ \E t \in Teams \cup {None}, p \in Players \cup {None} : SetTurn(t, p)
    \/ \E ps \in SUBSET Players : SetActivePlayers(ps)
    \/ \E p \in Players : RemoveMember(p)
    \/ \E d \in Durations : StartTimer(d)
    \/ CancelTimer
    \/ UseExtraTime
    \/ PollTimerExpiry
    \/ HostPause
    \/ \E p \in Players : ActivePlayerDisconnect(p)
    \/ Resume
    \/ ClockTick

Spec == Init /\ [][Next]_vars

\* server.ts ticks every room every 250 ms whatever the Host does; no person
\* is assumed to do anything.
FairSpec == Spec /\ WF_vars(PollTimerExpiry)

-----------------------------------------------------------------------------
(* Properties. *)

\* PAUSE IS AN OVERLAY: a phase is captured exactly while the game is paused,
\* it is one the game can go on from, only a paused game names who paused it,
\* and no timer runs while the game is paused (STATE_MACHINE.md, D-011).
PauseShape ==
    /\ Paused <=> resumePhase # NoPhase
    /\ resumePhase \notin {"PAUSED", "GAME_OVER"}
    /\ pausedBy # None => Paused
    /\ Paused /\ TimerSet => IsPaused(timer)

\* The timer on the TV is never one left behind by an earlier challenge:
\* prepareChallenge and resolveChallenge cancel it.
TimerOfCurrentChallenge == TimerSet => timerChallenge = challenge.id

\* Outside a pause a frozen timer is a timer frozen for a review: a challenge
\* that plays never plays against a stopped clock (requestReview, resume).
FrozenOnlyForReview ==
    ~Paused /\ TimerSet /\ IsPaused(timer) => challenge.status = "awaiting_host"

\* A reported expiry stays true: Extra Time cannot revive a timer that has
\* run out, and no pause or resume gives time back, so the Host is never asked
\* to decide an expiry the TV then shows as time left (TimerService.extend).
ReportedExpiryStands == expiryReported => TimerSet /\ HasExpired(now, timer)

\* The results the ledger has seen: every challenge before the current one
\* has been settled, none after it has, one not yet under review never has,
\* and a resolved one always has (prepareChallenge, resolveChallenge).
SettledInOrder ==
    /\ challenge.status = "none" => challenge.id = 0
    /\ \A c \in 1..MaxChallenges :
           /\ c < challenge.id => settlements[c] > 0
           /\ c > challenge.id => settlements[c] = 0
           /\ c = challenge.id /\ challenge.status \in {"pending", "active"}
                  => settlements[c] = 0
           /\ c = challenge.id /\ challenge.status = "resolved" => settlements[c] > 0

\* The game never waits on someone who is gone: every active player is on a
\* team and the turn's player is on the turn's team (removeMember, setTurn).
WaitsOnlyOnMembers ==
    /\ active \subseteq UNION {members[t] : t \in Teams}
    /\ turn.player # None => turn.team # None /\ turn.player \in members[turn.team]

\* Gameplay cannot slip past a pause (#requireRunning): a step of a paused
\* game changes neither the challenge, its result, the turn's team nor the
\* round, makes nobody active, and the only phase it can reach is the captured one.
NothingPlaysWhilePaused ==
    [][Paused => /\ UNCHANGED <<challenge, settlements, roundIndex, turn.team>>
                 /\ active' \subseteq active
                 /\ phase' \in {"PAUSED", resumePhase}
                 /\ phase' = "PAUSED" => resumePhase' = resumePhase]_vars

\* The time left when the game pauses is the time left when it goes on,
\* however long the pause and however many pauses before it.
PauseCostsNoTime ==
    [][(Paused \/ Paused') => RemainingMs(now', timer') = RemainingMs(now, timer)]_vars

\* What timer-service.ts promises of the one timer.
RemainingTime == IF TimerSet THEN RemainingMs(now, timer) ELSE 0
TimerMode == IF ~TimerSet THEN "idle" ELSE IF IsPaused(timer) THEN "frozen" ELSE "running"

Clock == INSTANCE Countdown WITH left <- RemainingTime, mode <- TimerMode,
                                 rung <- expiryReported

\* The engine's timer, clock readings, banked pauses and all, is a countdown.
ImplementsCountdown == Clock!CSpec

\* A timeout never strands a challenge: while a challenge plays and its timer
\* has run out, the tick hands it to the Host, unless someone moves the phase,
\* pauses, or replaces the timer first (pollTimerExpiry, "requiresHostDecision").
Overdue == phase = "ACTIVE_PLAY" /\ challenge.status = "active" /\ ExpiryDue

OverdueReachesHost == Overdue ~> (phase # "ACTIVE_PLAY" \/ RemainingTime > 0 \/ ~TimerSet)

\* What holds of the game between any two steps: nothing ill-formed, a phase
\* captured exactly under a pause, results in order, nobody gone waited for.
GameIsSound == TypeOK /\ PauseShape /\ SettledInOrder /\ WaitsOnlyOnMembers

\* The one timer is the current challenge's, stands still outside a pause only
\* for a review, and an expiry it reported stands.
TimerIsSound == TimerOfCurrentChallenge /\ FrozenOnlyForReview /\ ReportedExpiryStands

\* A pause stops the game and its clock, and gives both back as they were.
PauseStopsTheGame == NothingPlaysWhilePaused /\ PauseCostsNoTime

=============================================================================

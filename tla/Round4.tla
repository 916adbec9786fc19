-------------------------------- MODULE Round4 --------------------------------
(***************************************************************************)
(* Round 4, "What Yuh Think About This?": game-rules/round4.ts, the engine *)
(* methods that drive it, the room's handlers and the round's part of the  *)
(* room's tick, composed with the game flow.                               *)
(*                                                                         *)
(* One survey is played at a time: a face-off at the buzzer, the board,    *)
(* and after the last strike a steal.  The survey is the round's and the   *)
(* challenge it is paid through the engine's, and each has its own idea of *)
(* what is current.                                                        *)
(*                                                                         *)
(* An answer typed is matched with the board by Grading, and is 0 where it *)
(* matches none.  Left out: whose turn it is within the team (no guard     *)
(* reads it), the amount and the booking of a wager (Deals), the card      *)
(* windows (CardsClash).                                                   *)
(***************************************************************************)
EXTENDS RoundFlow, DevSkip, Grading, FiniteSetsExt, Sequences

CONSTANTS
    Round4Index,    \* ROUND4_ROUND_INDEX
    Surveys,        \* surveys in the content source
    Ranks,          \* the answers of a board, by rank
    Value,          \* rank -> what the answer is worth
    Forms,          \* rank -> the answer's text and its variants
    Texts,          \* what players type
    Doubled,        \* the surveys with a doubled question number
    MaxStrikes,     \* maxStrikes
    AnswerMs, TurnMs, ConferMs  \* lengths of the three windows

ASSUME Round4Assumption ==
    /\ Round4Index \in Nat \ {0} /\ Surveys \in Nat
    /\ Ranks \subseteq Nat \ {0} /\ 1 \in Ranks
    /\ Value \in [Ranks -> Nat]
    /\ Forms \in [Ranks -> SUBSET STRING] /\ Texts \subseteq STRING
    /\ Doubled \subseteq 1..Surveys
    /\ MaxStrikes \in Nat \ {0}
    /\ {AnswerMs, TurnMs, ConferMs} \subseteq Nat \ {0}
    /\ IsFiniteSet(Ranks)
    /\ IsFiniteSet(Teams) /\ Cardinality(Teams) \in {2, 3}

VARIABLES
    standings,   \* #enteringStandings, <<>> before the round began
    stage,       \* #matchupStage
    contesting,  \* #matchupTeamIds
    wins,        \* #matchupSurveyWins
    advancing,   \* #matchupWinnerTeamId
    gated,       \* #gates: the teams that earn no more
    dealt,       \* surveys taken from the content source
    survey,      \* #current
    paid,        \* ledger: the entries of the surveys, each with its survey
    owed         \* teams Forgive Meh gave a retry on this challenge

matchupVars == <<standings, stage, contesting, wins, advancing, gated>>
r4Vars == <<matchupVars, dealt, survey, paid, owed>>
allR4Vars == <<vars, r4Vars>>

NoMatch == 0

FreshFaceoff == [status |-> "reading", buzzed |-> None, first |-> NoMatch,
                 winner |-> None, window |-> NoWindow]

FreshBoard(holder) == [holder |-> holder, strikes |-> 0, window |-> NoWindow]

FreshSteal(thief, status) == [thief |-> thief, status |-> status, wager |-> FALSE,
                              window |-> NoWindow]

NewSurvey(no, ch, progress, pair) ==
    [no |-> no, challenge |-> ch, progress |-> progress, pair |-> pair,
     revealed |-> {}, barred |-> [r \in Ranks |-> None], pot |-> 0,
     faceoff |-> FreshFaceoff, board |-> FreshBoard(None), steal |-> FreshSteal(None, "none"),
     winner |-> None, awarded |-> 0]

R4Init ==
    /\ Init
    /\ standings = <<>>
    /\ stage = "none"
    /\ contesting = <<>>
    /\ wins = [t \in Teams |-> 0]
    /\ advancing = None
    /\ gated = {}
    /\ dealt = 0
    /\ survey = NewSurvey(0, 0, "not_started", {})
    /\ paid = <<>>
    /\ owed = {}

-----------------------------------------------------------------------------
(* What the methods of Round4 do to a survey. *)

BetweenSurveys == survey.progress \in {"not_started", "resolved"}

Rival(t) == CHOOSE u \in survey.pair : u # t

Buzzed(t) ==
    [survey EXCEPT !.faceoff.status = "buzzed", !.faceoff.buzzed = t,
                   !.faceoff.window = OpenWindow(AnswerMs)]

\* revealAnswerByRank: an answer shown is an answer paid.
Show(s, r) ==
    IF r \in Ranks \ s.revealed
    THEN [s EXCEPT !.revealed = @ \cup {r}, !.pot = @ + Value[r]]
    ELSE s

\* The first answer: the top one decides, any other gives the rival a chance.
FirstAnswer(r) ==
    IF r = 1
    THEN Show([survey EXCEPT !.faceoff.status = "decided",
                             !.faceoff.winner = survey.faceoff.buzzed,
                             !.faceoff.window = NoWindow], r)
    ELSE [survey EXCEPT !.faceoff.status = "opponent_chance", !.faceoff.first = r,
                        !.faceoff.window = NoWindow]

\* resolveFaceoffComparison: a match beats none and the lower rank wins; two
\* misses leave the face-off decided for nobody.
FaceoffWinner(first, second) ==
    CASE first = NoMatch /\ second = NoMatch -> None
      [] second # NoMatch /\ (first = NoMatch \/ second < first) -> Rival(survey.faceoff.buzzed)
      [] OTHER -> survey.faceoff.buzzed

BetterRank(first, second) ==
    IF first = NoMatch \/ (second # NoMatch /\ second < first) THEN second ELSE first

SecondAnswer(r) ==
    Show([survey EXCEPT !.faceoff.status = "decided", !.faceoff.first = NoMatch,
                        !.faceoff.winner = FaceoffWinner(survey.faceoff.first, r),
                        !.faceoff.window = NoWindow],
         BetterRank(survey.faceoff.first, r))

\* The winner plays the board or passes it to the other team.
PlayedOrPassed(play) ==
    [survey EXCEPT !.faceoff.status = "complete", !.progress = "board_play",
                   !.board = FreshBoard(IF play THEN survey.faceoff.winner
                                                ELSE Rival(survey.faceoff.winner))]

\* A window is started again only once it has run out.
MayStart(w) == ~Exists(w) \/ Due(w)

\* availableBoardAnswers.
Available(r, t) == r \notin survey.revealed /\ survey.barred[r] # t

TurnOver(s) == [s EXCEPT !.board.window = NoWindow]

AvailableTo(t) == {r \in Ranks : Available(r, t)}

\* What each text is with each board there may be, in the face-off and after.
Tries == {<<text, ranks>> : text \in Texts, ranks \in SUBSET Ranks}

FaceoffMatch == [p \in Tries |-> FaceoffRank(p[1], Forms, p[2])]

BoardMatch == [p \in Tries |-> MatchRound4Answer(p[1], Forms, p[2])]

Revealed(r) == TurnOver(Show(survey, r))

BoardCleared(s) == s.revealed = Ranks

Struck(s) == TurnOver([s EXCEPT !.board.strikes = @ + 1])

\* startSteal: the board goes to the other team of the matchup.
HandedOver(s) ==
    LET others == {i \in {1, 2} : contesting[i] # s.board.holder} IN
    [s EXCEPT !.progress = "steal", !.steal = FreshSteal(contesting[Min(others)], "conferring")]

WagerLocked == [survey EXCEPT !.steal.status = "awaiting_answer", !.steal.wager = TRUE]

StealOver == [survey EXCEPT !.steal.status = "resolved", !.steal.window = NoWindow]

\* An answer is taken back from the board, and from the team for good.
TakenBack(r, t) ==
    [survey EXCEPT !.revealed = @ \ {r}, !.barred[r] = t,
                   !.pot = IF @ < Value[r] THEN 0 ELSE @ - Value[r]]

\* The whole pot, twice for a doubled question.
Award(s) == s.pot * (IF s.no \in Doubled THEN 2 ELSE 1)

Resolved(s, winner) ==
    [s EXCEPT !.progress = "resolved", !.winner = winner, !.awarded = Award(s)]

-----------------------------------------------------------------------------
(* The round and its matchups. *)

Orders == {s \in [1..Cardinality(Teams) -> Teams] : \A t \in Teams : \E i \in DOMAIN s : s[i] = t}

\* Of three teams the second and third play for a place in the final, two play it.
FirstMatchup(entered) ==
    IF Len(entered) = 2 THEN stage' = "FINAL" /\ contesting' = entered
                        ELSE stage' = "FIRST" /\ contesting' = Tail(entered)

\* The teams by their BB, ties broken by the order they joined in: any order.
BeginRound4 ==
    /\ Running
    /\ roundIndex = Round4Index
    /\ standings = <<>>
    /\ standings' \in Orders
    /\ FirstMatchup(standings')
    /\ UNCHANGED <<vars, wins, advancing, gated, dealt, survey, paid, owed>>

\* The development control walks to the round first.
DevEnterRound4 ==
    /\ MayEnter(Round4Index, standings # <<>>)
    /\ WalksTo(Round4Index)
    /\ IF Arrives(Round4Index)
       THEN standings' \in Orders /\ FirstMatchup(standings')
       ELSE UNCHANGED <<standings, stage, contesting>>
    /\ UNCHANGED <<wins, advancing, gated, dealt, survey, paid, owed>>

DevStartRound4 == DevTools /\ DevEnterRound4

SurveysPlayed == FoldSet(LAMBDA t, n : n + wins[t], 0, Teams)

\* The place of the team that goes on; a tie goes to the one that entered ahead.
Ahead == IF wins[contesting[1]] >= wins[contesting[2]] THEN 1 ELSE 2

DecideFirstMatchup ==
    /\ Running
    /\ stage = "FIRST"
    /\ SurveysPlayed >= 2
    /\ advancing' = contesting[Ahead]
    /\ gated' = gated \cup {contesting[3 - Ahead]}
    /\ UNCHANGED <<vars, standings, stage, contesting, wins, dealt, survey, paid, owed>>

BeginFinalMatchup ==
    /\ Running
    /\ stage = "FIRST"
    /\ advancing # None
    /\ stage' = "FINAL"
    /\ contesting' = <<advancing, standings[1]>>
    /\ advancing' = None
    /\ wins' = [t \in Teams |-> 0]
    /\ UNCHANGED <<vars, standings, gated, dealt, survey, paid, owed>>

-----------------------------------------------------------------------------
(* Whom the survey waits for. *)

Required(s) ==
    CASE s.progress = "faceoff"    -> s.pair
      [] s.progress = "board_play" -> {s.board.holder}
      [] s.progress = "steal"      -> {s.steal.thief}
      [] OTHER                     -> {}

MembersOfTeams(ts) == UNION {members[t] : t \in ts}

\* A slip the checks must catch: the engine is not told the board changed hands.
ActiveKept(s) == active

\* syncRound4ActivePlayers.
ActiveFor(s) == MembersOfTeams(Required(s))

\* Only the survey and, where it changes hands, the active players.
PlayOn(s, sync) ==
    /\ survey' = s
    /\ active' = IF sync THEN ActiveFor(s) ELSE active
    /\ UNCHANGED <<now, flowVars, members, challenge, settlements, turn, pausedBy, timerVars>>
    /\ UNCHANGED <<matchupVars, dealt, paid, owed>>

-----------------------------------------------------------------------------
(* The face-off. *)

\* The challenge runs before the round is asked, and stays even if the round
\* then refuses because it is still in a survey.
StartSurvey(no) ==
    /\ PreparesAndStarts
    /\ owed' = {}
    /\ IF BetweenSurveys
       THEN /\ survey' = NewSurvey(no, challenge'.id, "faceoff", {contesting[1], contesting[2]})
            /\ active' = ActiveFor(survey')
       ELSE active' = {} /\ UNCHANGED survey
    /\ UNCHANGED paid

\* nextSurvey.
TakeSurvey == dealt < Surveys /\ dealt' = dealt + 1

StartFaceoff ==
    /\ stage # "none"
    /\ TakeSurvey
    /\ StartSurvey(dealt')
    /\ UNCHANGED matchupVars

\* The survey is taken from its source before anything is asked, and lost where
\* the engine refuses; the phase may have moved on before it does.
StartFaceoffRefused ==
    /\ stage # "none"
    /\ TakeSurvey
    /\ \/ ~Running \/ ~NoOpenChallenge
       \/ phase # "CHALLENGE_INTRO" /\ ~IsLegalTransition(phase, "CHALLENGE_INTRO")
    /\ IF Running /\ IsLegalTransition(phase, "CHALLENGE_INTRO")
       THEN AdvancePhase("CHALLENGE_INTRO")
       ELSE UNCHANGED vars
    /\ UNCHANGED <<matchupVars, survey, paid, owed>>

InFaceoff(status) ==
    Running /\ survey.progress = "faceoff" /\ survey.faceoff.status = status

Buzz(t) ==
    /\ InFaceoff("reading")
    /\ t \in survey.pair
    /\ PlayOn(Buzzed(t), FALSE)

RuleFaceoffAnswer(t, r) ==
    \/ /\ InFaceoff("buzzed") /\ t = survey.faceoff.buzzed
       /\ PlayOn(FirstAnswer(r), FALSE)
    \/ /\ InFaceoff("opponent_chance") /\ t = Rival(survey.faceoff.buzzed)
       /\ PlayOn(SecondAnswer(r), FALSE)

\* The rival's answer too is matched with what is there for the team that buzzed.
SubmitFaceoffAnswer(t, text) ==
    RuleFaceoffAnswer(t, FaceoffMatch[<<text, AvailableTo(survey.faceoff.buzzed)>>])

HostRuleFaceoffAnswer(t, r) == RuleFaceoffAnswer(t, r)

StartOpponentChanceTimer ==
    /\ InFaceoff("opponent_chance")
    /\ MayStart(survey.faceoff.window)
    /\ PlayOn([survey EXCEPT !.faceoff.window = OpenWindow(AnswerMs)], FALSE)

ChoosePlayOrPass(t, play) ==
    /\ InFaceoff("decided")
    /\ t = survey.faceoff.winner
    /\ PlayOn(PlayedOrPassed(play), TRUE)

-----------------------------------------------------------------------------
(* The board. *)

OnBoard == Running /\ survey.progress = "board_play"

StartBoardTurnTimer ==
    /\ OnBoard
    /\ MayStart(survey.board.window)
    /\ PlayOn([survey EXCEPT !.board.window = OpenWindow(TurnMs)], FALSE)

CancelBoardTurnTimer == OnBoard /\ PlayOn(TurnOver(survey), FALSE)

\* A slip the checks must catch: a doubled question pays like any other.
PayoutUndoubled(s, t) == IF t \in gated THEN 0 ELSE s.pot

\* A team out of its matchup earns no more.
Payout(s, t) == IF t \in gated THEN 0 ELSE Award(s)

\* A slip the checks must catch: a stolen pot is paid to the team it was stolen from.
EntryToHolder(s, winner) ==
    [survey |-> s.no, challenge |-> challenge.id, team |-> s.board.holder,
     amount |-> Payout(s, winner)]

\* The entry of a survey, which goes through the engine's current challenge.
Entry(s, winner) ==
    [survey |-> s.no, challenge |-> challenge.id, team |-> winner, amount |-> Payout(s, winner)]

\* A survey is won once, and over whatever becomes of its pot: that is paid as the
\* result of the current challenge, and to nobody if that has its result already.
SettleSurvey(s, winner) ==
    /\ s.progress # "resolved"
    /\ survey' = Resolved(s, winner)
    /\ wins' = [wins EXCEPT ![winner] = @ + 1]
    /\ IF challenge.status \in {"none", "resolved"}
       THEN UNCHANGED <<vars, paid, owed>>
       ELSE /\ ResolveChallenge
            /\ paid' = Append(paid, Entry(s, winner))
            /\ owed' = {}
    /\ UNCHANGED <<standings, stage, contesting, advancing, gated, dealt>>

\* The last answer wins the survey for the team in control.
RevealBoardAnswer(r) ==
    /\ OnBoard
    /\ Available(r, survey.board.holder)
    /\ IF BoardCleared(Revealed(r))
       THEN SettleSurvey(Revealed(r), survey.board.holder)
       ELSE PlayOn(Revealed(r), FALSE)

\* A text the board does not decide waits for the Host.
SubmitBoardAnswer(t, text) ==
    /\ t = survey.board.holder
    /\ BoardMatch[<<text, AvailableTo(t)>>] # NoMatch
    /\ RevealBoardAnswer(BoardMatch[<<text, AvailableTo(t)>>])

HostRuleBoardAnswer(r) == RevealBoardAnswer(r)

\* A slip the checks must catch: the strike is counted and nobody steals.
StrikesOnly(s) == PlayOn(s, FALSE)

\* The last strike hands over in the same step.
StrikesNow(s) ==
    IF s.board.strikes >= MaxStrikes THEN PlayOn(HandedOver(s), TRUE) ELSE PlayOn(s, FALSE)

\* round4HasForgiveMehRetry.
OwedRetry == survey.board.holder \in owed

\* Where a retry is owed the Host has to say that it is over.
RecordStrike(afterRetry) ==
    /\ OnBoard
    /\ OwedRetry => afterRetry
    /\ StrikesNow(Struck(survey))

SetStrikes(n) ==
    /\ OnBoard
    /\ StrikesNow([survey EXCEPT !.board.strikes = n])

\* A Clash won with Forgive Meh spends the retry of the challenge at once; only
\* a team of the matchup plays cards.
GrantForgiveMeh(t) ==
    /\ Running
    /\ ~NoOpenChallenge
    /\ \E i \in DOMAIN contesting : contesting[i] = t
    /\ owed' = owed \cup {t}
    /\ UNCHANGED <<vars, matchupVars, dealt, survey, paid>>

ApplySteups(r, t) ==
    /\ Running
    /\ r \in survey.revealed
    /\ survey.barred[r] = None
    /\ PlayOn(TakenBack(r, t), FALSE)

-----------------------------------------------------------------------------
(* The steal. *)

StealIs(statuses) == Running /\ survey.steal.status \in statuses

StartStealTimer ==
    /\ StealIs({"conferring", "awaiting_answer", "resolved"})
    /\ MayStart(survey.steal.window)
    /\ PlayOn([survey EXCEPT !.steal.window = OpenWindow(ConferMs)], FALSE)

SubmitStealWager(t) ==
    /\ StealIs({"conferring"})
    /\ t = survey.steal.thief
    /\ PlayOn(WagerLocked, FALSE)

\* The steal and its wager are over even where the pot is then paid to nobody.
ResolveSteal(correct) ==
    /\ StealIs({"conferring", "awaiting_answer"})
    /\ SettleSurvey(StealOver, IF correct THEN survey.steal.thief ELSE survey.board.holder)

\* Any answer the defenders could still give.
SubmitStealAnswer(t, text) ==
    /\ t = survey.steal.thief
    /\ ResolveSteal(BoardMatch[<<text, AvailableTo(survey.board.holder)>>] # NoMatch)

\* The Host waits for the wager, or for the window to run out.
RuleStealAnswer(correct) ==
    /\ survey.steal.wager \/ Due(survey.steal.window)
    /\ ResolveSteal(correct)

-----------------------------------------------------------------------------
(* The tick, the pause and the clock. *)

TurnIsOver == OnBoard /\ Due(survey.board.window)

\* A slip the checks must catch: the silence at the buzzer is nobody's.
TickTurnOnly ==
    /\ TurnIsOver
    /\ ~OwedRetry
    /\ StrikesNow(Struck(survey))

FaceoffIsOver == survey.progress = "faceoff" /\ Running /\ Due(survey.faceoff.window)

\* The window at the buzzer, then the turn.  Whoever's window it was, it is the
\* team that buzzed that is ruled, which the rival's chance refuses.
Tick ==
    \/ FaceoffIsOver /\ RuleFaceoffAnswer(survey.faceoff.buzzed, NoMatch)
    \/ TurnIsOver /\ ~OwedRetry /\ StrikesNow(Struck(survey))

EveryWindow(event) ==
    /\ survey' = [survey EXCEPT !.faceoff.window = WindowAfter(event, @),
                                !.board.window = WindowAfter(event, @),
                                !.steal.window = WindowAfter(event, @)]
    /\ UNCHANGED <<matchupVars, dealt, paid, owed>>

PauseRound4 == GamePauses /\ EveryWindow("pause")

ResumeRound4 == Resume /\ EveryWindow("resume")

TimePasses == EveryWindow("tick") /\ UNCHANGED vars

\* What a challenge gave its teams ends with it.
AroundTheRound ==
    /\ HostMoves
    /\ owed' = IF challenge'.id # challenge.id \/ settlements' # settlements THEN {} ELSE owed
    /\ UNCHANGED <<matchupVars, dealt, survey, paid>>

\* No intent of the room reaches these three yet; the engine's tests do.
WithoutAnIntent ==
    \/ DecideFirstMatchup
    \/ BeginFinalMatchup
    \/ \E r \in Ranks, t \in survey.pair : ApplySteups(r, t)

R4Next ==
    \/ StartGame /\ UNCHANGED r4Vars
    \/ BeginRound4
    \/ DevStartRound4
    \/ StartFaceoff
    \/ StartFaceoffRefused
    \/ \E t \in Teams : Buzz(t)
    \/ \E t \in Teams, text \in Texts : SubmitFaceoffAnswer(t, text)
    \/ \E t \in Teams, r \in Ranks \cup {NoMatch} : HostRuleFaceoffAnswer(t, r)
    \/ StartOpponentChanceTimer
    \/ \E t \in Teams, play \in BOOLEAN : ChoosePlayOrPass(t, play)
    \/ StartBoardTurnTimer
    \/ CancelBoardTurnTimer
    \/ \E t \in Teams, text \in Texts : SubmitBoardAnswer(t, text)
    \/ \E r \in Ranks : HostRuleBoardAnswer(r)
    \/ \E afterRetry \in BOOLEAN : RecordStrike(afterRetry)
    \/ \E n \in 0..MaxStrikes : SetStrikes(n)
    \/ \E t \in Teams : GrantForgiveMeh(t)
    \/ StartStealTimer
    \/ \E t \in Teams : SubmitStealWager(t)
    \/ \E t \in Teams, text \in Texts : SubmitStealAnswer(t, text)
    \/ \E correct \in BOOLEAN : RuleStealAnswer(correct)
    \/ WithoutAnIntent
    \/ Tick
    \/ PauseRound4
    \/ ResumeRound4
    \/ TimePasses
    \/ AroundTheRound

R4Spec == R4Init /\ [][R4Next]_allR4Vars

\* The tick comes every 250 ms; nobody need answer, rule or choose.
FairR4Spec == R4Spec /\ WF_allR4Vars(Tick)

-----------------------------------------------------------------------------
(* Properties. *)

R4TypeOK ==
    /\ standings \in Orders \cup {<<>>}
    /\ stage \in {"none", "FIRST", "FINAL"}
    /\ stage # "none" => Len(contesting) = 2 /\ contesting[1] # contesting[2]
    /\ advancing \in Teams \cup {None} /\ gated \subseteq Teams /\ owed \subseteq Teams
    /\ wins \in [Teams -> 0..Surveys]
    /\ survey.no \in 0..dealt /\ survey.challenge \in 0..challenge.id
    /\ survey.progress \in {"not_started", "faceoff", "board_play", "steal", "resolved"}
    /\ survey.pair \subseteq Teams /\ survey.revealed \subseteq Ranks
    /\ survey.barred \in [Ranks -> Teams \cup {None}]
    /\ survey.faceoff.status \in {"reading", "buzzed", "opponent_chance", "decided", "complete"}
    /\ survey.faceoff.window \in WindowsUpTo(AnswerMs)
    /\ survey.board.strikes \in 0..MaxStrikes /\ survey.board.window \in WindowsUpTo(TurnMs)
    /\ survey.steal.status \in {"none", "conferring", "awaiting_answer", "resolved"}
    /\ survey.steal.window \in WindowsUpTo(ConferMs)

\* The three windows stand still exactly while the game is paused (pauseTimers).
WindowsFollowPause ==
    \A w \in {survey.faceoff.window, survey.board.window, survey.steal.window} :
        FollowsPause(w, Paused)

\* What answers are worth, added up from the board.
BoardPoints(ranks) == MapThenSumSet(LAMBDA r : Value[r], ranks)

\* The pot is what the board shows, through the face-off's early reveal, answers
\* taken back and answers given again (accumulatedPoints).
PotMatchesBoard == survey.pot = BoardPoints(survey.revealed)

\* Until the survey's challenge is first resolved every member of the teams it
\* waits for is active, so that losing one pauses the game, whichever way the
\* board came to them (syncRound4ActivePlayers).
PlayingTeamsAwaited ==
    survey.no > 0 /\ survey.progress # "resolved" /\ settlements[survey.challenge] = 0 =>
        MembersOfTeams(Required(survey)) = active

\* No survey is paid twice and no challenge pays two surveys, over the whole round
\* and however surveys and challenges part; each entry is of a challenge that has
\* its result ("PAYS THE POT EXACTLY ONCE", #resolveRound4Survey).
PaidOnce ==
    /\ \A i, j \in DOMAIN paid : i < j =>
           paid[i].survey < paid[j].survey /\ paid[i].challenge < paid[j].challenge
    /\ \A i \in DOMAIN paid : settlements[paid[i].challenge] > 0

\* What a survey paid went to the team that won it, all of the pot unless the team
\* is out of its matchup, and through the survey's challenge or a later one.
PaidToWinner ==
    \A i \in DOMAIN paid : paid[i].survey = survey.no =>
        /\ survey.progress = "resolved"
        /\ paid[i].team = survey.winner
        /\ paid[i].amount # survey.awarded => paid[i].amount = 0 /\ survey.winner \in gated
        /\ paid[i].challenge >= survey.challenge

\* A survey is won without paying only where the challenge it was asked in was
\* given another result, which is no survey's.
LostToAnotherResult ==
    survey.progress = "resolved" /\ (\A i \in DOMAIN paid : paid[i].survey # survey.no) =>
        /\ settlements[survey.challenge] > 0
        /\ \A i \in DOMAIN paid : paid[i].challenge # survey.challenge

\* What a survey awards is what the board showed as it was won, twice that for a
\* doubled question, whatever is taken back afterwards.
AwardsTheBoard ==
    survey.progress # "resolved" /\ survey'.progress = "resolved" =>
        survey'.awarded = (IF survey'.no \in Doubled THEN 2 ELSE 1) * BoardPoints(survey'.revealed)

Feud == INSTANCE FamilyFeud
            WITH Sides <- Teams, Nobody <- None, Outs <- MaxStrikes,
                 survey <- survey.no,
                 stage <- CASE survey.progress = "faceoff" -> "faceoff"
                            [] survey.progress = "board_play" -> "board"
                            [] survey.progress = "steal" -> "steal"
                            [] OTHER -> "over",
                 holder <- survey.board.holder,
                 thief <- survey.steal.thief,
                 strikes <- survey.board.strikes,
                 victor <- survey.winner

\* A survey is a feud: its stages in order, the board with one team, the last
\* strike and nothing else handing over, and one winner (round4.ts).
ImplementsFeud == Feud!FSpec

\* A team that buzzed and says nothing is ruled, and a turn that ran out costs
\* its strike, unless the game is paused or a retry is owed (pollRound4Timers).
SilenceIsRuled ==
    []<>(\/ Paused
         \/ /\ ~(survey.faceoff.status = "buzzed" /\ Due(survey.faceoff.window))
            /\ ~(TurnIsOver /\ ~OwedRetry))

\* What holds of a survey between any two steps: well-formed, its windows tied to
\* the pause, and the teams it waits for awaited.
BoardIsSound == R4TypeOK /\ WindowsFollowPause /\ PlayingTeamsAwaited

\* The pot is the board's and the award the pot's; it is paid at most once, to the
\* winner, and is lost only to another result of the survey's challenge.
PotIsWhole ==
    /\ [](PotMatchesBoard /\ PaidOnce /\ PaidToWinner /\ LostToAnotherResult)
    /\ [][AwardsTheBoard]_allR4Vars

=============================================================================

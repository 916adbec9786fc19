-------------------------------- MODULE Round1 --------------------------------
(***************************************************************************)
(* Round 1, trivia (game-rules/round1.ts), with the engine methods, the    *)
(* room's intents and the room's tick that drive it, inside the game flow. *)
(*                                                                         *)
(* A question and a tiebreak question are the same thing to the code: a    *)
(* sheet of answer slots with a phase and a window.  Grading rules what a  *)
(* player types where the text alone decides; for the rest a judge outside *)
(* the process is asked, which answers whenever it likes.                  *)
(*                                                                         *)
(* Left out: recordAssist, which nothing calls; the card window a question *)
(* opens and the card that entitles a team to a peek (any team may have    *)
(* it); whether a team's result is doubled (any set of teams may be).      *)
(***************************************************************************)
EXTENDS RoundFlow, Grading, FiniteSets

CONSTANTS
    Questions,      \* ROUND1_QUESTION_COUNT
    Difficulties,   \* ROUND1_DIFFICULTIES
    DifficultyOf,   \* question number -> its difficulty
    TiebreakLevel,  \* the difficulty of the tiebreak items
    Value,          \* ROUND1_VALUES
    Accepted,       \* the answer and its variants, of every question alike
    Typed,          \* what players type
    QuestionMs, RetryMs, MacoMs, TiebreakMs,  \* ROUND1_*_MS
    MaxTiebreaks    \* the tiebreak items the content has

NoAnswer == None
Unruled  == "unruled"

\* What the text of an answer decides.
Deterministic == [a \in Typed |-> GradeDeterministic(a, Accepted)]

Verdicts == {"CORRECT", "INCORRECT", "NEEDS_HOST_REVIEW"}

ASSUME Round1Assumption ==
    /\ Questions \in Nat \ {0} /\ MaxTiebreaks \in Nat
    /\ DifficultyOf \in [1..Questions -> Difficulties]
    /\ TiebreakLevel \in Difficulties
    /\ Value \in [Difficulties -> Nat \ {0}]
    /\ Accepted \subseteq STRING /\ Typed \subseteq STRING
    /\ QuestionMs \in Nat \ {0} /\ RetryMs \in Nat \ {0}
    /\ MacoMs \in Nat \ {0} /\ TiebreakMs \in Nat \ {0}
    /\ IsFiniteSet(Teams) /\ Teams # {}

VARIABLES
    r1Phase,   \* Round1.#phase, "off" until begin
    nominee,   \* #nominees: team -> difficulty -> player
    question,  \* the current of #questions, its number 0 before the first
    attempt,   \* the last of #tiebreakAttempts, its number 0 before the first
    points,    \* #points
    maco,      \* #maco
    standing,  \* #tiebreakActive
    r1Winner,  \* #winner
    drawn,     \* tiebreak items taken from the content
    judging,   \* the judge calls in flight, by the key the room gives them
    verdicts   \* Room.#pendingJudgements

sheetVars == <<question, attempt, points, maco>>
judgeVars == <<judging, verdicts>>
r1Vars == <<r1Phase, nominee, sheetVars, standing, r1Winner, drawn, judgeVars>>
allR1Vars == <<vars, r1Vars>>

SheetPhases == {"pending", "open", "grading", "retry", "revealed"}

FreshAnswer == [sub |-> NoAnswer, ruling |-> Unruled,
                retrySub |-> NoAnswer, retryRuling |-> Unruled,
                retryOpen |-> FALSE, retry |-> NoWindow, awarded |-> 0]

NoMaco == [viewer |-> None, target |-> None, question |-> 0, window |-> NoWindow]

Sheet(kind, no, ch, d, teams) ==
    [kind |-> kind, no |-> no, phase |-> IF no = 0 THEN "pending" ELSE "open",
     challenge |-> ch, window |-> IF no = 0 THEN NoWindow ELSE OpenWindow(d),
     answers |-> [t \in teams |-> FreshAnswer]]

InTiebreak == r1Phase = "tiebreak"

\* The sheet the room grades.
Current == IF InTiebreak THEN attempt ELSE question

R1Init ==
    /\ Init
    /\ r1Phase = "off"
    /\ nominee = [t \in Teams |-> [d \in Difficulties |-> None]]
    /\ question = Sheet("question", 0, 0, 0, Teams)
    /\ attempt = Sheet("tiebreak", 0, 0, 0, {})
    /\ points = [t \in Teams |-> 0]
    /\ maco = NoMaco
    /\ standing = {}
    /\ r1Winner = None
    /\ drawn = 0
    /\ judging = {}
    /\ verdicts = {}

-----------------------------------------------------------------------------
(* Grading. *)

LevelOf(s) == IF s.kind = "question" THEN DifficultyOf[s.no] ELSE TiebreakLevel

\* pendingGrading: once a sheet is in its retry phase only retries count.
PendingFirst(s) ==
    {t \in DOMAIN s.answers :
        /\ s.phase # "retry"
        /\ s.answers[t].retrySub = NoAnswer
        /\ s.answers[t].sub # NoAnswer
        /\ s.answers[t].ruling = Unruled}

PendingRetry(s) ==
    {t \in DOMAIN s.answers :
        s.answers[t].retrySub # NoAnswer /\ s.answers[t].retryRuling = Unruled}

Pending(s) == PendingFirst(s) \cup PendingRetry(s)

\* The answer that counts is the retry once there is one.
FinalVerdict(a) == IF a.retrySub # NoAnswer THEN a.retryRuling ELSE a.ruling

NeedsHostReview(s) ==
    {t \in DOMAIN s.answers : FinalVerdict(s.answers[t]) = "NEEDS_HOST_REVIEW"}

\* A slip the checks must catch: a verdict is taken whenever it comes.
RulesAnySheet(s) == s.kind = "question" => Running

\* recordRuling refuses once revealed; only a question's goes past the engine.
TakesRulings(s) == s.phase # "revealed" /\ (s.kind = "question" => Running)

\* Every pending answer the text alone decides is ruled.
GradedAnswer(s, t) ==
    LET a == s.answers[t] IN
    [a EXCEPT !.ruling = IF t \in PendingFirst(s) THEN Deterministic[a.sub] ELSE @,
              !.retryRuling = IF t \in PendingRetry(s) THEN Deterministic[a.retrySub] ELSE @]

Graded(s) ==
    IF TakesRulings(s)
    THEN [s EXCEPT !.answers = [t \in DOMAIN @ |-> GradedAnswer(s, t)]]
    ELSE s

Key(s, t, retry) == [kind |-> s.kind, no |-> s.no, team |-> t, retry |-> retry]

KeysOf(vs) == {v.key : v \in vs}

\* A slip the checks must catch: only first answers are asked about.
FirstOnly(s) ==
    {Key(s, t, FALSE) : t \in {u \in PendingFirst(s) : Deterministic[s.answers[u].sub] = Unruled}}

\* The rest is asked of the judge; an answer that waits to be applied is not
\* asked again, a call in flight is.
Questionable(s) ==
    {Key(s, t, FALSE) : t \in {u \in PendingFirst(s) : Deterministic[s.answers[u].sub] = Unruled}}
    \cup
    {Key(s, t, TRUE) : t \in {u \in PendingRetry(s) : Deterministic[s.answers[u].retrySub] = Unruled}}

AskJudge(s) == judging' = judging \cup (Questionable(s) \ KeysOf(verdicts))

VerdictOr(k, default) ==
    IF k \in KeysOf(verdicts) THEN (CHOOSE v \in verdicts : v.key = k).verdict ELSE default

\* applyRound1Judgements: a verdict never replaces a ruling that is there.
JudgedAnswer(s, t) ==
    [s.answers[t] EXCEPT
        !.ruling = IF @ = Unruled THEN VerdictOr(Key(s, t, FALSE), @) ELSE @,
        !.retryRuling = IF @ = Unruled THEN VerdictOr(Key(s, t, TRUE), @) ELSE @]

Judged(s) ==
    IF TakesRulings(s)
    THEN [s EXCEPT !.answers = [t \in DOMAIN @ |-> JudgedAnswer(s, t)]]
    ELSE s

-----------------------------------------------------------------------------
(* What the methods of Round1 do to a sheet. *)

\* closeQuestion and closeTiebreakAttempt.
Closed(s) == [s EXCEPT !.phase = "grading", !.window = NoWindow]

SheetDue(s) == s.phase = "open" /\ Due(s.window)

\* retryWindowExpired: some team's retry, unanswered, has run out.
RetryDue(s) ==
    s.phase = "retry" /\ \E t \in DOMAIN s.answers :
        LET a == s.answers[t] IN a.retryOpen /\ a.retrySub = NoAnswer /\ Due(a.retry)

\* closeRetries: of every team, whoever's ran out.
RetriesClosed(s) ==
    [s EXCEPT
        !.phase = IF @ = "retry" THEN "grading" ELSE @,
        !.answers = [t \in DOMAIN @ |->
                        IF @[t].retryOpen THEN [@[t] EXCEPT !.retry = NoWindow] ELSE @[t]]]

\* A slip the checks must catch: the reveal does not end the retries.
RetryAnyTime(s, t) ==
    /\ ~s.answers[t].retryOpen
    /\ s.answers[t].retrySub = NoAnswer
    /\ s.answers[t].ruling = "INCORRECT"

RetryEligible(s, t) ==
    /\ s.phase # "revealed"
    /\ ~s.answers[t].retryOpen
    /\ s.answers[t].retrySub = NoAnswer
    /\ s.answers[t].ruling = "INCORRECT"

\* Whom a sheet waits for.
Owing(s) ==
    CASE s.phase = "open"  -> {t \in DOMAIN s.answers : s.answers[t].sub = NoAnswer}
      [] s.phase = "retry" -> {t \in DOMAIN s.answers :
                                  s.answers[t].retryOpen /\ s.answers[t].retrySub = NoAnswer}
      [] OTHER -> {}

NomineesOf(s) == {nominee[t][LevelOf(s)] : t \in Owing(s)} \ {None}

\* activePlayerIds: the question's, and if it waits for nobody the tiebreak's.
WaitsFor(q, a) ==
    MembersOf(IF q.phase \in {"open", "retry"} THEN NomineesOf(q)
              ELSE IF a.phase = "open" THEN NomineesOf(a) ELSE {})

\* A slip the checks must catch: the engine is not told who is awaited now.
ActiveKept(q, a) == active

ActiveAfter(q, a) == WaitsFor(q, a)

\* Only the engine's list of active players changes in the game.
OnlyActive(q, a) ==
    /\ active' = ActiveAfter(q, a)
    /\ UNCHANGED <<now, flowVars, members, challenge, settlements, turn, pausedBy, timerVars>>

-----------------------------------------------------------------------------
(* The Host opens the round and its questions. *)

\* The room starts Round 1 with the game if its question set is valid.
StartGameInRoom ==
    /\ StartGame
    /\ r1Phase' \in {"off", "nominating"}
    /\ UNCHANGED <<nominee, sheetVars, standing, r1Winner, drawn, judgeVars>>

\* If it was not, a development control tries again.
BeginRound1 ==
    /\ Running
    /\ roundIndex = 1
    /\ r1Phase = "off"
    /\ r1Phase' = "nominating"
    /\ UNCHANGED <<vars, nominee, sheetVars, standing, r1Winner, drawn, judgeVars>>

NominateAnswerer(t, d, p) ==
    /\ Running
    /\ r1Phase = "nominating"
    /\ p \in members[t]
    /\ nominee' = [nominee EXCEPT ![t][d] = p]
    /\ UNCHANGED <<vars, r1Phase, sheetVars, standing, r1Winner, drawn, judgeVars>>

StartQuestions ==
    /\ Running
    /\ r1Phase = "nominating"
    /\ \A t \in Teams, d \in Difficulties : nominee[t][d] # None
    /\ r1Phase' = "questions"
    /\ UNCHANGED <<vars, nominee, sheetVars, standing, r1Winner, drawn, judgeVars>>

MayReveal ==
    /\ r1Phase = "questions"
    /\ question.no = 0 \/ question.phase = "revealed"
    /\ question.no < Questions

PeekOver == maco' = NoMaco

\* The handler prepares and starts a challenge, then reveals the question; if
\* the round refuses, the challenge stays, played by nobody.
NextQuestion ==
    /\ PreparesAndStarts
    /\ IF MayReveal
       THEN /\ question' = Sheet("question", question.no + 1, challenge.id + 1,
                                 QuestionMs, Teams)
            /\ active' = ActiveAfter(question', attempt)
            /\ PeekOver
       ELSE active' = {} /\ UNCHANGED <<question, maco>>
    /\ UNCHANGED <<r1Phase, nominee, attempt, points, standing, r1Winner, drawn, judgeVars>>

\* Where a challenge is open already, only the phase moves on.
NextQuestionRefused ==
    /\ ~NoOpenChallenge
    /\ AdvancePhase("CHALLENGE_INTRO")
    /\ UNCHANGED r1Vars

-----------------------------------------------------------------------------
(* Players. *)

\* submitAnswer and submitTiebreakAnswer: the first answer, in time.
TakesFirst(s, t) ==
    /\ s.phase = "open"
    /\ t \in DOMAIN s.answers
    /\ s.answers[t].sub = NoAnswer
    /\ ~Due(s.window)

\* A retry closed with the others' keeps its place, and no window bounds it.
TakesRetry(s, t) ==
    /\ s.phase = "retry"
    /\ s.answers[t].retryOpen
    /\ s.answers[t].retrySub = NoAnswer
    /\ ~Due(s.answers[t].retry)

IsNominee(s, t, p) == s.no > 0 /\ p \in members[t] /\ nominee[t][LevelOf(s)] = p

SubmitAnswer(t, p, a) ==
    /\ Running
    /\ ~InTiebreak
    /\ IsNominee(question, t, p)
    /\ \/ /\ TakesFirst(question, t)
          /\ question' = [question EXCEPT !.answers[t].sub = a]
       \/ /\ TakesRetry(question, t)
          /\ question' = [question EXCEPT !.answers[t].retrySub = a]
    /\ OnlyActive(question', attempt)
    /\ UNCHANGED <<r1Phase, nominee, attempt, points, maco, standing, r1Winner, drawn, judgeVars>>

SubmitTiebreakAnswer(t, p, a) ==
    /\ Running
    /\ InTiebreak
    /\ IsNominee(attempt, t, p)
    /\ TakesFirst(attempt, t)
    /\ attempt' = [attempt EXCEPT !.answers[t].sub = a]
    /\ OnlyActive(question, attempt')
    /\ UNCHANGED <<r1Phase, nominee, question, points, maco, standing, r1Winner, drawn, judgeVars>>

\* grantMaco: the nominee, and an answer that has come.
MayPeek(t, p, target) ==
    /\ IsNominee(question, t, p)
    /\ question.phase \in {"open", "grading"}
    /\ target # t
    /\ question.answers[target].sub # NoAnswer

\* Nothing takes the card: one that is in play gives peek after peek.
ViewMaco(t, p, target) ==
    /\ Running
    /\ MayPeek(t, p, target)
    /\ maco' = [viewer |-> p, target |-> target, question |-> question.no,
                window |-> OpenWindow(MacoMs)]
    /\ UNCHANGED <<vars, r1Phase, nominee, question, attempt, points, standing, r1Winner, drawn,
                   judgeVars>>

-----------------------------------------------------------------------------
(* The Host closes, rules, gives retries and reveals. *)

CloseQuestion ==
    /\ Running
    /\ question.phase = "open"
    /\ question' = Graded(Closed(question))
    /\ AskJudge(Closed(question))
    /\ maco' = NoMaco
    /\ OnlyActive(question', attempt)
    /\ UNCHANGED <<r1Phase, nominee, attempt, points, standing, r1Winner, drawn, verdicts>>

WithRuling(s, t, retry, v) ==
    IF retry THEN [s EXCEPT !.answers[t].retryRuling = v]
             ELSE [s EXCEPT !.answers[t].ruling = v]

\* The Host rules any answer, and again, until the reveal; a question's says
\* which of the two answers it means.  No answer need have come.
RuleAnswer(t, retry, v) ==
    /\ started
    /\ Current.no > 0
    /\ TakesRulings(Current)
    /\ t \in DOMAIN Current.answers
    /\ IF InTiebreak
       THEN ~retry /\ attempt' = WithRuling(attempt, t, FALSE, v) /\ UNCHANGED question
       ELSE question' = WithRuling(question, t, retry, v) /\ UNCHANGED attempt
    /\ UNCHANGED <<vars, r1Phase, nominee, points, maco, standing, r1Winner, drawn, judgeVars>>

OpenRetry(t) ==
    /\ Running
    /\ question.no > 0
    /\ RetryEligible(question, t)
    /\ question' = [question EXCEPT !.phase = "retry",
                                    !.answers[t].retryOpen = TRUE,
                                    !.answers[t].retry = OpenWindow(RetryMs)]
    /\ OnlyActive(question', attempt)
    /\ UNCHANGED <<r1Phase, nominee, attempt, points, maco, standing, r1Winner, drawn, judgeVars>>

Winners(q) == {t \in DOMAIN q.answers : FinalVerdict(q.answers[t]) = "CORRECT"}

Award(q, t, doubled) ==
    IF t \in Winners(q)
    THEN (IF t \in doubled THEN 2 ELSE 1) * Value[LevelOf(q)]
    ELSE 0

Leaders(pts) == {t \in Teams : \A u \in Teams : pts[u] <= pts[t]}

\* decideWinner, once the last question is revealed.
DecideWinner(pts) ==
    IF Cardinality(Leaders(pts)) = 1
    THEN /\ r1Winner' = CHOOSE t \in Leaders(pts) : TRUE
         /\ r1Phase' = "complete"
         /\ UNCHANGED standing
    ELSE /\ standing' = Leaders(pts)
         /\ r1Phase' = "tiebreak"
         /\ UNCHANGED r1Winner

\* applyAwards, and what follows a last question.
RevealAndScore(q, doubled) ==
    /\ question' = [q EXCEPT !.phase = "revealed", !.window = NoWindow,
                             !.answers = [t \in Teams |->
                                 [@[t] EXCEPT !.awarded = Award(q, t, doubled)]]]
    /\ points' = [t \in Teams |-> points[t] + Award(q, t, doubled)]
    /\ PeekOver
    /\ IF q.no = Questions THEN DecideWinner(points')
                           ELSE UNCHANGED <<r1Phase, standing, r1Winner>>

ReadyToReveal == Pending(question) = {} /\ NeedsHostReview(question) = {}

\* The challenge resolved and paid is the engine's current one.  It is paid
\* even where the round then refuses: before the first question, and when a
\* revealed question is revealed again.
RevealAnswer(doubled) ==
    /\ ~InTiebreak
    /\ r1Phase # "off"
    /\ ReadyToReveal
    /\ ResolveChallenge
    /\ IF question.no > 0 /\ question.phase # "revealed"
       THEN RevealAndScore(question, doubled)
       ELSE UNCHANGED <<question, points, maco, r1Phase, standing, r1Winner>>
    /\ UNCHANGED <<nominee, attempt, drawn, judgeVars>>

\* A reveal that is refused has already moved the phase on.
RevealRefused ==
    /\ ~InTiebreak
    /\ phase = "ACTIVE_PLAY"
    /\ r1Phase = "off" \/ ~ReadyToReveal
    /\ AdvancePhase("HOST_REVIEW")
    /\ UNCHANGED r1Vars

-----------------------------------------------------------------------------
(* The tiebreak. *)

\* The item is taken before the round is asked, and lost if it refuses.
StartTiebreak ==
    /\ started
    /\ drawn < MaxTiebreaks
    /\ drawn' = drawn + 1
    /\ IF Running /\ InTiebreak /\ attempt.phase \in {"pending", "revealed"}
       THEN /\ attempt' = Sheet("tiebreak", drawn', 0, TiebreakMs, standing)
            /\ OnlyActive(question, attempt')
       ELSE UNCHANGED <<vars, attempt>>
    /\ UNCHANGED <<r1Phase, nominee, question, points, maco, standing, r1Winner, judgeVars>>

\* A slip the checks must catch: with nobody right, everybody is out.
RightOnly(right) == right

Survivors(right) == IF right = {} THEN standing ELSE right

\* One right answer wins; all right or none, and the same teams play again.
ResolveTiebreak ==
    /\ Running
    /\ InTiebreak
    /\ attempt.no > 0 /\ attempt.phase # "revealed"
    /\ PendingFirst(attempt) = {}
    /\ attempt' = [attempt EXCEPT !.phase = "revealed"]
    /\ standing' = Survivors(Winners(attempt))
    /\ IF Cardinality(Winners(attempt)) = 1
       THEN /\ r1Winner' = CHOOSE t \in Winners(attempt) : TRUE
            /\ r1Phase' = "complete"
       ELSE UNCHANGED <<r1Winner, r1Phase>>
    /\ OnlyActive(question, attempt')
    /\ UNCHANGED <<nominee, question, points, maco, drawn, judgeVars>>

-----------------------------------------------------------------------------
(* The judge, the tick, the pause and the clock. *)

\* A call in flight comes back; the same answer may have been asked about
\* more than once, so another call may be left.
JudgeAnswers(k, v) ==
    /\ UNCHANGED <<vars, r1Phase, nominee, sheetVars, standing, r1Winner, drawn>>
    /\ k \in judging
    /\ verdicts' = {w \in verdicts : w.key # k} \cup {[key |-> k, verdict |-> v]}
    /\ judging' \in {judging, judging \ {k}}

\* The windows as the tick finds them: the question's, then the retries'.
AfterWindows(q) ==
    LET closed == IF Running /\ SheetDue(q) THEN Closed(q) ELSE q
    IN  IF RetryDue(closed) THEN RetriesClosed(closed) ELSE closed

\* The room's tick, in its order: windows, what is to be graded, the peek, and
\* what the judge has said.  Verdicts of another sheet are thrown away, refused
\* ones with them.
Tick ==
    /\ UNCHANGED <<r1Phase, nominee, points, standing, r1Winner, drawn>>
    /\ verdicts' = IF Current.no = 0 THEN verdicts ELSE {}
    /\ \E q \in {AfterWindows(question)},
          a \in {IF SheetDue(attempt) THEN Closed(attempt) ELSE attempt} :
       \E graded \in {Graded(IF InTiebreak THEN a ELSE q)} :
           /\ question' = IF InTiebreak THEN q ELSE Judged(graded)
           /\ attempt' = IF InTiebreak THEN Judged(graded) ELSE a
           /\ AskJudge(graded)
           /\ IF Running /\ SheetDue(question)
              THEN PeekOver /\ OnlyActive(q, attempt)
              ELSE /\ maco' = IF Due(maco.window) THEN NoMaco ELSE maco
                   /\ UNCHANGED vars

WithRetry(a, event) == [a EXCEPT !.retry = WindowAfter(event, @)]

WithWindows(s, event) ==
    [s EXCEPT !.window = WindowAfter(event, @),
              !.answers = [t \in DOMAIN @ |-> WithRetry(@[t], event)]]

\* pauseWindows and resumeWindows, and the clock on all of them.
EveryWindow(event) ==
    /\ question' = WithWindows(question, event)
    /\ attempt' = WithWindows(attempt, event)
    /\ maco' = [maco EXCEPT !.window = WindowAfter(event, @)]
    /\ UNCHANGED <<r1Phase, nominee, points, standing, r1Winner, drawn, judgeVars>>

PauseRound1 == GamePauses /\ EveryWindow("pause")

ResumeRound1 == Resume /\ EveryWindow("resume")

TimePasses == EveryWindow("tick") /\ UNCHANGED vars

R1Next ==
    \/ StartGameInRoom
    \/ BeginRound1
    \/ \E t \in Teams, d \in Difficulties, p \in Players : NominateAnswerer(t, d, p)
    \/ StartQuestions
    \/ NextQuestion
    \/ NextQuestionRefused
    \/ \E t \in Teams, p \in Players, a \in Typed : SubmitAnswer(t, p, a)
    \/ \E t \in Teams, p \in Players, a \in Typed : SubmitTiebreakAnswer(t, p, a)
    \/ \E t, u \in Teams, p \in Players : ViewMaco(t, p, u)
    \/ CloseQuestion
    \/ \E t \in Teams, r \in BOOLEAN, v \in {"CORRECT", "INCORRECT"} : RuleAnswer(t, r, v)
    \/ \E t \in Teams : OpenRetry(t)
    \/ \E doubled \in SUBSET Teams : RevealAnswer(doubled)
    \/ RevealRefused
    \/ StartTiebreak
    \/ ResolveTiebreak
    \/ \E k \in judging, v \in Verdicts : JudgeAnswers(k, v)
    \/ Tick
    \/ PauseRound1
    \/ ResumeRound1
    \/ TimePasses
    \/ HostMoves /\ UNCHANGED r1Vars

R1Spec == R1Init /\ [][R1Next]_allR1Vars

\* The tick comes every 250 ms.  A judge asked about an answer that still
\* waits replies: the one the server has does at once.
JudgeReplies == \E k \in judging \cap Questionable(Current), v \in Verdicts : JudgeAnswers(k, v)

FairR1Spec == R1Spec /\ WF_allR1Vars(Tick) /\ WF_allR1Vars(JudgeReplies)

-----------------------------------------------------------------------------
(* Whose words the phone of player p in team mine is shown.  Of a ruling every *)
(* phone is told at once, and of a retry (ROUND1_ANSWER_GRADED, hostOverrode,   *)
(* usedRetry, retryOpen): nothing is hidden of them, and nothing said here.     *)

Peeking(s, t, p) ==
    /\ s.kind = "question"
    /\ maco.target = t /\ maco.viewer = p /\ maco.question = s.no
    /\ ~Due(maco.window)

MaySeeText(s, t, mine, p) == t = mine \/ s.phase = "revealed" \/ Peeking(s, t, p)

\* The retry's words once there are any.
LastText(a) == IF a.retrySub # NoAnswer THEN a.retrySub ELSE a.sub

\* The words of team t, in #answerView.
WordsShown(s, t, mine, p) ==
    IF MaySeeText(s, t, mine, p) THEN LastText(s.answers[t]) ELSE NoAnswer

\* macoView: the first words of the team looked at, whatever it sent since.
PeekShown(p) ==
    IF \E t \in Teams : Peeking(question, t, p)
    THEN question.answers[maco.target].sub ELSE NoAnswer

\* correctAnswer: the right answer goes out with the reveal.
SolutionShown(s) == s.phase = "revealed"

-----------------------------------------------------------------------------
(* Properties. *)

Windowed(s) == {s.window} \cup {s.answers[t].retry : t \in DOMAIN s.answers}

AnswersOk(s) ==
    \A t \in DOMAIN s.answers : LET a == s.answers[t] IN
        /\ {a.sub, a.retrySub} \subseteq Typed \cup {NoAnswer}
        /\ {a.ruling, a.retryRuling} \subseteq Verdicts \cup {Unruled}
        /\ a.retryOpen \in BOOLEAN /\ a.awarded \in Nat
        /\ a.retry \in WindowsUpTo(RetryMs)

R1TypeOK ==
    /\ r1Phase \in {"off", "nominating", "questions", "tiebreak", "complete"}
    /\ nominee \in [Teams -> [Difficulties -> Players \cup {None}]]
    /\ question.no \in 0..Questions /\ question.phase \in SheetPhases
    /\ question.challenge \in 0..challenge.id
    /\ question.window \in WindowsUpTo(QuestionMs) /\ AnswersOk(question)
    /\ attempt.no \in 0..drawn /\ attempt.phase \in SheetPhases \ {"retry"}
    /\ attempt.window \in WindowsUpTo(TiebreakMs) /\ AnswersOk(attempt)
    /\ points \in [Teams -> Nat]
    /\ maco.window \in WindowsUpTo(MacoMs)
    /\ r1Phase \in {"nominating", "questions", "tiebreak", "complete"} => roundIndex > 0
    /\ r1Phase = "complete" <=> r1Winner # None
    /\ standing \subseteq Teams /\ drawn \in 0..MaxTiebreaks

\* Every window of the round, the peek's included, stands still exactly while
\* the game is paused, whatever was open when the pause came (pauseWindows).
WindowsFollowPause ==
    \A w \in Windowed(question) \cup Windowed(attempt) \cup {maco.window} :
        FollowsPause(w, Paused)

\* What a phone is told in youMaySubmit.
YouMaySubmit(t, p) ==
    /\ IsNominee(question, t, p)
    /\ t \in Owing(question)

\* Until the question's challenge is first resolved, whoever may still answer is
\* awaited, so that losing them pauses the game (syncRound1ActivePlayers).
OwedAnswersAwaited ==
    question.no > 0 /\ settlements[question.challenge] = 0 =>
        \A t \in Teams, p \in Players : YouMaySubmit(t, p) => p \in active

\* A revealed question was paid for, and what it gave is what was ruled: no
\* verdict that comes later, from the judge or the Host, parts the two.
ScoredAsRuled ==
    question.phase = "revealed" =>
        /\ settlements[question.challenge] > 0
        /\ \A t \in Teams : question.answers[t].awarded > 0 <=> t \in Winners(question)

\* A peek is at an answer of the question being asked, by the one who has to
\* answer it, and is over when the question is (Round1MacoView).
PeekIsForThisQuestion ==
    maco.target # None =>
        /\ maco.question = question.no
        /\ question.phase \in {"open", "grading", "retry"}
        /\ question.answers[maco.target].sub # NoAnswer
        /\ \E t \in Teams \ {maco.target} : nominee[t][LevelOf(question)] = maco.viewer
        /\ \A p \in Players : PeekShown(p) # NoAnswer <=> p = maco.viewer /\ ~Due(maco.window)

\* Of the sheet s, which a step takes to after.
Unknowing(s, after) ==
    after.no = s.no =>
        /\ SolutionShown(s) => SolutionShown(after)
        /\ \A t \in DOMAIN s.answers : LastText(after.answers[t]) # LastText(s.answers[t]) =>
               /\ ~SolutionShown(s)
               /\ \A p \in members[t], u \in DOMAIN s.answers \ {t} :
                      WordsShown(s, u, t, p) # NoAnswer => Peeking(s, u, p)

\* Nobody answers who has been shown the solution or, but for a peek, another
\* team's words, and the solution once shown stays shown: it ends the question
\* (#answerView, #questionView).  How another team was ruled anybody may know.
NobodyAnswersKnowing ==
    [][Unknowing(question, question') /\ Unknowing(attempt, attempt')]_allR1Vars

Knockout == INSTANCE Elimination
                WITH Contenders <- Teams, Nobody <- None,
                     champion <- IF standing = {} THEN None ELSE r1Winner

\* The tiebreak is a knockout: teams only leave it, never all of them, and its
\* winner is the one left (resolveTiebreakAttempt).
ImplementsElimination == Knockout!KSpec

\* Texts that are, but for one slip, an accepted form long enough to forgive one.
NearlyRight ==
    {a \in Typed :
        LET guess == NormalizeAnswer(a)  letters == {guess[i] : i \in DOMAIN guess} IN
        \E f \in AcceptedForms(Accepted) : Len(f) > 4 /\ guess \in {f} \cup OneSlip(f, letters)}

\* The text of a slip is enough to rule it (gradeDeterministic).
SlipsAreDecided == \A a \in NearlyRight : Deterministic[a] # Unruled

\* A slip of the finger never goes to the judge, and slips are what the distance
\* counts, over all words of up to five letters (damerauLevenshtein).
TyposAreForgiven ==
    /\ SlipsAreDecided
    /\ \A t \in DOMAIN question.answers : LET a == question.answers[t] IN
           /\ Key(question, t, FALSE) \in judging => a.sub \notin NearlyRight
           /\ Key(question, t, TRUE) \in judging => a.retrySub \notin NearlyRight
    /\ SlipsAreCounted

\* A question does not stay open past its window, unless the game is paused.
QuestionCloses == []<>(~SheetDue(question) \/ Paused)

\* No answer waits for a ruling for ever, even if the text decides nothing, the
\* verdict is thrown away in a pause, or the judge only sends it to the Host;
\* in the tiebreak not even through a pause.
EveryAnswerIsRuled ==
    /\ <>[]~Paused => []<>(Pending(question) = {} \/ question.phase = "revealed")
    /\ []<>(PendingFirst(attempt) = {})

\* What holds of a question between any two steps: well-formed, its windows tied
\* to the pause, and whoever may still answer awaited.
QuestionIsSound == R1TypeOK /\ WindowsFollowPause /\ OwedAnswersAwaited

\* What an answer earns is what it was ruled, and slips are ruled right.
RuledAsGraded == ScoredAsRuled /\ TyposAreForgiven

\* The words of an answer and the solution are hidden from those who could use
\* them: a peek shows the question it was given for, and whoever was shown more
\* answers no more.
AnswersStayHidden == []PeekIsForThisQuestion /\ NobodyAnswersKnowing

\* A question comes to its end: its windows close and its answers are ruled.
QuestionIsSettled == QuestionCloses /\ EveryAnswerIsRuled

=============================================================================

# Brains and Bacchanal: a TLA+ verification project

Brains and Bacchanal is a party game. A Unity program on the television is the
Host, phones are the players, and a Node server decides everything. The server's
rules are a library without I/O (`packages/game-rules`), driven by a WebSocket
server (`apps/game-server`) and described by shared types and tables
(`packages/protocol`). This project models that server: what it keeps, what each
intent, socket event and tick does to it, and what must stay true in every order
they can come in.

Sections: inventory; the models; what the runs check; fairness; proofs;
abstractions; disagreements met; not modelled; plan; how to run.

## 1. Inventory

All of the server is one JavaScript thread, and the game library never awaits: an
intent, a close event and a tick are each atomic. Nothing is persisted: a restart
loses every room. What is hard is therefore not data races but ORDER (which
legal intent arrives while what else is open), TIME (deadlines nobody watches
between two polls, frozen and restarted by pauses) and TWO MEMORIES of one fact
(room and engine, engine and round, card hand and Clash).

| Component | State | Operations | Talks to | Correct when |
|---|---|---|---|---|
| Deadline (`deadline.ts`) | start, length, `pausedAt`, banked pauses | start, pause, resume, extend, read | everything that times | a pause costs nothing, time left never grows by itself |
| Timer service (`timer-service.ts`) | one deadline, its challenge, "expiry reported" | start, pause, resume, cancel, extend, `expireIfDue` | engine | one report per arming, belongs to the challenge on screen |
| Game flow (`game-engine.ts`, `transitions.ts`, `lifecycle.ts`) | phase, captured phase, round, challenge, turn, active players, rosters | start, advance, prepare, start, review, resolve, turn, active, remove, pause, resume | all below | pause is an overlay, results are applied once and in order, it never waits on someone gone |
| Room (`room.ts`) | players, teams, status, role of each socket, Host socket, intent registry, event log | join, reconnect, leave, remove, teams, lock, close, start; every game intent; tick | engine, server | one socket speaks for a player, a drop of an active player pauses |
| Server and transport (`rooms/server.ts`, `websocket.ts`) | sockets, socket -> room | connect, message, close, 250 ms tick | room | a superseded socket acts for nobody |
| Bacchanal Cards (`bacchanal-cards.ts`) | each card's status, window, who played, what is barred | deal, open, play, return, consume | Clash, shared systems | one play a team and challenge, a committed card comes back or is spent |
| Clash (`clash.ts`, `shared-systems.ts`) | plays, who may answer, 6 s deadline | open, respond, reveal, clear | cards, advantages, tick | decided by the category cycle, once, on the challenge it began in |
| Sudden Death (`sudden-death.ts`) | two teams, streaks, a face-off, 3 s deadline, winner | begin, face-off, buzz, rule, no decision | engine, tick | two wins in a row end the game, silence is ruled |
| Round 2 (`round2.ts`) | contests in order, selection | begin, prepare, select, confirm | engine, ledger | in order, one winner each, each paid |
| Round 1 (`round1*.ts`) | questions, answers, verdicts, retries, tiebreak | nominate, reveal, submit, close, grade, rule, award | judge (async), tick, ledger | every answer is ruled in the end, what is ruled is scored, nobody answers knowing |
| Round 3 (`round3*.ts`) | contests, items, points, Think Fast, rock-paper-scissors | reveal, point, eliminate, confirm, choose, resolve | tick, content | an item window moves on by itself, a tie is broken |
| Round 4 (`round4*.ts`) | matchups, survey, board, strikes, steal, five timers | face-off, play or pass, board answers, strike, steal | tick, wagers, ledger | no stage leaves everyone waiting, three strikes open a steal |
| Ledger (`bb-ledger.ts`, `bb.ts`) | balances, entries | seed, apply | all that pays | never negative, and what was applied is what a refund gives back |
| Market, advantages, Maco Mail (`market.ts`, `advantages.ts`, `maco-mail.ts`) | activation, purchases, surcharges, held advantages, budgets of a challenge, deck | open, close, buy, withdraw, cancel, use, draw, expire | ledger, game flow | receipts, ledger and advantages agree, one advantage of a kind a challenge, no card lost or copied |
| Host Deals and wagers (`deals.ts`) | a deal a round, wagers, the stake of a steal | offer, accept, decline, propose, lock, settle, cancel | ledger, Round 4 | a deal is paid in full or not accepted, what was settled stays settled |
| Event log, intent registry | events, ids seen | append, record | room, phones | a retried intent applies once, a phone at rest has read the last event |
| Phone client (`apps/web/src/rooms/client.ts`) | socket, identity, pending requests | connect, join, resume, tap, read, retry, give up | server | a phone that drops comes back as the same player |
| Unity Host, web screens | a copy of a snapshot | show, send intents | server | out of scope: whatever they send is a free choice |

Behaviours that are hard to test, with the line where each bites, are the
`hazards` of `PROJECT.json`. The recurring ones:

* the Host can send ANY engine intent at any time the engine accepts it, also the
  generic ones (resolve, review, advance) in the middle of a round or of Sudden
  Death that has its own idea of what is open;
* a pause, by the Host or by a dropped phone, can come at any point and must
  freeze every deadline there is, and only those that run;
* a deadline is noticed only when the tick, or the next intent, polls it, so
  "expired" and "acted upon" are different moments;
* a socket that was replaced goes on speaking until its close event, which can
  come after its player has moved on twice;
* several effects are two calls in a row whose second may refuse: card committed
  then Clash opened, face-off ruled then game ended, phase walked then challenge
  abandoned.

## 2. The models

```
Deadline <- GameFlow <- SuddenDeath             refines TwoInARow
   ^           |   \---- Round2                 refines OrderedRound    (with DevSkip)
   |           |   \---- CardsClash -> ClashRules
   |           |   \---- RoomSession
   |           |   \---- Economy
   |           |   \---- Deals
   |           |   \---- DevSkip
   |           \         refines Countdown
   |
   |  GameFlow, Windows <- RoundFlow <- Round1  refines Elimination     (with Grading)
   |                                \-- Round3  refines OrderedRound and Elimination (DevSkip)
   |                                \-- Round4  refines FamilyFeud      (Grading, DevSkip)
   \-- GameFlowProofs --> GameFlow, Windows
           ^
           \-- Round3AndSuddenDeathProofs, Round2And4Proofs, Round1AndDealsProofs,
               CardsClashProofs, EconomyProofs
RoomSessionProofs --> RoomSession
PhoneProofs --> Phone
```

Everything but `Phone` EXTENDS `GameFlow`: they are compositions, in which the intents
of the game flow interleave with their own actions, since in the code every one of
them shares the engine's phase, challenge, pause and rosters. `Phone` looks at the
same server from outside and needs of the game only that it moves.

**Deadline** has the operators of `deadline.ts`, taking the clock reading as a
parameter as the code takes it from `clock.now()`.

**GameFlow** is the engine: `phase` is `#phase.phase`, `resumePhase` the captured
phase, `challenge` the id and status of `#challenge`, `timer`, `timerChallenge` and
`expiryReported` the fields of the timer service; `settlements[c]` counts how often
the result of challenge `c` reached the ledger. One action per engine method:
`StartGame`, `AdvancePhase`, `PrepareChallenge`, `StartChallenge`, `RequestReview`,
`ResolveChallenge`, `SetTurn`, `SetActivePlayers`, `RemoveMember`, `StartTimer`,
`CancelTimer`, `UseExtraTime`, `PollTimerExpiry`, `HostPause`,
`ActivePlayerDisconnect`, `Resume`; `ClockTick` is time. A refused call changes
nothing and is not an action. Where the code ignores a refusal the model does
too (`TryMoveTo`).

**Countdown** is what the timer promises without clock readings: armed, running,
frozen, more time only before it has run out, one ring per arming. GameFlow
implements it with `left <- RemainingTime`, `mode <- TimerMode`,
`rung <- expiryReported`.

**Windows** is a deadline with the clock taken out: what is left and whether a pause
holds it. The rounds keep many deadlines and ask of each only whether it has run
out, so they keep windows, and `GameFlowProofs` proves that a deadline read at any
clock reading is one. **RoundFlow** is what the rounds take from the game flow: the
Host's moves, the pause, and the prepare-and-start a round's handler makes.
**DevSkip** is the walk of `devEnterRound2`, `3` and `4` through the phases before a
round, with a placeholder challenge for each round skipped; a walk that is refused
half way stays where it was refused.

**SuddenDeath** adds `sdTeams`, `streak`, `faceoff`, `answer` and `sdWinner`, the
fields of `SuddenDeath`. `BeginSuddenDeath` is `#walkPhaseToRoundComplete` and the
advance after it in one step, `RuleAnswer` the ruling and the advance to GAME_OVER
whose refusal is dropped, `AnswerTimeout` the tick that rules silence as a wrong
answer. **TwoInARow** is the abstract contest, over the first time one team wins
two in a row.

**Round1** models a question and a tiebreak question as one thing, a sheet: its
phase, window and answers, each with its text, ruling, retry and payment. `Current`
is the sheet rulings go to. `NextQuestion` is the room's handler with the generic
prepare and start before the round is asked, `NextQuestionRefused` the same with the
round refusing after the challenge was made. `Tick` is `#pollTimer` in its order:
windows, grading, the peek, the verdicts that have come. `JudgeAnswers` is a judge
outside the process: it answers when it likes, and its verdicts lie in `verdicts`
until a tick applies or drops them. `ViewMaco` is the look at another team's answer;
`WordsShown` and `SolutionShown` are whose words a phone is shown and when the right
answer (`#answerView`, `#questionView`). **Grading** is
what is made of a text: normalisation, the Damerau-Levenshtein distance with its
cut-off, the tolerance by length and by word, and the matching with a board.
**Elimination** is the abstract knockout.

**Round2** adds the slots, the flag and the selected winner;
`PrepareRound2Challenge` is the generic prepare and the slot it binds in one step,
`ConfirmRound2Result` the generic resolve and the slot it closes. **OrderedRound**
is the abstract round: contests opened one at a time, in order, each closed by one
final winner.

**Round3** has the contests of the table in order: `ThinkFastValid` and
`ThinkFastEliminate` go round the teams that are left by index, `NextItem`,
`AwardPoint` and `ItemMovesOn` run a stream of items, `ConfirmRound3Challenge` pays
and closes, and teams that are level play rock-paper-scissors (`SubmitRpsChoice`;
the last choice, or the tick, reveals). It implements `OrderedRound` as Round 2 does,
and its tiebreak implements `Elimination` as Round 1's does.

**Round4** has the matchups and one survey: the face-off with the buzzer and the
rival's chance, the board with its turn window and strikes, the steal with its
conferring. `paid` is the part of the ledger the surveys wrote, over the whole round: the
survey, its team, the amount and the challenge it went through. `SubmitFaceoffAnswer`, `SubmitBoardAnswer` and `SubmitStealAnswer` match a
text with `Grading`; the Host's rulings and Forgive Meh can take an answer back, and
`Tick` rules the face-off and the turn. **FamilyFeud** is the abstract survey:
face-off, board, strikes, steal, one victor.

**ClashRules** has the tables of `protocol/cards.ts` and `resolveClashEntries`
(`Winners`); `Dominates` is the same rule said once, as the rule book does.
**CardsClash** adds the hands, the window, the Clash and the part of the advantages
a reveal reads and writes. A team has one card of each category, so
`<<team, category>>` names a card. `PlayBacchanalCard`, `RespondToClash`,
`PollClashResolution` and `EndChallenge` keep the order in which
`shared-systems.ts` calls cards, Clash and advantages.

**RoomSession** is the room and the server: `sock` and `bound` for the transport
and `connectionRooms`, `role` for `#connectionRoles`, `hostConn`, `lobby` for
`#players`, and the status, lock and mode of the lobby. A socket is `open`,
`closing` (the server asked it to close; it can still send) or `closed`.
`Disconnect` is the server's close handler, `onDisconnect` and the engine's pause in
one step. Phones are not trusted to behave: a socket that already plays a player
may join or reconnect as another, which is what a repeated JOIN on a slow network
does.

**Economy** is the ledger, the Market, the advantages and Maco Mail. A team has at
most one purchase of an item and a Market that is not cancelled, so a slot
`<<team, item, round>>` names it: `purchase[slot]` is its receipt in `market.ts`,
`goods[slot]` the advantage it granted in `advantages.ts`, and `charged[slot]` what the
ledger's entries for it come to. `mail` and `mailUsed` are the advantages from Maco
Mail, `usage` the budgets of the challenge, `deck` the three piles counted by
outcome. `PurchaseMarketItem`, `WithdrawMarketPurchase` and `DrawMacoMail` are the
engine methods with every call under them; `PhaseStep` is the advance whose arrival
in ROUND_INTRO expires receipts and advantages, `ChallengeStep` the prepare and the
resolve that give the budgets back.

**Deals** is the ledger seen from deals and wagers. A round has at most one deal, so
`deal[round]` is its entry; `wagers` is the list in the order proposed; `steal` is what
of Round 4 decides who may stake and who settles. `applied` in an entry is what the
ledger took after its floor, not what was asked. `LockStealWager` locks a wager, then
asks the round, and cancels where the round refuses; `ResolveSteal` pays the pot and
settles the stake; `DevAdjustBb` is the development control.

**Phone** is the browser: windows of one player that share a storage, each with a
client that connects, resumes or joins, taps, reads, times out, and retries. A
version counts what the room published and a snapshot is the version it was taken
at, so that "shows the game as it is" is a comparison. Sockets break on either side
at any time, the server restarts and forgets every room, a takeover sends the other
window away. `Serve` is the server's handler: `Joins`, `Resumes`, `Reads`, `Acts` with
the intent registry, `Leaves`.

Definitions called slips ("A slip the checks must catch") are plausible mistakes
kept beside the definition they would replace; each property is known to fail
with one of them in its place.

## 3. What the runs check

Bounds are CONSTANTS of the configurations and constraints of the `MC` modules, each
with its comment. `MaxNow`, `MaxRound`, `MaxChallenges`, `MaxSettlements` and
`MaxDuration` cap counters in the guards. Two players and two teams are enough for
every guard that compares a player or a team with another; three where a rule speaks
of the others in the plural. `CHECK_DEADLOCK FALSE` stands where the system really
may stop: a game or a round that is over with its bounds used up, a room or a phone
whose sockets are used up.

| Run | Shows | Bounds, and why they are enough |
|---|---|---|
| `GameFlow_loop` | pause overlay, timer, results and rosters stay consistent; a paused game does not move; a pause costs no time; the timer is a countdown; a timeout reaches the Host | 2 challenges (an earlier and a current one), clock to 3 with a duration of 2 and an extension of 1 (run, wait, resume, expire), one round, each result applied once |
| `SuddenDeath_contest` | answer window follows the pause, streaks decide, refines TwoInARow, silence is ruled | clock to 2, answer window 1, any number of face-offs: streaks are bounded by the code itself |
| `Round1_trivia` | windows follow the pause, whoever owes an answer is awaited, what was ruled is scored, slips are forgiven, nobody answers knowing, the tiebreak is a knockout, questions close and answers are ruled | 3 teams of one, one question and two tiebreak items, windows of 1; one team does everything the round allows, a second what leaves the judge nothing, a third only plays the tiebreak. Two texts: a slip of a known answer and one for the judge. In its first state the run also compares the distance with its definition by edits over all words of up to five letters |
| `Round2_order` | slots bind challenges, results are paid, selections do not leak, refines OrderedRound | 2 contests, 3 challenges: one more than contests, so that a generic challenge can come between |
| `Round3_verbal` | Think Fast has a winner, winners are paid, a leader wins, refines OrderedRound, the tiebreak is a knockout of throws revealed together, nothing stays overdue | 3 teams, Think Fast and two streams, 4 challenges (one generic), items 1, 2 and 1, one point a team: enough to run out of items, to drop out in every order and to tie two or three teams |
| `Round4_feud` | the pot is the board's, is paid at most once and to the winner, and is lost only to another result, the teams in play are awaited, refines FamilyFeud, silence is ruled | 3 teams (the third waits for the final), 2 answers on a board one letter apart, 2 strikes, 3 surveys of which the first is played in every way and the later ones plainly, windows of 1; texts that are an answer, a slip of one, a slip of two, and too short to forgive |
| `CardsClash_clash` | a Clash lives and freezes with its challenge, one play a team, a reveal spends exactly the card that beats the rest, a Clash is revealed | 3 teams with a card of each category: every shape of `Winners` up to three plays; one challenge, window of 1 paused and resumed; a challenge that can be closed and its window reopened |
| `RoomSession_conns` | one socket speaks for a player or for the Host, drops are noticed, nobody stranded, no empty team starts | 3 sockets (a Host, a player, one that replaces either), 2 players, both team modes; the game stays in its first phase |
| `Economy_market` | receipts, ledger and advantages agree; one advantage of a kind a challenge; the deck stays whole | 2 teams, the Market before Round 2 from its opening to the end of the round and after, one challenge; one item that is also in the deck, and a deck of three cards: one that is kept, one that takes a purchase back, one that can become impossible. Results and refunds stop at the starting balance, and a result may take more than a team has |
| `Deals_books` | balances add up, deals are paid in full, stakes are settled once and none is left | the real terms and starting balance, 2 rounds' deals, 2 wagers, a loss and an adjustment of 900 that leave a team too poor for any term, a steal with its stake |
| `Phone_drops` | a lost window comes back and a dismissed one does not, a phone at rest is current, an intent is applied once | 2 windows and 3 sockets (a drop and a takeover), one seat, 2 published versions, one intent that may be sent again, two messages under way, one answer too late |
| `Phone_stale` | a statement of the repository that the code does not keep (section 7) | as `Phone_drops` |

What a run checks of every state is one definition a component, whose named parts
are the properties; the same holds of what it checks of every step. By the question
they answer:

* Does a pause disturb anything? `PauseShape`, `FrozenOnlyForReview`,
  `NothingPlaysWhilePaused`, `PauseCostsNoTime`, `AnswerWindowFollowsPause`,
  `WindowFollowsPause`, `WindowsFollowPause`.
* Is the timer the one on the screen, and is what it said final?
  `TimerOfCurrentChallenge`, `ReportedExpiryStands`, `ImplementsCountdown`.
* Do results and rosters agree? `SettledInOrder`, `WaitsOnlyOnMembers`,
  `ResultsArePaid`, `SlotsBindChallenges`, `ScoredAsRuled`, `PotMatchesBoard`,
  `AwardsTheBoard`.
* Is a team that may act waited for, so that its drop pauses the game?
  `OwedAnswersAwaited`, `PlayingTeamsAwaited`, `DropIsNoticed`.
* Does a contest end the way its rules say? `StreaksDecide`, `ImplementsTwoInARow`,
  `SelectionStaysInItsContest`, `ImplementsOrderedRound`, `ImplementsElimination`,
  `ImplementsFeud`, `ThinkFastHasItsWinner`, `WonByALeader`, `RevealIsFair`.
* Does anyone know too much, too soon? `NobodyAnswersKnowing`,
  `PeekIsForThisQuestion`, `ThrowsRevealedTogether`.
* Is a right answer taken for a wrong one? `TyposAreForgiven`, of which `SlipsAreDecided`
  and `SlipsAreCounted` speak of texts alone.
* Can a team play twice, or get its play back? `OnePlayEach`,
  `PlayIsNeverHandedBack`, `ClashOfLiveChallenge`.
* Who speaks for whom? `RoleHasItsSocket`, `NobodyStranded`, `NoTeamStartsEmpty`,
  `NeverGivesUp`, `SentAwayStaysAway`, `ViewIsCurrent`, `AcceptedOnce`.
* Do two memories of one payment agree? `BooksMatchReceipts`, `GoodsFollowReceipt`,
  `BooksBalance`, `AcceptedInFull`, `NoStrayStake`, `SettledOnce`, `PaidOnce`,
  `PaidToWinner`, `LostToAnotherResult`.
* Does a team get a thing twice, or lose one? `OneOfAKindPerChallenge`, `DeckIsWhole`.
* Does anything wait for ever? `OverdueReachesHost`, `SilenceIsRuled` (Sudden Death and
  Round 4), `ClashIsRevealed`, `QuestionCloses`, `EveryAnswerIsRuled`,
  `NothingStaysOverdue`.

## 4. Fairness

The server's tick is fair. `rooms/server.ts` calls `Room.tick` on every room
every 250 ms with `setInterval`, whatever clients do, and `#pollTimer` inside it
polls every timer, window, Clash and verdict unconditionally. So weak fairness is
assumed of `PollTimerExpiry`, `PollClashResolution`, `AnswerTimeout` and of the `Tick`
of Rounds 1, 3 and 4: no person ever has to act, and the clock is not obliged to
advance. The liveness properties accordingly start from a deadline that HAS passed,
and allow a pause (which only the Host ends) as a way out. Weak fairness suffices
because each stays enabled until it is taken, the game pauses or somebody else ends
what it waits for.

One more thing is fair, in Round 1 only: a judge that was asked about an answer
replies (`JudgeReplies`). The judge the server has, `UnavailableSemanticJudge`, replies
at once, with the request for a ruling by the Host. `guardedJudge`, which would put a
time limit on another one, is not applied by the room, so a real judge that never
replied would make `EveryAnswerIsRuled` false: the property says what is owed to the
default. A constraint cuts the runs of the rounds, so there the liveness properties
are about the behaviours that stay within the bounds.

## 5. Proofs

Eight modules of proofs hold for every set of players, teams, windows and sockets, every
duration, price table, deck, hand and table of terms, and every bound. They rest on the named
assumptions of the modules alone: `None` is no player or team, durations and answer
windows are positive, bounds are naturals (`GameFlow`, `SuddenDeath`, `Round2`, `Phone`); roles,
sockets and `None` are different things (`RoomSession`, `Phone`); a hand has a card of each
category (`CardsClash`); there are finitely many teams (`Economy`), in the Rounds 1 and 3 at
least one, in Round 4 two or three; prices, terms and starting balances are naturals, card
amounts and results integers (`Economy`, `Deals`); windows, values and the number of
questions are positive (`Round1`), contests have a known format (`Round3`), and a survey
has finitely many ranks, the first among them, each worth a natural (`Round4`).
`Round1` and `Round4` are proved for any texts and any accepted forms. One theorem has
hypotheses of its own, `RuledAsGradedAlways` (below).

*Game flow.* `TypeOK` is inductive once it says what a deadline looks like at the
current clock reading: `WellFormed` (started and paused in the past, never paused
for longer than it has existed). Without it the remaining time of an arbitrary
record could be anything after a resume. The deadline lemmas (`StartFacts`,
`PauseFacts`, `ResumeFacts`, `ExtendFacts` and the passing of time) carry all the
arithmetic; every later proof cites them and never opens a deadline. On `TypeOK`
rest, in order: `PauseShapeAlways`; `TimerIsSoundAlways`, one induction for
`TimerOfCurrentChallenge`, `FrozenOnlyForReview` and `ReportedExpiryStands`, which are
inductive only together and relative to the pause; `SettledInOrderAlways`;
`WaitsOnlyOnMembersAlways`; `PausedMeansStartedAlways`; the action properties
`NothingPlaysWhilePausedAlways` and `PauseCostsNoTimeAlways`; and
`TimerImplementsCountdown`, which maps each action to the step of `Countdown` it is.
`GameIsSoundAlways` and `PauseStopsTheGameAlways` gather what the runs check.

*The game under its parts.* `FlowInv` gathers those invariants. Every component whose
steps are steps of the game flow with something beside them says so in one lemma
(`StepsOfTheGame`, `GameSteps`) and inherits it: `GameStaysSound` of the cards, the economy and the
deals. Sudden Death and the rounds are not of that kind, since `BeginSuddenDeath`, a
question of Round 1 and the development walk to a later round take several steps of the
game flow in one; there it is a conjunct of the round's own induction
(`SuddenDeathStaysSound`, `Round1StaysSound` to `Round4StaysSound`). The walk is a
function over the turns of its loop (`Walk`); that it exists, and that each of its states is sound, is an induction over the
turns. The prover cannot instantiate an induction theorem with a predicate, so this
and the sums below use `LeastNatural` and `NaturalsInduct`, which speak of a set of
naturals instead.

*Windows.* Five theorems say that starting, pausing, resuming and reading a deadline,
and the passing of time, do to what is left of it what `Windows` does to a window.
They are what allows the rounds to keep windows, without a clock, in its place.

*Sudden Death.* `StreaksDecide` alone is not inductive: a ruling could find a winner who
never stood in the contest, or a face-off with a winner still open. `Contenders`
adds that who buzzed is one of the two teams, that an open face-off has no winner and
the contest none yet, and that nobody else has a streak. `SuddenDeathImplementsTwoInARow`
maps each action to its step of the abstract contest; that a team with a streak is the
one that won last comes from the invariant.

*Round 2.* `InTurn` makes the order inductive: a contest not started has no challenge, and
whatever comes before one that is started is over. With it a slot that opens takes a
challenge no other slot holds, because ids are given in order, and one that closes is
the first that is open. `Round2ImplementsOrderedRound` needs besides that the winners so
far are a prefix of the table (`WonIsAPrefix`), whose length is their number.

*Round 3.* `R3Inv` has three parts beside the game. `SlotsInv` gives each contest its shape
(`SlotFits`) and its turn: whatever comes before a contest that was started is over and was
paid through an earlier challenge. Think Fast needs that who is up is still in and that
another one is as well (`TurnFacts`); for that the order has every team once, and who is
up is found on it by counting those still in. `WinsInv`
says that the wins are counts of slots, so that with every contest over somebody leads,
and `TieInv` that the tiebreak is among exactly those leaders. From the three follow
`VerbalIsSoundAlways` and `Round3ImplementsOrderedRound`. `TiebreakIsFairAlways` is an action
property and a refinement: throws are taken one by one and handed back all at once, and
somebody always stays, because of two different shapes one beats the other
(`SurvivorsFacts`).

*Round 4.* The invariant is a conjunction over the record of the open survey (`Sound`:
`SurveyRecords`, the pot as the worth of the answers shown, `StageFits`), the match-up
(`MatchupInv`) and the surveys won (`WinsInv`). The pot is a fold, of which two facts are
proved and nothing else used: no answers are worth nothing, and one more answer adds its
value. A survey has four moves before it is settled (`SameHands`, `Counts`, `TakesBoard`,
`StrikesOut`); each operation is shown to make one of them, or to settle it (`Settles`), and
to keep the survey sound, and the refinement of the abstract feud is then one case a move.
`PotIsWholeAlways` is about all that the surveys of the round ever paid (`PaidInv`): every
entry of a survey past is of a challenge before the current survey's, so that the entry a
survey makes comes after all others in both, and that no challenge which a survey finds
settled was settled by another survey.

*Round 1.* `R1Inv` carries the sheets of answers (`SheetsInv`), the windows, the answers owed
and the scores, with the peek (`PeekIsSound`) and the stage of the round (`StageInv`).
Each action keeps the invariant and moves a sheet only onward: `Later` says that what was
sent stays as it was sent and that a revealed sheet stays as it was revealed, `LaterOrNew`
that it may be replaced by a sheet with a higher number. On this order rest the
properties about steps: `AnswersStayHiddenAlways`, since no step of a revealed sheet sends
an answer, and `OnlyOpenAskedAlways`, the invariant that a key in flight to the judge names
words whose text decides nothing, because the words a key names never change while its
verdict is on the way. With it `RuledAsGradedAlways` is immediate from two hypotheses on
texts, `SlipsAreDecided` and `SlipsAreCounted`: that a slip of the finger is decided by its
text and is what the distance counts. They hold no variable of the state; the run
`Round1_trivia` computes them, over its texts and over all words up to its bound, as parts of
`TyposAreForgiven`. `Round1ImplementsElimination` needs that an attempt is answered by
exactly those standing, and what the last question decides: one leader has won, or more
than one stand in the tiebreak (`DecidesStage`).

*Cards and Clash.* `WinnersDominate` proves that `Winners`, which the code computes from
the set of categories on the table, is the play that beats every other, for however
many plays and teams. The induction carries `ClashOfLiveChallenge` and `OnePlayEach` with
`PlaysOfTheChallenge`: window and plays are of the current challenge. `RevealIsFairAlways`
first shows that nothing but the poll reveals a Clash, and what takes effect then.
`OnePlayAChallengeAlways` holds however often the Host closes and reopens the window.

*Room.* `RoleHasItsSocket` with the type invariant is inductive: the intent that
gives a role takes it, in the same step, from the socket the record named before,
and every step that unbinds or closes a socket takes its role. So the proof needs
no induction over histories of replaced sockets. `NobodyStrandedAlways` is its own
small induction; `NoTeamStartsEmptyAlways` and `DropIsNoticedAlways` first show
which single action can make the step they are about.

*Economy.* One induction carries `EconTypeOK`, `BooksMatchReceipts` and
`GoodsFollowReceipt`. The strengthening is one line, `HeldIsAnAdvantage`: what is held
is of an item that grants an advantage, without which a use could spend a budget that
does not exist. The arithmetic is in two lemmas: a purchase charges exactly its price
because the balance was found to cover it (`PurchaseKeeps`), and a cancellation gives
back exactly what was paid because a balance has a floor and no ceiling
(`CancelKeeps`). That receipts and advantages expire together needs no fact about
which round ended, only that both sides compare with the same number
(`EndRoundKeeps`). `DeckIsWholeAlways` counts the cards in the hands of all teams as a sum
that a draw or a use moves by one; it needs that no two cards of the deck grant the
same advantage (`OneCardAType`). `OneOfAKindAlways` needs of the game flow only when a
challenge changes: a prepare gives a new id, and a resolve counts a settlement.

*Deals* (in one module with Round 1, with which they share the game and nothing else).
`BooksBalance` equates a balance with the start, the results and two sums, over
deals and over wagers. Each sum is a tally, the values of the fold on every subset of
its index set, so that a step that changes one entry moves the sum by what it changes
(`DealsMove`, `WagersMove`, `WagersGrow`); the fold is never opened again. The rest of the
invariant is the shape of an entry: one that is not settled has moved nothing, an
accepted one has paid its cost in full, a stake is at most half of what the team had.
`StakesSettleOnceAlways` is the action property on top of it.

*Phone.* Nothing the run checks is inductive: what a phone at rest shows depends on the
answer that showed it, the answer on the request before it on the same socket. So the
invariant `Ok` says of every open window how its pending requests line up with what is
under way. They are, in order, those whose answers are coming down, those a socket no
longer open will not answer, and those still going up (`Lined`); `Counted` numbers the answers,
so that the head of `asked` is the request the next answer is for, given up on or not.
On that rest three parts, each inductive only with the others:

* `Disciplined`: a resume is asked first and at most once, and gives the identity back
  when it is given up; no join is asked by somebody, nor two waited for by nobody.
* `SentOffFor`: a window sent away, or whose dismissal is still coming down, is on a socket
  being closed, and if it knows who it was that socket speaks for nobody; a socket whose
  resume is still to be served holds no seat. This is what keeps a late `resumed` from
  reviving a dismissed window, and it needs of a socket that an id is never used twice
  (`SocketInv`).
* `UpToDate`: a window that plays its seat shows the game as last announced or has a
  `ReasonToRead` on its way: a read still to be served, an answer as new as the
  announcement, an event it listens to, or a resume that was granted. A step that uses up
  one of these puts the next in its place, and `InSequence`, that answers are never
  older than what is shown, keeps a late one from taking the view back.

With nothing asked and nothing coming down there is no reason to read, so the view is
current: `ViewIsCurrentAlways`. `OnlyTheLostComeBackAlways` reads off `SentOffFor`, and
`IntentsApplyOnceAlways` that an intent remembered was accepted once. The proof has a lemma
for the types and one for the invariant of each action, `WindowMoved` for the steps in
which one window moves and `ServerKeeps` for those of the server.

*Only model-checked.* Of the properties of the passing runs, those of states and of steps are all proved,
`RuledAsGraded` from its hypotheses. What stays with TLC is liveness under fairness, which
the prover has none of: `OverdueReachesHost`, `SilenceIsRuled` (Sudden Death and Round 4),
`ClashIsRevealed`, `QuestionCloses`, `EveryAnswerIsRuled` and `NothingStaysOverdue`; and what
the operators of `Grading` compute of a text, that is `SlipsAreDecided` and `SlipsAreCounted`
and the grade of any one answer: they are functions recursive over the letters, and
induction over data is out of the prover's reach.

## 6. Abstractions

* BB amounts are kept in `Economy` and `Deals` only, small numbers in the real order in
  the one and the real terms in the other; Round 1 keeps points, Round 4 the pot and the
  ledger entries of its surveys.
  Elsewhere `settlements` counts applications of a result.
* Economy: rosters, turns and active players stand still. The immunity a Clash
  consumes is in `CardsClash`; the retry of Forgive Meh, which shares the budget of a
  second chance, and the effect of HANDS_TIED are left out. In `Economy_market` the
  game is neither paused nor under review while the Market is used (all of it is
  refused under a pause), and the money cards other than through a result, and
  PARTNER_I_SORRY, are not in its deck; the theorems cover them.
* The clock is monotone and counts in units; 250 ms, 3 s and 6 s are just
  lengths. The room polls before it evaluates an intent and the method reads the
  clock again, so the models do not let an intent assume the poll has just run. In the
  rounds all windows lose time together (`TimePasses`).
* The rounds (`RoundFlow`): the server timer, the turn and the Host's own choice of active
  players stand still; all else the Host may do stays free. A round is the only one of
  its kind in its model: the models of two rounds are not composed.
* Round 1: the card window a question opens and the card that entitles a team to a peek
  are left out (any team may have it), and which results are doubled is a free choice;
  `recordAssist`, which nothing calls, is left out. Of what phones are shown only words and
  the right answer are modelled: of rulings, retries and points nothing is hidden from
  anybody (section 7), so no property speaks of them.
* Round 3: items are counted, not told apart; the ranking of the teams that gives the
  turn order is any order. Round 4: the order of the players within a team is left out
  (no guard reads it), the Host's ruling at the buzzer names an answer of the board or none
  (`room.ts:3419` takes any number), the amount of a stake is in `Deals`, the confirmation of a Clash
  on the board in `CardsClash`.
* Grading: the classes of characters are a few letters and capitals, the blank, "&" and
  two punctuation marks; other letters and marks fold like these.
* Deals: of a steal only its stages and its stake; what a result or a pot gives is a
  free choice. The Maco Mail an accepted deal promises is only reported by the code.
* Cards: the intents that never meet a card (turn, active players, roster, timer)
  are left out of the steps of `CardsClash`, and in its configurations a card that
  needs no target carries none. The confiscation of a card by Maco Mail and the
  development redeal are left out.
* Room: one room; names, tokens and codes are identities, and any socket may
  present any token the room minted. A socket id is never reused. The intents of
  the rounds are those of the game flow.
* Phone: one player; a socket delivers in order in each direction until it breaks, and
  then loses what was under way. The lobby snapshot, names and the closing of the room
  are left out, and an intent is anything the game accepts or refuses.
* `StartGame` ends in ROUND_INTRO; only `Round1` models the room's `startGame`, which
  begins Round 1 at once.

## 7. Where code and statements disagree

Shown by a run: `Phone_stale`. A phone re-reads the game on the events its table of
prefixes names (`page.tsx:41`). The table has no prefix of `SUDDEN_DEATH_*`, so a
face-off that starts, is buzzed or is ruled refreshes no phone, against "so a Phase 6
event does not silently fail to refresh a phone" (`page.tsx:25`).

Met while modelling; the models contain all of it, and the properties are stated so
that they say what holds nevertheless.

*Game flow.*
* `requestReview` accepts a resolved challenge and reopens it, so its result is applied
  again, against "a duplicate resolution must not award twice" (`game-engine.ts:585`,
  `:687`).
* `resume` restarts a timer that a review had frozen before the pause
  (`game-engine.ts:1033`), against "resuming restores the situation rather than
  approximating it" (:975).
* MARKET may move back to ROUND_INTRO, and each return counts another round
  (`game-engine.ts:448`, against "a round ends by being played", :2971).
* The development walk to a round may be refused half way: it returns an error after
  it moved the phase, and no event is published (`game-engine.ts:2985`).

*Sudden Death.*
* The Host may move the phase on during the deciding face-off; the winner is recorded
  and the game does not end, the refusal is ignored (`game-engine.ts:3321`, against
  :3299).
* It may be begun between a team and itself (`room.ts:3922`), leaves an open challenge
  open and payable (`game-engine.ts:3236`), and `recordNoDecision` accepts a decided
  face-off, which keeps its winner (`sudden-death.ts:237`).

*Round 1.*
* An answer that is still ungraded in the retry phase is scored wrong at the reveal
  (`round1.ts:739`).
* A question revealed already can be revealed, and paid, again after a generic prepare,
  against "AWARDED EXACTLY ONCE" (:1011).
* One team's expired retry closes another's; opening that one again revives the first
  with no deadline. A retry opened while the question is open ends the window of
  everybody.
* `closeRetries` and `closeTiebreak` leave the active players as they were, and the
  tiebreak is ruled while the game is paused.
* How a team was ruled is told to every phone at once, also while the question is open or a
  retry is owed: `ROUND1_ANSWER_GRADED` carries team, verdict and source
  (`game-engine.ts:2149`; the Host's ruling in the tiebreak too, `room.ts:3092`) and goes to
  every connection of the room, and `#answerView` sends `hostOverrode`, `usedRetry`,
  `retryOpen` and `rulingTargetsRetry` of every team (`round1.ts:1477`). That is against "A
  verdict is public once revealed, and known to its own team and the Host before that"
  (:1473), which the view alone keeps.
* A Maco card in play gives one peek after another, at any team; during a peek the peek
  shows the first submission and the question the retry's.

*Grading.*
* The face-off tries the top answer's slips before any exact match, so an exact "horse"
  on the second place wins as "house" on the first, though it "refuses rather than
  guessing" (`room.ts:3451`; `round4-grading.ts:109`).
* An answer repeated can reveal another one within typing distance. "World War III" is
  taken for "World War II" (`round1-grading.ts:41`, :155). "mew york" is taken whole,
  though a short word gets no slack (:184). A blank in front keeps the article.

*Rounds 2 and 3.*
* A contest is closed by paying for whatever challenge is current, not the one its slot
  is bound to (`game-engine.ts:1865`, `round2.ts:188`), in both rounds.
* Think Fast skips a team after one that went out (`round3.ts:446`, against :444).
* Item windows run on after the challenge was resolved generically; the next item is
  consumed although the engine then refuses, and Round 3 never names its active
  players, so that a drop pauses it only where the Host named them.

*Round 4.*
* A face-off both sides miss is decided with no winner, and nobody can choose
  (`round4.ts:546`, "impossible by construction" at :550).
* The tick rules the expiry of the rival's chance for the team that buzzed, which is
  always refused (`room.ts:792`).
* A steal's answer is taken without its stake (`room.ts:3822`) and matched against what
  is available to the defending team (:3807).
* After a generic resolve the pot is paid through whatever challenge is current, or to
  nobody if that one has its result, and the survey cannot be settled again
  (`game-engine.ts:3845` before :3851), against "PAYS THE POT EXACTLY ONCE" (:3818). It is
  paid at most once, which is what `PaidOnce` says, and `LostToAnotherResult` says when it
  is lost. An owed retry stays for the rest of the challenge
  (`room.ts:3645`), and the survey is consumed before refusals (:3305).
* No intent reaches the deciding of the matchups, the end of the round or a Steups
  (`docs/DEVELOPMENT_ROADMAP.md:259`); `decideFirstMatchup` can be called twice.

*Cards, economy, deals.*
* A card played while a Clash runs is committed, refused by the Clash, and stays
  pending for the rest of the game (`shared-systems.ts:157`,
  `docs/STATE_MACHINE.md:233`).
* What one Market sold can be withdrawn, and is refunded in full, while a later one is
  open, also after it expired (`shared-systems.ts:521`, `docs/SHARED_SYSTEMS.md:373`).
* Nothing calls `Market.markUsed`, so a purchase whose advantage was used is
  withdrawn, cancelled and refunded like any other (`market.ts:316`); a surcharge a
  withdrawn purchase had consumed is refunded and gone.
* Maco Mail filters impossible cards out of the pile only, so a card the discard
  brings back after a reshuffle can be drawn impossible (`maco-mail.ts:166`).
* An advantage used between the challenges is forgotten by the next prepare: it is
  gone, and its budget is free again (`game-engine.ts:534`).
* A bet a deal leaves pending is settled by nobody: `settlePendingBet` has no engine
  method and no intent. The Host may settle a steal's stake before the steal, either
  way, and the refusal at the steal is ignored (`game-engine.ts:3762`).

*Room and phone.*
* A closed room with unlocked teams can be locked, and one with locked teams
  unlocked; both leave CLOSED, which `docs/STATE_MACHINE.md` calls terminal. Teams
  can be unlocked, and players join and change teams, after the game started; the
  engine keeps the rosters it was given (`room.ts:1570`).
* A player who LEAVES a running game is not taken off the engine's roster, unlike
  one the Host removes; the game can go on waiting for them, and no disconnect of
  theirs pauses it (`room.ts:1300`, `game-engine.ts:862`).
* A phone that joins twice on one socket leaves its first player shown as connected
  with no socket of its own (`room.ts:1111`); the socket speaks for the second one
  only, which is what `RoleHasItsSocket` still guarantees.
* A phone that gives up a resume drops the socket, and the server takes the seat over for
  the next one. A JOIN still under way on the old socket is served while the server closes
  it: it binds that socket again and makes a second player (`room.ts:1111`,
  `rooms/server.ts:129`, `websocket.ts:131`), against "closed by the server, and stripped
  of its role so it can no longer act" (`docs/DECISION_LOG.md:131`). `SentAwayStaysAway`
  says what is kept: the window that was told does not come back.
* Any resume that fails, also for a lost connection or the 8 s timeout, makes the phone
  forget its credential though the seat lives (`client.ts:304`); a failed or lost LEAVE
  does too, while the client keeps the identity and comes back with it.
* Every tap has an id of its own, so the registry never meets a real retry; a duplicate
  is answered DUPLICATE_INTENT and not with the first outcome.
* Where the first connect of a page fails, the later ones do not resume the stored
  player. A snapshot that timed out is not asked for again until the next event.
  `closeRetries`, `closeTiebreak` and the expiry of an item or a peek change the game
  without an event.

## 8. Not modelled

Random draws are nondeterministic choices and need no model. The Phase 2 session
(`session.ts`) is the room's predecessor that no server code creates. The Unity
Host and the web screens show snapshots and send intents; every intent they can
send is a free choice of the models. The transport benchmark, design tokens,
sample content, tools and scripts hold no state of the game. Of the modelled parts,
what is left out stands in section 6: the views of the snapshot but for what a phone
is shown of a Round 1 answer, the contents of events, the checks of the shape of a
message, several rooms at once, and the rounds beside each other.

## 9. Plan

Done, in this order: deadlines and game flow with proofs; Sudden Death; Round 2;
cards and Clash; room and connections with proofs; economy with proofs; windows with
proofs; Rounds 1, 3 and 4 with grading; deals and wagers; the phone; the proofs about
Sudden Death, Round 2, cards, deals, the deck and the phone; those about Rounds 1, 3 and 4
with their refinements. Next, most important first:

1. **The nomination on the board** and the order of players in Round 4, the confiscation of
   a card by Maco Mail, the redeal.
2. **Two rounds beside each other**: the development entries can begin a later round
   with an earlier one still open.

## 10. Running

```
tlc -workers 2 -config GameFlow_loop.cfg MCGameFlow.tla
tlapm GameFlowProofs.tla
tlapm RoomSessionProofs.tla
tlapm Round3AndSuddenDeathProofs.tla
tlapm Round2And4Proofs.tla
tlapm Round1AndDealsProofs.tla
tlapm CardsClashProofs.tla
tlapm EconomyProofs.tla
tlapm PhoneProofs.tla
```

The module of a run is the `MC...` module of its component. `Phone_stale` ends with a
counterexample, the others with none; `GameFlow_loop` takes about two minutes, the
others between a few seconds and a minute and a half.

-------------------------------- MODULE Round3 --------------------------------
(***************************************************************************)
(* Round 3, "Verbal Challenges": game-rules/round3.ts, the engine methods  *)
(* that drive it, the room's handlers and the round's part of the room's   *)
(* tick, composed with the game flow.                                      *)
(*                                                                         *)
(* Four contests in order, each won by whom the Host says: Think Fast, in  *)
(* which the teams answer in turn and drop out, and three streams of items *)
(* scored by points.  Teams with as many wins play rock-paper-scissors.    *)
(*                                                                         *)
(* Items are counted, not told apart.  Left out: the amounts paid and      *)
(* doubled (Economy) and what the screens are shown.                       *)
(***************************************************************************)
EXTENDS RoundFlow, DevSkip, FiniteSetsExt, Sequences

CONSTANTS
    Round3Index,  \* ROUND3_ROUND_INDEX
    Contests,     \* ROUND3_CHALLENGES: [format, mode, windowMs] in order
    Items,        \* content: contest -> items in its pack
    MaxScore,     \* bound on the points of a team
    MaxTurns      \* bound on the turns of Think Fast

ASSUME Round3Assumption ==
    /\ Round3Index \in Nat \ {0}
    /\ Contests \in Seq([format : {"elimination", "points"}, mode : {"single", "stream"},
                         windowMs : Nat])
    /\ Items \in [DOMAIN Contests -> Nat]
    /\ MaxScore \in Nat /\ MaxTurns \in Nat
    /\ IsFiniteSet(Teams) /\ Teams # {}

VARIABLES
    order,      \* #previousRoundOrder, <<>> before the round began
    slots,      \* #slots
    wins,       \* #challengeWins
    content,    \* contest -> items left in the content source
    tied,       \* #tiedTeams
    standing,   \* #rpsActive
    throws,     \* the choices of the open attempt
    r3Winner    \* #round3Winner

tieVars == <<tied, standing, throws, r3Winner>>
r3Vars == <<order, slots, wins, content, tieVars>>
allVars == <<vars, r3Vars>>

Orders == {s \in [1..Cardinality(Teams) -> Teams] : \A t \in Teams : \E i \in DOMAIN s : s[i] = t}

Throws == {"ROCK", "PAPER", "SCISSORS"}

NoThrows == [t \in Teams |-> None]

FreshSlot == [progress |-> "not_started", challenge |-> 0, winner |-> None,
              score |-> [t \in Teams |-> 0], shown |-> 0, window |-> NoWindow,
              at |-> 0, out |-> {}]

R3Init ==
    /\ Init
    /\ order = <<>>
    /\ slots = [i \in DOMAIN Contests |-> FreshSlot]
    /\ wins = [t \in Teams |-> 0]
    /\ content = Items
    /\ tied = {} /\ standing = {} /\ throws = NoThrows
    /\ r3Winner = None

-----------------------------------------------------------------------------
(* The contests. *)

Begun == order # <<>>

Unresolved == {i \in DOMAIN slots : slots[i].progress # "resolved"}

Complete == Unresolved = {}

\* A slip the checks must catch: the last contest still to come goes first.
LastUnresolved == Max(Unresolved)

\* #currentSlot: the first contest that has not resolved.
Cur == Min(Unresolved)

Playing == Begun /\ ~Complete /\ slots[Cur].progress = "in_progress"

\* Only the current contest changes.
SlotBecomes(s) == slots' = [slots EXCEPT ![Cur] = s]

NextToPrepare == Begun /\ ~Complete /\ slots[Cur].progress = "not_started"

MarkPrepared(ch) ==
    [slots[Cur] EXCEPT !.progress = "in_progress", !.challenge = ch,
                       !.score = [t \in Teams |-> 0], !.at = 0, !.out = {}]

\* Think Fast has its one topic, a stream takes any number of items.
MayReveal == Playing /\ (Contests[Cur].mode = "single" => slots[Cur].shown = 0)

Revealed ==
    [slots[Cur] EXCEPT !.shown = @ + 1,
                       !.window = IF Contests[Cur].windowMs = 0 THEN NoWindow
                                  ELSE OpenWindow(Contests[Cur].windowMs)]

Scored(t) == [slots[Cur] EXCEPT !.score[t] = @ + 1]

\* prepareConfirmation: whatever the score, but not a team that is out.
MayWin(t) == Playing /\ t \notin slots[Cur].out

Resulted(t) ==
    [slots[Cur] EXCEPT !.progress = "resolved", !.winner = t, !.window = NoWindow]

-----------------------------------------------------------------------------
(* Think Fast: the teams answer in turn until one is left. *)

\* The places in the order of the teams that are not out.
Remaining(s) == {i \in DOMAIN order : order[i] \notin s.out}

CurrentThinkFastTeam(s) ==
    order[CHOOSE i \in Remaining(s) :
              Cardinality({j \in Remaining(s) : j < i}) = s.at % Cardinality(Remaining(s))]

TurnPassed(s) == [s EXCEPT !.at = @ + 1]

Eliminated(s) ==
    [s EXCEPT !.out = @ \cup {CurrentThinkFastTeam(s)},
              !.at = IF Cardinality(Remaining(s)) > 1
                     THEN @ % (Cardinality(Remaining(s)) - 1) ELSE @]

\* A slip the checks must catch: whoever is up may be sent out.
AnyoneGoes(s) == Remaining(s) # {}

SomeoneIsLeft(s) == Cardinality(Remaining(s)) > 1

-----------------------------------------------------------------------------
(* Who won the round. *)

Leaders(w) == {t \in Teams : \A u \in Teams : w[u] <= w[t]}

Beats(a, b) == <<a, b>> \in {<<"ROCK", "SCISSORS">>, <<"SCISSORS", "PAPER">>, <<"PAPER", "ROCK">>}

MayThrow(t) == r3Winner = None /\ t \in standing /\ throws[t] = None

\* A slip the checks must catch: enough teams have chosen.
MostChoicesIn == Cardinality({t \in standing : throws[t] # None}) > 1

AllChoicesIn == \A t \in standing : throws[t] # None

\* One choice of everybody, or all three at once, is played again; of two, those
\* with the choice that wins stay in.
Survivors ==
    LET thrown == {throws[t] : t \in standing} IN
    IF Cardinality(thrown) # 2 THEN standing
    ELSE {t \in standing : \E c \in thrown : Beats(throws[t], c)}

\* One leader has won; more are tied and play.
DecideWinner(w) ==
    /\ throws' = NoThrows
    /\ IF Cardinality(Leaders(w)) = 1
       THEN r3Winner' \in Leaders(w) /\ UNCHANGED <<tied, standing>>
       ELSE tied' = Leaders(w) /\ standing' = Leaders(w) /\ UNCHANGED r3Winner

\* The next attempt opens at once, with whoever is left.
ResolveRps ==
    /\ standing' = Survivors
    /\ throws' = NoThrows
    /\ IF Cardinality(Survivors) = 1 THEN r3Winner' \in Survivors ELSE UNCHANGED r3Winner
    /\ UNCHANGED tied

-----------------------------------------------------------------------------
(* The Host's and the players' intents. *)

\* The teams by their BB, ties broken by the order they joined in: any order.
BeginRound3 ==
    /\ Running
    /\ roundIndex = Round3Index
    /\ ~Begun
    /\ order' \in Orders
    /\ UNCHANGED <<vars, slots, wins, content, tieVars>>

\* The development control walks to the round first.
DevEnterRound3 ==
    /\ MayEnter(Round3Index, Begun)
    /\ WalksTo(Round3Index)
    /\ IF Arrives(Round3Index) THEN order' \in Orders ELSE UNCHANGED order
    /\ UNCHANGED <<slots, wins, content, tieVars>>

DevStartRound3 == DevTools /\ DevEnterRound3

PrepareRound3Challenge ==
    /\ NextToPrepare
    /\ PrepareChallenge
    /\ SlotBecomes(MarkPrepared(challenge'.id))
    /\ UNCHANGED <<order, wins, content, tieVars>>

\* Without a topic Think Fast cannot be played, and there is no button for one.
NeedsOpeningItem ==
    Begun /\ ~Complete /\ Contests[Cur].mode = "single" /\ slots[Cur].shown = 0

\* nextItem of the source, shown only where the engine takes it: an item the
\* engine refuses is gone.
TakeItem(taken) ==
    /\ content' = [content EXCEPT ![Cur] = @ - 1]
    /\ IF taken THEN SlotBecomes(Revealed) ELSE UNCHANGED slots

\* START_CHALLENGE of the room, for any challenge.
StartChallengeInRoom ==
    /\ StartChallenge
    /\ IF NeedsOpeningItem /\ content[Cur] > 0
       THEN TakeItem(MayReveal)
       ELSE UNCHANGED <<content, slots>>
    /\ UNCHANGED <<order, wins, tieVars>>

NextItem ==
    /\ Begun /\ ~Complete
    /\ content[Cur] > 0
    /\ TakeItem(Running /\ MayReveal)
    /\ UNCHANGED <<vars, order, wins, tieVars>>

AwardPoint(t) ==
    /\ Running /\ Playing
    /\ Contests[Cur].format = "points"
    /\ slots[Cur].score[t] < MaxScore
    /\ SlotBecomes(Scored(t))
    /\ UNCHANGED <<vars, order, wins, content, tieVars>>

InThinkFast == Running /\ Playing /\ Contests[Cur].format = "elimination"

ThinkFastValid ==
    /\ InThinkFast
    /\ slots[Cur].at < MaxTurns
    /\ SlotBecomes(TurnPassed(slots[Cur]))
    /\ UNCHANGED <<vars, order, wins, content, tieVars>>

ThinkFastEliminate ==
    /\ InThinkFast
    /\ SomeoneIsLeft(slots[Cur])
    /\ SlotBecomes(Eliminated(slots[Cur]))
    /\ UNCHANGED <<vars, order, wins, content, tieVars>>

\* A slip the checks must catch: the round has a result nobody was paid for.
RecordOnly == UNCHANGED vars

\* The engine's CURRENT challenge is the one resolved and paid.
PayResult == ResolveChallenge

\* With the last contest the round is decided.
ConfirmRound3Challenge(t) ==
    /\ Running
    /\ MayWin(t)
    /\ PayResult
    /\ SlotBecomes(Resulted(t))
    /\ wins' = [wins EXCEPT ![t] = @ + 1]
    /\ IF Cardinality(Unresolved) = 1 THEN DecideWinner(wins') ELSE UNCHANGED tieVars
    /\ UNCHANGED <<order, content>>

SubmitRpsChoice(t, c) ==
    /\ Running
    /\ MayThrow(t)
    /\ throws' = [throws EXCEPT ![t] = c]
    /\ UNCHANGED <<vars, order, slots, wins, content, tied, standing, r3Winner>>

-----------------------------------------------------------------------------
(* The tick, the pause and the clock. *)

ItemOver == Running /\ Playing /\ Contests[Cur].mode = "stream" /\ Due(slots[Cur].window)

\* The next item, or no window where there is none left.
ItemMovesOn ==
    /\ ItemOver
    /\ IF content[Cur] > 0
       THEN TakeItem(TRUE)
       ELSE SlotBecomes([slots[Cur] EXCEPT !.window = NoWindow]) /\ UNCHANGED content
    /\ UNCHANGED <<vars, order, wins, tieVars>>

ThrowsDue == Running /\ r3Winner = None /\ standing # {} /\ AllChoicesIn

ThrowsRevealed ==
    /\ ThrowsDue
    /\ ResolveRps
    /\ UNCHANGED <<vars, order, slots, wins, content>>

\* A slip the checks must catch: the tick does not look at the throws.
TickItemsOnly == ItemMovesOn

\* At most one of the two can be due: items belong to the contests.
Tick == ItemMovesOn \/ ThrowsRevealed

\* Of the windows only the current contest's can be open.
EveryWindow(event) ==
    /\ IF Begun /\ ~Complete
       THEN SlotBecomes([slots[Cur] EXCEPT !.window = WindowAfter(event, @)])
       ELSE UNCHANGED slots
    /\ UNCHANGED <<order, wins, content, tieVars>>

PauseRound3 == GamePauses /\ EveryWindow("pause")

ResumeRound3 == Resume /\ EveryWindow("resume")

TimePasses == EveryWindow("tick") /\ UNCHANGED vars

\* A start goes through the room's own handler.
AroundTheRound ==
    /\ HostMoves
    /\ challenge.status = "pending" => challenge'.status # "active"
    /\ UNCHANGED r3Vars

R3Next ==
    \/ StartGame /\ UNCHANGED r3Vars
    \/ BeginRound3
    \/ DevStartRound3
    \/ PrepareRound3Challenge
    \/ StartChallengeInRoom
    \/ NextItem
    \/ \E t \in Teams : AwardPoint(t)
    \/ ThinkFastValid
    \/ ThinkFastEliminate
    \/ \E t \in Teams : ConfirmRound3Challenge(t)
    \/ \E t \in Teams, c \in Throws : SubmitRpsChoice(t, c)
    \/ Tick
    \/ PauseRound3
    \/ ResumeRound3
    \/ TimePasses
    \/ AroundTheRound

R3Spec == R3Init /\ [][R3Next]_allVars

\* The tick comes every 250 ms; nobody need reveal, throw or confirm.
FairR3Spec == R3Spec /\ WF_allVars(Tick)

-----------------------------------------------------------------------------
(* Properties. *)

R3TypeOK ==
    /\ order \in Orders \cup {<<>>}
    /\ \A i \in DOMAIN slots :
          /\ slots[i].progress \in {"not_started", "in_progress", "resolved"}
          /\ slots[i].challenge \in 0..challenge.id
          /\ slots[i].winner \in Teams \cup {None}
          /\ slots[i].score \in [Teams -> 0..MaxScore]
          /\ slots[i].shown \in 0..Items[i]
          /\ slots[i].window \in WindowsUpTo(Contests[i].windowMs)
          /\ slots[i].at \in 0..MaxTurns /\ slots[i].out \subseteq Teams
    /\ wins \in [Teams -> 0..Len(Contests)]
    /\ content \in [DOMAIN Contests -> Nat]
    /\ standing \subseteq tied /\ tied \subseteq Teams
    /\ throws \in [Teams -> Throws \cup {None}]
    /\ r3Winner \in Teams \cup {None}

\* An item's ten seconds stand still exactly while the game is paused, however
\* the item came to the screen (pauseItemWindow, revealItem).
WindowFollowsPause == \A i \in DOMAIN slots : FollowsPause(slots[i].window, Paused)

\* Somebody is always left to win Think Fast, and it is won by one that is.
ThinkFastHasItsWinner ==
    \A i \in DOMAIN slots :
        /\ Teams \ slots[i].out # {}
        /\ slots[i].winner \notin slots[i].out

\* Each contest with a winner was paid for through a challenge of its own
\* (confirmRound3Challenge).
ResultsArePaid ==
    Cardinality({i \in DOMAIN slots : slots[i].winner # None}) <=
        Cardinality({c \in DOMAIN settlements : settlements[c] > 0})

\* The counter of wins never parts from the results, and the round goes to a
\* team no other has more wins than, tiebreak or none (decideWinner).
WonByALeader ==
    /\ \A t \in Teams : wins[t] = Cardinality({i \in DOMAIN slots : slots[i].winner = t})
    /\ r3Winner # None => Complete /\ \A t \in Teams : wins[t] <= wins[r3Winner]

\* Throws are revealed all at once: until every team in it has thrown an attempt
\* only gains throws, one at a time (submitRpsChoice, resolveRps).
ThrowsRevealedTogether ==
    [][throws' # throws =>
          IF \A t \in standing : throws[t] # None
          THEN throws' = NoThrows
          ELSE \E t \in standing : throws[t] = None
                                   /\ throws' = [throws EXCEPT ![t] = throws'[t]]]_allVars

Order == INSTANCE OrderedRound
             WITH Slots <- Len(Contests),
                  winners <- [i \in 1..Len(Contests) - Cardinality(Unresolved) |->
                                 slots[i].winner],
                  open <- \E i \in Unresolved : slots[i].progress = "in_progress"

\* One contest at a time, in the order of the table, each with one winner.
ImplementsOrderedRound == Order!OSpec

Knockout == INSTANCE Elimination
                WITH Contenders <- Teams, Nobody <- None,
                     champion <- IF tied = {} THEN None ELSE r3Winner

\* Rock-paper-scissors is a knockout of the tied teams: who is out stays out,
\* whatever is played again.
ImplementsElimination == Knockout!KSpec

\* An item whose window ran out gives way, and throws that are all in are
\* revealed, unless the game is paused (pollTimer).
NothingStaysOverdue == []<>(Paused \/ ~(ItemOver \/ ThrowsDue))

\* What holds of the round between any two steps: well-formed, its item windows
\* tied to the pause, Think Fast left with somebody, winners paid, and the
\* round won by a team nobody is ahead of.
VerbalIsSound ==
    R3TypeOK /\ WindowFollowsPause /\ ThinkFastHasItsWinner /\ ResultsArePaid /\ WonByALeader

\* The tiebreak is fair: nobody throws knowing another's throw, and teams leave
\* it only by a throw that lost, until one is left.
TiebreakIsFair == ThrowsRevealedTogether /\ ImplementsElimination

=============================================================================

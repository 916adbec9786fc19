-------------------------------- MODULE Deals ---------------------------------
(***************************************************************************)
(* Host Deals and wagers (game-rules/deals.ts) on the BB ledger, inside    *)
(* the game whose results move the same balances, with the one wager the   *)
(* game itself settles: the stake of a Round 4 steal.                      *)
(*                                                                         *)
(* A round has at most one Host Deal, so a deal is named by its round.     *)
(* A deal may be offered in one round and answered in another, and a wager *)
(* lives until somebody settles it, whatever happened to the balance since.*)
(* Of the steal only what decides who may stake and settle is kept; what a *)
(* result or a pot gives is a free choice.  The Maco Mail an accepted deal *)
(* promises is only reported: nothing draws it.                            *)
(***************************************************************************)
EXTENDS DevSkip, FiniteSetsExt, Sequences

CONSTANTS
    Terms,       \* HOST_DEAL_TERMS: template -> its amounts
    StartingBb,  \* STARTING_BB
    Stakes,      \* amounts a team proposes
    Deltas,      \* what a result may give or take a team
    Pots,        \* what a stolen survey may be worth
    MaxWagers    \* bound: wagers proposed

ASSUME DealsAssumption ==
    /\ \A d \in DOMAIN Terms :
           /\ {Terms[d].decline, Terms[d].cost, Terms[d].opponent, Terms[d].win} \subseteq Nat
           /\ Terms[d].bet \in BOOLEAN
    /\ StartingBb \in Nat /\ Stakes \subseteq Nat /\ Deltas \subseteq Int /\ Pots \subseteq Nat
    /\ MaxWagers \in Nat

VARIABLES
    balance,  \* #balances
    results,  \* ledger entries: what results and pots moved, team by team
    deal,     \* #deals: round -> the deal offered in it
    wagers,   \* #wagers
    steal     \* the steal of Round 4: its thief, status and wager (0 for null)

dealVars == <<balance, results, deal, wagers, steal>>
allVars  == <<vars, dealVars>>

\* Nothing settled yet; the rest of bbApplied is what the ledger moved.
Unsettled == [t \in Teams |-> 0]

NoDeal == [template |-> "none", team |-> None, opponent |-> None, choice |-> "none",
           settled |-> FALSE, applied |-> Unsettled]

DInit ==
    /\ Init
    /\ balance = [t \in Teams |-> StartingBb]
    /\ results = [t \in Teams |-> 0]
    /\ deal = [r \in 1..MaxRound |-> NoDeal]
    /\ wagers = <<>>
    /\ steal = [status |-> "none", thief |-> None, wager |-> 0]

-----------------------------------------------------------------------------
(* The ledger. *)

\* A balance never goes below nothing.
ClampBb(b) == IF b < 0 THEN 0 ELSE b

Moved(b, t, delta) == [b EXCEPT ![t] = ClampBb(@ + delta)]

\* A slip the checks must catch: the entry shows what was asked for.
AppliedAsAsked(b, t, delta) == delta

\* What the entry shows is what was taken.
Applied(b, t, delta) == ClampBb(b[t] + delta) - b[t]

\* maxWagerFor: half of what the team has.
MaxWagerFor(b) == b \div 2

\* An entry of neither a deal nor a wager.
PaidTo(b, t, delta) ==
    /\ balance' = Moved(b, t, delta)
    /\ results' = [results EXCEPT ![t] = @ + Applied(b, t, delta)]

-----------------------------------------------------------------------------
(* Host Deals. *)

\* One Host Deal a round, answered or not.
NoDealThisRound == deal[roundIndex].template = "none"

NeedsOpponent(d) == Terms[d].opponent > 0

OfferHostDeal(d, t, o) ==
    /\ Running
    /\ NoDealThisRound
    /\ NeedsOpponent(d) => o \in Teams \ {t}
    /\ balance[t] >= Terms[d].cost
    /\ deal' = [deal EXCEPT ![roundIndex] =
                   [NoDeal EXCEPT !.template = d, !.team = t, !.opponent = o]]
    /\ UNCHANGED <<vars, balance, results, wagers, steal>>

Waiting(r, t) == deal[r].template # "none" /\ deal[r].team = t /\ deal[r].choice = "none"

TermsOf(r) == Terms[deal[r].template]

\* DECLINE: the safe side, which has no bet to settle.
DeclineHostDeal(r, t) ==
    /\ Running
    /\ Waiting(r, t)
    /\ deal' = [deal EXCEPT ![r].choice = "decline",
                            ![r].applied[t] = Applied(balance, t, TermsOf(r).decline)]
    /\ balance' = Moved(balance, t, TermsOf(r).decline)
    /\ UNCHANGED <<vars, results, wagers, steal>>

\* A slip the checks must catch: what could be afforded then can be now.
AffordedThen(r, t) == TRUE

\* Asked for again: the balance may have dropped since the offer.
StillAffordable(r, t) == balance[t] >= TermsOf(r).cost

\* The cost, then the opponent's share; a deal names an opponent even where its
\* terms give one nothing.
AcceptHostDeal(r, t) ==
    /\ Running
    /\ Waiting(r, t)
    /\ StillAffordable(r, t)
    /\ LET o     == deal[r].opponent
           terms == TermsOf(r)
           mine  == [deal EXCEPT ![r].choice = "accept",
                                 ![r].settled = terms.cost > 0,
                                 ![r].applied[t] = Applied(balance, t, -terms.cost)]
           paid  == Moved(balance, t, -terms.cost)
       IN  IF o # None /\ terms.opponent > 0
           THEN /\ deal' = [mine EXCEPT ![r].applied[o] = Applied(paid, o, terms.opponent)]
                /\ balance' = Moved(paid, o, terms.opponent)
           ELSE deal' = mine /\ balance' = paid
    /\ UNCHANGED <<vars, results, wagers, steal>>

\* No engine method calls it: an accepted bet is settled in the tests only.
SettlePendingBet(r, won) ==
    /\ deal[r].choice = "accept"
    /\ TermsOf(r).bet
    /\ ~deal[r].settled
    /\ LET t      == deal[r].team
           payout == IF won THEN TermsOf(r).win ELSE 0
       IN  /\ deal' = [deal EXCEPT ![r].settled = TRUE,
                                   ![r].applied[t] = Applied(balance, t, payout)]
           /\ balance' = Moved(balance, t, payout)
    /\ UNCHANGED <<vars, results, wagers, steal>>

-----------------------------------------------------------------------------
(* Wagers. *)

Locked(w) == wagers[w].status = "locked"

LiveWager(t) == \E w \in DOMAIN wagers : wagers[w].team = t /\ Locked(w)

MayWager(t, amount) == ~LiveWager(t) /\ amount <= MaxWagerFor(balance[t])

NewWager(t, amount, for) ==
    [team |-> t, amount |-> amount, balanceAtLock |-> balance[t], for |-> for,
     status |-> "locked", applied |-> 0]

ProposeWager(t, amount) ==
    /\ Running
    /\ Len(wagers) < MaxWagers
    /\ MayWager(t, amount)
    /\ wagers' = Append(wagers, NewWager(t, amount, "itself"))
    /\ UNCHANGED <<vars, balance, results, deal, steal>>

Stake(w, won) == IF won THEN wagers[w].amount ELSE -wagers[w].amount

Settled(w, won) ==
    [wagers EXCEPT ![w].status = IF won THEN "won" ELSE "lost",
                   ![w].applied = Applied(balance, wagers[w].team, Stake(w, won))]

AfterWager(w, won) == Moved(balance, wagers[w].team, Stake(w, won))

\* The Host may settle any wager, a steal's too, either way.
ResolveWager(w, won) ==
    /\ Running
    /\ Locked(w)
    /\ wagers' = Settled(w, won)
    /\ balance' = AfterWager(w, won)
    /\ UNCHANGED <<vars, results, deal, steal>>

-----------------------------------------------------------------------------
(* The stake of a steal. *)

\* The last strike of a board hands it over (Round4): one steal at a time.
StartSteal(t) ==
    /\ Running
    /\ steal.status \in {"none", "resolved"}
    /\ steal' = [status |-> "conferring", thief |-> t, wager |-> 0]
    /\ UNCHANGED <<vars, balance, results, deal, wagers>>

Cancelled(w) == [w EXCEPT !.status = "cancelled"]

\* The wager is locked first; where the round refuses it, because one was locked
\* for this steal before, it is cancelled at once.
LockStealWager(amount) ==
    /\ Running
    /\ steal.status # "none"
    /\ Len(wagers) < MaxWagers
    /\ MayWager(steal.thief, amount)
    /\ LET wager == NewWager(steal.thief, amount, "steal")
       IN  IF steal.status = "conferring"
           THEN /\ wagers' = Append(wagers, wager)
                /\ steal' = [steal EXCEPT !.status = "awaiting_answer",
                                          !.wager = Len(wagers) + 1]
           ELSE wagers' = Append(wagers, Cancelled(wager)) /\ UNCHANGED steal
    /\ UNCHANGED <<vars, balance, results, deal>>

\* A slip the checks must catch: whatever the wager is by now, it is settled.
WagerNamed == steal.wager # 0

\* deals.resolveWager refuses a settled wager, and the refusal is ignored.
WagerStillLocked == steal.wager # 0 /\ Locked(steal.wager)

\* The stake, then the survey's pot, which is the result of the challenge and
\* goes nowhere when that has its result.
ResolveSteal(correct, defender, pot) ==
    /\ Running
    /\ steal.status \in {"conferring", "awaiting_answer"}
    /\ steal' = [steal EXCEPT !.status = "resolved"]
    /\ wagers' = IF WagerStillLocked THEN Settled(steal.wager, correct) ELSE wagers
    /\ LET staked == IF WagerStillLocked THEN AfterWager(steal.wager, correct) ELSE balance
       IN  IF NoOpenChallenge
           THEN balance' = staked /\ UNCHANGED <<vars, results>>
           ELSE ResolveChallenge /\ PaidTo(staked, IF correct THEN steal.thief ELSE defender, pot)
    /\ UNCHANGED deal

-----------------------------------------------------------------------------
(* The game around them. *)

ResultStep ==
    /\ ResolveChallenge
    /\ \E delta \in [Teams -> Deltas] :
          /\ balance' = [t \in Teams |-> ClampBb(balance[t] + delta[t])]
          /\ results' = [t \in Teams |-> results[t] + Applied(balance, t, delta[t])]
    /\ UNCHANGED <<deal, wagers, steal>>

\* adjustBb: at any moment of a running game, whatever is offered or staked.
AdjustBb(t, delta) == Running /\ PaidTo(balance, t, delta) /\ UNCHANGED <<vars, deal, wagers, steal>>

\* The one intent that asks for it is a development control.
DevAdjustBb(t, delta) == DevTools /\ AdjustBb(t, delta)

FlowStep ==
    /\ \/ StartGame
       \/ \E to \in Phases : AdvancePhase(to)
       \/ PrepareChallenge
       \/ StartChallenge
       \/ HostPause
       \/ Resume
    /\ UNCHANGED dealVars

DNext ==
    \/ \E d \in DOMAIN Terms, t \in Teams, o \in Teams \cup {None} : OfferHostDeal(d, t, o)
    \/ \E r \in 1..MaxRound, t \in Teams : DeclineHostDeal(r, t)
    \/ \E r \in 1..MaxRound, t \in Teams : AcceptHostDeal(r, t)
    \/ \E r \in 1..MaxRound, won \in BOOLEAN : SettlePendingBet(r, won)
    \/ \E t \in Teams, amount \in Stakes : ProposeWager(t, amount)
    \/ \E w \in DOMAIN wagers, won \in BOOLEAN : ResolveWager(w, won)
    \/ \E t \in Teams : StartSteal(t)
    \/ \E amount \in Stakes : LockStealWager(amount)
    \/ \E correct \in BOOLEAN, defender \in Teams \ {steal.thief}, pot \in Pots :
           ResolveSteal(correct, defender, pot)
    \/ ResultStep
    \/ \E t \in Teams, delta \in Deltas : DevAdjustBb(t, delta)
    \/ FlowStep

DSpec == DInit /\ [][DNext]_allVars

-----------------------------------------------------------------------------
(* Properties. *)

DTypeOK ==
    /\ balance \in [Teams -> Nat] /\ results \in [Teams -> Int]
    /\ \A r \in 1..MaxRound :
           /\ deal[r].template \in DOMAIN Terms \cup {"none"}
           /\ {deal[r].team, deal[r].opponent} \subseteq Teams \cup {None}
           /\ deal[r].choice \in {"none", "accept", "decline"}
           /\ deal[r].settled \in BOOLEAN /\ deal[r].applied \in [Teams -> Int]
    /\ \A w \in DOMAIN wagers :
           /\ wagers[w].team \in Teams /\ 2 * wagers[w].amount <= wagers[w].balanceAtLock
           /\ wagers[w].status \in {"locked", "won", "lost", "cancelled"}
           /\ wagers[w].applied \in Int
    /\ steal.status \in {"none", "conferring", "awaiting_answer", "resolved"}
    /\ steal.wager \in 0..Len(wagers)

DealsMoved(t) == MapThenSumSet(LAMBDA r : deal[r].applied[t], 1..MaxRound)

WagersMoved(t) ==
    MapThenSumSet(LAMBDA w : IF wagers[w].team = t THEN wagers[w].applied ELSE 0, DOMAIN wagers)

\* A balance is what the team started with and what every deal, wager and
\* result shows it moved, however often the floor cut a loss short.
BooksBalance ==
    \A t \in Teams : balance[t] = StartingBb + results[t] + DealsMoved(t) + WagersMoved(t)

\* Nobody gets the other half of a deal, or gives an opponent a share, without
\* paying its cost in full, however poor it has become since the offer (respond).
AcceptedInFull ==
    \A r \in 1..MaxRound :
        deal[r].choice = "accept" /\ ~TermsOf(r).bet =>
            deal[r].applied[deal[r].team] = -TermsOf(r).cost

\* What was settled stays as it was settled: an answered deal of a round is
\* never replaced or answered again, but for its bet, and a wager that was won,
\* lost or cancelled moves nothing more, though Host and steal settle the same.
SettledOnce ==
    [][/\ \A r \in 1..MaxRound :
              deal[r].choice # "none" /\ (deal[r].settled \/ ~TermsOf(r).bet
                                            \/ deal[r].choice = "decline") => deal'[r] = deal[r]
       /\ \A w \in DOMAIN wagers : ~Locked(w) => wagers'[w] = wagers[w]]_allVars

\* A stake locked for a steal is the stake of the steal being played: none is
\* left behind, blocking its team's next wager, by a second try or by the ruling.
NoStrayStake ==
    \A w \in DOMAIN wagers :
        Locked(w) /\ wagers[w].for = "steal" =>
            steal.wager = w /\ steal.status = "awaiting_answer"

\* Balances add up to what was applied, and no stake is above what its lock allows.
BalancesAddUp == DTypeOK /\ BooksBalance

\* What was settled stays settled, and no stake of a steal is left unsettled
\* once its steal is over (resolveRound4Steal, resolveWager, respond).
StakesSettleOnce == []NoStrayStake /\ SettledOnce

=============================================================================

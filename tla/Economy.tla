------------------------------ MODULE Economy -------------------------------
(***************************************************************************)
(* The BB ledger, the Market, the advantages and Maco Mail (bb-ledger.ts,  *)
(* market.ts, advantages.ts, maco-mail.ts) inside the game whose rounds    *)
(* expire what was bought and whose challenges reset what may be used.     *)
(*                                                                         *)
(* A team has at most one purchase of an item and a Market round that is   *)
(* not cancelled, so the slot <<team, item, round>> names a purchase, and  *)
(* the advantage it granted.  Of the ledger's entries what is kept is the  *)
(* balances and, per slot, what the entries of its purchases and refunds   *)
(* took in all.  The deck is shuffled, so a draw takes any card of the     *)
(* pile; it is built at the first draw, which nothing can tell from        *)
(* building it at the start.  HANDS_TIED and CARD_CONFISCATION move        *)
(* nothing kept here.  What a result gives or takes is a free choice.      *)
(* Rosters, turns and active players change nothing here and stand still;  *)
(* an immunity a Clash consumes and a retry a card gives are not counted.  *)
(***************************************************************************)
EXTENDS GameFlow, FiniteSetsExt

CONSTANTS
    Items,         \* the Market items on sale
    MarketRounds,  \* the rounds a Market opens before
    Price,         \* MARKET_PRICES: item -> round -> BB
    Surcharge,     \* PRICE_GONE_UP_SURCHARGE
    StartingBb,    \* STARTING_BB
    Deltas,        \* what the result of a challenge may give or take a team
    Composition,   \* MACO_DECK_COMPOSITION: outcome -> copies
    MoneyDelta,    \* MACO_MONEY_DELTAS: outcome -> BB
    SorryAmount,   \* PARTNER_I_SORRY_AMOUNT
    MaxBb          \* bound: no result, money card or transfer lifts a balance above it

MarketItems == {"CLUE", "SECOND_CHANCE", "DOUBLE_BB", "EXTRA_TIME", "MACO_MAIL"}

\* MARKET_ITEM_ADVANTAGE; MACO_MAIL grants none.
AdvantageOf == [CLUE |-> "CLUE", SECOND_CHANCE |-> "SECOND_CHANCE", DOUBLE_BB |-> "DOUBLE",
                EXTRA_TIME |-> "EXTRA_TIME"]

\* MACO_RESOLUTION, money and held advantages; the type an advantage card grants.
MoneyOutcomes == {"PLUS_100", "PLUS_500", "PLUS_1000", "PLUS_1500", "WRONG_INVESTMENT_BRO",
                  "CUSTOMS_SEIZE_YUH_MONEY"}

GrantedBy == [PLUS_15_SECONDS |-> "EXTRA_TIME", FREE_CLUE |-> "CLUE",
              BACCHANAL_IMMUNITY |-> "BACCHANAL_IMMUNITY", DOUBLE_POINTS |-> "DOUBLE"]

MacoOutcomes == MoneyOutcomes \cup DOMAIN GrantedBy \cup
    {"PARTNER_I_SORRY", "CANCEL_MARKET_PURCHASE", "CARD_CONFISCATION", "PRICE_GONE_UP",
     "HANDS_TIED"}

\* The outcomes this deck has cards of.
Outcomes == DOMAIN Composition

AdvantageTypes == {"CLUE", "SECOND_CHANCE", "DOUBLE", "EXTRA_TIME", "BACCHANAL_IMMUNITY"}

ASSUME EconomyAssumption ==
    /\ Items \subseteq MarketItems
    /\ MarketRounds \subseteq 2..4
    /\ Price \in [Items -> [MarketRounds -> Nat]]
    /\ Surcharge \in Nat /\ StartingBb \in Nat /\ SorryAmount \in Nat /\ MaxBb \in Nat
    /\ Deltas \subseteq Int
    /\ Outcomes \subseteq MacoOutcomes
    /\ Composition \in [Outcomes -> Nat]
    /\ MoneyDelta \in [MoneyOutcomes -> Int]
    /\ IsFiniteSet(Teams)

VARIABLES
    balance,     \* #balances
    charged,     \* slot -> BB the ledger took for its purchases, less what it gave back
    market,      \* #activation: its round (0 for null) and open
    purchase,    \* slot -> status and pricePaid of its last purchase
    goods,       \* slot -> the advantage that purchase granted
    surcharged,  \* the teams with a pending surcharge
    mail,        \* team -> type -> advantages from Maco Mail, unused
    mailUsed,    \* team -> type -> those it has used
    deck,        \* #drawPile, #discard and #removedImpossible, counted by outcome
    usage        \* team -> types whose budget of this challenge is spent

shopVars == <<market, purchase, goods, surcharged>>
mailVars == <<mail, mailUsed, deck>>
econVars == <<balance, charged, shopVars, mailVars, usage>>
allVars  == <<vars, econVars>>

Slots == Teams \X Items \X MarketRounds

EconTypeOK ==
    /\ balance \in [Teams -> Nat]
    /\ charged \in [Slots -> Int]
    /\ market \in [round : MarketRounds \cup {0}, open : BOOLEAN]
    /\ market.open => market.round # 0
    /\ purchase \in [Slots -> [status : {"none", "standing", "cancelled", "expired"}, paid : Nat]]
    /\ goods \in [Slots -> {"none", "held", "used", "expired"}]
    /\ surcharged \in SUBSET Teams
    /\ mail \in [Teams -> [AdvantageTypes -> Nat]]
    /\ mailUsed \in [Teams -> [AdvantageTypes -> Nat]]
    /\ deck \in [{"pile", "discard", "removed"} -> [Outcomes -> Nat]]
    /\ usage \in [Teams -> SUBSET AdvantageTypes]

Empty == [o \in Outcomes |-> 0]

EInit ==
    /\ Init
    /\ balance = [t \in Teams |-> StartingBb]
    /\ charged = [s \in Slots |-> 0]
    /\ market = [round |-> 0, open |-> FALSE]
    /\ purchase = [s \in Slots |-> [status |-> "none", paid |-> 0]]
    /\ goods = [s \in Slots |-> "none"]
    /\ surcharged = {}
    /\ mail = [t \in Teams |-> [a \in AdvantageTypes |-> 0]]
    /\ mailUsed = [t \in Teams |-> [a \in AdvantageTypes |-> 0]]
    /\ deck = [p \in {"pile", "discard", "removed"} |-> IF p = "pile" THEN Composition ELSE Empty]
    /\ usage = [t \in Teams |-> {}]

-----------------------------------------------------------------------------
(* The ledger: BB never goes below 0, and what is applied may be less than *)
(* what was asked for.                                                     *)

ClampBb(amount) == IF amount < 0 THEN 0 ELSE amount

Applied(t, delta) == ClampBb(balance[t] + delta) - balance[t]

Apply(t, delta) == balance' = [balance EXCEPT ![t] = ClampBb(@ + delta)]

\* Bound.
StaysBelowMax(t, delta) == balance[t] + delta <= MaxBb

-----------------------------------------------------------------------------
(* The Market. *)

OpenMarket(round) ==
    /\ Running
    /\ ~market.open
    /\ market' = [round |-> round, open |-> TRUE]
    /\ UNCHANGED <<vars, balance, charged, purchase, goods, surcharged, mailVars, usage>>

CloseMarket ==
    /\ Running
    /\ market.open
    /\ market' = [market EXCEPT !.open = FALSE]
    /\ UNCHANGED <<vars, balance, charged, purchase, goods, surcharged, mailVars, usage>>

PriceFor(t, item) ==
    Price[item][market.round] + (IF t \in surcharged THEN Surcharge ELSE 0)

Affordable(t, item) == balance[t] >= PriceFor(t, item)

\* An expired purchase still counts as bought.
PurchaseMarketItem(t, item) ==
    LET slot == <<t, item, market.round>>
        cost == PriceFor(t, item)
    IN  /\ Running
        /\ market.open
        /\ purchase[slot].status \in {"none", "cancelled"}
        /\ Affordable(t, item)
        /\ Apply(t, -cost)
        /\ charged' = [charged EXCEPT ![slot] = @ - Applied(t, -cost)]
        /\ surcharged' = surcharged \ {t}
        /\ purchase' = [purchase EXCEPT ![slot] = [status |-> "standing", paid |-> cost]]
        /\ goods' = [goods EXCEPT ![slot] =
                        IF item \in DOMAIN AdvantageOf THEN "held" ELSE "none"]
        /\ UNCHANGED <<vars, market, mailVars, usage>>

\* A slip the checks must catch: the advantage stays when the purchase goes.
KeepGoods(slot) == UNCHANGED goods

\* revokeForPurchase: a used advantage stays used.
Revoke(slot) == goods' = [goods EXCEPT ![slot] = IF @ = "used" THEN @ ELSE "none"]

\* cancelPurchase, and the advantage revoked with it.  Nothing ever marks a
\* purchase used, and an expired one is not refused.
CancelPurchase(slot) ==
    /\ purchase[slot].status \in {"standing", "expired"}
    /\ purchase' = [purchase EXCEPT ![slot].status = "cancelled"]
    /\ Apply(slot[1], purchase[slot].paid)
    /\ charged' = [charged EXCEPT ![slot] = @ - Applied(slot[1], purchase[slot].paid)]
    /\ Revoke(slot)
    /\ UNCHANGED surcharged

\* While a Market is open, any Market: the purchase may be of an earlier one.
WithdrawMarketPurchase(slot) ==
    /\ Running
    /\ market.open
    /\ CancelPurchase(slot)
    /\ UNCHANGED <<vars, market, mailVars, usage>>

-----------------------------------------------------------------------------
(* Using an advantage. *)

\* A slip the checks must catch: an advantage from Maco Mail needs no budget.
MailNeedsNoBudget(t, type, source) ==
    \/ source = "maco_mail"
    \/ type \notin usage[t]

\* #checkStacking.  BACCHANAL_IMMUNITY is never recorded as a use.
MayUse(t, type, source) == type \notin usage[t]

Spend(t, type) ==
    usage' = IF type = "BACCHANAL_IMMUNITY" THEN usage
             ELSE [usage EXCEPT ![t] = @ \cup {type}]

\* EXTRA_TIME also extends the timer, if it can still be extended.
TimerEffect(type) ==
    IF type = "EXTRA_TIME" THEN UseExtraTime ELSE Running /\ UNCHANGED vars

UseMarketAdvantage(slot) ==
    /\ goods[slot] = "held"
    /\ LET type == AdvantageOf[slot[2]]
       IN  /\ MayUse(slot[1], type, "market")
           /\ Spend(slot[1], type)
           /\ TimerEffect(type)
    /\ goods' = [goods EXCEPT ![slot] = "used"]
    /\ UNCHANGED <<balance, charged, market, purchase, surcharged, mailVars>>

UseMailAdvantage(t, type) ==
    /\ mail[t][type] > 0
    /\ MayUse(t, type, "maco_mail")
    /\ Spend(t, type)
    /\ TimerEffect(type)
    /\ mail' = [mail EXCEPT ![t][type] = @ - 1]
    /\ mailUsed' = [mailUsed EXCEPT ![t][type] = @ + 1]
    /\ UNCHANGED <<balance, charged, shopVars, deck>>

-----------------------------------------------------------------------------
(* Maco Mail. *)

Opponents(t) == Teams \ {t}
NoEffect == UNCHANGED <<balance, charged, purchase, goods, surcharged, mail>>

Cancellable(t) == {s \in Slots : s[1] \in Opponents(t) /\ purchase[s].status = "standing"}

\* #resolveMoney.
MoneyCard(t, o) ==
    /\ o \in MoneyOutcomes
    /\ StaysBelowMax(t, MoneyDelta[o])
    /\ Apply(t, MoneyDelta[o])
    /\ UNCHANGED <<charged, purchase, goods, surcharged, mail>>

\* #resolveAdvantage.
AdvantageCard(t, o) ==
    /\ o \in DOMAIN GrantedBy
    /\ mail' = [mail EXCEPT ![t][GrantedBy[o]] = @ + 1]
    /\ UNCHANGED <<balance, charged, purchase, goods, surcharged>>

\* PARTNER_I_SORRY is blocked for a payer who cannot pay in full.
SorryCard(t, o) ==
    /\ o = "PARTNER_I_SORRY"
    /\ IF Opponents(t) = {} \/ balance[t] < SorryAmount
       THEN NoEffect
       ELSE \E target \in Opponents(t) :
               /\ StaysBelowMax(target, SorryAmount)
               /\ balance' = [balance EXCEPT ![t] = ClampBb(@ - SorryAmount),
                                             ![target] = ClampBb(@ + SorryAmount)]
               /\ UNCHANGED <<charged, purchase, goods, surcharged, mail>>

CancelCard(t, o) ==
    /\ o = "CANCEL_MARKET_PURCHASE"
    /\ IF Cancellable(t) = {}
       THEN NoEffect
       ELSE \E slot \in Cancellable(t) : CancelPurchase(slot) /\ UNCHANGED mail

\* #resolveHeldEffect, PRICE_GONE_UP: a team that has a surcharge makes it a dud.
PriceCard(t, o) ==
    /\ o = "PRICE_GONE_UP"
    /\ IF Opponents(t) = {}
       THEN NoEffect
       ELSE \E target \in Opponents(t) :
               /\ surcharged' = surcharged \cup {target}
               /\ UNCHANGED <<balance, charged, purchase, goods, mail>>

ResolveCard(t, o) ==
    \/ MoneyCard(t, o)
    \/ AdvantageCard(t, o)
    \/ SorryCard(t, o)
    \/ CancelCard(t, o)
    \/ PriceCard(t, o)
    \/ o \in {"CARD_CONFISCATION", "HANDS_TIED"} /\ NoEffect

\* #isStructurallyImpossible, from what the Host's intent says is left to come.
Impossible(answererRemains, marketRemains) ==
    (IF answererRemains THEN {} ELSE {"HANDS_TIED"}) \cup
    (IF marketRemains THEN {} ELSE {"PRICE_GONE_UP"})

OneMore(cards, o) == [cards EXCEPT ![o] = @ + 1]
OneLess(cards, o) == [cards EXCEPT ![o] = @ - 1]

\* A slip the checks must catch: every drawn card goes to the discard.
DiscardAll(discard, o) == OneMore(discard, o)

\* A card that became a held advantage stays out.
DiscardAfter(discard, o) == IF o \in DOMAIN GrantedBy THEN discard ELSE OneMore(discard, o)

\* draw: impossible cards leave the pile, an empty pile takes the discard as it
\* is, and with nothing left the draw is refused after the pile was filtered.
DrawMacoMail(t, answererRemains, marketRemains) ==
    LET out     == Impossible(answererRemains, marketRemains)
        kept    == [o \in Outcomes |-> IF o \in out THEN 0 ELSE deck["pile"][o]]
        removed == [o \in Outcomes |->
                       deck["removed"][o] + (IF o \in out THEN deck["pile"][o] ELSE 0)]
        pile    == IF kept = Empty THEN deck["discard"] ELSE kept
        discard == IF kept = Empty THEN Empty ELSE deck["discard"]
        Decked(p, d) == [x \in {"pile", "discard", "removed"} |->
                            IF x = "pile" THEN p ELSE IF x = "discard" THEN d ELSE removed]
    IN  /\ Running
        /\ IF pile = Empty
           THEN deck' = Decked(Empty, Empty) /\ NoEffect
           ELSE \E o \in Outcomes :
                   /\ pile[o] > 0
                   /\ deck' = Decked(OneLess(pile, o), DiscardAfter(discard, o))
                   /\ ResolveCard(t, o)
        /\ UNCHANGED <<vars, market, mailUsed, usage>>

-----------------------------------------------------------------------------
(* The game around it. *)

\* A slip the checks must catch: the receipts expire and the goods do not.
ExpireReceipts(completed) ==
    /\ purchase' = [s \in Slots |-> IF purchase[s].status = "standing" /\ s[3] <= completed
                                    THEN [purchase[s] EXCEPT !.status = "expired"]
                                    ELSE purchase[s]]
    /\ UNCHANGED goods

\* SharedSystems.endRound.
EndRound(completed) ==
    /\ purchase' = [s \in Slots |-> IF purchase[s].status = "standing" /\ s[3] <= completed
                                    THEN [purchase[s] EXCEPT !.status = "expired"]
                                    ELSE purchase[s]]
    /\ goods' = [s \in Slots |-> IF goods[s] = "held" /\ s[3] <= completed
                                 THEN "expired" ELSE goods[s]]

PhaseStep ==
    \E to \in Phases :
        /\ AdvancePhase(to)
        /\ IF to = "ROUND_INTRO" THEN EndRound(roundIndex) ELSE UNCHANGED <<purchase, goods>>
        /\ UNCHANGED <<balance, charged, market, surcharged, mailVars, usage>>

EndChallenge == usage' = [t \in Teams |-> {}]

ChallengeStep ==
    /\ \/ PrepareChallenge /\ UNCHANGED balance
       \/ /\ ResolveChallenge
          /\ \E delta \in [Teams -> Deltas] :
                /\ \A t \in Teams : StaysBelowMax(t, delta[t])
                /\ balance' = [t \in Teams |-> ClampBb(balance[t] + delta[t])]
    /\ EndChallenge
    /\ UNCHANGED <<charged, shopVars, mailVars>>

FlowStep ==
    /\ \/ StartGame
       \/ StartChallenge
       \/ RequestReview
       \/ \E d \in Durations : StartTimer(d)
       \/ CancelTimer
       \/ PollTimerExpiry
       \/ HostPause
       \/ Resume
       \/ ClockTick
    /\ UNCHANGED econVars

ENext ==
    \/ \E round \in MarketRounds : OpenMarket(round)
    \/ CloseMarket
    \/ \E t \in Teams, item \in Items : PurchaseMarketItem(t, item)
    \/ \E slot \in Slots : WithdrawMarketPurchase(slot) \/ UseMarketAdvantage(slot)
    \/ \E t \in Teams, type \in AdvantageTypes : UseMailAdvantage(t, type)
    \/ \E t \in Teams, answererRemains, marketRemains \in BOOLEAN :
           DrawMacoMail(t, answererRemains, marketRemains)
    \/ PhaseStep
    \/ ChallengeStep
    \/ FlowStep

ESpec == EInit /\ [][ENext]_allVars

-----------------------------------------------------------------------------
(* Properties. *)

\* The ledger and the receipts agree on every purchase: a team is out exactly
\* what it paid while the purchase stands or has run its round, and nothing
\* once it was cancelled, however often the item was bought and taken back, by
\* whom, with a surcharge or without, and however low the balance was.
BooksMatchReceipts ==
    \A s \in Slots :
        charged[s] = IF purchase[s].status \in {"standing", "expired"} THEN purchase[s].paid ELSE 0

\* The Market and the advantages remember the same purchase twice and agree:
\* a cancelled or never made purchase gives nothing to use, an expired one
\* has nothing usable left, a standing one has not lost its advantage.
GoodsFollowReceipt ==
    \A s \in Slots :
        LET status == purchase[s].status
        IN  /\ goods[s] = "held" => status = "standing"
            /\ goods[s] = "expired" => status = "expired"
            /\ status \in {"standing", "expired"} /\ goods[s] = "none"
                   => s[2] \notin DOMAIN AdvantageOf

\* One clue, one double, one extension and one retry a team and challenge,
\* whichever of the Market and Maco Mail they came from; only the end or the
\* start of a challenge gives the budget back (#checkStacking, endChallenge).
OneOfAKindPerChallenge ==
    [][challenge'.id = challenge.id /\ settlements' = settlements =>
          \A t \in Teams :
              /\ usage[t] \subseteq usage'[t]
              /\ \A type \in usage[t] :
                    /\ mail'[t][type] >= mail[t][type]
                    /\ \A s \in Slots : s[1] = t /\ s[2] \in DOMAIN AdvantageOf
                           => (AdvantageOf[s[2]] = type /\ goods[s] = "held"
                                 => goods'[s] # "used")]_allVars

\* No card of the deck is lost or drawn twice before a reshuffle: each is in
\* the pile, in the discard, removed for good, or was a team's advantage, used
\* ones included, which no reshuffle takes back (draw, #resolve).
CardsOut(o) ==
    IF o \in DOMAIN GrantedBy
    THEN MapThenSumSet(LAMBDA t : mail[t][GrantedBy[o]] + mailUsed[t][GrantedBy[o]], Teams)
    ELSE 0

DeckIsWhole ==
    \A o \in Outcomes :
        deck["pile"][o] + deck["discard"][o] + deck["removed"][o] + CardsOut(o) = Composition[o]

\* The receipts are true of the money and of the goods, and no balance, price or
\* count has gone below zero to make them so.
ReceiptsAreTrue == EconTypeOK /\ BooksMatchReceipts /\ GoodsFollowReceipt

=============================================================================

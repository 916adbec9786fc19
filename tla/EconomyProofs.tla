--------------------------- MODULE EconomyProofs ---------------------------
(***************************************************************************)
(* The books of the economy for any teams, items, prices, decks and        *)
(* results.  The receipts and the advantages are kept apart by the code    *)
(* and tied together only by the order of its calls, so neither of the two *)
(* properties is inductive without the types of both, and a use needs to   *)
(* know that what is held is an advantage at all.  Of the game flow the    *)
(* books need nothing: whichever round a phase change says has ended, both *)
(* sides expire by the same rule; the budgets need to know when it is that *)
(* the challenge changes.  The deck is counted on top of that: its heaps   *)
(* and the cards in the hands of all teams, a sum over the teams that a    *)
(* draw and a use move by one.                                             *)
(***************************************************************************)
EXTENDS Economy, GameFlowProofs

\* Only an item that grants an advantage leaves something to hold.
HeldIsAnAdvantage == \A s \in Slots : goods[s] = "held" => s[2] \in DOMAIN AdvantageOf

\* The types of the shop, and those of Maco Mail and the budgets.
ShopType ==
    /\ balance \in [Teams -> Nat]
    /\ charged \in [Slots -> Int]
    /\ market \in [round : MarketRounds \cup {0}, open : BOOLEAN]
    /\ market.open => market.round # 0
    /\ purchase \in [Slots -> [status : {"none", "standing", "cancelled", "expired"}, paid : Nat]]
    /\ goods \in [Slots -> {"none", "held", "used", "expired"}]
    /\ surcharged \in SUBSET Teams

HandType ==
    /\ mail \in [Teams -> [AdvantageTypes -> Nat]]
    /\ mailUsed \in [Teams -> [AdvantageTypes -> Nat]]
    /\ usage \in [Teams -> SUBSET AdvantageTypes]

DeckType == deck \in [{"pile", "discard", "removed"} -> [Outcomes -> Nat]]

ShopInv == ShopType /\ BooksMatchReceipts /\ GoodsFollowReceipt /\ HeldIsAnAdvantage

EInv == ShopInv /\ HandType /\ DeckType

LEMMA InvariantImpliesType == EInv => EconTypeOK
  BY DEF EInv, ShopInv, ShopType, HandType, DeckType, EconTypeOK

\* clampBb returns an amount no team can owe, and leaves what is not negative.
LEMMA ClampIsNat == \A n \in Int : ClampBb(n) \in Nat /\ (n >= 0 => ClampBb(n) = n)
  BY DEF ClampBb

\* What grants an advantage grants one of the five types.
LEMMA GrantsAreTypes ==
  /\ \A i \in DOMAIN AdvantageOf : AdvantageOf[i] \in AdvantageTypes
  /\ \A o \in DOMAIN GrantedBy : GrantedBy[o] \in AdvantageTypes
  BY DEF AdvantageOf, GrantedBy, AdvantageTypes

\* The shop reads these variables and no others.
shopOnly == <<balance, charged, market, purchase, goods, surcharged>>

LEMMA ShopUnchanged == ShopInv /\ UNCHANGED shopOnly => ShopInv'
  BY DEF ShopInv, ShopType, BooksMatchReceipts, GoodsFollowReceipt, HeldIsAnAdvantage, shopOnly

\* A balance may move on its own: no receipt depends on it.
LEMMA BalanceMoves ==
  ASSUME ShopInv, balance' \in [Teams -> Nat],
         UNCHANGED <<charged, market, purchase, goods>>, surcharged' \in SUBSET Teams
  PROVE  ShopInv'
  BY DEF ShopInv, ShopType, BooksMatchReceipts, GoodsFollowReceipt, HeldIsAnAdvantage

LEMMA EInitially == EInit => EInv
  <1> SUFFICES ASSUME EInit PROVE EInv
    OBVIOUS
  <1>1. ShopType
    BY EconomyAssumption DEF EInit, ShopType
  <1>2. BooksMatchReceipts /\ GoodsFollowReceipt /\ HeldIsAnAdvantage
    BY DEF EInit, BooksMatchReceipts, GoodsFollowReceipt, HeldIsAnAdvantage
  <1>3. HandType
    BY DEF EInit, HandType
  <1>4. Empty \in [Outcomes -> Nat] /\ Composition \in [Outcomes -> Nat]
    BY EconomyAssumption DEF Empty
  <1>5. DeckType
    BY <1>4 DEF EInit, DeckType
  <1>q. QED BY <1>1, <1>2, <1>3, <1>5 DEF EInv, ShopInv

-----------------------------------------------------------------------------
(* The shop. *)

\* A purchase charges exactly its price, for the balance covers it.
LEMMA PurchaseKeeps ==
  ASSUME ShopInv, NEW t \in Teams, NEW item \in Items, PurchaseMarketItem(t, item)
  PROVE  ShopInv'
  <1> DEFINE slot == <<t, item, market.round>>
             cost == PriceFor(t, item)
  <1>1. market.round \in MarketRounds /\ slot \in Slots
    BY DEF PurchaseMarketItem, ShopInv, ShopType, Slots
  <1>2. cost \in Nat
    <2>1. Price[item][market.round] \in Nat /\ Surcharge \in Nat
      BY <1>1, EconomyAssumption
    <2>q. QED BY <2>1 DEF PriceFor
  <1>3. balance[t] \in Nat /\ balance[t] - cost >= 0
    <2>1. balance[t] \in Nat
      BY DEF ShopInv, ShopType
    <2>2. balance[t] >= cost
      BY DEF PurchaseMarketItem, Affordable
    <2>q. QED BY <1>2, <2>1, <2>2
  <1>4. ClampBb(balance[t] + -cost) = balance[t] - cost /\ ClampBb(balance[t] + -cost) \in Nat
    BY <1>2, <1>3 DEF ClampBb
  <1>5. Applied(t, -cost) = -cost
    BY <1>2, <1>3, <1>4 DEF Applied
  <1>6. charged[slot] = 0
    BY <1>1 DEF PurchaseMarketItem, ShopInv, BooksMatchReceipts
  <1>7. /\ balance' \in [Teams -> Nat]
        /\ charged' = [charged EXCEPT ![slot] = cost]
        /\ purchase' = [purchase EXCEPT ![slot] = [status |-> "standing", paid |-> cost]]
        /\ goods' = [goods EXCEPT ![slot] = IF item \in DOMAIN AdvantageOf THEN "held" ELSE "none"]
        /\ surcharged' = surcharged \ {t}
        /\ market' = market
    <2>1. balance' = [balance EXCEPT ![t] = ClampBb(balance[t] + -cost)]
      BY DEF PurchaseMarketItem, Apply
    <2>2. balance' \in [Teams -> Nat]
      BY <1>4, <2>1 DEF ShopInv, ShopType
    <2>3. charged' = [charged EXCEPT ![slot] = charged[slot] - Applied(t, -cost)]
      BY DEF PurchaseMarketItem
    <2>4. 0 - (-cost) = cost
      BY <1>2
    <2>5. charged' = [charged EXCEPT ![slot] = cost]
      BY <1>5, <1>6, <2>3, <2>4
    <2>6. /\ purchase' = [purchase EXCEPT ![slot] = [status |-> "standing", paid |-> cost]]
          /\ goods' = [goods EXCEPT ![slot] = IF item \in DOMAIN AdvantageOf THEN "held" ELSE "none"]
          /\ surcharged' = surcharged \ {t}
          /\ market' = market
      BY DEF PurchaseMarketItem
    <2>q. QED BY <2>2, <2>5, <2>6
  <1> HIDE DEF cost
  <1>8. ShopType'
    BY <1>1, <1>2, <1>7 DEF ShopInv, ShopType
  <1>9. BooksMatchReceipts'
    <2> SUFFICES ASSUME NEW s \in Slots
                 PROVE  charged'[s] = IF purchase'[s].status \in {"standing", "expired"}
                                      THEN purchase'[s].paid ELSE 0
      BY DEF BooksMatchReceipts, Slots
    <2>1. CASE s = slot
      BY <1>1, <1>7, <2>1 DEF ShopInv, ShopType
    <2>2. CASE s # slot
      <3>1. charged'[s] = charged[s] /\ purchase'[s] = purchase[s]
        BY <1>7, <2>2 DEF ShopInv, ShopType
      <3>q. QED BY <3>1 DEF ShopInv, BooksMatchReceipts
    <2>q. QED BY <2>1, <2>2
  <1>10. GoodsFollowReceipt' /\ HeldIsAnAdvantage'
    BY <1>1, <1>7 DEF ShopInv, ShopType, GoodsFollowReceipt, HeldIsAnAdvantage
  <1>q. QED BY <1>8, <1>9, <1>10 DEF ShopInv

\* A cancelled purchase, by its team or by a card, gives back exactly what was
\* paid, and with it goes what it granted unless it was used.
LEMMA CancelKeeps ==
  ASSUME ShopInv, NEW slot \in Slots, CancelPurchase(slot), UNCHANGED market
  PROVE  ShopInv'
  <1> DEFINE t == slot[1]
             paid == purchase[slot].paid
  <1>1. t \in Teams
    BY DEF Slots
  <1>2. paid \in Nat /\ balance[t] \in Nat
    BY <1>1 DEF ShopInv, ShopType
  <1>3. Applied(t, paid) = paid /\ ClampBb(balance[t] + paid) \in Nat
    BY <1>2 DEF Applied, ClampBb
  <1>4. charged[slot] = paid
    BY DEF CancelPurchase, ShopInv, BooksMatchReceipts
  <1>5. /\ balance' \in [Teams -> Nat]
        /\ charged' = [charged EXCEPT ![slot] = 0]
        /\ purchase' = [purchase EXCEPT ![slot].status = "cancelled"]
        /\ goods' = [goods EXCEPT ![slot] = IF @ = "used" THEN @ ELSE "none"]
        /\ surcharged' = surcharged
    <2>1. balance' = [balance EXCEPT ![t] = ClampBb(balance[t] + paid)]
      BY DEF CancelPurchase, Apply
    <2>2. balance' \in [Teams -> Nat]
      BY <1>3, <2>1 DEF ShopInv, ShopType
    <2>3. charged' = [charged EXCEPT ![slot] = charged[slot] - Applied(t, paid)]
      BY DEF CancelPurchase
    <2>4. paid - paid = 0
      BY <1>2
    <2>5. charged' = [charged EXCEPT ![slot] = 0]
      BY <1>3, <1>4, <2>3, <2>4
    <2>6. /\ purchase' = [purchase EXCEPT ![slot].status = "cancelled"]
          /\ goods' = [goods EXCEPT ![slot] = IF @ = "used" THEN @ ELSE "none"]
          /\ surcharged' = surcharged
      BY DEF CancelPurchase, Revoke
    <2>q. QED BY <2>2, <2>5, <2>6
  <1>6. ShopType'
    BY <1>5 DEF ShopInv, ShopType
  <1>7. BooksMatchReceipts'
    <2> SUFFICES ASSUME NEW s \in Slots
                 PROVE  charged'[s] = IF purchase'[s].status \in {"standing", "expired"}
                                      THEN purchase'[s].paid ELSE 0
      BY DEF BooksMatchReceipts, Slots
    <2>1. CASE s = slot
      BY <1>5, <2>1 DEF ShopInv, ShopType
    <2>2. CASE s # slot
      <3>1. charged'[s] = charged[s] /\ purchase'[s] = purchase[s]
        BY <1>5, <2>2 DEF ShopInv, ShopType
      <3>q. QED BY <3>1 DEF ShopInv, BooksMatchReceipts
    <2>q. QED BY <2>1, <2>2
  <1>8. GoodsFollowReceipt' /\ HeldIsAnAdvantage'
    BY <1>5 DEF ShopInv, ShopType, GoodsFollowReceipt, HeldIsAnAdvantage
  <1>q. QED BY <1>6, <1>7, <1>8 DEF ShopInv

\* Receipts and advantages expire by the same rule.
LEMMA EndRoundKeeps ==
  ASSUME ShopInv, NEW completed, EndRound(completed),
         UNCHANGED <<balance, charged, market, surcharged>>
  PROVE  ShopInv'
  <1>1. ShopType'
    BY DEF EndRound, ShopInv, ShopType
  <1>2. BooksMatchReceipts'
    BY DEF EndRound, ShopInv, ShopType, BooksMatchReceipts
  <1>3. GoodsFollowReceipt' /\ HeldIsAnAdvantage'
    BY DEF EndRound, ShopInv, ShopType, GoodsFollowReceipt, HeldIsAnAdvantage
  <1>q. QED BY <1>1, <1>2, <1>3 DEF ShopInv

-----------------------------------------------------------------------------
(* Using an advantage. *)

LEMMA SpendKeeps ==
  ASSUME HandType, NEW t \in Teams, NEW type \in AdvantageTypes, Spend(t, type)
  PROVE  usage' \in [Teams -> SUBSET AdvantageTypes]
  BY DEF HandType, Spend

LEMMA UseMarketKeeps ==
  ASSUME EInv, NEW slot \in Slots, UseMarketAdvantage(slot)
  PROVE  EInv'
  <1> DEFINE type == AdvantageOf[slot[2]]
  <1>1. /\ goods[slot] = "held" /\ goods' = [goods EXCEPT ![slot] = "used"]
        /\ Spend(slot[1], type)
        /\ UNCHANGED <<balance, charged, market, purchase, surcharged, mail, mailUsed, deck>>
    BY DEF UseMarketAdvantage, mailVars
  <1>2. slot[2] \in DOMAIN AdvantageOf /\ slot[1] \in Teams
    BY <1>1 DEF EInv, ShopInv, HeldIsAnAdvantage, Slots
  <1>3. type \in AdvantageTypes
    BY <1>2, GrantsAreTypes
  <1> HIDE DEF type
  <1>4. ShopType'
    BY <1>1 DEF EInv, ShopInv, ShopType
  <1>5. BooksMatchReceipts' /\ GoodsFollowReceipt' /\ HeldIsAnAdvantage'
    BY <1>1 DEF EInv, ShopInv, ShopType, BooksMatchReceipts, GoodsFollowReceipt, HeldIsAnAdvantage
  <1>6. HandType'
    BY <1>1, <1>2, <1>3, SpendKeeps DEF EInv, HandType
  <1>7. DeckType'
    BY <1>1 DEF EInv, DeckType
  <1>q. QED BY <1>4, <1>5, <1>6, <1>7 DEF EInv, ShopInv

LEMMA UseMailKeeps ==
  ASSUME EInv, NEW t \in Teams, NEW type \in AdvantageTypes, UseMailAdvantage(t, type)
  PROVE  EInv'
  <1>1. /\ mail[t][type] > 0 /\ Spend(t, type)
        /\ mail' = [mail EXCEPT ![t][type] = @ - 1]
        /\ mailUsed' = [mailUsed EXCEPT ![t][type] = @ + 1]
        /\ UNCHANGED <<balance, charged, market, purchase, goods, surcharged, deck>>
    BY DEF UseMailAdvantage, shopVars
  <1>2. ShopInv'
    BY <1>1, ShopUnchanged DEF EInv, shopOnly
  <1>3. mail[t][type] \in Nat /\ mailUsed[t][type] \in Nat
    BY DEF EInv, HandType
  <1>4. mail[t][type] - 1 \in Nat /\ mailUsed[t][type] + 1 \in Nat
    BY <1>1, <1>3
  <1>5. /\ mail' \in [Teams -> [AdvantageTypes -> Nat]]
        /\ mailUsed' \in [Teams -> [AdvantageTypes -> Nat]]
    BY <1>1, <1>4 DEF EInv, HandType
  <1>6. HandType'
    BY <1>1, <1>5, SpendKeeps DEF EInv, HandType
  <1>7. DeckType'
    BY <1>1 DEF EInv, DeckType
  <1>q. QED BY <1>2, <1>6, <1>7 DEF EInv

-----------------------------------------------------------------------------
(* Maco Mail: whatever card is drawn, the books stay in order. *)

LEMMA ResolveKeeps ==
  ASSUME EInv, NEW t \in Teams, NEW o \in Outcomes, ResolveCard(t, o),
         UNCHANGED <<market, mailUsed, usage>>
  PROVE  ShopInv' /\ HandType'
  <1>1. CASE MoneyCard(t, o)
    <2>1. balance[t] + MoneyDelta[o] \in Int
      BY <1>1, EconomyAssumption DEF MoneyCard, EInv, ShopInv, ShopType
    <2>2. balance' \in [Teams -> Nat]
      BY <1>1, <2>1, ClampIsNat DEF MoneyCard, Apply, EInv, ShopInv, ShopType
    <2>3. surcharged' \in SUBSET Teams
      BY <1>1 DEF MoneyCard, EInv, ShopInv, ShopType
    <2>4. UNCHANGED <<charged, market, purchase, goods, mail>>
      BY <1>1 DEF MoneyCard
    <2>q. QED BY <2>2, <2>3, <2>4, BalanceMoves DEF EInv, HandType
  <1>2. CASE AdvantageCard(t, o)
    <2>1. GrantedBy[o] \in AdvantageTypes
      BY <1>2, GrantsAreTypes DEF AdvantageCard
    <2>2. /\ mail' = [mail EXCEPT ![t][GrantedBy[o]] = @ + 1]
          /\ UNCHANGED <<balance, charged, purchase, goods, surcharged>>
      BY <1>2 DEF AdvantageCard
    <2>3. mail' \in [Teams -> [AdvantageTypes -> Nat]]
      BY <2>1, <2>2 DEF EInv, HandType
    <2>q. QED BY <2>2, <2>3, ShopUnchanged DEF EInv, HandType, shopOnly
  <1>3. CASE NoEffect
    BY <1>3, ShopUnchanged DEF NoEffect, EInv, HandType, shopOnly
  <1>4. CASE SorryCard(t, o) /\ ~NoEffect
    <2>1. PICK target \in Opponents(t) :
             /\ balance' = [balance EXCEPT ![t] = ClampBb(@ - SorryAmount),
                                           ![target] = ClampBb(@ + SorryAmount)]
             /\ UNCHANGED <<charged, purchase, goods, surcharged, mail>>
      BY <1>4 DEF SorryCard
    <2>2. target \in Teams /\ target # t
      BY DEF Opponents
    <2>3. balance[t] - SorryAmount \in Int /\ balance[target] + SorryAmount \in Int
      BY <2>2, EconomyAssumption DEF EInv, ShopInv, ShopType
    <2>4. ClampBb(balance[t] - SorryAmount) \in Nat /\ ClampBb(balance[target] + SorryAmount) \in Nat
      BY <2>3, ClampIsNat
    <2>5. balance' \in [Teams -> Nat]
      BY <2>1, <2>2, <2>4 DEF EInv, ShopInv, ShopType
    <2>6. surcharged' \in SUBSET Teams
      BY <2>1 DEF EInv, ShopInv, ShopType
    <2>q. QED BY <2>1, <2>5, <2>6, BalanceMoves DEF EInv, HandType
  <1>5. CASE CancelCard(t, o) /\ ~NoEffect
    <2>1. PICK slot \in Cancellable(t) : CancelPurchase(slot) /\ UNCHANGED mail
      BY <1>5 DEF CancelCard
    <2>2. slot \in Slots
      BY DEF Cancellable
    <2>q. QED BY <2>1, <2>2, CancelKeeps DEF EInv, HandType
  <1>6. CASE PriceCard(t, o) /\ ~NoEffect
    <2>1. PICK target \in Opponents(t) :
             /\ surcharged' = surcharged \cup {target}
             /\ UNCHANGED <<balance, charged, purchase, goods, mail>>
      BY <1>6 DEF PriceCard
    <2>2. surcharged' \in SUBSET Teams
      BY <2>1 DEF Opponents, EInv, ShopInv, ShopType
    <2>3. balance' \in [Teams -> Nat]
      BY <2>1 DEF EInv, ShopInv, ShopType
    <2>q. QED BY <2>1, <2>2, <2>3, BalanceMoves DEF EInv, HandType
  <1>q. QED BY <1>1, <1>2, <1>3, <1>4, <1>5, <1>6 DEF ResolveCard

\* Every card drawn was in the pile, so no count goes below zero.
LEMMA DrawKeeps ==
  ASSUME EInv, NEW t \in Teams, NEW a \in BOOLEAN, NEW b \in BOOLEAN, DrawMacoMail(t, a, b)
  PROVE  EInv'
  <1> DEFINE out     == Impossible(a, b)
             kept    == [o \in Outcomes |-> IF o \in out THEN 0 ELSE deck["pile"][o]]
             removed == [o \in Outcomes |->
                            deck["removed"][o] + (IF o \in out THEN deck["pile"][o] ELSE 0)]
             pile    == IF kept = Empty THEN deck["discard"] ELSE kept
             discard == IF kept = Empty THEN Empty ELSE deck["discard"]
             Decked(p, d) == [x \in {"pile", "discard", "removed"} |->
                                 IF x = "pile" THEN p ELSE IF x = "discard" THEN d ELSE removed]
             Counts  == [Outcomes -> Nat]
  <1>1. UNCHANGED <<market, mailUsed, usage>>
    BY DEF DrawMacoMail
  <1>2. deck["pile"] \in Counts /\ deck["discard"] \in Counts /\ deck["removed"] \in Counts
    BY DEF EInv, DeckType
  <1>3. kept \in Counts /\ removed \in Counts /\ Empty \in Counts
    BY <1>2 DEF Empty
  <1>4. pile \in Counts /\ discard \in Counts
    BY <1>2, <1>3
  <1>5. \A p \in Counts, d \in Counts : Decked(p, d) \in [{"pile", "discard", "removed"} -> Counts]
    BY <1>3
  <1>6. \/ pile = Empty /\ deck' = Decked(Empty, Empty) /\ NoEffect
        \/ \E o \in Outcomes :
              /\ pile[o] > 0
              /\ deck' = Decked(OneLess(pile, o), DiscardAfter(discard, o))
              /\ ResolveCard(t, o)
    BY DEF DrawMacoMail
  <1> HIDE DEF kept, removed, pile, discard, Decked
  <1>7. CASE pile = Empty /\ deck' = Decked(Empty, Empty) /\ NoEffect
    <2>1. DeckType'
      BY <1>3, <1>5, <1>7 DEF DeckType
    <2>q. QED BY <1>1, <1>7, <2>1, ShopUnchanged DEF NoEffect, EInv, HandType, shopOnly
  <1>8. ASSUME NEW o \in Outcomes, pile[o] > 0, ResolveCard(t, o),
               deck' = Decked(OneLess(pile, o), DiscardAfter(discard, o))
        PROVE  EInv'
    <2>1. OneLess(pile, o) \in Counts
      BY <1>4, <1>8 DEF OneLess
    <2>2. DiscardAfter(discard, o) \in Counts
      BY <1>4 DEF DiscardAfter, OneMore
    <2>3. DeckType'
      BY <1>5, <1>8, <2>1, <2>2 DEF DeckType
    <2>q. QED BY <1>1, <1>8, <2>3, ResolveKeeps DEF EInv
  <1>q. QED BY <1>6, <1>7, <1>8

-----------------------------------------------------------------------------
(* The game around it. *)

LEMMA ChallengeStepKeeps == ASSUME EInv, ChallengeStep PROVE EInv'
  <1>1. /\ UNCHANGED <<charged, market, purchase, goods, surcharged, mail, mailUsed, deck>>
        /\ usage' = [t \in Teams |-> {}]
    BY DEF ChallengeStep, EndChallenge, shopVars, mailVars
  <1>2. balance' \in [Teams -> Nat]
    <2>1. CASE UNCHANGED balance
      BY <2>1 DEF EInv, ShopInv, ShopType
    <2>2. ASSUME NEW delta \in [Teams -> Deltas],
                 balance' = [t \in Teams |-> ClampBb(balance[t] + delta[t])]
          PROVE  balance' \in [Teams -> Nat]
      <3>1. \A t \in Teams : balance[t] + delta[t] \in Int
        <4> TAKE t \in Teams
        <4>1. delta[t] \in Deltas /\ balance[t] \in Nat
          BY DEF EInv, ShopInv, ShopType
        <4>2. Deltas \subseteq Int
          BY EconomyAssumption
        <4>3. delta[t] \in Int
          BY <4>1, <4>2, Zenon
        <4>q. QED BY <4>1, <4>3
      <3>2. \A t \in Teams : ClampBb(balance[t] + delta[t]) \in Nat
        BY <3>1, ClampIsNat
      <3>q. QED BY <2>2, <3>2
    <2>q. QED BY <2>1, <2>2 DEF ChallengeStep
  <1>3. surcharged' \in SUBSET Teams
    BY <1>1 DEF EInv, ShopInv, ShopType
  <1>4. ShopInv'
    BY <1>1, <1>2, <1>3, BalanceMoves DEF EInv
  <1>q. QED BY <1>1, <1>4 DEF EInv, HandType, DeckType

LEMMA EUnchanged == EInv /\ UNCHANGED econVars => EInv'
  BY ShopUnchanged DEF EInv, HandType, DeckType, econVars, shopVars, mailVars, shopOnly

LEMMA EStepKeeps == EInv /\ [ENext]_allVars => EInv'
  <1> SUFFICES ASSUME EInv, [ENext]_allVars PROVE EInv'
    OBVIOUS
  <1>1. ASSUME NEW round \in MarketRounds, OpenMarket(round) PROVE EInv'
    <2>1. /\ market' = [round |-> round, open |-> TRUE]
          /\ UNCHANGED <<balance, charged, purchase, goods, surcharged, mail, mailUsed, deck, usage>>
      BY <1>1 DEF OpenMarket, mailVars
    <2>2. market' \in [round : MarketRounds \cup {0}, open : BOOLEAN] /\ market'.round # 0
      BY <2>1, EconomyAssumption
    <2>q. QED BY <2>1, <2>2 DEF EInv, ShopInv, ShopType, HandType, DeckType, BooksMatchReceipts,
                                GoodsFollowReceipt, HeldIsAnAdvantage
  <1>2. CASE CloseMarket
    BY <1>2 DEF CloseMarket, mailVars, EInv, ShopInv, ShopType, HandType, DeckType,
                BooksMatchReceipts, GoodsFollowReceipt, HeldIsAnAdvantage
  <1>3. ASSUME NEW t \in Teams, NEW item \in Items, PurchaseMarketItem(t, item) PROVE EInv'
    <2>1. UNCHANGED <<mail, mailUsed, deck, usage>>
      BY <1>3 DEF PurchaseMarketItem, mailVars
    <2>q. QED BY <1>3, <2>1, PurchaseKeeps DEF EInv, HandType, DeckType
  <1>4. ASSUME NEW slot \in Slots, WithdrawMarketPurchase(slot) PROVE EInv'
    <2>1. CancelPurchase(slot) /\ UNCHANGED <<market, mail, mailUsed, deck, usage>>
      BY <1>4 DEF WithdrawMarketPurchase, mailVars
    <2>q. QED BY <2>1, CancelKeeps DEF EInv, HandType, DeckType
  <1>5. CASE PhaseStep
    <2>1. UNCHANGED <<balance, charged, market, surcharged, mail, mailUsed, deck, usage>>
      BY <1>5 DEF PhaseStep, mailVars
    <2>2. EndRound(roundIndex) \/ UNCHANGED <<purchase, goods>>
      BY <1>5 DEF PhaseStep
    <2>3. ShopInv'
      BY <2>1, <2>2, EndRoundKeeps, ShopUnchanged DEF EInv, shopOnly
    <2>q. QED BY <2>1, <2>3 DEF EInv, HandType, DeckType
  <1>6. CASE FlowStep \/ UNCHANGED allVars
    BY <1>6, EUnchanged DEF FlowStep, allVars
  <1>q. QED BY <1>1, <1>2, <1>3, <1>4, <1>5, <1>6, UseMarketKeeps, UseMailKeeps, DrawKeeps,
               ChallengeStepKeeps DEF ENext

LEMMA EInvariant == ESpec => []EInv
  BY EInitially, EStepKeeps, PTL DEF ESpec

-----------------------------------------------------------------------------
(* The deck.  The cards that are out are a sum over the teams. *)

\* CardsOut is the sum of what each team holds and has used of the card's type.
OutTallied ==
    HandType =>
    \A o \in DOMAIN GrantedBy : \E f, i :
        /\ f \in [Teams -> Int]
        /\ Tally(i, f, Teams) /\ CardsOut(o) = i[Teams]
        /\ \A t \in Teams : f[t] = mail[t][GrantedBy[o]] + mailUsed[t][GrantedBy[o]]

LEMMA CardsOutIsATally == OutTallied
  <1> SUFFICES ASSUME HandType, NEW o \in DOMAIN GrantedBy
               PROVE  \E f, i :
                          /\ f \in [Teams -> Int]
                          /\ Tally(i, f, Teams) /\ CardsOut(o) = i[Teams]
                          /\ \A t \in Teams :
                                 f[t] = mail[t][GrantedBy[o]] + mailUsed[t][GrantedBy[o]]
    BY DEF OutTallied
  <1> DEFINE Row == [t \in Teams |-> mail[t][GrantedBy[o]] + mailUsed[t][GrantedBy[o]]]
             P(i) == i = [s \in SUBSET Teams |->
                            IF s = {} THEN 0
                            ELSE (mail[Pick(s)][GrantedBy[o]] + mailUsed[Pick(s)][GrantedBy[o]])
                                     + i[s \ {Pick(s)}]]
             sum == CHOOSE i : P(i)
  <1>1. \A i : Tally(i, Row, Teams) <=> P(i)
    <2>1. \A s \in SUBSET Teams : s # {} =>
             Row[Pick(s)] = mail[Pick(s)][GrantedBy[o]] + mailUsed[Pick(s)][GrantedBy[o]]
      BY DEF Pick
    <2>q. QED BY <2>1 DEF Tally
  <1>2. \E i : P(i)
    <2>1. \E i : Tally(i, Row, Teams)
      BY TallyExists, EconomyAssumption
    <2> HIDE DEF P, Row
    <2>q. QED BY <1>1, <2>1
  <1>3. P(sum)
    <2> HIDE DEF P
    <2>q. QED BY <1>2
  <1>4. CardsOut(o) = sum[Teams]
    BY Zenon DEF CardsOut, MapThenSumSet, MapThenFoldSet, Pick
  <1>5. /\ Row \in [Teams -> Int]
        /\ \A t \in Teams : Row[t] = mail[t][GrantedBy[o]] + mailUsed[t][GrantedBy[o]]
    BY GrantsAreTypes DEF HandType
  <1>6. Tally(sum, Row, Teams)
    <2> HIDE DEF P, sum, Row
    <2>q. QED BY <1>1, <1>3
  <1>q. QED
    <2> HIDE DEF sum, Row
    <2>q. QED BY <1>4, <1>5, <1>6

\* The same of the state after a step.
LEMMA CardsOutIsATallyNext == OutTallied'
  BY CardsOutIsATally, PTL

\* A card used is out as much as before, and a card of another kind changes
\* nothing of this one.
LEMMA OutStays ==
  ASSUME HandType, HandType', NEW o \in DOMAIN GrantedBy,
         \A t \in Teams : mail'[t][GrantedBy[o]] + mailUsed'[t][GrantedBy[o]]
                              = mail[t][GrantedBy[o]] + mailUsed[t][GrantedBy[o]]
  PROVE  CardsOut(o)' = CardsOut(o) /\ CardsOut(o) \in Int
  <1>1. PICK f, i : /\ f \in [Teams -> Int]
                    /\ Tally(i, f, Teams) /\ CardsOut(o) = i[Teams]
                    /\ \A t \in Teams : f[t] = mail[t][GrantedBy[o]] + mailUsed[t][GrantedBy[o]]
    BY CardsOutIsATally DEF OutTallied
  <1>2. PICK g, j : /\ g \in [Teams -> Int]
                    /\ Tally(j, g, Teams) /\ CardsOut(o)' = j[Teams]
                    /\ \A t \in Teams : g[t] = mail'[t][GrantedBy[o]] + mailUsed'[t][GrantedBy[o]]
    BY CardsOutIsATallyNext DEF OutTallied
  <1>3. IsFiniteSet(Teams) /\ \A t \in Teams : f[t] = g[t]
    BY <1>1, <1>2, EconomyAssumption
  <1>4. i[Teams] = j[Teams]
    BY <1>1, <1>2, <1>3, TalliesAgree
  <1>5. i[Teams] \in Int
    BY <1>1, <1>3, TallyType
  <1>q. QED BY <1>1, <1>2, <1>4, <1>5

\* One more in a team's hands is one more out.
LEMMA OutGrows ==
  ASSUME HandType, HandType', NEW o \in DOMAIN GrantedBy, NEW u \in Teams,
         UNCHANGED mailUsed, mail' = [mail EXCEPT ![u][GrantedBy[o]] = @ + 1]
  PROVE  CardsOut(o)' = CardsOut(o) + 1 /\ CardsOut(o) \in Int
  <1>1. PICK f, i : /\ f \in [Teams -> Int]
                    /\ Tally(i, f, Teams) /\ CardsOut(o) = i[Teams]
                    /\ \A t \in Teams : f[t] = mail[t][GrantedBy[o]] + mailUsed[t][GrantedBy[o]]
    BY CardsOutIsATally DEF OutTallied
  <1>2. PICK g, j : /\ g \in [Teams -> Int]
                    /\ Tally(j, g, Teams) /\ CardsOut(o)' = j[Teams]
                    /\ \A t \in Teams : g[t] = mail'[t][GrantedBy[o]] + mailUsed'[t][GrantedBy[o]]
    BY CardsOutIsATallyNext DEF OutTallied
  <1>3. /\ \A t \in Teams \ {u} : g[t] = f[t]
        /\ g[u] - f[u] = 1
    <2>1. GrantedBy[o] \in AdvantageTypes
      BY GrantsAreTypes
    <2>2. /\ mail'[u][GrantedBy[o]] = mail[u][GrantedBy[o]] + 1
          /\ \A t \in Teams \ {u} : mail'[t] = mail[t]
      BY <2>1 DEF HandType
    <2>3. mail[u][GrantedBy[o]] \in Nat /\ mailUsed[u][GrantedBy[o]] \in Nat
      BY <2>1 DEF HandType
    <2>q. QED BY <1>1, <1>2, <2>2, <2>3
  <1>4. i[Teams] \in Int
    BY <1>1, EconomyAssumption, TallyType
  <1>5. j[Teams] = i[Teams] + (g[u] - f[u])
    BY <1>1, <1>2, <1>3, EconomyAssumption, TallyMoves
  <1>q. QED BY <1>1, <1>2, <1>3, <1>4, <1>5

\* A card that grants nothing is never out.
LEMMA OthersStayIn == \A q : q \notin DOMAIN GrantedBy => CardsOut(q) = 0
  BY DEF CardsOut

\* What is out is a whole number of cards.
LEMMA CardsOutIsInt == ASSUME HandType, NEW o \in DOMAIN GrantedBy PROVE CardsOut(o) \in Int
  <1>1. PICK f, i : /\ f \in [Teams -> Int] /\ Tally(i, f, Teams) /\ CardsOut(o) = i[Teams]
    BY CardsOutIsATally DEF OutTallied
  <1>q. QED BY <1>1, EconomyAssumption, TallyType

\* A step that leaves the deck alone, and every advantage from Maco Mail either
\* where it was or used, leaves the deck whole.
LEMMA DeckStays ==
  ASSUME HandType, HandType', DeckIsWhole, UNCHANGED deck,
         \A a \in AdvantageTypes, t \in Teams :
             mail'[t][a] + mailUsed'[t][a] = mail[t][a] + mailUsed[t][a]
  PROVE  DeckIsWhole'
  <1> SUFFICES ASSUME NEW o \in Outcomes
               PROVE  deck'["pile"][o] + deck'["discard"][o] + deck'["removed"][o] + CardsOut(o)'
                          = Composition[o]
    BY DEF DeckIsWhole
  <1>1. CardsOut(o)' = CardsOut(o)
    <2>1. CASE o \in DOMAIN GrantedBy
      BY <2>1, GrantsAreTypes, OutStays
    <2>2. CASE o \notin DOMAIN GrantedBy
      BY <2>2 DEF CardsOut
    <2>q. QED BY <2>1, <2>2
  <1>2. deck["pile"][o] + deck["discard"][o] + deck["removed"][o] + CardsOut(o) = Composition[o]
    BY DEF DeckIsWhole
  <1>q. QED BY <1>1, <1>2

\* At the start the whole deck is in the pile.
LEMMA DeckInitially == EInit => DeckIsWhole
  <1> SUFFICES ASSUME EInit, NEW o \in Outcomes
               PROVE  deck["pile"][o] + deck["discard"][o] + deck["removed"][o] + CardsOut(o)
                          = Composition[o]
    BY DEF DeckIsWhole
  <1>1. /\ deck["pile"][o] = Composition[o] /\ Composition[o] \in Nat
        /\ deck["discard"][o] = 0 /\ deck["removed"][o] = 0
    BY EconomyAssumption DEF EInit, Empty
  <1>2. CardsOut(o) = 0
    <2>1. CASE o \in DOMAIN GrantedBy
      <3>1. HandType
        BY EInitially DEF EInv
      <3>2. PICK f, i : /\ Tally(i, f, Teams) /\ CardsOut(o) = i[Teams]
                        /\ \A t \in Teams :
                               f[t] = mail[t][GrantedBy[o]] + mailUsed[t][GrantedBy[o]]
        BY <2>1, <3>1, CardsOutIsATally DEF OutTallied
      <3>3. \A t \in Teams : mail[t][GrantedBy[o]] = 0 /\ mailUsed[t][GrantedBy[o]] = 0
        BY <2>1, GrantsAreTypes DEF EInit
      <3>4. \A t \in Teams : f[t] = 0
        BY <3>2, <3>3
      <3>q. QED BY <3>2, <3>4, EconomyAssumption, TallyOfNothing
    <2>2. CASE o \notin DOMAIN GrantedBy
      BY <2>2 DEF CardsOut
    <2>q. QED BY <2>1, <2>2
  <1>q. QED BY <1>1, <1>2

LEMMA MailUseKeepsDeck ==
  ASSUME EInv, EInv', DeckIsWhole, NEW u \in Teams, NEW type \in AdvantageTypes,
         UseMailAdvantage(u, type)
  PROVE  DeckIsWhole'
  <1>1. /\ mail' = [mail EXCEPT ![u][type] = @ - 1]
        /\ mailUsed' = [mailUsed EXCEPT ![u][type] = @ + 1]
        /\ deck' = deck
    BY DEF UseMailAdvantage
  <1>2. ASSUME NEW a \in AdvantageTypes, NEW t \in Teams
        PROVE  mail'[t][a] + mailUsed'[t][a] = mail[t][a] + mailUsed[t][a]
    <2>1. mail[t][a] \in Nat /\ mailUsed[t][a] \in Nat
      BY DEF EInv, HandType
    <2>2. CASE t = u /\ a = type
      <3>1. mail'[t][a] = mail[t][a] - 1 /\ mailUsed'[t][a] = mailUsed[t][a] + 1
        BY <1>1, <2>2 DEF EInv, HandType
      <3>q. QED BY <2>1, <3>1
    <2>3. CASE ~(t = u /\ a = type)
      BY <1>1, <2>3 DEF EInv, HandType
    <2>q. QED BY <2>2, <2>3
  <1>q. QED BY <1>1, <1>2, DeckStays DEF EInv

\* Four types, one card each; no other card is resolved as one of them.
LEMMA OneCardAType ==
  /\ \A o, q \in DOMAIN GrantedBy : o # q => GrantedBy[o] # GrantedBy[q]
  /\ \A t, o : ResolveCard(t, o) => IF o \in DOMAIN GrantedBy THEN AdvantageCard(t, o)
                                                              ELSE mail' = mail
  BY DEF GrantedBy, ResolveCard, MoneyCard, AdvantageCard, SorryCard, CancelCard, PriceCard,
         NoEffect, MoneyOutcomes

\* A card drawn leaves what is out of every other kind as it was.
LEMMA OtherOutStays ==
  ASSUME HandType, HandType', NEW t \in Teams, NEW o \in Outcomes, NEW q \in Outcomes, q # o,
         ResolveCard(t, o), mailUsed' = mailUsed
  PROVE  CardsOut(q)' = CardsOut(q)
  <1>1. CASE q \notin DOMAIN GrantedBy
    BY <1>1 DEF CardsOut
  <1>2. CASE q \in DOMAIN GrantedBy /\ mail' = mail
    BY <1>2, OutStays
  <1>3. CASE q \in DOMAIN GrantedBy /\ o \in DOMAIN GrantedBy
    <2>1. mail' = [mail EXCEPT ![t][GrantedBy[o]] = @ + 1]
      BY <1>3, OneCardAType DEF AdvantageCard
    <2>2. GrantedBy[q] # GrantedBy[o] /\ GrantedBy[q] \in AdvantageTypes
      BY <1>3, OneCardAType, GrantsAreTypes
    <2>3. \A u \in Teams : mail'[u][GrantedBy[q]] = mail[u][GrantedBy[q]]
      BY <2>1, <2>2 DEF HandType
    <2>q. QED BY <1>3, <2>3, OutStays
  <1>q. QED BY <1>1, <1>2, <1>3, OneCardAType

\* The filter and the reshuffle move cards between the heaps; the card drawn
\* goes to the discard, or to the team that drew it.
LEMMA DrawKeepsDeck ==
  ASSUME EInv, EInv', DeckIsWhole, NEW t \in Teams, NEW a \in BOOLEAN, NEW b \in BOOLEAN,
         DrawMacoMail(t, a, b)
  PROVE  DeckIsWhole'
  <1> DEFINE out     == Impossible(a, b)
             kept    == [o \in Outcomes |-> IF o \in out THEN 0 ELSE deck["pile"][o]]
             removed == [o \in Outcomes |->
                            deck["removed"][o] + (IF o \in out THEN deck["pile"][o] ELSE 0)]
             pile    == IF kept = Empty THEN deck["discard"] ELSE kept
             discard == IF kept = Empty THEN Empty ELSE deck["discard"]
             Decked(p, d) == [x \in {"pile", "discard", "removed"} |->
                                 IF x = "pile" THEN p ELSE IF x = "discard" THEN d ELSE removed]
             Counts  == [Outcomes -> Nat]
  <1>1. mailUsed' = mailUsed
    BY DEF DrawMacoMail
  <1>2. deck["pile"] \in Counts /\ deck["discard"] \in Counts /\ deck["removed"] \in Counts
    BY DEF EInv, DeckType
  <1>3. pile \in Counts /\ discard \in Counts /\ removed \in Counts /\ Empty \in Counts
    <2>1. kept \in Counts /\ removed \in Counts /\ Empty \in Counts
      BY <1>2 DEF Empty
    <2> HIDE DEF kept, removed
    <2>q. QED BY <1>2, <2>1
  <1>4. ASSUME NEW q \in Outcomes
        PROVE  pile[q] + discard[q] + removed[q]
                   = deck["pile"][q] + deck["discard"][q] + deck["removed"][q]
    <2>0. deck["pile"][q] \in Nat /\ deck["discard"][q] \in Nat /\ deck["removed"][q] \in Nat
      BY <1>2
    <2>1. kept[q] + removed[q] = deck["pile"][q] + deck["removed"][q] /\ kept[q] \in Nat
      BY <2>0
    <2>2. Empty[q] = 0 /\ removed[q] \in Nat
      BY <1>3 DEF Empty
    <2> HIDE DEF kept, removed
    <2>3. pile[q] + discard[q] = kept[q] + deck["discard"][q]
      <3>1. CASE kept = Empty
        BY <2>0, <2>2, <3>1
      <3>2. CASE kept # Empty
        BY <3>2
      <3>q. QED BY <3>1, <3>2
    <2>4. pile[q] \in Nat /\ discard[q] \in Nat
      <3> HIDE DEF pile, discard
      <3>q. QED BY <1>3 DEF removed, kept
    <2> HIDE DEF pile, discard
    <2>q. QED BY <2>0, <2>1, <2>2, <2>3, <2>4
  <1>5. pile = Empty => discard = Empty
    <2> HIDE DEF kept
    <2>q. QED OBVIOUS
  <1>6. \A p, d : /\ Decked(p, d)["pile"] = p
                  /\ Decked(p, d)["discard"] = d
                  /\ Decked(p, d)["removed"] = removed
    <2> HIDE DEF removed
    <2>q. QED OBVIOUS
  <1>7. \/ pile = Empty /\ deck' = Decked(Empty, Empty) /\ NoEffect
        \/ \E o \in Outcomes :
              /\ pile[o] > 0
              /\ deck' = Decked(OneLess(pile, o), DiscardAfter(discard, o))
              /\ ResolveCard(t, o)
    BY DEF DrawMacoMail
  <1> HIDE DEF kept, removed, pile, discard, Decked
  <1>8. ASSUME NEW q \in Outcomes
        PROVE  deck["pile"][q] + deck["discard"][q] + deck["removed"][q] + CardsOut(q)
                   = Composition[q]
    BY DEF DeckIsWhole
  <1>9. \A q \in Outcomes : CardsOut(q) \in Int
    <2> TAKE q \in Outcomes
    <2>1. CASE q \in DOMAIN GrantedBy
      BY <2>1, CardsOutIsInt DEF EInv
    <2>2. CASE q \notin DOMAIN GrantedBy
      BY <2>2, OthersStayIn
    <2>q. QED BY <2>1, <2>2
  <1>10. CASE pile = Empty /\ deck' = Decked(Empty, Empty) /\ NoEffect
    <2>1. deck'["pile"] = pile /\ deck'["discard"] = discard /\ deck'["removed"] = removed
      BY <1>5, <1>6, <1>10
    <2>2. mail' = mail
      BY <1>10 DEF NoEffect
    <2> SUFFICES ASSUME NEW q \in Outcomes
                 PROVE  deck'["pile"][q] + deck'["discard"][q] + deck'["removed"][q]
                            + CardsOut(q)' = Composition[q]
      BY DEF DeckIsWhole
    <2>3. CardsOut(q)' = CardsOut(q)
      <3>1. CASE q \in DOMAIN GrantedBy
        BY <1>1, <2>2, <3>1, OutStays DEF EInv
      <3>2. CASE q \notin DOMAIN GrantedBy
        BY <3>2 DEF CardsOut
      <3>q. QED BY <3>1, <3>2
    <2>q. QED BY <1>4, <1>8, <2>1, <2>3
  <1>11. ASSUME NEW o \in Outcomes, pile[o] > 0, ResolveCard(t, o),
                deck' = Decked(OneLess(pile, o), DiscardAfter(discard, o))
         PROVE  DeckIsWhole'
    <2>1. /\ deck'["pile"] = OneLess(pile, o) /\ deck'["discard"] = DiscardAfter(discard, o)
          /\ deck'["removed"] = removed
      BY <1>6, <1>11
    <2>2. pile[o] \in Nat /\ discard[o] \in Nat /\ removed[o] \in Nat
      BY <1>3
    <2> SUFFICES ASSUME NEW q \in Outcomes
                 PROVE  deck'["pile"][q] + deck'["discard"][q] + deck'["removed"][q]
                            + CardsOut(q)' = Composition[q]
      BY DEF DeckIsWhole
    <2>3. pile[q] \in Nat /\ discard[q] \in Nat /\ removed[q] \in Nat /\ CardsOut(q) \in Int
      BY <1>3, <1>9
    <2>4. pile[q] + discard[q] + removed[q] + CardsOut(q) = Composition[q]
      BY <1>4, <1>8
    <2>5. CASE q # o
      <3>1. deck'["pile"][q] = pile[q] /\ deck'["discard"][q] = discard[q]
        BY <1>3, <2>1, <2>5 DEF OneLess, DiscardAfter, OneMore
      <3>2. CardsOut(q)' = CardsOut(q)
        BY <1>1, <1>11, <2>5, OtherOutStays DEF EInv
      <3>q. QED BY <2>1, <2>4, <3>1, <3>2
    <2>6. CASE q = o /\ o \in DOMAIN GrantedBy
      <3>1. deck'["pile"][q] = pile[q] - 1 /\ deck'["discard"][q] = discard[q]
        BY <1>3, <2>1, <2>6 DEF OneLess, DiscardAfter
      <3>2. mail' = [mail EXCEPT ![t][GrantedBy[o]] = @ + 1]
        BY <1>11, <2>6, OneCardAType DEF AdvantageCard
      <3>3. CardsOut(q)' = CardsOut(q) + 1
        BY <1>1, <2>6, <3>2, OutGrows DEF EInv
      <3>q. QED BY <2>1, <2>3, <2>4, <3>1, <3>3
    <2>7. CASE q = o /\ o \notin DOMAIN GrantedBy
      <3>1. deck'["pile"][q] = pile[q] - 1 /\ deck'["discard"][q] = discard[q] + 1
        BY <1>3, <2>1, <2>7 DEF OneLess, DiscardAfter, OneMore
      <3>2. CardsOut(q)' = CardsOut(q)
        BY <2>7 DEF CardsOut
      <3>q. QED BY <2>1, <2>3, <2>4, <3>1, <3>2
    <2>q. QED BY <2>5, <2>6, <2>7
  <1>q. QED BY <1>7, <1>10, <1>11

LEMMA DeckStepKeeps == EInv /\ EInv' /\ DeckIsWhole /\ [ENext]_allVars => DeckIsWhole'
  <1> SUFFICES ASSUME EInv, EInv', DeckIsWhole, [ENext]_allVars PROVE DeckIsWhole'
    OBVIOUS
  <1>1. CASE UNCHANGED mailVars
    BY <1>1, DeckStays DEF EInv, mailVars
  <1>2. ASSUME NEW t \in Teams, NEW type \in AdvantageTypes, UseMailAdvantage(t, type)
        PROVE  DeckIsWhole'
    BY <1>2, MailUseKeepsDeck
  <1>3. ASSUME NEW t \in Teams, NEW a \in BOOLEAN, NEW b \in BOOLEAN, DrawMacoMail(t, a, b)
        PROVE  DeckIsWhole'
    BY <1>3, DrawKeepsDeck
  <1>4. /\ \A r : OpenMarket(r) => UNCHANGED mailVars
        /\ CloseMarket => UNCHANGED mailVars
        /\ \A t, item : PurchaseMarketItem(t, item) => UNCHANGED mailVars
        /\ \A s : WithdrawMarketPurchase(s) \/ UseMarketAdvantage(s) => UNCHANGED mailVars
    BY DEF OpenMarket, CloseMarket, PurchaseMarketItem, WithdrawMarketPurchase, UseMarketAdvantage
  <1>5. PhaseStep \/ ChallengeStep \/ FlowStep \/ UNCHANGED allVars => UNCHANGED mailVars
    BY DEF PhaseStep, ChallengeStep, FlowStep, allVars, econVars
  <1>q. QED BY <1>1, <1>2, <1>3, <1>4, <1>5 DEF ENext

-----------------------------------------------------------------------------
(* The game under the economy, and the budgets of a challenge. *)

\* Every step of the economy is a step of the game or leaves the game alone.
LEMMA GameSteps == [ENext]_allVars => [Next]_vars
  <1>1. FlowStep \/ PhaseStep \/ ChallengeStep => [Next]_vars
    BY DEF FlowStep, PhaseStep, ChallengeStep, Next
  <1>2. /\ \A slot : UseMarketAdvantage(slot) => UseExtraTime \/ UNCHANGED vars
        /\ \A t, type : UseMailAdvantage(t, type) => UseExtraTime \/ UNCHANGED vars
    BY DEF UseMarketAdvantage, UseMailAdvantage, TimerEffect
  <1>3. /\ \A r : OpenMarket(r) => UNCHANGED vars
        /\ CloseMarket => UNCHANGED vars
        /\ \A t, item : PurchaseMarketItem(t, item) => UNCHANGED vars
        /\ \A s : WithdrawMarketPurchase(s) => UNCHANGED vars
        /\ \A t, a, b : DrawMacoMail(t, a, b) => UNCHANGED vars
    BY DEF OpenMarket, CloseMarket, PurchaseMarketItem, WithdrawMarketPurchase, DrawMacoMail
  <1>4. UNCHANGED allVars => UNCHANGED vars
    BY DEF allVars
  <1>5. UseExtraTime => Next
    BY DEF Next
  <1>q. QED BY <1>1, <1>2, <1>3, <1>4, <1>5 DEF ENext

\* So the invariant of the game, with its challenges numbered from 1, holds here.
LEMMA FlowInvariant == ESpec => [](FlowInv /\ IdOfAChallenge)
  <1>1. EInit => FlowInv /\ IdOfAChallenge
    BY InitFlow DEF EInit, Init, IdOfAChallenge
  <1>2. (FlowInv /\ IdOfAChallenge) /\ [ENext]_allVars => (FlowInv /\ IdOfAChallenge)'
    BY GameSteps, NextFlow, NextNumbered
  <1>q. QED BY <1>1, <1>2, PTL DEF ESpec

\* What the budgets promise of one team in one step: no budget comes back, and
\* nothing is used of a type whose budget is spent.
BudgetHolds(t) ==
    /\ usage[t] \subseteq usage'[t]
    /\ \A type \in usage[t] :
          /\ mail'[t][type] >= mail[t][type]
          /\ \A s \in Slots : s[1] = t /\ s[2] \in DOMAIN AdvantageOf
                 => (AdvantageOf[s[2]] = type /\ goods[s] = "held" => goods'[s] # "used")

\* A step that uses nothing and gives no budget back.
LEMMA NothingUsed ==
  ASSUME EInv, NEW t \in Teams, usage' = usage,
         \A a \in AdvantageTypes : mail'[t][a] >= mail[t][a],
         \A s \in Slots : goods[s] = "held" => goods'[s] # "used"
  PROVE  BudgetHolds(t)
  BY DEF EInv, HandType, BudgetHolds

\* What a card resolves gives, and uses nothing.
LEMMA ResolveUsesNothing ==
  ASSUME EInv, NEW u \in Teams, NEW o, ResolveCard(u, o)
  PROVE  /\ \A t \in Teams, a \in AdvantageTypes : mail'[t][a] >= mail[t][a]
         /\ \A s \in Slots : goods[s] = "held" => goods'[s] # "used"
  <1>0. \A t \in Teams, a \in AdvantageTypes : mail[t][a] \in Nat
    BY DEF EInv, HandType
  <1>1. CASE o \in DOMAIN GrantedBy
    <2>1. mail' = [mail EXCEPT ![u][GrantedBy[o]] = @ + 1] /\ goods' = goods
      BY <1>1, OneCardAType DEF AdvantageCard
    <2>2. GrantedBy[o] \in AdvantageTypes
      BY <1>1, GrantsAreTypes
    <2>3. \A t \in Teams, a \in AdvantageTypes :
              mail'[t][a] = mail[t][a] \/ mail'[t][a] = mail[t][a] + 1
      BY <2>1, <2>2 DEF EInv, HandType
    <2>q. QED BY <1>0, <2>1, <2>3
  <1>2. CASE o \notin DOMAIN GrantedBy
    <2>1. mail' = mail
      BY <1>2, OneCardAType
    <2>2. goods' = goods \/ \E slot \in Slots : CancelPurchase(slot)
      BY <1>2 DEF ResolveCard, MoneyCard, AdvantageCard, SorryCard, CancelCard, PriceCard,
                  NoEffect, Cancellable
    <2>3. ASSUME NEW slot \in Slots, CancelPurchase(slot), NEW s \in Slots, goods[s] = "held"
          PROVE  goods'[s] # "used"
      BY <2>3 DEF CancelPurchase, Revoke, EInv, ShopInv, ShopType
    <2>q. QED BY <1>0, <2>1, <2>2, <2>3
  <1>q. QED BY <1>1, <1>2

LEMMA BudgetsHold ==
  ASSUME EInv, FlowInv, IdOfAChallenge, [ENext]_allVars,
         UNCHANGED <<challenge.id, settlements>>, NEW t \in Teams
  PROVE  BudgetHolds(t)
  <1>0. /\ \A u \in Teams, a \in AdvantageTypes : mail[u][a] \in Nat /\ mail[u][a] >= mail[u][a]
        /\ usage \in [Teams -> SUBSET AdvantageTypes]
    BY DEF EInv, HandType
  <1>1. CASE UNCHANGED <<goods, usage, mail>>
    BY <1>0, <1>1, NothingUsed
  <1>2. ~ChallengeStep
    <2>1. ~PrepareChallenge
      BY DEF PrepareChallenge, FlowInv, TypeOK
    <2>2. ~ResolveChallenge
      <3> SUFFICES ASSUME ResolveChallenge PROVE FALSE
        OBVIOUS
      <3>1. challenge.id \in 1..MaxChallenges /\ settlements \in [1..MaxChallenges -> Nat]
        BY DEF ResolveChallenge, IdOfAChallenge, FlowInv, TypeOK
      <3>2. settlements'[challenge.id] = settlements[challenge.id] + 1
        BY <3>1, ResolveSettles DEF FlowInv
      <3>q. QED BY <3>1, <3>2
    <2>q. QED BY <2>1, <2>2 DEF ChallengeStep
  <1>3. ASSUME NEW u \in Teams, NEW item \in Items, PurchaseMarketItem(u, item)
        PROVE  BudgetHolds(t)
    <2>1. /\ mail' = mail /\ usage' = usage
          /\ \E v \in {"held", "none"} : goods' = [goods EXCEPT ![<<u, item, market.round>>] = v]
      BY <1>3 DEF PurchaseMarketItem, mailVars
    <2>2. \A s \in Slots : goods[s] = "held" => goods'[s] # "used"
      BY <2>1 DEF EInv, ShopInv, ShopType
    <2>q. QED BY <1>0, <2>1, <2>2, NothingUsed
  <1>4. ASSUME NEW slot \in Slots, WithdrawMarketPurchase(slot) PROVE BudgetHolds(t)
    <2>1. /\ mail' = mail /\ usage' = usage
          /\ goods' = [goods EXCEPT ![slot] = IF @ = "used" THEN @ ELSE "none"]
      BY <1>4 DEF WithdrawMarketPurchase, CancelPurchase, Revoke, mailVars
    <2>2. \A s \in Slots : goods[s] = "held" => goods'[s] # "used"
      BY <2>1 DEF EInv, ShopInv, ShopType
    <2>q. QED BY <1>0, <2>1, <2>2, NothingUsed
  <1>5. ASSUME NEW slot \in Slots, UseMarketAdvantage(slot) PROVE BudgetHolds(t)
    <2> DEFINE kind == AdvantageOf[slot[2]]
    <2>1. /\ mail' = mail /\ goods' = [goods EXCEPT ![slot] = "used"]
          /\ kind \notin usage[slot[1]] /\ Spend(slot[1], kind)
      BY <1>5 DEF UseMarketAdvantage, MayUse, mailVars
    <2>2. usage[t] \subseteq usage'[t]
      BY <1>0, <2>1 DEF Spend
    <2>3. ASSUME NEW type \in usage[t], NEW s \in Slots, s[1] = t, AdvantageOf[s[2]] = type,
                 goods[s] = "held"
          PROVE  goods'[s] # "used"
      BY <2>1, <2>3 DEF EInv, ShopInv, ShopType
    <2>4. \A type \in usage[t] : mail'[t][type] >= mail[t][type]
      BY <1>0, <2>1
    <2>q. QED BY <2>2, <2>3, <2>4 DEF BudgetHolds
  <1>6. ASSUME NEW u \in Teams, NEW kind \in AdvantageTypes, UseMailAdvantage(u, kind)
        PROVE  BudgetHolds(t)
    <2>1. /\ mail' = [mail EXCEPT ![u][kind] = @ - 1] /\ goods' = goods
          /\ kind \notin usage[u] /\ Spend(u, kind)
      BY <1>6 DEF UseMailAdvantage, MayUse, shopVars
    <2>2. usage[t] \subseteq usage'[t]
      BY <1>0, <2>1 DEF Spend
    <2>3. ASSUME NEW type \in usage[t] PROVE mail'[t][type] = mail[t][type]
      BY <1>0, <2>1, <2>3 DEF EInv, HandType
    <2>4. \A type \in usage[t] : mail'[t][type] >= mail[t][type]
      BY <1>0, <2>3
    <2>q. QED BY <2>1, <2>2, <2>4 DEF BudgetHolds
  <1>7. ASSUME NEW u \in Teams, NEW a \in BOOLEAN, NEW b \in BOOLEAN, DrawMacoMail(u, a, b)
        PROVE  BudgetHolds(t)
    <2>1. usage' = usage
      BY <1>7 DEF DrawMacoMail
    <2>2. UNCHANGED <<goods, mail>> \/ \E o \in Outcomes : ResolveCard(u, o)
      BY <1>7 DEF DrawMacoMail, NoEffect
    <2>q. QED BY <1>1, <2>1, <2>2, ResolveUsesNothing, NothingUsed
  <1>8. CASE PhaseStep
    <2>1. mail' = mail /\ usage' = usage
      BY <1>8 DEF PhaseStep, mailVars
    <2>2. goods' = goods \/ EndRound(roundIndex)
      BY <1>8 DEF PhaseStep
    <2>3. \A s \in Slots : goods[s] = "held" => goods'[s] # "used"
      BY <2>2 DEF EndRound, EInv, ShopInv, ShopType
    <2>q. QED BY <1>0, <2>1, <2>3, NothingUsed
  <1>9. /\ \A r : OpenMarket(r) => UNCHANGED <<goods, usage, mail>>
        /\ CloseMarket => UNCHANGED <<goods, usage, mail>>
        /\ FlowStep \/ UNCHANGED allVars => UNCHANGED <<goods, usage, mail>>
    BY DEF OpenMarket, CloseMarket, FlowStep, allVars, econVars, shopVars, mailVars
  <1>q. QED BY <1>1, <1>2, <1>3, <1>4, <1>5, <1>6, <1>7, <1>8, <1>9 DEF ENext

-----------------------------------------------------------------------------
(* The theorems. *)

\* No balance is ever negative and no count of cards or advantages either,
\* for any prices, results and decks (clampBb, purchase, use, draw).
THEOREM EconTypeCorrect == ESpec => []EconTypeOK
  BY EInvariant, InvariantImpliesType, PTL

\* However often an item is bought and taken back, a team is out exactly what
\* it paid for the purchases that stand or ran their round (purchase, cancelPurchase).
THEOREM BooksMatchReceiptsAlways == ESpec => []BooksMatchReceipts
  <1>1. EInv => BooksMatchReceipts
    BY DEF EInv, ShopInv
  <1>q. QED BY <1>1, EInvariant, PTL

\* What a team can use and what its receipts say never part (grant,
\* revokeForPurchase, the two expireAfterRound).
THEOREM GoodsFollowReceiptAlways == ESpec => []GoodsFollowReceipt
  <1>1. EInv => GoodsFollowReceipt
    BY DEF EInv, ShopInv
  <1>q. QED BY <1>1, EInvariant, PTL

\* The receipts are true of the money and of the goods, as the runs check it.
THEOREM ReceiptsAreTrueAlways == ESpec => []ReceiptsAreTrue
  <1>1. EconTypeOK /\ BooksMatchReceipts /\ GoodsFollowReceipt => ReceiptsAreTrue
    BY DEF ReceiptsAreTrue
  <1>q. QED BY <1>1, EconTypeCorrect, BooksMatchReceiptsAlways, GoodsFollowReceiptAlways, PTL

\* Every card of the deck is in the pile, in the discard, removed for good or
\* in a team's hands, for any composition and however it was drawn, used,
\* filtered and reshuffled (draw, #resolve).
THEOREM DeckIsWholeAlways == ESpec => []DeckIsWhole
  <1>1. ESpec => [](EInv /\ DeckIsWhole)
    <2>1. EInit => EInv /\ DeckIsWhole
      BY EInitially, DeckInitially
    <2>2. (EInv /\ DeckIsWhole) /\ [ENext]_allVars => (EInv /\ DeckIsWhole)'
      BY EStepKeeps, DeckStepKeeps
    <2>q. QED BY <2>1, <2>2, PTL DEF ESpec
  <1>q. QED BY <1>1, PTL

\* One use of a type a team and challenge, whatever it was bought or drawn as,
\* until the challenge ends or the next begins (#checkStacking, endChallenge).
THEOREM OneOfAKindAlways == ESpec => OneOfAKindPerChallenge
  <1> DEFINE Kept == challenge'.id = challenge.id /\ settlements' = settlements =>
                         \A t \in Teams :
                             /\ usage[t] \subseteq usage'[t]
                             /\ \A type \in usage[t] :
                                   /\ mail'[t][type] >= mail[t][type]
                                   /\ \A s \in Slots : s[1] = t /\ s[2] \in DOMAIN AdvantageOf
                                          => (AdvantageOf[s[2]] = type /\ goods[s] = "held"
                                                => goods'[s] # "used")
  <1>1. EInv /\ FlowInv /\ IdOfAChallenge /\ [ENext]_allVars => [Kept]_allVars
    BY BudgetsHold DEF BudgetHolds
  <1>2. ESpec => [][Kept]_allVars
    <2> HIDE DEF Kept
    <2>q. QED BY <1>1, EInvariant, FlowInvariant, PTL DEF ESpec
  <1>q. QED BY <1>2 DEF OneOfAKindPerChallenge

\* The game under the economy stays as sound as the game on its own.
THEOREM GameStaysSound == ESpec => [](GameIsSound /\ TimerIsSound)
  BY FlowInvariant, FlowInvGives, PTL

=============================================================================

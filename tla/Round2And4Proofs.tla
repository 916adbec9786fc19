-------------------------- MODULE Round2And4Proofs --------------------------
(***************************************************************************)
(* Proofs about Round 2 and Round 4, for every number of contests, teams,  *)
(* challenges, surveys and answers.                                        *)
(*                                                                         *)
(* Round 2: the game around the round stays sound, contests are played in  *)
(* order, each on a challenge of its own that was paid, and the round      *)
(* implements OrderedRound.                                                *)
(*                                                                         *)
(* Round 4: a survey is sound from the buzzer to the last answer, its pot  *)
(* is what the board shows and is paid once at most, its windows follow    *)
(* the pause, its teams are awaited, and the round implements FamilyFeud.  *)
(***************************************************************************)
EXTENDS Round2, Round4, GameFlowProofs, SequenceTheorems

-----------------------------------------------------------------------------
(* Round 2. *)

\* What the order of the contests rests on: one not started has no challenge,
\* and whatever comes before one that is started is over.
InTurn ==
    \A s \in 1..Slots :
        /\ slots[s].progress = "not_started" <=> slots[s].challenge = 0
        /\ slots[s].progress # "not_started" =>
              \A r \in 1..s - 1 : slots[r].progress = "resolved"

R2Inv == FlowInv /\ OrderIsSound /\ ResultsArePaid /\ InTurn

SlotRecords == [progress : Progress, challenge : 0..MaxChallenges, winner : Teams \cup {None}]

\* It holds before the round.
LEMMA R2Initially == R2Init => R2Inv
<1> SUFFICES ASSUME R2Init PROVE R2Inv
  OBVIOUS
<1>1. FlowInv /\ 0 \in 0..MaxChallenges
  BY InitFlow, GameFlowAssumption DEF R2Init, GameFlowAssumption
<1>2. \A s \in 1..Slots : slots[s] = [progress |-> "not_started", challenge |-> 0,
                                      winner |-> None]
  BY DEF R2Init
<1>3. slots \in [1..Slots -> SlotRecords]
  BY <1>1 DEF R2Init, SlotRecords, Progress
<1>4. R2TypeOK
  BY <1>2, <1>3 DEF R2Init, R2TypeOK, SlotRecords
<1>5. QED
  BY <1>1, <1>2, <1>4 DEF R2Init, R2Inv, OrderIsSound, SlotsBindChallenges, ResultsArePaid,
     SelectionStaysInItsContest, InTurn

\* The game around the round stays sound, through the walk to it as well; no
\* step takes back a challenge or a result.
LEMMA R2StepKeepsFlow ==
    ASSUME R2Inv, [R2Next]_allR2Vars
    PROVE  /\ FlowInv'
           /\ challenge'.id >= challenge.id
           /\ \A c \in 1..MaxChallenges : settlements'[c] >= settlements[c]
<1>t. FlowInv /\ TypeOK
  BY DEF R2Inv, FlowInv
<1>1. CASE [Next]_vars
  BY <1>1, <1>t, NextFlow, NothingIsTakenBack
<1>2. CASE DevStartRound2
  BY <1>2, <1>t, WalkKeepsFlow, Round2Assumption
     DEF DevStartRound2, DevEnterRound2, MayEnter, Round2Assumption
<1>3. [Next]_vars \/ DevStartRound2
  BY DEF R2Next, BeginRound2, PrepareRound2Challenge, SelectRound2Winner,
         ConfirmRound2Result, PayResult, Next, allR2Vars
<1>4. QED
  BY <1>1, <1>2, <1>3

\* The contest being played or next, and what is before and after it.
LEMMA CurrentFacts ==
    ASSUME R2Inv, NEW s \in 1..Slots, IsCurrent(s)
    PROVE  /\ \A r \in 1..Slots : r < s => slots[r].progress = "resolved"
           /\ \A r \in 1..Slots : r > s => /\ slots[r].progress = "not_started"
                                           /\ slots[r].challenge = 0
           /\ \A r \in 1..Slots : IsCurrent(r) => r = s
<1>1. ASSUME NEW r \in 1..Slots, r < s PROVE slots[r].progress = "resolved"
  BY <1>1 DEF IsCurrent
<1>2. ASSUME NEW r \in 1..Slots, r > s
      PROVE  slots[r].progress = "not_started" /\ slots[r].challenge = 0
  <2>1. s \in 1..r - 1
    BY <1>2
  <2>2. QED
    BY <2>1 DEF R2Inv, InTurn, IsCurrent
<1>3. ASSUME NEW r \in 1..Slots, IsCurrent(r) PROVE r = s
  <2>1. ~(r < s)
    BY <1>1, <1>3 DEF IsCurrent
  <2>2. ~(s < r)
    <3>1. s < r => s \in 1..r - 1
      OBVIOUS
    <3>2. QED
      BY <1>3, <3>1 DEF IsCurrent
  <2>3. QED
    BY <2>1, <2>2
<1>4. QED
  BY <1>1, <1>2, <1>3

\* The contests before a contest are contests.
LEMMA EarlierSlots ==
    /\ Slots \in Nat
    /\ \A s \in 1..Slots : \A r \in 1..s - 1 : r \in 1..Slots /\ r < s
BY Round2Assumption DEF Round2Assumption

\* A contest under way or over is on a challenge the engine made, after those
\* of the contests before it.
LEMMA BoundFacts ==
    ASSUME R2Inv
    PROVE  /\ challenge.id \in 0..MaxChallenges /\ MaxChallenges \in Nat
           /\ \A s \in 1..Slots : /\ slots[s].challenge \in 0..MaxChallenges
                                /\ slots[s].progress \in Progress
           /\ \A s \in 1..Slots : slots[s].progress # "not_started" =>
                 slots[s].challenge \in 1..challenge.id /\ slots[s].challenge \in 1..MaxChallenges
           /\ \A s \in 1..Slots, r \in 1..Slots :
                 r < s /\ slots[s].challenge # 0 => slots[r].challenge < slots[s].challenge
<1>1. challenge.id \in 0..MaxChallenges /\ MaxChallenges \in Nat
  BY GameFlowAssumption DEF GameFlowAssumption, R2Inv, FlowInv, TypeOK
<1>2. \A s \in 1..Slots : slots[s].challenge \in 0..MaxChallenges /\ slots[s].progress \in Progress
  BY DEF R2Inv, OrderIsSound, R2TypeOK
<1>3. \A s \in 1..Slots :
          slots[s].progress # "not_started" => slots[s].challenge \in 1..challenge.id
  BY DEF R2Inv, OrderIsSound, SlotsBindChallenges
<1>4. \A s \in 1..Slots : \A r \in 1..s - 1 :
         slots[s].challenge # 0 => slots[r].challenge < slots[s].challenge
  BY DEF R2Inv, OrderIsSound, SlotsBindChallenges
<1>5. \A s \in 1..Slots, r \in 1..Slots : r < s => r \in 1..s - 1
  OBVIOUS
<1>6. QED
  BY <1>1, <1>2, <1>3, <1>4, <1>5

\* The slots have the shape they should, are bound to challenges in order, are
\* taken in turn, and paid where they are over; a selection is of the one played.
SlotsInv == OrderIsSound /\ ResultsArePaid /\ InTurn

\* Of steps that leave the slots and the selection alone.
LEMMA SlotsKept ==
    ASSUME R2Inv, [R2Next]_allR2Vars, UNCHANGED <<slots, picked>>, r2Active' \in BOOLEAN
    PROVE  SlotsInv'
<1>1. /\ challenge'.id >= challenge.id
      /\ \A c \in 1..MaxChallenges : settlements'[c] >= settlements[c]
      /\ challenge'.id \in Nat /\ challenge.id \in 0..MaxChallenges
      /\ settlements \in [1..MaxChallenges -> Nat] /\ settlements' \in [1..MaxChallenges -> Nat]
  BY R2StepKeepsFlow DEF R2Inv, FlowInv, TypeOK
<1>2. R2TypeOK' /\ InTurn' /\ SelectionStaysInItsContest'
  BY DEF R2Inv, OrderIsSound, R2TypeOK, InTurn, SelectionStaysInItsContest, IsCurrent
<1>3. SlotsBindChallenges'
  <2>1. SlotsBindChallenges /\ \A s \in 1..Slots : slots[s].challenge \in Nat
    BY DEF R2Inv, OrderIsSound, R2TypeOK
  <2>2. QED
    BY <1>1, <2>1 DEF SlotsBindChallenges
<1>4. ResultsArePaid'
  <2>1. ASSUME NEW s \in 1..Slots, slots[s].progress = "resolved"
        PROVE  settlements'[slots[s].challenge] > 0
    <3>1. settlements[slots[s].challenge] > 0 /\ slots[s].challenge \in 1..MaxChallenges
      BY <2>1, BoundFacts DEF R2Inv, ResultsArePaid
    <3>2. QED
      BY <1>1, <3>1
  <2>2. QED
    BY <2>1 DEF ResultsArePaid
<1>5. QED
  BY <1>2, <1>3, <1>4 DEF SlotsInv, OrderIsSound

\* Of the contest opened: it takes the challenge just made, after all others.
LEMMA SlotsOpened == ASSUME R2Inv, PrepareRound2Challenge PROVE SlotsInv'
<1>1. PICK s \in 1..Slots :
         /\ IsCurrent(s) /\ slots[s].progress = "not_started"
         /\ slots' = [slots EXCEPT ![s] = [progress |-> "in_progress",
                                           challenge |-> PreparedId, winner |-> None]]
  BY DEF PrepareRound2Challenge
<1> DEFINE new == [progress |-> "in_progress", challenge |-> PreparedId, winner |-> None]
<1>2. /\ PreparedId = challenge.id + 1 /\ challenge.id \in Nat
      /\ PreparedId \in 1..MaxChallenges
      /\ challenge'.id = PreparedId /\ settlements' = settlements /\ picked' = None
      /\ r2Active' \in BOOLEAN
  <2>1. PreparedId = challenge.id + 1 /\ challenge.id \in Nat /\ PreparedId \in 1..MaxChallenges
    BY BoundFacts DEF PrepareRound2Challenge, PrepareChallenge, PreparedId
  <2>2. QED
    BY <2>1 DEF PrepareRound2Challenge, PrepareChallenge, PreparedId, ClearSelection, R2Inv,
                OrderIsSound, R2TypeOK
<1>t. slots \in [1..Slots -> SlotRecords]
  BY DEF R2Inv, OrderIsSound, R2TypeOK, SlotRecords
<1>3. slots' \in [1..Slots -> SlotRecords]
      /\ \A r \in 1..Slots : slots'[r] = IF r = s THEN new ELSE slots[r]
  <2>1. new \in SlotRecords
    BY <1>2 DEF SlotRecords, Progress
  <2> HIDE DEF new
  <2>2. slots' = [slots EXCEPT ![s] = new]
    BY <1>1 DEF new
  <2>3. QED
    BY <1>t, <2>1, <2>2
<1>4. R2TypeOK'
  BY <1>2, <1>3 DEF R2Inv, OrderIsSound, R2TypeOK, SlotRecords
<1>5. /\ \A r \in 1..Slots : r < s => slots[r].progress = "resolved"
      /\ \A r \in 1..Slots : r > s => slots[r].progress = "not_started" /\ slots[r].challenge = 0
  BY <1>1, CurrentFacts
<1>6. InTurn'
  <2>1. ASSUME NEW q \in 1..Slots
        PROVE  /\ slots'[q].progress = "not_started" <=> slots'[q].challenge = 0
               /\ slots'[q].progress # "not_started" =>
                     \A r \in 1..q - 1 : slots'[r].progress = "resolved"
    <3>1. CASE q = s
      <4>1. slots'[q].challenge = PreparedId /\ slots'[q].progress = "in_progress"
        BY <1>3, <3>1
      <4>2. \A r \in 1..q - 1 : slots'[r] = slots[r] /\ slots[r].progress = "resolved"
        BY <1>3, <1>5, <3>1, EarlierSlots
      <4>3. QED
        BY <1>2, <4>1, <4>2
    <3>2. CASE q < s
      <4>1. \A r \in 1..q - 1 : r \in 1..Slots /\ r < s
        BY <3>2, EarlierSlots
      <4>2. QED
        BY <1>3, <1>5, <3>2, <4>1 DEF R2Inv, InTurn
    <3>3. CASE q > s
      BY <1>3, <1>5, <3>3
    <3>4. QED
      BY <3>1, <3>2, <3>3
  <2>2. QED
    BY <2>1 DEF InTurn
<1>7. SlotsBindChallenges'
  <2>1. \A r \in 1..Slots : r < s => slots[r].challenge \in 1..challenge.id
    BY <1>5, BoundFacts
  <2>2. ASSUME NEW q \in 1..Slots
        PROVE  /\ slots'[q].progress # "not_started" => slots'[q].challenge \in 1..challenge'.id
               /\ \A r \in 1..q - 1 : slots'[q].challenge # 0 =>
                                          slots'[r].challenge < slots'[q].challenge
    <3>1. CASE q = s
      <4>1. \A r \in 1..q - 1 : r \in 1..Slots /\ r < s
        BY <3>1, EarlierSlots
      <4>2. slots'[q].challenge = PreparedId /\ \A r \in 1..q - 1 : slots'[r] = slots[r]
        BY <1>3, <3>1, <4>1
      <4>3. QED
        BY <1>2, <2>1, <4>1, <4>2
    <3>2. CASE q < s
      <4>1. \A r \in 1..q - 1 : r \in 1..Slots /\ r < q /\ r # s
        BY <3>2, EarlierSlots
      <4>2. slots'[q] = slots[q] /\ \A r \in 1..q - 1 : slots'[r] = slots[r]
        BY <1>3, <3>2, <4>1
      <4>3. slots[q].challenge \in 1..challenge.id \/ slots[q].progress = "not_started"
        BY BoundFacts
      <4>4. QED
        BY <1>2, <4>1, <4>2, <4>3, BoundFacts
    <3>3. CASE q > s
      BY <1>2, <1>3, <1>5, <3>3
    <3>4. QED
      BY <3>1, <3>2, <3>3
  <2>3. QED
    BY <2>2 DEF SlotsBindChallenges
<1>8. SelectionStaysInItsContest' /\ ResultsArePaid'
  BY <1>2, <1>3 DEF R2Inv, SelectionStaysInItsContest, ResultsArePaid
<1>9. QED
  BY <1>4, <1>6, <1>7, <1>8 DEF SlotsInv, OrderIsSound

\* Of the contest closed: paid with the current challenge, which is its own
\* unless the Host resolved that one and went on meanwhile, and then it was paid.
LEMMA SlotsClosed ==
    ASSUME R2Inv, NEW t \in Teams \cup {None}, ConfirmRound2Result(t)
    PROVE  SlotsInv'
<1>1. PICK s \in 1..Slots :
         /\ IsCurrent(s) /\ slots[s].progress = "in_progress"
         /\ slots' = [slots EXCEPT ![s] = [progress |-> "resolved",
                                           challenge |-> slots[s].challenge,
                                           winner |-> WinnerOf(t)]]
  BY DEF ConfirmRound2Result
<1> DEFINE new == [progress |-> "resolved", challenge |-> slots[s].challenge,
                   winner |-> WinnerOf(t)]
<1>2. /\ challenge.id \in 0..MaxChallenges /\ challenge'.id = challenge.id
      /\ settlements \in [1..MaxChallenges -> Nat]
      /\ \A c \in 1..MaxChallenges :
            settlements'[c] = IF c = challenge.id THEN settlements[c] + 1 ELSE settlements[c]
      /\ picked' = None /\ r2Active' \in BOOLEAN
  BY ResolveSettles
     DEF ConfirmRound2Result, PayResult, ClearSelection, R2Inv, FlowInv, TypeOK, OrderIsSound,
         R2TypeOK
<1>t. slots \in [1..Slots -> SlotRecords]
  BY DEF R2Inv, OrderIsSound, R2TypeOK, SlotRecords
<1>w. WinnerOf(t) \in Teams
  BY DEF ConfirmRound2Result, WinnerKnown, WinnerOf, R2Inv, OrderIsSound, R2TypeOK
<1>3. slots' \in [1..Slots -> SlotRecords]
      /\ \A r \in 1..Slots : slots'[r] = IF r = s THEN new ELSE slots[r]
  <2>1. new \in SlotRecords
    BY <1>t, <1>w DEF SlotRecords, Progress
  <2> HIDE DEF new
  <2>2. slots' = [slots EXCEPT ![s] = new]
    BY <1>1 DEF new
  <2>3. QED
    BY <1>t, <2>1, <2>2
<1>4. R2TypeOK'
  <2>1. WinnerOf(t) # None
    BY <1>w, GameFlowAssumption DEF GameFlowAssumption
  <2>2. QED
    BY <1>2, <1>3, <2>1 DEF R2Inv, OrderIsSound, R2TypeOK, SlotRecords
<1>5. /\ \A r \in 1..Slots : r < s => slots[r].progress = "resolved"
      /\ \A r \in 1..Slots : r > s => slots[r].progress = "not_started" /\ slots[r].challenge = 0
  BY <1>1, CurrentFacts
<1>6. InTurn'
  BY <1>1, <1>3, <1>5 DEF R2Inv, InTurn
<1>7. SlotsBindChallenges'
  <2>1. \A r \in 1..Slots : slots'[r].challenge = slots[r].challenge
    BY <1>3
  <2>2. \A r \in 1..Slots : slots'[r].progress # "not_started" => slots[r].progress # "not_started"
    BY <1>1, <1>3
  <2>3. QED
    BY <1>2, <2>1, <2>2, EarlierSlots, BoundFacts DEF SlotsBindChallenges
<1>8. ResultsArePaid'
  <2>1. ASSUME NEW r \in 1..Slots, slots'[r].progress = "resolved"
        PROVE  settlements'[slots'[r].challenge] > 0
    <3>1. slots'[r].challenge = slots[r].challenge /\ slots[r].challenge \in 1..challenge.id
      <4>1. slots[r].progress # "not_started"
        BY <1>1, <1>3, <2>1
      <4>2. QED
        BY <1>3, <4>1, BoundFacts
    <3>2. CASE slots[r].challenge = challenge.id
      BY <1>2, <3>1, <3>2, BoundFacts
    <3>3. CASE slots[r].challenge # challenge.id
      <4>1. settlements[slots[r].challenge] > 0
        <5>1. slots[r].challenge \in 1..MaxChallenges /\ slots[r].challenge < challenge.id
          BY <3>1, <3>3, BoundFacts
        <5>2. QED
          BY <5>1 DEF R2Inv, FlowInv, SettledInOrder
      <4>2. slots[r].challenge \in 1..MaxChallenges
        BY <3>1, BoundFacts
      <4>3. QED
        BY <1>2, <3>1, <3>3, <4>1, <4>2
    <3>4. QED
      BY <3>2, <3>3
  <2>2. QED
    BY <2>1 DEF ResultsArePaid
<1>9. QED
  BY <1>2, <1>4, <1>6, <1>7, <1>8 DEF SlotsInv, OrderIsSound, SelectionStaysInItsContest

\* Every step keeps it.
LEMMA R2Step == R2Inv /\ [R2Next]_allR2Vars => R2Inv'
<1> SUFFICES ASSUME R2Inv, [R2Next]_allR2Vars PROVE SlotsInv'
  BY R2StepKeepsFlow DEF SlotsInv, R2Inv
<1>t. r2Active \in BOOLEAN /\ picked \in Teams \cup {None}
  BY DEF R2Inv, OrderIsSound, R2TypeOK
<1>1. CASE BeginRound2 \/ DevStartRound2
  BY <1>t, <1>1, SlotsKept DEF BeginRound2, DevStartRound2, DevEnterRound2, Arrives
<1>0. CASE UNCHANGED r2Vars
  BY <1>t, <1>0, SlotsKept DEF r2Vars
<1>2. CASE PrepareRound2Challenge
  BY <1>2, SlotsOpened
<1>3. ASSUME NEW t \in Teams, SelectRound2Winner(t) PROVE SlotsInv'
  <2>1. UNCHANGED <<r2Active, slots, challenge, settlements>> /\ picked' = t
    BY <1>3 DEF SelectRound2Winner, vars, playVars
  <2>2. R2TypeOK' /\ InTurn' /\ SlotsBindChallenges' /\ ResultsArePaid'
    BY <2>1 DEF R2Inv, OrderIsSound, R2TypeOK, InTurn, SlotsBindChallenges, ResultsArePaid
  <2>3. SelectionStaysInItsContest'
    BY <1>3, <2>1 DEF SelectRound2Winner, SelectionStaysInItsContest, IsCurrent
  <2>4. QED
    BY <2>2, <2>3 DEF SlotsInv, OrderIsSound
<1>4. ASSUME NEW t \in Teams \cup {None}, ConfirmRound2Result(t) PROVE SlotsInv'
  BY <1>4, SlotsClosed
<1>5. QED
  BY <1>0, <1>1, <1>2, <1>3, <1>4 DEF R2Next, allR2Vars

\* So it holds throughout.
LEMMA R2Invariant == R2Spec => []R2Inv
BY R2Initially, R2Step, PTL DEF R2Spec

\* Whatever the Host's other intents did to its challenge, each contest has a
\* challenge of its own, later ones later ones, and a selection is of the contest
\* being played.
THEOREM OrderIsSoundAlways == R2Spec => []OrderIsSound
<1>1. R2Inv => OrderIsSound
  BY DEF R2Inv
<1>2. QED
  BY <1>1, R2Invariant, PTL

\* A contest with a winner was paid, also where its challenge was resolved and
\* replaced by the Host's generic intents before the winner was confirmed.
THEOREM ResultsArePaidAlways == R2Spec => []ResultsArePaid
<1>1. R2Inv => ResultsArePaid
  BY DEF R2Inv
<1>2. QED
  BY <1>1, R2Invariant, PTL

\* The round, and the development control that walks to it through placeholder
\* challenges, leave every guarantee of the game and its timer as it was.
THEOREM Round2StaysSound == R2Spec => [](GameIsSound /\ TimerIsSound)
<1>1. R2Inv => GameIsSound /\ TimerIsSound
  BY FlowInvGives DEF R2Inv
<1>2. QED
  BY <1>1, R2Invariant, PTL

-----------------------------------------------------------------------------
(* The round implements OrderedRound. *)

\* The contests that are over are the first so many.
LEMMA WonIsAPrefix ==
    ASSUME R2Inv
    PROVE  /\ Cardinality(Won) \in 0..Slots
           /\ Won = 1..Cardinality(Won)
<1>1. \A s \in Won : s \in 1..Slots /\ 1..s - 1 \subseteq Won
  <2>1. ASSUME NEW s \in Won, NEW r \in 1..s - 1 PROVE r \in Won
    <3>1. s \in 1..Slots /\ slots[s].progress = "resolved"
      BY DEF Won
    <3>2. slots[r].progress = "resolved" /\ r \in 1..Slots
      <4>1. r \in 1..Slots /\ s \in 1..Slots
        BY <3>1, EarlierSlots
      <4>2. QED
        BY <3>1, <4>1 DEF R2Inv, InTurn
    <3>3. QED
      BY <3>2 DEF Won
  <2>2. QED
    BY <2>1 DEF Won
<1> DEFINE Rest == {n \in Nat : n > 0 /\ n \notin Won}
<1>2. Slots \in Nat /\ Slots + 1 \in Rest /\ Rest \subseteq Nat
  BY <1>1, Round2Assumption DEF Round2Assumption
<1> HIDE DEF Rest
<1>3. PICK m \in Rest : \A n \in Rest : m <= n
  <2>1. Rest # {}
    BY <1>2
  <2>2. QED
    BY <1>2, <2>1, LeastNatural
<1>4. m \in Nat /\ m > 0 /\ m \notin Won /\ m <= Slots + 1
  BY <1>2, <1>3 DEF Rest
<1>5. Won = 1..m - 1
  <2>1. ASSUME NEW s \in Won PROVE s \in 1..m - 1
    <3>1. s \in 1..Slots /\ ~(m \in 1..s - 1) /\ s # m
      BY <1>1, <1>4
    <3>2. QED
      BY <1>4, <3>1
  <2>2. ASSUME NEW s \in 1..m - 1 PROVE s \in Won
    <3>1. s \in Nat /\ s > 0 /\ ~(m <= s)
      BY <1>4
    <3>2. s \notin Rest
      BY <1>3, <3>1
    <3>3. QED
      BY <3>1, <3>2 DEF Rest
  <2>3. QED
    BY <2>1, <2>2
<1>6. Cardinality(1..m - 1) = m - 1
  <2>1. m - 1 \in Nat
    BY <1>4
  <2>2. QED
    BY <2>1, <1>4, FS_Interval
<1>7. QED
  BY <1>2, <1>4, <1>5, <1>6

\* A prefix names its length.
LEMMA PrefixLength ==
    ASSUME NEW k \in Nat, Won = 1..k
    PROVE  Cardinality(Won) = k
<1>1. Cardinality(1..k) = IF 1 > k THEN 0 ELSE k - 1 + 1
  BY FS_Interval
<1>2. QED
  BY <1>1

\* The same of the state after a step.
LEMMA PrefixLengthNext == \A k \in Nat : Won' = 1..k => Cardinality(Won') = k
<1>1. TAKE k \in Nat
<1>2. Cardinality(1..k) = IF 1 > k THEN 0 ELSE k - 1 + 1
  BY FS_Interval
<1>3. QED
  BY <1>2

\* Where no contest opens or closes, neither does one of the abstract round.
LEMMA SlotsStutter ==
    ASSUME UNCHANGED slots
    PROVE  UNCHANGED Round!ovars
BY DEF Round!ovars, Won

\* Preparing a contest opens one, confirming its winner closes it with that
\* winner, and nothing else is a step of the abstract round.
LEMMA StepIsRoundStep ==
    ASSUME R2Inv, R2Inv', [R2Next]_allR2Vars
    PROVE  [Round!ONext]_(Round!ovars)
<1> DEFINE k == Cardinality(Won)
<1>k. k \in 0..Slots /\ Won = 1..k /\ Slots \in Nat
  BY WonIsAPrefix, EarlierSlots
<1>t. slots \in [1..Slots -> SlotRecords]
  BY DEF R2Inv, OrderIsSound, R2TypeOK, SlotRecords
<1>1. CASE PrepareRound2Challenge
  <2>1. PICK s \in 1..Slots :
           /\ IsCurrent(s) /\ slots[s].progress = "not_started"
           /\ slots' = [slots EXCEPT ![s] = [progress |-> "in_progress",
                                             challenge |-> PreparedId, winner |-> None]]
    BY <1>1 DEF PrepareRound2Challenge
  <2>2. \A r \in 1..Slots : r # s => slots'[r] = slots[r]
    BY <1>t, <2>1
  <2>3. slots'[s].progress = "in_progress"
    BY <1>t, <2>1
  <2>4. Won' = Won
    BY <2>1, <2>2, <2>3 DEF Won
  <2>5. \A i \in 1..k : slots'[i] = slots[i]
    BY <1>k, <2>1, <2>2 DEF Won
  <2>6. ~ \E r \in 1..Slots : slots[r].progress = "in_progress"
    <3>1. ASSUME NEW r \in 1..Slots PROVE slots[r].progress # "in_progress"
      <4>1. r = s \/ r < s \/ r > s
        OBVIOUS
      <4>2. QED
        BY <2>1, <4>1, CurrentFacts
    <3>2. QED
      BY <3>1
  <2>7. k < Slots
    <3>1. s \notin 1..k
      BY <1>k, <2>1 DEF Won
    <3>2. QED
      BY <1>k, <3>1
  <2>8. [i \in 1..Cardinality(Won') |-> slots'[i].winner]
          = [i \in 1..Cardinality(Won) |-> slots[i].winner]
    BY <2>4, <2>5
  <2>9. Len([i \in 1..k |-> slots[i].winner]) = k
    BY <1>k
  <2>10. Round!Open
    BY <2>3, <2>6, <2>7, <2>8, <2>9 DEF Round!Open
  <2>11. QED
    BY <2>10 DEF Round!ONext
<1>2. ASSUME NEW t \in Teams \cup {None}, ConfirmRound2Result(t) PROVE Round!ONext
  <2>1. PICK s \in 1..Slots :
           /\ IsCurrent(s) /\ slots[s].progress = "in_progress"
           /\ slots' = [slots EXCEPT ![s] = [progress |-> "resolved",
                                             challenge |-> slots[s].challenge,
                                             winner |-> WinnerOf(t)]]
    BY <1>2 DEF ConfirmRound2Result
  <2>w. WinnerOf(t) \in Teams
    BY <1>2 DEF ConfirmRound2Result, WinnerKnown, WinnerOf, R2Inv, OrderIsSound, R2TypeOK
  <2>2. \A r \in 1..Slots : r # s => slots'[r] = slots[r]
    BY <1>t, <2>1
  <2>3. slots'[s].progress = "resolved" /\ slots'[s].winner = WinnerOf(t)
    BY <1>t, <2>1
  <2>4. \A r \in 1..Slots : r < s => slots[r].progress = "resolved"
    BY <2>1, CurrentFacts
  <2>5. \A r \in 1..Slots : r > s => slots[r].progress = "not_started"
    BY <2>1, CurrentFacts
  <2>6. s = k + 1
    <3>1. s \notin 1..k
      BY <1>k, <2>1 DEF Won
    <3>2. \A r \in 1..Slots : r < s => r \in 1..k
      BY <1>k, <2>4 DEF Won
    <3>3. CASE s = 1
      BY <1>k, <3>1, <3>3
    <3>4. CASE s # 1
      <4>1. s - 1 \in 1..Slots /\ s - 1 < s
        BY <1>k, <3>4
      <4>2. s - 1 \in 1..k
        BY <3>2, <4>1
      <4>3. QED
        BY <1>k, <3>1, <4>2
    <3>5. QED
      BY <3>3, <3>4
  <2>7. Won' = 1..k + 1
    <3>1. \A r \in 1..Slots : slots'[r].progress = "resolved" <=> r \in 1..k \/ r = s
      BY <1>k, <2>2, <2>3 DEF Won
    <3>2. \A r : r \in 1..k + 1 <=> r \in 1..Slots /\ (r \in 1..k \/ r = s)
      BY <1>k, <2>6
    <3>3. QED
      BY <3>1, <3>2 DEF Won
  <2>8. Cardinality(Won') = k + 1
    BY <1>k, <2>7, PrefixLengthNext
  <2>9. (\E r \in 1..Slots : slots[r].progress = "in_progress")
        /\ ~ \E r \in 1..Slots : slots'[r].progress = "in_progress"
    <3>1. ASSUME NEW r \in 1..Slots PROVE slots'[r].progress # "in_progress"
      <4>1. r = s \/ r < s \/ r > s
        OBVIOUS
      <4>2. QED
        BY <2>2, <2>3, <2>4, <2>5, <4>1
    <3>2. QED
      BY <2>1, <3>1
  <2>10. [i \in 1..Cardinality(Won') |-> slots'[i].winner]
           = Append([i \in 1..k |-> slots[i].winner], WinnerOf(t))
    <3> DEFINE old == [i \in 1..k |-> slots[i].winner]
    <3>1. \A i \in 1..k + 1 : slots'[i].winner = IF i = k + 1 THEN WinnerOf(t) ELSE slots[i].winner
      <4>1. \A i \in 1..k + 1 : i \in 1..Slots
        BY <1>k, <2>6
      <4>2. QED
        BY <2>2, <2>3, <2>6, <4>1
    <3>2. Len(old) = k
      BY <1>k
    <3>3. Append(old, WinnerOf(t))
            = [i \in 1..k + 1 |-> IF i = k + 1 THEN WinnerOf(t) ELSE old[i]]
      BY <1>k, <3>2
    <3>4. \A i \in 1..k + 1 : i # k + 1 => old[i] = slots[i].winner
      BY <1>k
    <3>5. [i \in 1..k + 1 |-> slots'[i].winner]
            = [i \in 1..k + 1 |-> IF i = k + 1 THEN WinnerOf(t) ELSE old[i]]
      BY <3>1, <3>4
    <3>6. QED
      BY <2>8, <3>3, <3>5
  <2>11. PICK w \in Teams : w = WinnerOf(t)
    BY <2>w
  <2>12. Round!Close(w)
    BY <2>9, <2>10, <2>11 DEF Round!Close
  <2>13. QED
    BY <2>12 DEF Round!ONext
<1>3. CASE UNCHANGED slots
  BY <1>3, SlotsStutter
<1>4. QED
  BY <1>1, <1>2, <1>3
     DEF R2Next, BeginRound2, DevStartRound2, DevEnterRound2, SelectRound2Winner, r2Vars, allR2Vars

\* The round, with the Host's generic intents, its selections and the walk to
\* it, opens its contests one at a time in order and closes each with one winner,
\* which is then final.
THEOREM Round2ImplementsOrderedRound == R2Spec => ImplementsOrderedRound
<1>1. R2Init => Round!OInit
  <2> SUFFICES ASSUME R2Init PROVE Round!OInit
    OBVIOUS
  <2>1. \A s \in 1..Slots : slots[s].progress = "not_started"
    BY DEF R2Init
  <2>2. Won = 1..0
    BY <2>1 DEF Won
  <2>3. Cardinality(Won) = 0
    BY <2>2, PrefixLength
  <2>4. QED
    BY <2>1, <2>3 DEF Round!OInit
<1>2. R2Inv /\ R2Inv' /\ [R2Next]_allR2Vars => [Round!ONext]_(Round!ovars)
  BY StepIsRoundStep
<1>3. QED
  BY <1>1, <1>2, R2Invariant, PTL DEF R2Spec, ImplementsOrderedRound, Round!OSpec

-----------------------------------------------------------------------------
(* Round 4: what the answers shown are worth.                              *)

Worth(ranks) == MapThenSumSet(LAMBDA r : Value[r], ranks)

\* Sums of numbers that are not negative are not negative.
LEMMA TallyIsNat ==
    ASSUME NEW D, IsFiniteSet(D), NEW f \in [D -> Nat], NEW i, Tally(i, f, D)
    PROVE  \A s \in SUBSET D : i[s] \in Nat
<1>u. ASSUME NEW s \in SUBSET D, s # {}
      PROVE  Pick(s) \in s /\ i[s] = f[Pick(s)] + i[s \ {Pick(s)}]
  BY <1>u DEF Tally, Pick
<1> DEFINE G == {s \in SUBSET D : i[s] \in Nat}
<1>1. {} \in G
  BY TallyAt
<1>2. ASSUME NEW s \in SUBSET D, s # {}, \A x \in s : s \ {x} \in G PROVE s \in G
  <2>1. Pick(s) \in s /\ i[s] = f[Pick(s)] + i[s \ {Pick(s)}]
    BY <1>2, <1>u
  <2>2. f[Pick(s)] \in Nat /\ i[s \ {Pick(s)}] \in Nat
    BY <1>2, <2>1
  <2>3. QED
    BY <2>1, <2>2
<1>3. SUBSET D \subseteq G
  <2> HIDE DEF G
  <2>1. QED
    BY <1>1, <1>2, SubsetsInduct
<1>4. QED
  BY <1>3

\* The worth of a set of answers is its tally.
LEMMA WorthIsATally ==
    ASSUME NEW ranks \in SUBSET Ranks
    PROVE  \E i : Tally(i, Value, ranks) /\ Worth(ranks) = i[ranks]
<1> DEFINE P(i) == i = [s \in SUBSET ranks |->
                          IF s = {} THEN 0 ELSE Value[Pick(s)] + i[s \ {Pick(s)}]]
           sum == CHOOSE i : P(i)
<1>1. \A i : Tally(i, Value, ranks) <=> P(i)
  BY DEF Tally
<1>2. \E i : P(i)
  <2>1. IsFiniteSet(ranks)
    BY FS_Subset, Round4Assumption DEF Round4Assumption
  <2>2. \E i : Tally(i, Value, ranks)
    BY <2>1, TallyExists
  <2> HIDE DEF P
  <2>3. QED
    BY <1>1, <2>2
<1>3. P(sum)
  <2> HIDE DEF P
  <2>1. QED
    BY <1>2
<1>4. Worth(ranks) = sum[ranks]
  BY Zenon DEF Worth, MapThenSumSet, MapThenFoldSet, Pick
<1>5. Tally(sum, Value, ranks)
  <2> HIDE DEF P, sum
  <2>1. QED
    BY <1>1, <1>3
<1>6. QED
  <2> HIDE DEF sum, P
  <2>1. QED
    BY <1>4, <1>5

\* No answers are worth nothing, an answer more is worth what it says.
LEMMA WorthFacts ==
    /\ Worth({}) = 0
    /\ \A ranks \in SUBSET Ranks :
          /\ Worth(ranks) \in Nat
          /\ \A r \in Ranks \ ranks : Worth(ranks \cup {r}) = Worth(ranks) + Value[r]
          /\ \A r \in ranks : Worth(ranks) = Worth(ranks \ {r}) + Value[r]
<1>v. Value \in [Ranks -> Nat] /\ IsFiniteSet(Ranks)
  BY Round4Assumption DEF Round4Assumption
<1>1. Worth({}) = 0
  <2>1. PICK i : Tally(i, Value, {}) /\ Worth({}) = i[{}]
    BY WorthIsATally
  <2>2. QED
    BY <2>1 DEF Tally
<1>2. PICK all : Tally(all, Value, Ranks)
  BY <1>v, TallyExists
<1>3. ASSUME NEW ranks \in SUBSET Ranks PROVE Worth(ranks) = all[ranks]
  <2>1. PICK i : Tally(i, Value, ranks) /\ Worth(ranks) = i[ranks]
    BY WorthIsATally
  <2>2. IsFiniteSet(ranks)
    BY <1>v, FS_Subset
  <2>3. i[ranks] = all[ranks]
    BY <1>2, <2>1, <2>2, TalliesAgree
  <2>4. QED
    BY <2>1, <2>3
<1>4. \A ranks \in SUBSET Ranks : all[ranks] \in Nat
  BY <1>v, <1>2, TallyIsNat
<1>5. ASSUME NEW ranks \in SUBSET Ranks, NEW r \in ranks
      PROVE  all[ranks] = Value[r] + all[ranks \ {r}]
  <2>1. Value \in [Ranks -> Int]
    BY <1>v
  <2>2. QED
    BY <1>v, <1>2, <2>1, TallyTakesAny
<1>6. ASSUME NEW ranks \in SUBSET Ranks, NEW r \in ranks
      PROVE  Worth(ranks) = Worth(ranks \ {r}) + Value[r]
  <2>1. all[ranks] = Value[r] + all[ranks \ {r}] /\ all[ranks \ {r}] \in Nat /\ Value[r] \in Nat
    BY <1>v, <1>4, <1>5
  <2>2. Worth(ranks) = all[ranks] /\ Worth(ranks \ {r}) = all[ranks \ {r}]
    BY <1>3
  <2>3. QED
    BY <2>1, <2>2
<1>7. ASSUME NEW ranks \in SUBSET Ranks, NEW r \in Ranks \ ranks
      PROVE  Worth(ranks \cup {r}) = Worth(ranks) + Value[r]
  <2>1. (ranks \cup {r}) \ {r} = ranks /\ ranks \cup {r} \in SUBSET Ranks
    OBVIOUS
  <2>2. QED
    BY <1>6, <2>1
<1>8. QED
  BY <1>1, <1>3, <1>4, <1>6, <1>7

-----------------------------------------------------------------------------
(* What the round keeps to.                                                *)

FaceoffRecords ==
    [status : {"reading", "buzzed", "opponent_chance", "decided", "complete"},
     buzzed : Teams \cup {None}, first : Nat, winner : Teams \cup {None},
     window : WindowsUpTo(AnswerMs)]

BoardRecords ==
    [holder : Teams \cup {None}, strikes : 0..MaxStrikes, window : WindowsUpTo(TurnMs)]

StealRecords ==
    [thief : Teams \cup {None}, status : {"none", "conferring", "awaiting_answer", "resolved"},
     wager : BOOLEAN, window : WindowsUpTo(ConferMs)]

SurveyRecords ==
    [no : Nat, challenge : Nat,
     progress : {"not_started", "faceoff", "board_play", "steal", "resolved"},
     pair : SUBSET Teams, revealed : SUBSET Ranks, barred : [Ranks -> Teams \cup {None}],
     pot : Nat, faceoff : FaceoffRecords, board : BoardRecords, steal : StealRecords,
     winner : Teams \cup {None}, awarded : Nat]

InPlay(s) == s.progress \in {"faceoff", "board_play", "steal"}

\* Two teams play it; the face-off is between them, the board belongs to one
\* team once it has begun, and a steal runs exactly while it is being stolen.
StageFits(s) ==
    /\ s.progress = "not_started" <=> s.no = 0
    /\ s.no # 0 => s.challenge # 0 /\ \E a, b \in Teams : a # b /\ s.pair = {a, b}
    /\ s.no # 0 /\ s.faceoff.status # "reading" => s.faceoff.buzzed \in s.pair
    /\ s.faceoff.winner \in s.pair \cup {None}
    /\ s.progress \in {"not_started", "faceoff"} =>
           s.board.holder = None /\ s.steal.thief = None /\ s.board.strikes = 0
    /\ s.progress \notin {"not_started", "faceoff"} => s.board.holder \in Teams
    /\ s.progress = "board_play" => s.steal.thief = None /\ s.board.strikes < MaxStrikes
    /\ s.progress = "steal" => s.steal.thief \in Teams \ {s.board.holder}
    /\ s.progress = "steal" <=> s.steal.status \in {"conferring", "awaiting_answer"}
    /\ s.progress # "resolved" => s.winner = None /\ s.awarded = 0

Sound(s) == s \in SurveyRecords /\ s.pot = Worth(s.revealed) /\ StageFits(s)

PaidRecords == [survey : Nat, challenge : 1..MaxChallenges, team : Teams, amount : Nat]

\* Surveys past were paid through challenges past, the current one through its own
\* or a later one, none of them twice.
PaidInv ==
    /\ paid \in Seq(PaidRecords)
    /\ \A i \in DOMAIN paid : paid[i].survey <= survey.no /\ paid[i].challenge <= challenge.id
    /\ \A i \in DOMAIN paid :
           paid[i].survey < survey.no => paid[i].challenge < survey.challenge
    /\ PaidOnce /\ PaidToWinner /\ LostToAnotherResult

SurveyInv ==
    /\ Sound(survey) /\ WindowsFollowPause
    /\ dealt \in 0..Surveys /\ survey.no <= dealt /\ survey.challenge <= challenge.id
    /\ survey.no # 0 => stage # "none"
    /\ PaidInv /\ PlayingTeamsAwaited

MatchupInv ==
    /\ standings \in Orders \cup {<<>>}
    /\ stage \in {"none", "FIRST", "FINAL"} /\ (stage = "none" <=> standings = <<>>)
    /\ stage # "none" => Len(contesting) = 2 /\ contesting[1] # contesting[2]
                         /\ {contesting[1], contesting[2], standings[1]} \subseteq Teams
    /\ stage = "FIRST" => standings[1] \notin {contesting[1], contesting[2]}
    /\ stage = "FIRST" => advancing \in {contesting[1], contesting[2], None}
    /\ stage # "FIRST" => advancing = None
    /\ advancing \in Teams \cup {None} /\ gated \subseteq Teams /\ owed \subseteq Teams

\* Every survey is won at most once.
WinsInv ==
    /\ wins \in [Teams -> Nat]
    /\ \A t \in Teams : wins[t] <= dealt /\ (InPlay(survey) => wins[t] < dealt)

-----------------------------------------------------------------------------
(* What is done to a survey keeps it sound.                                *)

\* The lengths of the windows, and what may stand for no team.
LEMMA WindowKinds ==
    /\ None \notin Teams /\ MaxStrikes \in Nat \ {0}
    /\ AnswerMs \in Nat /\ TurnMs \in Nat /\ ConferMs \in Nat
    /\ \A d \in {AnswerMs, TurnMs, ConferMs} :
          NoWindow \in WindowsUpTo(d) /\ OpenWindow(d) \in WindowsUpTo(d)
    /\ NoWindow.state # "frozen" /\ \A d : OpenWindow(d).state # "frozen"
<1>1. /\ None \notin Teams /\ MaxStrikes \in Nat \ {0}
      /\ AnswerMs \in Nat /\ TurnMs \in Nat /\ ConferMs \in Nat
  BY GameFlowAssumption, Round4Assumption DEF GameFlowAssumption, Round4Assumption
<1>2. QED
  BY <1>1 DEF NoWindow, OpenWindow, WindowsUpTo

Unfrozen(s) ==
    \A w \in {s.faceoff.window, s.board.window, s.steal.window} : w.state # "frozen"

\* What a survey is from its start to its end.
SameSurvey(s) ==
    /\ s.no = survey.no /\ s.challenge = survey.challenge /\ s.pair = survey.pair
    /\ s.winner = survey.winner /\ s.awarded = survey.awarded

Plays(s) == Sound(s) /\ Unfrozen(s) /\ SameSurvey(s)

\* The four moves of a survey before it is won.
SameHands(s) ==
    /\ s.progress = survey.progress /\ s.board.holder = survey.board.holder
    /\ s.steal.thief = survey.steal.thief /\ s.board.strikes = survey.board.strikes

Counts(s) ==
    /\ survey.progress = "board_play" /\ s.progress = "board_play"
    /\ s.board.holder = survey.board.holder /\ s.steal.thief = survey.steal.thief
    /\ s.board.strikes \in 0..MaxStrikes - 1

TakesBoard(s) ==
    /\ survey.progress = "faceoff" /\ s.progress = "board_play"
    /\ s.board.holder \in Teams
    /\ s.steal.thief = survey.steal.thief /\ s.board.strikes = survey.board.strikes

StrikesOut(s) ==
    /\ survey.progress = "board_play" /\ s.progress = "steal"
    /\ s.board.holder = survey.board.holder /\ s.board.strikes >= MaxStrikes
    /\ s.steal.thief \in Teams \ {survey.board.holder}

\* No window stands still in a game that runs.
LEMMA RunningUnfrozen ==
    ASSUME SurveyInv, Running
    PROVE  Unfrozen(survey) /\ ~Paused
  BY DEF SurveyInv, WindowsFollowPause, FollowsPause, Exists, Running, Unfrozen

\* Showing an answer changes the board and the pot, and the pot stays the board's.
LEMMA ShowFacts ==
    ASSUME NEW s, Sound(s), NEW r, NEW u, u = Show(s, r)
    PROVE  /\ Sound(u)
           /\ u.no = s.no /\ u.challenge = s.challenge /\ u.progress = s.progress
           /\ u.pair = s.pair /\ u.faceoff = s.faceoff /\ u.board = s.board
           /\ u.steal = s.steal /\ u.winner = s.winner /\ u.awarded = s.awarded
<1>s. s \in SurveyRecords /\ s.pot = Worth(s.revealed) /\ StageFits(s)
  BY DEF Sound
<1>1. CASE r \in Ranks \ s.revealed
  <2>1. PICK shown : shown = s.revealed \cup {r}
    OBVIOUS
  <2>2. s.revealed \in SUBSET Ranks /\ s.pot \in Nat /\ Value[r] \in Nat
    BY <1>s, <1>1, Round4Assumption DEF SurveyRecords, Round4Assumption
  <2>3. PICK pot \in Nat : pot = s.pot + Value[r]
    BY <2>2
  <2>4. u = [s EXCEPT !.revealed = shown, !.pot = pot]
    BY <1>1, <2>1, <2>3 DEF Show
  <2>5. shown \in SUBSET Ranks /\ pot = Worth(shown)
    BY <1>s, <1>1, <2>1, <2>2, <2>3, WorthFacts
  <2>6. u \in SurveyRecords /\ u.pot = pot /\ u.revealed = shown
    BY <1>s, <2>4, <2>5 DEF SurveyRecords
  <2>7. /\ u.no = s.no /\ u.challenge = s.challenge /\ u.progress = s.progress
        /\ u.pair = s.pair /\ u.faceoff = s.faceoff /\ u.board = s.board
        /\ u.steal = s.steal /\ u.winner = s.winner /\ u.awarded = s.awarded
    BY <1>s, <2>4 DEF SurveyRecords
  <2>8. StageFits(u)
    BY <1>s, <2>7 DEF StageFits
  <2>9. QED
    BY <2>5, <2>6, <2>7, <2>8 DEF Sound
<1>2. CASE r \notin Ranks \ s.revealed
  BY <1>2 DEF Show
<1>3. QED
  BY <1>1, <1>2

\* A change to the face-off alone.
LEMMA FaceoffMoves ==
    ASSUME SurveyInv, Running, NEW f \in FaceoffRecords,
           f.window.state # "frozen",
           survey.no # 0 /\ f.status # "reading" => f.buzzed \in survey.pair,
           f.winner \in survey.pair \cup {None},
           NEW s, s = [survey EXCEPT !.faceoff = f]
    PROVE  Plays(s) /\ SameHands(s)
<1>1. survey \in SurveyRecords /\ survey.pot = Worth(survey.revealed) /\ StageFits(survey)
  BY DEF SurveyInv, Sound
<1>2. s \in SurveyRecords
  BY <1>1 DEF SurveyRecords
<1>3. /\ s.no = survey.no /\ s.challenge = survey.challenge /\ s.progress = survey.progress
      /\ s.pair = survey.pair /\ s.faceoff = f /\ s.board = survey.board
      /\ s.steal = survey.steal /\ s.winner = survey.winner /\ s.awarded = survey.awarded
      /\ s.revealed = survey.revealed /\ s.pot = survey.pot
  BY <1>1 DEF SurveyRecords
<1>4. StageFits(s)
  BY <1>1, <1>3 DEF StageFits
<1>5. Unfrozen(s)
  BY <1>3, RunningUnfrozen DEF Unfrozen
<1>6. QED
  BY <1>1, <1>2, <1>3, <1>4, <1>5 DEF Plays, Sound, SameSurvey, SameHands

\* A change to the board's window, or to the steal's.
WithTurn(s0, w, s) == s = [s0 EXCEPT !.board.window = w]

LEMMA TurnMoves ==
    ASSUME SurveyInv, Running, NEW s0, Plays(s0),
           NEW w \in WindowsUpTo(TurnMs), w.state # "frozen",
           NEW s, WithTurn(s0, w, s)
    PROVE  /\ Plays(s)
           /\ s.progress = s0.progress /\ s.steal = s0.steal
           /\ s.board.holder = s0.board.holder /\ s.board.strikes = s0.board.strikes
           /\ s.revealed = s0.revealed
<1>1. s0 \in SurveyRecords /\ s0.pot = Worth(s0.revealed) /\ StageFits(s0) /\ Unfrozen(s0)
  BY DEF Plays, Sound
<1>2. PICK b : b = [s0.board EXCEPT !.window = w]
  OBVIOUS
<1>3. s0.board \in BoardRecords
  BY <1>1 DEF SurveyRecords
<1>4. /\ b \in BoardRecords /\ b.holder = s0.board.holder /\ b.strikes = s0.board.strikes
      /\ b.window = w
  BY <1>2, <1>3 DEF BoardRecords
<1>5. s = [s0 EXCEPT !.board = b]
  BY <1>1, <1>2 DEF SurveyRecords, WithTurn
<1>6. s \in SurveyRecords
  BY <1>1, <1>4, <1>5 DEF SurveyRecords
<1>7. /\ s.no = s0.no /\ s.challenge = s0.challenge /\ s.progress = s0.progress
      /\ s.pair = s0.pair /\ s.faceoff = s0.faceoff /\ s.board = b
      /\ s.steal = s0.steal /\ s.winner = s0.winner /\ s.awarded = s0.awarded
      /\ s.revealed = s0.revealed /\ s.pot = s0.pot
  BY <1>1, <1>5 DEF SurveyRecords
<1>8. StageFits(s)
  BY <1>1, <1>4, <1>7 DEF StageFits
<1>9. Unfrozen(s)
  BY <1>1, <1>4, <1>7 DEF Unfrozen
<1>10. QED
  BY <1>1, <1>4, <1>6, <1>7, <1>8, <1>9 DEF Plays, Sound, SameSurvey

\* A survey as it stands plays on; so does one with an answer shown.
LEMMA StandsAsItIs ==
    ASSUME SurveyInv, Running
    PROVE  Plays(survey) /\ SameHands(survey)
  BY RunningUnfrozen DEF SurveyInv, Plays, SameSurvey, SameHands

\* A survey that may go on may go on with an answer more shown.
LEMMA ShownPlays ==
    ASSUME NEW s, Plays(s), NEW r, NEW u, u = Show(s, r)
    PROVE  Plays(u) /\ u.progress = s.progress /\ u.board = s.board /\ u.steal = s.steal
<1>1. Sound(s)
  BY DEF Plays
<1>2. QED
  BY <1>1, ShowFacts DEF Plays, Unfrozen, SameSurvey

\* Of the two teams of a survey the other one is one of them.
LEMMA RivalFacts ==
    ASSUME SurveyInv, survey.no # 0, NEW t \in survey.pair
    PROVE  Rival(t) \in survey.pair /\ Rival(t) # t
<1>1. \E u \in survey.pair : u # t
  BY DEF SurveyInv, Sound, StageFits
<1>2. QED
  BY <1>1 DEF Rival

\* What is known of a survey in its face-off.
LEMMA FaceoffFacts ==
    ASSUME SurveyInv, survey.progress = "faceoff"
    PROVE  /\ survey.no # 0 /\ survey.pair \subseteq Teams
           /\ survey.faceoff \in FaceoffRecords
           /\ survey.faceoff.status # "reading" => survey.faceoff.buzzed \in survey.pair
           /\ survey.faceoff.winner \in survey.pair \cup {None}
           /\ survey.board.strikes = 0 /\ survey.steal.thief = None
<1>1. survey \in SurveyRecords /\ StageFits(survey)
  BY DEF SurveyInv, Sound
<1>2. survey.no # 0 /\ survey.pair \subseteq Teams /\ survey.faceoff \in FaceoffRecords
  BY <1>1 DEF SurveyRecords, StageFits
<1>3. QED
  BY <1>1, <1>2 DEF StageFits

\* The buzz starts the window of the team that buzzed.
LEMMA BuzzPlays ==
    ASSUME SurveyInv, InFaceoff("reading"), NEW t \in survey.pair
    PROVE  Plays(Buzzed(t)) /\ SameHands(Buzzed(t))
<1>1. Running /\ survey.progress = "faceoff" /\ survey \in SurveyRecords
  BY DEF InFaceoff, SurveyInv, Sound
<1>2. PICK f : f = [survey.faceoff EXCEPT !.status = "buzzed", !.buzzed = t,
                                          !.window = OpenWindow(AnswerMs)]
  OBVIOUS
<1>3. survey.faceoff \in FaceoffRecords /\ t \in Teams
  BY <1>1, FaceoffFacts
<1>4. PICK w : w = OpenWindow(AnswerMs)
  OBVIOUS
<1>5. w \in WindowsUpTo(AnswerMs) /\ w.state # "frozen"
  BY <1>4, WindowKinds
<1>6. f \in FaceoffRecords /\ f.buzzed = t /\ f.window = w /\ f.winner = survey.faceoff.winner
  BY <1>2, <1>3, <1>4, <1>5 DEF FaceoffRecords
<1>7. Buzzed(t) = [survey EXCEPT !.faceoff = f]
  BY <1>1, <1>2 DEF Buzzed, SurveyRecords
<1>8. QED
  BY <1>1, <1>5, <1>6, <1>7, FaceoffFacts, FaceoffMoves

\* The rival's chance gets a window of its own.
LEMMA ChancePlays ==
    ASSUME SurveyInv, InFaceoff("opponent_chance"), NEW s,
           s = [survey EXCEPT !.faceoff.window = OpenWindow(AnswerMs)]
    PROVE  Plays(s) /\ SameHands(s)
<1>1. Running /\ survey.progress = "faceoff" /\ survey \in SurveyRecords
  BY DEF InFaceoff, SurveyInv, Sound
<1>2. PICK w : w = OpenWindow(AnswerMs)
  OBVIOUS
<1>3. w \in WindowsUpTo(AnswerMs) /\ w.state # "frozen"
  BY <1>2, WindowKinds
<1>4. PICK f : f = [survey.faceoff EXCEPT !.window = w]
  OBVIOUS
<1>5. survey.faceoff \in FaceoffRecords
  BY <1>1, FaceoffFacts
<1>6. /\ f \in FaceoffRecords /\ f.window = w /\ f.winner = survey.faceoff.winner
      /\ f.buzzed = survey.faceoff.buzzed /\ f.status = survey.faceoff.status
  BY <1>3, <1>4, <1>5 DEF FaceoffRecords
<1>7. s = [survey EXCEPT !.faceoff = f]
  BY <1>1, <1>2, <1>4 DEF SurveyRecords
<1>8. QED
  BY <1>1, <1>3, <1>6, <1>7, FaceoffFacts, FaceoffMoves

\* The first answer at the buzzer.
LEMMA FirstAnswerPlays ==
    ASSUME SurveyInv, InFaceoff("buzzed"), NEW r \in Nat
    PROVE  Plays(FirstAnswer(r)) /\ SameHands(FirstAnswer(r))
<1>1. Running /\ survey.progress = "faceoff" /\ survey.faceoff.status = "buzzed"
      /\ survey \in SurveyRecords
  BY DEF InFaceoff, SurveyInv, Sound
<1>2. survey.faceoff \in FaceoffRecords /\ survey.no # 0
      /\ survey.faceoff.buzzed \in survey.pair /\ survey.pair \subseteq Teams
      /\ survey.faceoff.winner \in survey.pair \cup {None}
  BY <1>1, FaceoffFacts
<1>3. NoWindow \in WindowsUpTo(AnswerMs) /\ NoWindow.state # "frozen"
  BY WindowKinds
<1>4. CASE r = 1
  <2>1. PICK f : f = [survey.faceoff EXCEPT !.status = "decided",
                                            !.winner = survey.faceoff.buzzed,
                                            !.window = NoWindow]
    OBVIOUS
  <2>2. /\ f \in FaceoffRecords /\ f.window = NoWindow /\ f.winner = survey.faceoff.buzzed
        /\ f.buzzed = survey.faceoff.buzzed
    BY <1>2, <1>3, <2>1 DEF FaceoffRecords
  <2>3. PICK s : s = [survey EXCEPT !.faceoff = f]
    OBVIOUS
  <2>4. Plays(s) /\ SameHands(s)
    BY <1>1, <1>2, <1>3, <2>2, <2>3, FaceoffMoves
  <2>5. FirstAnswer(r) = Show(s, r)
    BY <1>1, <1>4, <2>1, <2>3 DEF FirstAnswer, SurveyRecords
  <2>6. QED
    BY <2>4, <2>5, ShownPlays DEF SameHands
<1>5. CASE r # 1
  <2>1. PICK f : f = [survey.faceoff EXCEPT !.status = "opponent_chance", !.first = r,
                                            !.window = NoWindow]
    OBVIOUS
  <2>2. /\ f \in FaceoffRecords /\ f.window = NoWindow /\ f.winner = survey.faceoff.winner
        /\ f.buzzed = survey.faceoff.buzzed
    BY <1>2, <1>3, <2>1 DEF FaceoffRecords
  <2>3. FirstAnswer(r) = [survey EXCEPT !.faceoff = f]
    BY <1>1, <1>5, <2>1 DEF FirstAnswer, SurveyRecords
  <2>4. QED
    BY <1>1, <1>2, <1>3, <2>2, <2>3, FaceoffMoves
<1>6. QED
  BY <1>4, <1>5

\* The rival's answer decides it, for one of the two or for nobody.
LEMMA SecondAnswerPlays ==
    ASSUME SurveyInv, InFaceoff("opponent_chance"), NEW r \in Nat
    PROVE  Plays(SecondAnswer(r)) /\ SameHands(SecondAnswer(r))
<1>1. Running /\ survey.progress = "faceoff" /\ survey.faceoff.status = "opponent_chance"
      /\ survey \in SurveyRecords
  BY DEF InFaceoff, SurveyInv, Sound
<1>2. survey.faceoff \in FaceoffRecords /\ survey.no # 0
      /\ survey.faceoff.buzzed \in survey.pair /\ survey.pair \subseteq Teams
  BY <1>1, FaceoffFacts
<1>3. NoWindow \in WindowsUpTo(AnswerMs) /\ NoWindow.state # "frozen"
  BY WindowKinds
<1>4. PICK won : won = FaceoffWinner(survey.faceoff.first, r)
  OBVIOUS
<1>5. won \in survey.pair \cup {None}
  BY <1>2, <1>4, RivalFacts DEF FaceoffWinner
<1>6. PICK f : f = [survey.faceoff EXCEPT !.status = "decided", !.first = NoMatch,
                                          !.winner = won, !.window = NoWindow]
  OBVIOUS
<1>7. /\ f \in FaceoffRecords /\ f.window = NoWindow /\ f.winner = won
      /\ f.buzzed = survey.faceoff.buzzed
  BY <1>2, <1>3, <1>5, <1>6 DEF FaceoffRecords, NoMatch
<1>8. PICK s : s = [survey EXCEPT !.faceoff = f]
  OBVIOUS
<1>9. Plays(s) /\ SameHands(s)
  BY <1>1, <1>2, <1>3, <1>5, <1>7, <1>8, FaceoffMoves
<1>10. SecondAnswer(r) = Show(s, BetterRank(survey.faceoff.first, r))
  BY <1>1, <1>4, <1>6, <1>8 DEF SecondAnswer, SurveyRecords
<1>11. QED
  BY <1>9, <1>10, ShownPlays DEF SameHands

\* The winner takes the board or leaves it to the other one.
LEMMA ChoicePlays ==
    ASSUME SurveyInv, InFaceoff("decided"), survey.faceoff.winner \in Teams, NEW play
    PROVE  Plays(PlayedOrPassed(play)) /\ TakesBoard(PlayedOrPassed(play))
<1>1. Running /\ survey.progress = "faceoff" /\ survey.faceoff.status = "decided"
      /\ survey \in SurveyRecords /\ StageFits(survey) /\ survey.pot = Worth(survey.revealed)
  BY DEF InFaceoff, SurveyInv, Sound
<1>2. survey.faceoff \in FaceoffRecords /\ survey.no # 0
      /\ survey.faceoff.buzzed \in survey.pair /\ survey.pair \subseteq Teams
      /\ survey.faceoff.winner \in survey.pair
      /\ survey.board.strikes = 0 /\ survey.steal.thief = None
  BY <1>1, FaceoffFacts, WindowKinds
<1>3. PICK h : h = IF play THEN survey.faceoff.winner ELSE Rival(survey.faceoff.winner)
  OBVIOUS
<1>4. h \in Teams
  BY <1>2, <1>3, RivalFacts
<1>5. PICK b : b = FreshBoard(h)
  OBVIOUS
<1>6. b \in BoardRecords /\ b.holder = h /\ b.strikes = 0 /\ b.window = NoWindow
  BY <1>4, <1>5, WindowKinds DEF FreshBoard, BoardRecords
<1>7. PICK f : f = [survey.faceoff EXCEPT !.status = "complete"]
  OBVIOUS
<1>8. /\ f \in FaceoffRecords /\ f.window = survey.faceoff.window
      /\ f.winner = survey.faceoff.winner /\ f.buzzed = survey.faceoff.buzzed
  BY <1>2, <1>7 DEF FaceoffRecords
<1>9. PICK s : s = PlayedOrPassed(play)
  OBVIOUS
<1>10. s = [survey EXCEPT !.faceoff = f, !.progress = "board_play", !.board = b]
  BY <1>1, <1>3, <1>5, <1>7, <1>9 DEF PlayedOrPassed, SurveyRecords
<1>11. s \in SurveyRecords
  BY <1>1, <1>6, <1>8, <1>10 DEF SurveyRecords
<1>12. /\ s.no = survey.no /\ s.challenge = survey.challenge /\ s.progress = "board_play"
       /\ s.pair = survey.pair /\ s.faceoff = f /\ s.board = b
       /\ s.steal = survey.steal /\ s.winner = survey.winner /\ s.awarded = survey.awarded
       /\ s.revealed = survey.revealed /\ s.pot = survey.pot
  BY <1>1, <1>10 DEF SurveyRecords
<1>13. StageFits(s)
  BY <1>1, <1>2, <1>4, <1>6, <1>8, <1>12, WindowKinds DEF StageFits
<1>14. Unfrozen(s)
  BY <1>1, <1>6, <1>8, <1>12, RunningUnfrozen, WindowKinds DEF Unfrozen
<1>15. Plays(s) /\ TakesBoard(s)
  BY <1>1, <1>2, <1>4, <1>6, <1>11, <1>12, <1>13, <1>14
     DEF Plays, Sound, SameSurvey, TakesBoard
<1>16. QED
  BY <1>9, <1>15

\* A turn begins, ends, or ends with an answer shown.
LEMMA TurnPlays ==
    ASSUME SurveyInv, Running
    PROVE  /\ \A s : s = [survey EXCEPT !.board.window = OpenWindow(TurnMs)]
                        => Plays(s) /\ SameHands(s)
           /\ Plays(TurnOver(survey)) /\ SameHands(TurnOver(survey))
           /\ \A r : Plays(Revealed(r)) /\ SameHands(Revealed(r))
<1>1. Plays(survey)
  BY StandsAsItIs
<1>2. PICK w : w = OpenWindow(TurnMs)
  OBVIOUS
<1>3. w \in WindowsUpTo(TurnMs) /\ w.state # "frozen"
      /\ NoWindow \in WindowsUpTo(TurnMs) /\ NoWindow.state # "frozen"
  BY <1>2, WindowKinds
<1>4. ASSUME NEW s, s = [survey EXCEPT !.board.window = OpenWindow(TurnMs)]
      PROVE  Plays(s) /\ SameHands(s)
  <2>1. WithTurn(survey, w, s)
    BY <1>2, <1>4 DEF WithTurn
  <2>2. QED
    BY <1>1, <1>3, <2>1, TurnMoves DEF SameHands
<1>5. ASSUME NEW s0, Plays(s0)
      PROVE  /\ Plays(TurnOver(s0))
             /\ TurnOver(s0).progress = s0.progress /\ TurnOver(s0).steal = s0.steal
             /\ TurnOver(s0).board.holder = s0.board.holder
             /\ TurnOver(s0).board.strikes = s0.board.strikes
  <2>1. PICK s : s = TurnOver(s0)
    OBVIOUS
  <2>2. WithTurn(s0, NoWindow, s)
    BY <2>1 DEF WithTurn, TurnOver
  <2>3. QED
    BY <1>3, <1>5, <2>1, <2>2, TurnMoves
<1>6. ASSUME NEW r PROVE Plays(Revealed(r)) /\ SameHands(Revealed(r))
  <2>1. PICK s0 : s0 = Show(survey, r)
    OBVIOUS
  <2>2. Plays(s0) /\ s0.progress = survey.progress /\ s0.board = survey.board
        /\ s0.steal = survey.steal
    BY <1>1, <2>1, ShownPlays
  <2>3. QED
    BY <1>5, <2>1, <2>2 DEF Revealed, SameHands
<1>7. Plays(TurnOver(survey)) /\ SameHands(TurnOver(survey))
  BY <1>1, <1>5 DEF SameHands
<1>8. QED
  BY <1>4, <1>6, <1>7

\* Strikes are counted up to the last, which hands the board over.
StrikesCounted(s) ==
    /\ s \in SurveyRecords /\ s.pot = Worth(s.revealed) /\ SameSurvey(s) /\ Unfrozen(s)
    /\ survey.progress = "board_play" /\ s.progress = "board_play"
    /\ s.pair = survey.pair /\ s.faceoff = survey.faceoff /\ s.steal = survey.steal
    /\ s.board.holder = survey.board.holder /\ s.board.holder \in Teams

\* A strike, or the Host's number of them, counts on the board of the same team.
LEMMA StrikePlays ==
    ASSUME SurveyInv, OnBoard,
           NEW s, \/ s = Struck(survey)
                  \/ \E n \in 0..MaxStrikes : s = [survey EXCEPT !.board.strikes = n]
    PROVE  StrikesCounted(s)
<1>1. Running /\ survey.progress = "board_play" /\ Unfrozen(survey)
      /\ survey \in SurveyRecords /\ StageFits(survey) /\ survey.pot = Worth(survey.revealed)
  BY RunningUnfrozen DEF OnBoard, SurveyInv, Sound
<1>2. survey.board \in BoardRecords /\ survey.board.holder \in Teams
      /\ survey.board.strikes < MaxStrikes
  BY <1>1 DEF SurveyRecords, StageFits
<1>3. PICK w : w = IF s = Struck(survey) THEN NoWindow ELSE survey.board.window
  OBVIOUS
<1>4. PICK n : n \in 0..MaxStrikes
               /\ s = [survey EXCEPT !.board = [holder |-> survey.board.holder,
                                                strikes |-> n, window |-> w]]
  <2>1. CASE s = Struck(survey)
    <3>1. survey.board.strikes + 1 \in 0..MaxStrikes
      BY <1>2, WindowKinds DEF BoardRecords
    <3>2. s = [survey EXCEPT !.board = [holder |-> survey.board.holder,
                                        strikes |-> survey.board.strikes + 1, window |-> w]]
      <4>1. PICK h : h = survey.board
        OBVIOUS
      <4>2. h \in BoardRecords
        BY <1>2, <4>1
      <4>3. PICK g : g = [h EXCEPT !.strikes = h.strikes + 1]
        OBVIOUS
      <4>4. g = [holder |-> h.holder, strikes |-> h.strikes + 1, window |-> h.window]
        BY <4>2, <4>3 DEF BoardRecords
      <4>5. PICK r : r = [survey EXCEPT !.board = g]
        OBVIOUS
      <4>6. r = [survey EXCEPT !.board.strikes = @ + 1]
        BY <4>1, <4>3, <4>5
      <4>7. s = [r EXCEPT !.board.window = NoWindow]
        BY <2>1, <4>6 DEF Struck, TurnOver
      <4>8. r.board = g
        BY <1>1, <4>5 DEF SurveyRecords
      <4>9. PICK k : k = [g EXCEPT !.window = NoWindow]
        OBVIOUS
      <4>10. k = [holder |-> h.holder, strikes |-> h.strikes + 1, window |-> NoWindow]
        BY <4>4, <4>9
      <4>11. s = [r EXCEPT !.board = k]
        BY <4>7, <4>8, <4>9
      <4>12. s = [survey EXCEPT !.board = k]
        BY <4>5, <4>11
      <4>13. w = NoWindow
        BY <1>3, <2>1
      <4>14. QED
        BY <4>1, <4>10, <4>12, <4>13
    <3>3. QED
      BY <3>1, <3>2
  <2>2. CASE s # Struck(survey)
    <3>1. PICK n \in 0..MaxStrikes : s = [survey EXCEPT !.board.strikes = n]
      BY <2>2
    <3>2. s = [survey EXCEPT !.board = [holder |-> survey.board.holder,
                                        strikes |-> n, window |-> w]]
      BY <1>1, <1>2, <1>3, <2>2, <3>1 DEF SurveyRecords, BoardRecords
    <3>3. QED
      BY <3>2
  <2>3. QED
    BY <2>1, <2>2
<1>5. PICK b : b = [holder |-> survey.board.holder, strikes |-> n, window |-> w]
  OBVIOUS
<1>6. w \in WindowsUpTo(TurnMs) /\ w.state # "frozen"
  BY <1>1, <1>2, <1>3, WindowKinds DEF BoardRecords, Unfrozen
<1>7. b \in BoardRecords /\ b.holder = survey.board.holder /\ b.window = w
  BY <1>2, <1>4, <1>5, <1>6 DEF BoardRecords
<1>8. s = [survey EXCEPT !.board = b]
  BY <1>4, <1>5
<1>9. s \in SurveyRecords
  BY <1>1, <1>7, <1>8 DEF SurveyRecords
<1>10. /\ s.no = survey.no /\ s.challenge = survey.challenge /\ s.progress = survey.progress
       /\ s.pair = survey.pair /\ s.faceoff = survey.faceoff /\ s.board = b
       /\ s.steal = survey.steal /\ s.winner = survey.winner /\ s.awarded = survey.awarded
       /\ s.revealed = survey.revealed /\ s.pot = survey.pot
  BY <1>1, <1>8 DEF SurveyRecords
<1>11. Unfrozen(s)
  BY <1>1, <1>6, <1>7, <1>10 DEF Unfrozen
<1>12. QED
  BY <1>1, <1>2, <1>7, <1>9, <1>10, <1>11 DEF StrikesCounted, SameSurvey

\* Short of the last strike the board stays where it is; at it the other team of
\* the matchup comes to steal.
LEMMA StrikesCount ==
    ASSUME SurveyInv, OnBoard, NEW s, StrikesCounted(s), ~(s.board.strikes >= MaxStrikes)
    PROVE  Plays(s) /\ Counts(s)
<1>1. StageFits(survey) /\ s.board \in BoardRecords
  BY DEF SurveyInv, Sound, StrikesCounted, SurveyRecords
<1>2. s.board.strikes \in 0..MaxStrikes - 1
  BY <1>1, WindowKinds DEF BoardRecords
<1>3. StageFits(s)
  BY <1>1, <1>2, WindowKinds DEF StrikesCounted, SameSurvey, StageFits
<1>4. QED
  BY <1>2, <1>3 DEF Plays, Sound, Counts, StrikesCounted

\* The last strike hands the steal to a team of the matchup that does not hold the board.
LEMMA StrikesHandOver ==
    ASSUME SurveyInv, MatchupInv, OnBoard,
           NEW s0, StrikesCounted(s0), s0.board.strikes >= MaxStrikes
    PROVE  Plays(HandedOver(s0)) /\ StrikesOut(HandedOver(s0))
<1>1. StageFits(survey) /\ s0 \in SurveyRecords /\ survey.progress = "board_play"
      /\ s0.board.holder = survey.board.holder /\ survey.board.holder \in Teams
  BY DEF SurveyInv, Sound, StrikesCounted
<1>2. contesting[1] # contesting[2]
  BY <1>1 DEF SurveyInv, MatchupInv, StageFits
<1>3. contesting[1] \in Teams /\ contesting[2] \in Teams
  BY <1>1 DEF SurveyInv, MatchupInv, StageFits
<1>4. PICK others : others = {i \in {1, 2} : contesting[i] # s0.board.holder}
  OBVIOUS
<1>5. others = {1} \/ others = {2} \/ others = {1, 2}
  BY <1>2, <1>4
<1>6. Min(others) \in others
  BY <1>5 DEF Min
<1>7. PICK thief : thief = contesting[Min(others)]
  OBVIOUS
<1>8. thief \in Teams \ {survey.board.holder}
  BY <1>1, <1>3, <1>4, <1>6, <1>7
<1>9. PICK st : st = FreshSteal(thief, "conferring")
  OBVIOUS
<1>10. st \in StealRecords /\ st.thief = thief /\ st.status = "conferring" /\ st.window = NoWindow
  BY <1>8, <1>9, WindowKinds DEF FreshSteal, StealRecords
<1>11. PICK s : s = HandedOver(s0)
  OBVIOUS
<1>12. s = [s0 EXCEPT !.progress = "steal", !.steal = st]
  BY <1>4, <1>7, <1>9, <1>11 DEF HandedOver
<1>13. s \in SurveyRecords
  BY <1>1, <1>10, <1>12 DEF SurveyRecords
<1>14. /\ s.no = s0.no /\ s.challenge = s0.challenge /\ s.progress = "steal"
       /\ s.pair = s0.pair /\ s.faceoff = s0.faceoff /\ s.board = s0.board
       /\ s.steal = st /\ s.winner = s0.winner /\ s.awarded = s0.awarded
       /\ s.revealed = s0.revealed /\ s.pot = s0.pot
  BY <1>1, <1>12 DEF SurveyRecords
<1>15. StageFits(s)
  BY <1>1, <1>8, <1>10, <1>14 DEF StageFits, StrikesCounted, SameSurvey
<1>16. Unfrozen(s)
  BY <1>10, <1>14, WindowKinds DEF StrikesCounted, Unfrozen
<1>17. Plays(s) /\ StrikesOut(s)
  BY <1>1, <1>8, <1>10, <1>13, <1>14, <1>15, <1>16
     DEF Plays, Sound, SameSurvey, StrikesOut, StrikesCounted
<1>18. QED
  BY <1>11, <1>17

\* An answer taken back takes its worth with it.
LEMMA TakenBackPlays ==
    ASSUME SurveyInv, Running, NEW r \in survey.revealed, NEW t \in survey.pair
    PROVE  Plays(TakenBack(r, t)) /\ SameHands(TakenBack(r, t))
<1>1. survey \in SurveyRecords /\ StageFits(survey) /\ survey.pot = Worth(survey.revealed)
  BY DEF SurveyInv, Sound
<1>2. survey.revealed \in SUBSET Ranks /\ r \in Ranks /\ t \in Teams /\ survey.pot \in Nat
      /\ survey.barred \in [Ranks -> Teams \cup {None}]
  BY <1>1 DEF SurveyRecords
<1>3. PICK left : left = survey.revealed \ {r}
  OBVIOUS
<1>4. PICK worth : worth = Worth(left)
  OBVIOUS
<1>5. worth \in Nat /\ Value[r] \in Nat /\ survey.pot = worth + Value[r]
  BY <1>1, <1>2, <1>3, <1>4, WorthFacts, Round4Assumption DEF Round4Assumption
<1>6. PICK barred : barred = [survey.barred EXCEPT ![r] = t]
  OBVIOUS
<1>7. barred \in [Ranks -> Teams \cup {None}]
  BY <1>2, <1>6
<1>8. PICK s : s = TakenBack(r, t)
  OBVIOUS
<1>9. (IF survey.pot < Value[r] THEN 0 ELSE survey.pot - Value[r]) = worth
  BY <1>5
<1>10. s = [survey EXCEPT !.revealed = left, !.barred = barred, !.pot = worth]
  BY <1>1, <1>3, <1>6, <1>8, <1>9 DEF TakenBack, SurveyRecords
<1>11. s \in SurveyRecords
  BY <1>1, <1>2, <1>3, <1>5, <1>7, <1>10 DEF SurveyRecords
<1>12. /\ s.no = survey.no /\ s.challenge = survey.challenge /\ s.progress = survey.progress
       /\ s.pair = survey.pair /\ s.faceoff = survey.faceoff /\ s.board = survey.board
       /\ s.steal = survey.steal /\ s.winner = survey.winner /\ s.awarded = survey.awarded
       /\ s.revealed = left /\ s.pot = worth
  BY <1>1, <1>10 DEF SurveyRecords
<1>13. StageFits(s)
  BY <1>1, <1>12 DEF StageFits
<1>14. Unfrozen(s)
  BY <1>12, RunningUnfrozen DEF Unfrozen
<1>15. Plays(s) /\ SameHands(s)
  BY <1>4, <1>11, <1>12, <1>13, <1>14 DEF Plays, Sound, SameSurvey, SameHands
<1>16. QED
  BY <1>8, <1>15

\* The steal's window, and its wager.
LEMMA StealPlays ==
    ASSUME SurveyInv, Running
    PROVE  /\ \A s : s = [survey EXCEPT !.steal.window = OpenWindow(ConferMs)]
                        => Plays(s) /\ SameHands(s)
           /\ survey.steal.status = "conferring" => Plays(WagerLocked) /\ SameHands(WagerLocked)
<1>1. survey \in SurveyRecords /\ StageFits(survey) /\ survey.pot = Worth(survey.revealed)
      /\ Unfrozen(survey)
  BY RunningUnfrozen DEF SurveyInv, Sound
<1>2. survey.steal \in StealRecords
  BY <1>1 DEF SurveyRecords
<1>3. ASSUME NEW st \in StealRecords, NEW s, s = [survey EXCEPT !.steal = st],
             st.window.state # "frozen", st.thief = survey.steal.thief,
             st.status \in {"conferring", "awaiting_answer"}
                 <=> survey.steal.status \in {"conferring", "awaiting_answer"}
      PROVE  Plays(s) /\ SameHands(s)
  <2>1. s \in SurveyRecords
    BY <1>1, <1>3 DEF SurveyRecords
  <2>2. /\ s.no = survey.no /\ s.challenge = survey.challenge /\ s.progress = survey.progress
        /\ s.pair = survey.pair /\ s.faceoff = survey.faceoff /\ s.board = survey.board
        /\ s.steal = st /\ s.winner = survey.winner /\ s.awarded = survey.awarded
        /\ s.revealed = survey.revealed /\ s.pot = survey.pot
    BY <1>1, <1>3 DEF SurveyRecords
  <2>3. StageFits(s)
    BY <1>1, <1>3, <2>2 DEF StageFits
  <2>4. QED
    BY <1>1, <1>3, <2>1, <2>2, <2>3 DEF Plays, Sound, SameSurvey, SameHands, Unfrozen
<1>4. ASSUME NEW s, s = [survey EXCEPT !.steal.window = OpenWindow(ConferMs)]
      PROVE  Plays(s) /\ SameHands(s)
  <2>1. PICK w : w = OpenWindow(ConferMs)
    OBVIOUS
  <2>2. w \in WindowsUpTo(ConferMs) /\ w.state # "frozen"
    BY <2>1, WindowKinds
  <2>3. PICK st : st = [survey.steal EXCEPT !.window = w]
    OBVIOUS
  <2>4. /\ st \in StealRecords /\ st.window = w /\ st.thief = survey.steal.thief
        /\ st.status = survey.steal.status
    BY <1>2, <2>2, <2>3 DEF StealRecords
  <2>5. s = [survey EXCEPT !.steal = st]
    BY <1>1, <1>4, <2>1, <2>3 DEF SurveyRecords
  <2>6. QED
    BY <1>3, <2>2, <2>4, <2>5
<1>5. ASSUME survey.steal.status = "conferring"
      PROVE  Plays(WagerLocked) /\ SameHands(WagerLocked)
  <2>1. PICK st : st = [survey.steal EXCEPT !.status = "awaiting_answer", !.wager = TRUE]
    OBVIOUS
  <2>2. /\ st \in StealRecords /\ st.window = survey.steal.window
        /\ st.thief = survey.steal.thief /\ st.status = "awaiting_answer"
    BY <1>2, <2>1 DEF StealRecords
  <2>3. WagerLocked = [survey EXCEPT !.steal = st]
    BY <1>1, <2>1 DEF WagerLocked, SurveyRecords
  <2>4. QED
    BY <1>1, <1>3, <1>5, <2>2, <2>3 DEF Unfrozen
<1>6. QED
  BY <1>4, <1>5

\* What is settled: the board cleared by its holder, or the steal.
Settles(s) ==
    /\ s \in SurveyRecords /\ s.pot = Worth(s.revealed) /\ Unfrozen(s) /\ SameSurvey(s)
    /\ s.faceoff.status # "reading" => s.faceoff.buzzed \in s.pair
    /\ s.faceoff.winner \in s.pair \cup {None}
    /\ s.steal.status \notin {"conferring", "awaiting_answer"}
    /\ s.steal.thief = survey.steal.thief
    /\ s.board.holder = survey.board.holder /\ s.board.strikes = survey.board.strikes

\* An answer shown leaves the board such that it can be settled.
LEMMA ClearedSettles ==
    ASSUME SurveyInv, OnBoard, NEW r
    PROVE  Settles(Revealed(r))
<1>1. PICK s : s = Revealed(r)
  OBVIOUS
<1>2. Plays(s) /\ SameHands(s) /\ survey.progress = "board_play"
  BY <1>1, TurnPlays DEF OnBoard
<1>3. s.no # 0 /\ s.progress = "board_play" /\ StageFits(s)
  BY <1>2 DEF Plays, Sound, SameHands, StageFits
<1>4. Settles(s)
  BY <1>2, <1>3 DEF Plays, Sound, SameHands, StageFits, Settles
<1>5. QED
  BY <1>1, <1>4

\* So does a steal that is over.
LEMMA StealSettles ==
    ASSUME SurveyInv, Running, survey.progress = "steal"
    PROVE  Settles(StealOver)
<1>1. survey \in SurveyRecords /\ StageFits(survey) /\ survey.pot = Worth(survey.revealed)
      /\ Unfrozen(survey)
  BY RunningUnfrozen DEF SurveyInv, Sound
<1>2. survey.steal \in StealRecords /\ survey.no # 0
  BY <1>1 DEF SurveyRecords, StageFits
<1>3. PICK st : st = [survey.steal EXCEPT !.status = "resolved", !.window = NoWindow]
  OBVIOUS
<1>4. /\ st \in StealRecords /\ st.window = NoWindow /\ st.thief = survey.steal.thief
      /\ st.status = "resolved"
  BY <1>2, <1>3, WindowKinds DEF StealRecords
<1>5. PICK s : s = StealOver
  OBVIOUS
<1>6. s = [survey EXCEPT !.steal = st]
  BY <1>1, <1>3, <1>5 DEF StealOver, SurveyRecords
<1>7. s \in SurveyRecords
  BY <1>1, <1>4, <1>6 DEF SurveyRecords
<1>8. /\ s.no = survey.no /\ s.challenge = survey.challenge /\ s.progress = survey.progress
      /\ s.pair = survey.pair /\ s.faceoff = survey.faceoff /\ s.board = survey.board
      /\ s.steal = st /\ s.winner = survey.winner /\ s.awarded = survey.awarded
      /\ s.revealed = survey.revealed /\ s.pot = survey.pot
  BY <1>1, <1>6 DEF SurveyRecords
<1>9. Settles(s)
  BY <1>1, <1>2, <1>4, <1>7, <1>8, WindowKinds
     DEF Settles, Unfrozen, SameSurvey, StageFits
<1>10. QED
  BY <1>5, <1>9

\* The survey that results.
LEMMA ResolvedFacts ==
    ASSUME SurveyInv, survey.progress \in {"board_play", "steal"},
           NEW s, Settles(s), NEW w \in Teams, NEW u, u = Resolved(s, w)
    PROVE  /\ Sound(u) /\ Unfrozen(u)
           /\ u.no = survey.no /\ u.challenge = survey.challenge /\ u.progress = "resolved"
           /\ u.winner = w /\ u.awarded = Award(s) /\ Award(s) \in Nat
           /\ u.board.holder = survey.board.holder /\ u.board.strikes = survey.board.strikes
           /\ u.steal.thief = survey.steal.thief
<1>1. StageFits(survey) /\ s \in SurveyRecords
  BY DEF SurveyInv, Sound, Settles
<1>2. PICK a : a = Award(s)
  OBVIOUS
<1>3. a \in Nat
  <2>1. s.pot \in Nat
    BY <1>1 DEF SurveyRecords
  <2>2. QED
    BY <1>2, <2>1 DEF Award
<1>4. u = [s EXCEPT !.progress = "resolved", !.winner = w, !.awarded = a]
  BY <1>2 DEF Resolved
<1>5. u \in SurveyRecords
  BY <1>1, <1>3, <1>4 DEF SurveyRecords
<1>6. /\ u.no = s.no /\ u.challenge = s.challenge /\ u.progress = "resolved"
      /\ u.pair = s.pair /\ u.faceoff = s.faceoff /\ u.board = s.board
      /\ u.steal = s.steal /\ u.winner = w /\ u.awarded = a
      /\ u.revealed = s.revealed /\ u.pot = s.pot
  BY <1>1, <1>4 DEF SurveyRecords
<1>7. survey.no # 0 /\ survey.board.holder \in Teams
  BY <1>1 DEF StageFits
<1>8. StageFits(u)
  BY <1>1, <1>6, <1>7 DEF StageFits, Settles, SameSurvey
<1>9. QED
  BY <1>2, <1>3, <1>5, <1>6, <1>8 DEF Settles, SameSurvey, Sound, Unfrozen

-----------------------------------------------------------------------------
(* Every step keeps what the round keeps to.                               *)

\* A step that plays the survey on.
PlaysOn ==
    /\ Running /\ Plays(survey')
    /\ \/ UNCHANGED active /\ (SameHands(survey') \/ Counts(survey'))
       \/ active' = ActiveFor(survey') /\ (TakesBoard(survey') \/ StrikesOut(survey'))
    /\ UNCHANGED <<now, flowVars, members, challenge, settlements, turn, pausedBy, timerVars>>
    /\ UNCHANGED <<matchupVars, dealt, paid, owed>>

\* A survey waits for its own teams.
LEMMA RequiredAreTeams ==
    ASSUME NEW s, Sound(s)
    PROVE  Required(s) \subseteq Teams
<1>1. s \in SurveyRecords /\ StageFits(s)
  BY DEF Sound
<1>2. s.pair \subseteq Teams
  BY <1>1 DEF SurveyRecords
<1>3. QED
  BY <1>1, <1>2 DEF Required, StageFits

\* Only members of its teams are ever waited for.
LEMMA ActiveAreMembers ==
    ASSUME NEW s, Sound(s)
    PROVE  ActiveFor(s) \subseteq UNION {members[t] : t \in Teams}
  BY RequiredAreTeams DEF ActiveFor, MembersOfTeams

\* A running game is in no phase to come back to.
LEMMA RunningFlow ==
    ASSUME FlowInv, Running, UNCHANGED flowVars
    PROVE  /\ phase' \in Phases \ {"PAUSED"} /\ resumePhase' = NoPhase
           /\ ~Paused /\ ~Paused'
  BY DEF FlowInv, TypeOK, PauseShape, Running, Paused, flowVars

\* Playing a survey on leaves the game sound and running.
LEMMA PlaysOnKeepsFlow ==
    ASSUME FlowInv, SurveyInv, PlaysOn
    PROVE  FlowInv' /\ ~Paused /\ ~Paused'
<1>1. active' \subseteq UNION {members[t] : t \in Teams}
  <2>1. CASE UNCHANGED active
    BY <2>1 DEF FlowInv, WaitsOnlyOnMembers
  <2>2. CASE active' = ActiveFor(survey')
    BY <2>2, ActiveAreMembers DEF PlaysOn, Plays
  <2>3. QED
    BY <2>1, <2>2 DEF PlaysOn
<1>2. QED
  BY <1>1, RunningFlow, MovedGameKeepsFlow DEF PlaysOn, flowVars

\* What the entries of a ledger are.
LEMMA PaidFacts ==
    ASSUME SurveyInv
    PROVE  /\ survey.no \in Nat /\ survey.challenge \in Nat /\ survey.awarded \in Nat
           /\ survey.progress = "resolved" => survey.no # 0 /\ survey.challenge # 0
           /\ Len(paid) \in Nat /\ DOMAIN paid = 1..Len(paid)
           /\ \A i \in DOMAIN paid : /\ paid[i].survey \in Nat /\ paid[i].challenge \in Nat
                                    /\ paid[i].challenge \in 1..MaxChallenges
<1>1. survey \in SurveyRecords /\ StageFits(survey) /\ paid \in Seq(PaidRecords)
  BY DEF SurveyInv, Sound, PaidInv
<1>2. MaxChallenges \in Nat
  BY GameFlowAssumption DEF GameFlowAssumption
<1>3. ASSUME NEW i \in DOMAIN paid PROVE paid[i] \in PaidRecords
  BY <1>1, <1>3
<1>4. QED
  BY <1>1, <1>2, <1>3 DEF SurveyRecords, StageFits, PaidRecords

\* Nothing is paid by a step that leaves who won what alone.
LEMMA PaidStays ==
    ASSUME FlowInv, SurveyInv, GoesOn, paid' = paid, gated \subseteq gated', SameSurvey(survey'),
           survey'.progress = "resolved" <=> survey.progress = "resolved"
    PROVE  PaidInv'
<1>1. /\ survey'.no = survey.no /\ survey'.challenge = survey.challenge
      /\ survey'.winner = survey.winner /\ survey'.awarded = survey.awarded
  BY DEF SameSurvey
<1>2. PaidInv
  BY DEF SurveyInv
<1>3. MaxChallenges \in Nat /\ challenge.id \in Nat /\ challenge'.id \in Nat
      /\ challenge'.id >= challenge.id /\ challenge.id <= MaxChallenges
  BY GameFlowAssumption DEF GameFlowAssumption, GoesOn, FlowInv, TypeOK
<1>4. ASSUME NEW c \in 1..MaxChallenges, settlements[c] > 0 PROVE settlements'[c] > 0
  BY <1>4 DEF GoesOn, FlowInv, TypeOK
<1>5. \A i \in DOMAIN paid : paid[i].survey <= survey.no /\ paid[i].challenge <= challenge'.id
  BY <1>2, <1>3, PaidFacts DEF PaidInv
<1>6. PaidOnce'
  BY <1>2, <1>4, PaidFacts DEF PaidInv, PaidOnce
<1>7. PaidToWinner'
  BY <1>1, <1>2 DEF PaidInv, PaidToWinner
<1>8. LostToAnotherResult'
  <2>1. SUFFICES ASSUME survey.progress = "resolved",
                        \A i \in DOMAIN paid : paid[i].survey # survey.no
                 PROVE  /\ settlements'[survey.challenge] > 0
                        /\ \A i \in DOMAIN paid : paid[i].challenge # survey.challenge
    BY <1>1 DEF LostToAnotherResult
  <2>2. settlements[survey.challenge] > 0 /\ \A i \in DOMAIN paid : paid[i].challenge # survey.challenge
    BY <1>2, <2>1 DEF PaidInv, LostToAnotherResult
  <2>3. survey.challenge \in 1..MaxChallenges
    BY <1>3, <2>1, PaidFacts DEF SurveyInv
  <2>4. QED
    BY <1>4, <2>2, <2>3
<1>9. QED
  BY <1>1, <1>2, <1>5, <1>6, <1>7, <1>8 DEF PaidInv

\* Playing a survey on keeps the survey's part of the invariant, and nobody's wins move.
LEMMA PlaysOnKeepsSurvey ==
    ASSUME FlowInv, SurveyInv, WinsInv, PlaysOn
    PROVE  SurveyInv' /\ WinsInv'
<1>p. FlowInv' /\ ~Paused'
  BY PlaysOnKeepsFlow
<1>s. PICK s : s = survey'
  OBVIOUS
<1>1. Sound(s) /\ Unfrozen(s) /\ SameSurvey(s)
  BY <1>s DEF PlaysOn, Plays
<1>2. /\ stage' = stage /\ wins' = wins /\ dealt' = dealt /\ paid' = paid
      /\ challenge' = challenge /\ settlements' = settlements /\ members' = members
  BY DEF PlaysOn, matchupVars
<1>3. Sound(survey)'
  BY <1>1, <1>s
<1>4. WindowsFollowPause'
  BY <1>1, <1>s, <1>p DEF WindowsFollowPause, FollowsPause, Unfrozen
<1>5. InPlay(s) <=> InPlay(survey)
  BY <1>s DEF PlaysOn, InPlay, SameHands, Counts, TakesBoard, StrikesOut
<1>6. PaidInv'
  <2>1. s.progress = "resolved" <=> survey.progress = "resolved"
    BY <1>s DEF PlaysOn, InPlay, SameHands, Counts, TakesBoard, StrikesOut
  <2>2. GoesOn
    BY <1>2, <1>p DEF GoesOn, FlowInv, TypeOK
  <2>3. gated' = gated
    BY DEF PlaysOn, matchupVars
  <2>4. QED
    BY <1>1, <1>2, <1>s, <2>1, <2>2, <2>3, PaidStays
<1>7. PlayingTeamsAwaited'
  <2>1. s.progress = "resolved" <=> survey.progress = "resolved"
    BY <1>s DEF PlaysOn, InPlay, SameHands, Counts, TakesBoard, StrikesOut
  <2>2. CASE UNCHANGED active /\ (SameHands(s) \/ Counts(s))
    <3>1. Required(s) = Required(survey)
      BY <1>1, <2>2 DEF Required, SameHands, Counts, SameSurvey
    <3>2. QED
      BY <1>1, <1>2, <1>s, <2>1, <2>2, <3>1
         DEF SurveyInv, PlayingTeamsAwaited, MembersOfTeams, SameSurvey
  <2>3. CASE active' = ActiveFor(s)
    BY <1>2, <1>s, <2>3 DEF PlayingTeamsAwaited, MembersOfTeams, ActiveFor
  <2>4. QED
    BY <1>s, <2>2, <2>3 DEF PlaysOn
<1>8. SurveyInv'
  BY <1>1, <1>2, <1>3, <1>4, <1>6, <1>7, <1>s DEF SurveyInv, SameSurvey
<1>9. WinsInv'
  BY <1>2, <1>5, <1>s DEF WinsInv
<1>10. QED
  BY <1>8, <1>9

\* Where a step leaves the game's flow to the engine.
LEMMA GameStepFacts ==
    ASSUME FlowInv, PlainStep \/ UNCHANGED vars
    PROVE  GoesOn /\ (Paused' <=> Paused)
<1>t. TypeOK
  BY DEF FlowInv
<1>1. [Next]_vars /\ (Paused' <=> Paused)
  BY <1>t, PlainStepFacts DEF vars, flowVars, Paused
<1>2. QED
  BY <1>1, <1>t, NextFlow, NothingIsTakenBack DEF GoesOn

\* The challenge of a survey past is settled wherever no challenge is open.
LEMMA ClosedIsSettled ==
    ASSUME FlowInv, SurveyInv, NoOpenChallenge, survey.no > 0
    PROVE  settlements[survey.challenge] > 0
<1>1. survey \in SurveyRecords /\ StageFits(survey)
  BY DEF SurveyInv, Sound
<1>2. survey.challenge \in Nat \ {0} /\ survey.challenge <= challenge.id
  BY <1>1 DEF SurveyRecords, StageFits, SurveyInv
<1>3. challenge.id \in 1..MaxChallenges
  BY <1>2, GameFlowAssumption DEF FlowInv, TypeOK, GameFlowAssumption
<1>4. challenge.status = "resolved" /\ survey.challenge \in 1..MaxChallenges
  BY <1>2, <1>3, GameFlowAssumption
     DEF FlowInv, SettledInOrder, NoOpenChallenge, GameFlowAssumption
<1>5. QED
  BY <1>2, <1>3, <1>4 DEF FlowInv, SettledInOrder

\* The survey pays once: what it paid comes after all that was paid, and goes to its
\* winner; or its challenge had its result before, which no survey was paid through.
LEMMA SettlePays ==
    ASSUME FlowInv, SurveyInv, GoesOn, survey.progress \in {"board_play", "steal"},
           NEW s, Settles(s), NEW w \in Teams, SettleSurvey(s, w)
    PROVE  PaidInv'
<1>1. PICK u : u = survey'
  OBVIOUS
<1>2. /\ u.no = survey.no /\ u.challenge = survey.challenge /\ u.progress = "resolved"
      /\ u.winner = w /\ u.awarded = Award(s) /\ Award(s) \in Nat
  BY <1>1, ResolvedFacts DEF SettleSurvey
<1>3. /\ survey.no # 0 /\ survey.challenge # 0 /\ survey.challenge <= challenge.id
      /\ MaxChallenges \in Nat /\ challenge.id \in Nat /\ challenge.id <= MaxChallenges
      /\ challenge'.id \in Nat /\ challenge'.id >= challenge.id
  BY GameFlowAssumption DEF SurveyInv, Sound, StageFits, GameFlowAssumption, GoesOn, FlowInv, TypeOK
<1>4. paid \in Seq(PaidRecords) /\ PaidOnce /\ PaidToWinner
  BY DEF SurveyInv, PaidInv
<1>5. ASSUME NEW i \in DOMAIN paid
      PROVE  paid[i].survey < survey.no /\ paid[i].challenge < survey.challenge
  <2>1. paid[i].survey # survey.no
    BY <1>4, <1>5 DEF PaidToWinner
  <2>2. paid[i].survey < survey.no
    BY <1>5, <2>1, PaidFacts DEF SurveyInv, PaidInv
  <2>3. QED
    BY <1>5, <2>2 DEF SurveyInv, PaidInv
<1>6. ASSUME NEW c \in 1..MaxChallenges, settlements[c] > 0 PROVE settlements'[c] > 0
  BY <1>6 DEF GoesOn, FlowInv, TypeOK
<1>7. CASE challenge.status \in {"none", "resolved"}
  <2>1. paid' = paid
    BY <1>7 DEF SettleSurvey
  <2>2. settlements[survey.challenge] > 0
    <3>1. NoOpenChallenge /\ survey.no > 0
      BY <1>3, <1>7, PaidFacts DEF NoOpenChallenge
    <3>2. QED
      BY <3>1, ClosedIsSettled
  <2>3. survey.challenge \in 1..MaxChallenges
    BY <1>3, PaidFacts
  <2>4. settlements'[survey.challenge] > 0
    BY <1>6, <2>2, <2>3
  <2>5. LostToAnotherResult'
    BY <1>1, <1>2, <1>5, <2>1, <2>4, PaidFacts DEF LostToAnotherResult
  <2>6. PaidToWinner'
    BY <1>1, <1>2, <1>5, <2>1, PaidFacts DEF PaidToWinner
  <2>7. PaidOnce'
    BY <1>4, <1>6, <2>1, PaidFacts DEF PaidOnce
  <2>8. \A i \in DOMAIN paid : /\ paid[i].survey <= survey.no /\ paid[i].challenge <= challenge'.id
                              /\ paid[i].challenge < survey.challenge
    BY <1>3, <1>5, PaidFacts
  <2>9. QED
    BY <1>1, <1>2, <1>4, <2>1, <2>5, <2>6, <2>7, <2>8 DEF PaidInv
<1>8. CASE challenge.status \notin {"none", "resolved"}
  <2>1. PICK e : e = Entry(s, w)
    OBVIOUS
  <2>2. ResolveChallenge /\ paid' = Append(paid, e) /\ gated' = gated
    BY <1>8, <2>1 DEF SettleSurvey
  <2>3. s.no = survey.no
    BY DEF Settles, SameSurvey
  <2>4. /\ e.survey = survey.no /\ e.challenge = challenge.id /\ e.team = w
        /\ e.amount = Payout(s, w)
    BY <2>1, <2>3 DEF Entry
  <2>5. Payout(s, w) \in Nat /\ (Payout(s, w) = Award(s) \/ (Payout(s, w) = 0 /\ w \in gated))
    BY <1>2 DEF Payout
  <2>6. challenge.id \in 1..MaxChallenges
    BY <1>3, PaidFacts
  <2>7. e \in PaidRecords
    BY <2>1, <2>3, <2>5, <2>6, PaidFacts DEF Entry, PaidRecords
  <2>8. challenge'.id = challenge.id /\ settlements'[challenge.id] > 0
    BY <2>2, <2>6, ResolveSettles DEF FlowInv, TypeOK
  <2>9. PICK n \in Nat : n = Len(paid)
    BY <1>4
  <2>10. /\ paid' \in Seq(PaidRecords) /\ DOMAIN paid = 1..n /\ DOMAIN paid' = 1..(n + 1)
         /\ paid'[n + 1] = e /\ \A i \in 1..n : paid'[i] = paid[i]
    BY <1>4, <2>2, <2>7, <2>9
  <2>11. \A i \in 1..n : /\ paid[i].survey < survey.no /\ paid[i].challenge < survey.challenge
                         /\ paid[i].survey \in Nat /\ paid[i].challenge \in 1..MaxChallenges
                         /\ settlements[paid[i].challenge] > 0
    BY <1>4, <1>5, <2>10, PaidFacts DEF PaidOnce
  <2>12. PaidOnce'
    <3>1. ASSUME NEW i \in DOMAIN paid', NEW j \in DOMAIN paid', i < j
          PROVE  paid'[i].survey < paid'[j].survey /\ paid'[i].challenge < paid'[j].challenge
      <4>1. CASE j = n + 1
        BY <1>3, <2>4, <2>10, <2>11, <3>1, <4>1, PaidFacts
      <4>2. CASE j # n + 1
        BY <1>4, <2>10, <3>1, <4>2 DEF PaidOnce
      <4>3. QED
        BY <4>1, <4>2
    <3>2. ASSUME NEW i \in DOMAIN paid' PROVE settlements'[paid'[i].challenge] > 0
      <4>1. CASE i = n + 1
        BY <2>4, <2>8, <2>10, <4>1
      <4>2. CASE i # n + 1
        BY <1>6, <2>10, <2>11, <3>2, <4>2
      <4>3. QED
        BY <4>1, <4>2
    <3>3. QED
      BY <3>1, <3>2 DEF PaidOnce
  <2>13. PaidToWinner'
    <3>1. ASSUME NEW i \in DOMAIN paid', paid'[i].survey = u.no PROVE i = n + 1
      BY <1>2, <2>10, <2>11, <3>1, PaidFacts
    <3>2. e.challenge >= u.challenge
      BY <1>2, <1>3, <2>4, PaidFacts
    <3>3. e.amount # u.awarded => e.amount = 0 /\ u.winner \in gated'
      BY <1>2, <2>2, <2>4, <2>5
    <3>4. QED
      BY <1>1, <1>2, <2>4, <2>10, <3>1, <3>2, <3>3 DEF PaidToWinner
  <2>14. LostToAnotherResult'
    BY <1>1, <1>2, <2>4, <2>10 DEF LostToAnotherResult
  <2>15. ASSUME NEW i \in DOMAIN paid'
         PROVE  /\ paid'[i].survey <= u.no /\ paid'[i].challenge <= challenge'.id
                /\ paid'[i].survey < u.no => paid'[i].challenge < u.challenge
    <3>1. CASE i = n + 1
      BY <1>2, <1>3, <2>4, <2>8, <2>10, <3>1, PaidFacts
    <3>2. CASE i # n + 1
      BY <1>2, <1>3, <2>8, <2>10, <2>11, <2>15, <3>2, PaidFacts
    <3>3. QED
      BY <3>1, <3>2
  <2>16. QED
    BY <1>1, <2>10, <2>12, <2>13, <2>14, <2>15 DEF PaidInv
<1>9. QED
  BY <1>7, <1>8

\* A survey is won once: its winner is one survey up, it pays or had its challenge
\* taken, and nobody is waited for.
LEMMA SettleKeeps ==
    ASSUME FlowInv, SurveyInv, WinsInv, Running, survey.progress \in {"board_play", "steal"},
           NEW s, Settles(s), NEW w \in Teams, SettleSurvey(s, w)
    PROVE  GoesOn /\ SurveyInv' /\ WinsInv'
<1>1. PlainStep \/ UNCHANGED vars
  BY DEF SettleSurvey, PlainStep
<1>2. GoesOn /\ ~Paused'
  BY <1>1, GameStepFacts DEF Running
<1>3. PICK u : u = survey'
  OBVIOUS
<1>4. /\ Sound(u) /\ Unfrozen(u)
      /\ u.no = survey.no /\ u.challenge = survey.challenge /\ u.progress = "resolved"
      /\ u.awarded = Award(s) /\ Award(s) \in Nat
  BY <1>3, ResolvedFacts DEF SettleSurvey
<1>5. /\ dealt' = dealt /\ stage' = stage
      /\ wins' = [wins EXCEPT ![w] = @ + 1]
  BY DEF SettleSurvey
<1>6. survey.challenge \in Nat /\ survey.challenge <= challenge.id
  BY PaidFacts DEF SurveyInv
<1>7. PaidInv'
  BY <1>2, SettlePays
<1>8. PlayingTeamsAwaited'
  BY <1>3, <1>4 DEF PlayingTeamsAwaited
<1>9. WindowsFollowPause'
  BY <1>2, <1>3, <1>4 DEF WindowsFollowPause, FollowsPause, Unfrozen
<1>10. survey'.challenge <= challenge'.id
  <2>1. challenge.id \in Nat /\ challenge'.id \in Nat /\ challenge'.id >= challenge.id
    BY <1>2 DEF GoesOn, FlowInv, TypeOK
  <2>2. QED
    BY <1>3, <1>4, <1>6, <2>1
<1>11. SurveyInv'
  BY <1>3, <1>4, <1>5, <1>7, <1>8, <1>9, <1>10 DEF SurveyInv
<1>12. WinsInv'
  <2>1. wins \in [Teams -> Nat] /\ \A t \in Teams : wins[t] < dealt
    BY DEF WinsInv, InPlay
  <2>2. wins' \in [Teams -> Nat] /\ \A t \in Teams : wins'[t] <= dealt
    BY <1>5, <2>1 DEF SurveyInv
  <2>3. ~InPlay(survey')
    BY <1>3, <1>4 DEF InPlay
  <2>4. QED
    BY <1>5, <2>2, <2>3 DEF WinsInv
<1>13. QED
  BY <1>2, <1>11, <1>12

\* A step that leaves the survey alone.
LEMMA SurveyStays ==
    ASSUME FlowInv, SurveyInv, WinsInv, GoesOn, UNCHANGED <<survey, paid>>,
           gated \subseteq gated', dealt' \in 0..Surveys, dealt' >= dealt, stage # "none" => stage' # "none",
           Paused' <=> Paused, PlayingTeamsAwaited',
           wins' = wins \/ wins' = [t \in Teams |-> 0]
    PROVE  SurveyInv' /\ WinsInv'
<1>1. survey \in SurveyRecords /\ StageFits(survey) /\ Sound(survey)'
  BY DEF SurveyInv, Sound, StageFits
<1>2. /\ survey.no \in Nat /\ survey.challenge \in Nat /\ dealt \in Nat /\ dealt' \in Nat
      /\ challenge.id \in 0..MaxChallenges /\ challenge'.id \in 0..MaxChallenges
      /\ challenge'.id >= challenge.id
  BY <1>1, GameFlowAssumption, Round4Assumption
     DEF SurveyRecords, SurveyInv, GoesOn, FlowInv, TypeOK, GameFlowAssumption, Round4Assumption
<1>3. survey.no <= dealt' /\ survey.challenge <= challenge'.id
  BY <1>2 DEF SurveyInv
<1>4. WindowsFollowPause'
  BY DEF SurveyInv, WindowsFollowPause, FollowsPause
<1>5. PaidInv'
  BY PaidStays DEF SameSurvey
<1>6. SurveyInv'
  BY <1>1, <1>3, <1>4, <1>5 DEF SurveyInv
<1>7. WinsInv'
  <2>1. InPlay(survey) => dealt' > 0
    BY <1>1, <1>2, <1>3 DEF InPlay, StageFits
  <2>2. wins \in [Teams -> Nat] /\ wins' \in [Teams -> Nat]
    BY DEF WinsInv
  <2>3. QED
    BY <1>2, <2>1, <2>2 DEF WinsInv, InPlay
<1>8. QED
  BY <1>6, <1>7

\* A new survey begins with nothing shown, nobody ahead and its own challenge.
LEMMA NewSurveyFacts ==
    ASSUME NEW no \in Nat \ {0}, NEW ch \in Nat \ {0}, NEW a \in Teams, NEW b \in Teams, a # b,
           NEW s, s = NewSurvey(no, ch, "faceoff", {a, b})
    PROVE  /\ Sound(s) /\ Unfrozen(s)
           /\ s.no = no /\ s.challenge = ch /\ s.progress = "faceoff" /\ s.pair = {a, b}
           /\ s.board.holder = None /\ s.board.strikes = 0 /\ s.steal.thief = None
           /\ s.winner = None
<1>1. PICK f : f = FreshFaceoff
  OBVIOUS
<1>2. /\ f \in FaceoffRecords /\ f.status = "reading" /\ f.winner = None /\ f.window = NoWindow
  BY <1>1, WindowKinds DEF FreshFaceoff, FaceoffRecords, NoMatch
<1>3. PICK h : h = FreshBoard(None)
  OBVIOUS
<1>4. h \in BoardRecords /\ h.holder = None /\ h.strikes = 0 /\ h.window = NoWindow
  BY <1>3, WindowKinds DEF FreshBoard, BoardRecords
<1>5. PICK st : st = FreshSteal(None, "none")
  OBVIOUS
<1>6. st \in StealRecords /\ st.thief = None /\ st.status = "none" /\ st.window = NoWindow
  BY <1>5, WindowKinds DEF FreshSteal, StealRecords
<1>7. PICK barred : barred = [r \in Ranks |-> None]
  OBVIOUS
<1>8. barred \in [Ranks -> Teams \cup {None}]
  BY <1>7
<1>9. s = [no |-> no, challenge |-> ch, progress |-> "faceoff", pair |-> {a, b},
           revealed |-> {}, barred |-> barred, pot |-> 0, faceoff |-> f, board |-> h,
           steal |-> st, winner |-> None, awarded |-> 0]
  BY <1>1, <1>3, <1>5, <1>7 DEF NewSurvey
<1>10. s \in SurveyRecords
  BY <1>2, <1>4, <1>6, <1>8, <1>9 DEF SurveyRecords
<1>11. /\ s.no = no /\ s.challenge = ch /\ s.progress = "faceoff" /\ s.pair = {a, b}
       /\ s.revealed = {} /\ s.pot = 0 /\ s.faceoff = f /\ s.board = h /\ s.steal = st
       /\ s.winner = None /\ s.awarded = 0
  BY <1>9
<1>12. s.pot = Worth(s.revealed)
  BY <1>11, WorthFacts
<1>13. StageFits(s)
  BY <1>2, <1>4, <1>6, <1>11, WindowKinds DEF StageFits
<1>14. Unfrozen(s)
  BY <1>2, <1>4, <1>6, <1>11, WindowKinds DEF Unfrozen
<1>15. QED
  BY <1>4, <1>6, <1>10, <1>11, <1>12, <1>13, <1>14 DEF Sound

\* The next survey, or a challenge the round then refuses.
LEMMA StartKeeps ==
    ASSUME FlowInv, SurveyInv, MatchupInv, WinsInv, StartFaceoff
    PROVE  GoesOn /\ SurveyInv' /\ WinsInv' /\ ~Paused /\ ~Paused'
<1>1. PreparesAndStarts /\ UNCHANGED matchupVars
  BY DEF StartFaceoff, StartSurvey
<1>2. /\ contesting[1] \in Teams /\ contesting[2] \in Teams /\ contesting[1] # contesting[2]
      /\ stage # "none"
  BY DEF StartFaceoff, MatchupInv
<1>3. dealt \in Nat /\ dealt' = dealt + 1 /\ dealt' \in 0..Surveys
  BY Round4Assumption DEF StartFaceoff, TakeSurvey, SurveyInv, Round4Assumption
<1>4. challenge.id \in Nat
  BY GameFlowAssumption DEF FlowInv, TypeOK, GameFlowAssumption
<1>5. PICK id : id = challenge'.id
  OBVIOUS
<1>6. id = challenge.id + 1
  BY <1>1, <1>5 DEF PreparesAndStarts
<1>7. PICK s : s = NewSurvey(dealt', id, "faceoff", {contesting[1], contesting[2]})
  OBVIOUS
<1>8. /\ Sound(s) /\ Unfrozen(s)
      /\ s.no = dealt' /\ s.challenge = id /\ s.progress = "faceoff"
  <2>1. dealt' \in Nat \ {0} /\ id \in Nat \ {0}
    BY <1>3, <1>4, <1>6
  <2>2. QED
    BY <1>2, <1>7, <2>1, NewSurveyFacts
<1>9. CASE BetweenSurveys
  <2>1. survey' = s /\ active' = ActiveFor(s) /\ paid' = paid
    BY <1>5, <1>7, <1>9 DEF StartFaceoff, StartSurvey
  <2>2. GoesOn /\ ~Paused /\ ~Paused'
    BY <1>1, <1>8, <2>1, ActiveAreMembers, StartedGameKeepsFlow
  <2>3. members' = members /\ wins' = wins /\ stage' = stage
    BY <1>1 DEF PreparesAndStarts, matchupVars
  <2>4. WindowsFollowPause'
    BY <1>8, <2>1, <2>2 DEF WindowsFollowPause, FollowsPause, Unfrozen
  <2>5. PaidInv'
    <3>1. settlements' = settlements /\ PaidInv /\ survey.no <= dealt
      BY <1>1 DEF PreparesAndStarts, SurveyInv
    <3>2. \A i \in DOMAIN paid : /\ paid[i].survey < s.no /\ paid[i].challenge < s.challenge
                                /\ paid[i].challenge <= id
      BY <1>3, <1>4, <1>6, <1>8, <3>1, PaidFacts DEF PaidInv
    <3>3. PaidOnce'
      BY <2>1, <3>1 DEF PaidInv, PaidOnce
    <3>4. PaidToWinner' /\ LostToAnotherResult'
      BY <1>8, <2>1, <3>2, PaidFacts DEF PaidToWinner, LostToAnotherResult
    <3>5. QED
      BY <1>3, <1>5, <1>8, <2>1, <3>1, <3>2, <3>3, <3>4, PaidFacts DEF PaidInv
  <2>6. PlayingTeamsAwaited'
    BY <2>1, <2>3 DEF PlayingTeamsAwaited, ActiveFor, MembersOfTeams
  <2>7. Sound(survey)'
    BY <1>8, <2>1
  <2>8. SurveyInv'
    BY <1>2, <1>3, <1>4, <1>5, <1>6, <1>8, <2>1, <2>3, <2>4, <2>5, <2>6, <2>7 DEF SurveyInv
  <2>9. WinsInv'
    BY <1>3, <2>1, <2>3 DEF WinsInv
  <2>10. QED
    BY <2>2, <2>8, <2>9
<1>10. CASE ~BetweenSurveys
  <2>1. active' = {} /\ UNCHANGED <<survey, paid, gated>>
    BY <1>1, <1>10 DEF StartFaceoff, StartSurvey, matchupVars
  <2>2. GoesOn /\ ~Paused /\ ~Paused'
    BY <1>1, <2>1, StartedGameKeepsFlow
  <2>3. PlayingTeamsAwaited'
    <3>1. survey.no > 0 => settlements[survey.challenge] > 0
      BY <1>1, ClosedIsSettled DEF PreparesAndStarts
    <3>2. settlements' = settlements
      BY <1>1 DEF PreparesAndStarts
    <3>3. QED
      BY <2>1, <3>1, <3>2 DEF PlayingTeamsAwaited
  <2>4. stage' = stage /\ wins' = wins
    BY <1>1 DEF matchupVars
  <2>5. QED
    BY <1>3, <2>1, <2>2, <2>3, <2>4, SurveyStays
<1>11. QED
  BY <1>9, <1>10

\* What the engine does around the survey never leaves a player it waits for out.
LEMMA AwaitedStay ==
    ASSUME FlowInv, SurveyInv, UNCHANGED survey,
           \/ HostMoves
           \/ UNCHANGED <<members, active, settlements>>
    PROVE  PlayingTeamsAwaited'
<1>1. CASE UNCHANGED <<members, active, settlements>>
  BY <1>1 DEF SurveyInv, PlayingTeamsAwaited, MembersOfTeams
<1>2. CASE (\E to \in Phases : AdvancePhase(to)) \/ StartChallenge \/ RequestReview
  BY <1>1, <1>2 DEF AdvancePhase, StartChallenge, RequestReview, playVars
<1>3. CASE PrepareChallenge
  <2>1. survey.no > 0 => settlements[survey.challenge] > 0
    BY <1>3, ClosedIsSettled DEF PrepareChallenge
  <2>2. QED
    BY <1>3, <2>1 DEF PlayingTeamsAwaited, PrepareChallenge
<1>4. CASE ResolveChallenge
  <2>1. SUFFICES ASSUME survey.no > 0 PROVE settlements'[survey.challenge] > 0
    BY DEF PlayingTeamsAwaited
  <2>2. survey \in SurveyRecords /\ StageFits(survey) /\ TypeOK
    BY DEF SurveyInv, Sound, FlowInv
  <2>3. survey.challenge \in Nat \ {0} /\ survey.challenge <= challenge.id
    BY <2>1, <2>2 DEF SurveyRecords, StageFits, SurveyInv
  <2>4. PICK c : c = survey.challenge
    OBVIOUS
  <2>5. c \in 1..MaxChallenges /\ c <= challenge.id /\ challenge.id \in Nat
    BY <2>2, <2>3, <2>4, GameFlowAssumption DEF TypeOK, GameFlowAssumption
  <2>6. settlements[c] \in Nat /\ (c < challenge.id => settlements[c] > 0)
    BY <2>2, <2>5 DEF TypeOK, FlowInv, SettledInOrder
  <2>7. settlements'[c] = IF c = challenge.id THEN settlements[c] + 1 ELSE settlements[c]
    BY <1>4, <2>2, <2>5, ResolveSettles
  <2>8. QED
    BY <2>4, <2>5, <2>6, <2>7
<1>5. ASSUME NEW p \in Players, RemoveMember(p) PROVE PlayingTeamsAwaited'
  <2>1. /\ members' = [t \in Teams |-> members[t] \ {p}] /\ active' = active \ {p}
        /\ settlements' = settlements
    BY <1>5 DEF RemoveMember
  <2>2. Required(survey) \subseteq Teams
    BY RequiredAreTeams DEF SurveyInv
  <2>3. PICK ts : ts = Required(survey)
    OBVIOUS
  <2>4. ts \subseteq Teams /\ Required(survey') = ts
    BY <2>2, <2>3
  <2>5. ASSUME NEW x PROVE x \in UNION {members'[t] : t \in ts}
                           <=> x \in UNION {members[t] : t \in ts} /\ x # p
    <3>1. \A t \in ts : members'[t] = members[t] \ {p}
      BY <2>1, <2>4
    <3>2. x \in UNION {members'[t] : t \in ts} <=> \E t \in ts : x \in members'[t]
      OBVIOUS
    <3>3. x \in UNION {members[t] : t \in ts} <=> \E t \in ts : x \in members[t]
      OBVIOUS
    <3>4. QED
      BY <3>1, <3>2, <3>3
  <2>6. (UNION {members'[t] : t \in ts}) = (UNION {members[t] : t \in ts}) \ {p}
    BY <2>5
  <2>7. SUFFICES ASSUME survey.no > 0, survey.progress # "resolved",
                        settlements[survey.challenge] = 0
                 PROVE  MembersOfTeams(ts)' = active'
    BY <2>1, <2>4 DEF PlayingTeamsAwaited
  <2>8. MembersOfTeams(ts) = active
    BY <2>3, <2>7 DEF SurveyInv, PlayingTeamsAwaited
  <2>9. MembersOfTeams(ts)' = UNION {members'[t] : t \in ts}
    BY DEF MembersOfTeams
  <2>10. QED
    BY <2>1, <2>6, <2>8, <2>9 DEF MembersOfTeams
<1>6. QED
  BY <1>1, <1>2, <1>3, <1>4, <1>5 DEF HostMoves

\* An answer typed is one of the answers there, or none of them.
LEMMA MatchesAreOnTheBoard ==
    ASSUME NEW text, NEW forms, NEW ranks
    PROVE  MatchRound4Answer(text, forms, ranks) \in ranks \cup {0}
<1> DEFINE guess == NormalizeAnswer(text)
           exact == {r \in ranks : guess \in AcceptedForms(forms[r])}
           typo  == {r \in ranks : \E f \in AcceptedForms(forms[r]) : IsTypoOfForm(guess, f)}
           fits  == IF exact # {} THEN exact ELSE typo
<1>1. MatchRound4Answer(text, forms, ranks)
          = IF guess # <<>> /\ \E r \in ranks : fits = {r} THEN Min(fits) ELSE 0
  BY Zenon DEF MatchRound4Answer
<1>2. ASSUME NEW r \in ranks, fits = {r} PROVE Min(fits) = r
  <2> HIDE DEF fits
  <2>1. QED
    BY <1>2 DEF Min
<1>3. QED
  <2> HIDE DEF fits, guess
  <2>1. QED
    BY <1>1, <1>2

\* What a text typed in the face-off is matched with is a rank, or none.
LEMMA FaceoffMatchFacts ==
    ASSUME NEW text \in Texts, NEW t
    PROVE  FaceoffMatch[<<text, AvailableTo(t)>>] \in Nat
<1>1. PICK ranks : ranks = AvailableTo(t)
  OBVIOUS
<1>2. ranks \in SUBSET Ranks
  BY <1>1 DEF AvailableTo
<1>3. PICK q : q = <<text, ranks>>
  OBVIOUS
<1>4. q \in Tries /\ q[1] = text /\ q[2] = ranks
  BY <1>2, <1>3 DEF Tries
<1>5. FaceoffMatch[q] = FaceoffRank(text, Forms, ranks)
  BY <1>4 DEF FaceoffMatch
<1>6. FaceoffRank(text, Forms, ranks) \in Nat
  <2>1. PICK m : m = MatchRound4Answer(text, Forms, ranks)
    OBVIOUS
  <2>2. m \in ranks \cup {0}
    BY <2>1, MatchesAreOnTheBoard
  <2>3. m \in Nat
    BY <1>2, <2>2, Round4Assumption DEF Round4Assumption
  <2>4. QED
    BY <2>1, <2>3 DEF FaceoffRank
<1>7. QED
  BY <1>1, <1>3, <1>5, <1>6

\* A step of the code that puts such a survey in place plays it on.
LEMMA PlayOnPlays ==
    ASSUME NEW s, Running, Plays(s),
           \/ PlayOn(s, FALSE) /\ (SameHands(s) \/ Counts(s))
           \/ PlayOn(s, TRUE) /\ (TakesBoard(s) \/ StrikesOut(s))
    PROVE  PlaysOn
<1>1. survey' = s
  BY DEF PlayOn
<1>2. QED
  BY <1>1 DEF PlayOn, PlaysOn

\* A survey won by a team that may win it.
SurveyWon ==
    \E s : \E w \in Teams :
        /\ Running /\ survey.progress \in {"board_play", "steal"}
        /\ Settles(s) /\ SettleSurvey(s, w)
        /\ survey.progress = "board_play" => w = survey.board.holder
        /\ w \in {survey.board.holder, survey.steal.thief}

\* Every step of the face-off plays the survey on.
LEMMA FaceoffSteps ==
    ASSUME SurveyInv,
           \/ \E t \in Teams : Buzz(t)
           \/ \E t, r : r \in Nat /\ RuleFaceoffAnswer(t, r)
           \/ StartOpponentChanceTimer
           \/ \E t \in Teams, play \in BOOLEAN : ChoosePlayOrPass(t, play)
    PROVE  PlaysOn
<1>1. ASSUME NEW t \in Teams, Buzz(t) PROVE PlaysOn
  <2>1. PICK s : s = Buzzed(t)
    OBVIOUS
  <2>2. Running /\ InFaceoff("reading") /\ t \in survey.pair /\ PlayOn(s, FALSE)
    BY <1>1, <2>1 DEF Buzz, InFaceoff
  <2>3. QED
    BY <2>1, <2>2, BuzzPlays, PlayOnPlays
<1>2. ASSUME NEW t, NEW r \in Nat, RuleFaceoffAnswer(t, r) PROVE PlaysOn
  <2>1. CASE InFaceoff("buzzed") /\ PlayOn(FirstAnswer(r), FALSE)
    <3>1. PICK s : s = FirstAnswer(r)
      OBVIOUS
    <3>2. QED
      BY <2>1, <3>1, FirstAnswerPlays, PlayOnPlays DEF InFaceoff
  <2>2. CASE InFaceoff("opponent_chance") /\ PlayOn(SecondAnswer(r), FALSE)
    <3>1. PICK s : s = SecondAnswer(r)
      OBVIOUS
    <3>2. QED
      BY <2>2, <3>1, SecondAnswerPlays, PlayOnPlays DEF InFaceoff
  <2>3. QED
    BY <1>2, <2>1, <2>2 DEF RuleFaceoffAnswer
<1>3. ASSUME StartOpponentChanceTimer PROVE PlaysOn
  <2>1. PICK s : s = [survey EXCEPT !.faceoff.window = OpenWindow(AnswerMs)]
    OBVIOUS
  <2>2. Running /\ InFaceoff("opponent_chance") /\ PlayOn(s, FALSE)
    BY <1>3, <2>1 DEF StartOpponentChanceTimer, InFaceoff
  <2>3. QED
    BY <2>1, <2>2, ChancePlays, PlayOnPlays
<1>4. ASSUME NEW t \in Teams, NEW play \in BOOLEAN, ChoosePlayOrPass(t, play) PROVE PlaysOn
  <2>1. PICK s : s = PlayedOrPassed(play)
    OBVIOUS
  <2>2. Running /\ InFaceoff("decided") /\ survey.faceoff.winner \in Teams /\ PlayOn(s, TRUE)
    BY <1>4, <2>1 DEF ChoosePlayOrPass, InFaceoff
  <2>3. QED
    BY <2>1, <2>2, ChoicePlays, PlayOnPlays
<1>5. QED
  BY <1>1, <1>2, <1>3, <1>4

\* A strike plays it on, whether or not it is the last.
LEMMA StrikeSteps ==
    ASSUME SurveyInv, MatchupInv, OnBoard,
           \/ StrikesNow(Struck(survey))
           \/ \E n \in 0..MaxStrikes : StrikesNow([survey EXCEPT !.board.strikes = n])
    PROVE  PlaysOn
<1>1. PICK s : StrikesNow(s) /\ (s = Struck(survey)
                 \/ \E n \in 0..MaxStrikes : s = [survey EXCEPT !.board.strikes = n])
  OBVIOUS
<1>2. Running /\ StrikesCounted(s)
  BY <1>1, StrikePlays DEF OnBoard
<1>3. CASE s.board.strikes >= MaxStrikes
  <2>1. PICK u : u = HandedOver(s)
    OBVIOUS
  <2>2. PlayOn(u, TRUE)
    BY <1>1, <1>3, <2>1 DEF StrikesNow
  <2>3. QED
    BY <1>2, <1>3, <2>1, <2>2, StrikesHandOver, PlayOnPlays
<1>4. CASE ~(s.board.strikes >= MaxStrikes)
  <2>1. PlayOn(s, FALSE)
    BY <1>1, <1>4 DEF StrikesNow
  <2>2. QED
    BY <1>2, <1>4, <2>1, StrikesCount, PlayOnPlays
<1>5. QED
  BY <1>3, <1>4

\* Every step at the board plays the survey on or wins it.
LEMMA BoardSteps ==
    ASSUME SurveyInv, MatchupInv,
           \/ StartBoardTurnTimer \/ CancelBoardTurnTimer
           \/ \E r : RevealBoardAnswer(r)
           \/ \E afterRetry \in BOOLEAN : RecordStrike(afterRetry)
           \/ \E n \in 0..MaxStrikes : SetStrikes(n)
           \/ TurnIsOver /\ StrikesNow(Struck(survey))
           \/ \E r, t : t \in survey.pair /\ ApplySteups(r, t)
    PROVE  PlaysOn \/ SurveyWon
<1>1. CASE StartBoardTurnTimer \/ CancelBoardTurnTimer
  <2>1. Running
    BY <1>1 DEF StartBoardTurnTimer, CancelBoardTurnTimer, OnBoard
  <2>2. PICK s : PlayOn(s, FALSE) /\ (s = [survey EXCEPT !.board.window = OpenWindow(TurnMs)]
                                       \/ s = TurnOver(survey))
    BY <1>1 DEF StartBoardTurnTimer, CancelBoardTurnTimer
  <2>3. QED
    BY <2>1, <2>2, TurnPlays, PlayOnPlays
<1>2. ASSUME NEW r, RevealBoardAnswer(r) PROVE PlaysOn \/ SurveyWon
  <2>1. PICK s : s = Revealed(r)
    OBVIOUS
  <2>2. OnBoard /\ Running /\ survey.progress = "board_play" /\ survey.board.holder \in Teams
    BY <1>2 DEF RevealBoardAnswer, OnBoard, SurveyInv, Sound, StageFits
  <2>3. CASE BoardCleared(s)
    <3>1. SettleSurvey(s, survey.board.holder)
      BY <1>2, <2>1, <2>3 DEF RevealBoardAnswer
    <3>2. QED
      BY <2>1, <2>2, <3>1, ClearedSettles DEF SurveyWon
  <2>4. CASE ~BoardCleared(s)
    <3>1. PlayOn(s, FALSE)
      BY <1>2, <2>1, <2>4 DEF RevealBoardAnswer
    <3>2. QED
      BY <2>1, <2>2, <3>1, TurnPlays, PlayOnPlays
  <2>5. QED
    BY <2>3, <2>4
<1>3. CASE (\E afterRetry \in BOOLEAN : RecordStrike(afterRetry))
           \/ (\E n \in 0..MaxStrikes : SetStrikes(n))
           \/ (TurnIsOver /\ StrikesNow(Struck(survey)))
  BY <1>3, StrikeSteps DEF RecordStrike, SetStrikes, TurnIsOver
<1>4. ASSUME NEW r, NEW t \in survey.pair, ApplySteups(r, t) PROVE PlaysOn
  <2>1. PICK s : s = TakenBack(r, t)
    OBVIOUS
  <2>2. Running /\ r \in survey.revealed /\ PlayOn(s, FALSE)
    BY <1>4, <2>1 DEF ApplySteups
  <2>3. QED
    BY <2>1, <2>2, TakenBackPlays, PlayOnPlays
<1>5. QED
  BY <1>1, <1>2, <1>3, <1>4

\* Every step of the steal plays the survey on or wins it.
LEMMA StealSteps ==
    ASSUME SurveyInv,
           \/ StartStealTimer \/ (\E t \in Teams : SubmitStealWager(t))
           \/ \E correct \in BOOLEAN : ResolveSteal(correct)
    PROVE  PlaysOn \/ SurveyWon
<1>1. StageFits(survey)
  BY DEF SurveyInv, Sound
<1>2. CASE StartStealTimer \/ \E t \in Teams : SubmitStealWager(t)
  <2>1. Running
    BY <1>2 DEF StartStealTimer, SubmitStealWager, StealIs
  <2>2. PICK s : PlayOn(s, FALSE) /\ Plays(s) /\ SameHands(s)
    BY <1>2, <2>1, StealPlays DEF StartStealTimer, SubmitStealWager, StealIs
  <2>3. QED
    BY <2>1, <2>2, PlayOnPlays
<1>3. ASSUME NEW correct \in BOOLEAN, ResolveSteal(correct) PROVE SurveyWon
  <2>1. Running /\ survey.progress = "steal"
    BY <1>1, <1>3 DEF ResolveSteal, StealIs, StageFits
  <2>2. PICK w : w = IF correct THEN survey.steal.thief ELSE survey.board.holder
    OBVIOUS
  <2>3. w \in Teams /\ w \in {survey.board.holder, survey.steal.thief}
    BY <1>1, <2>1, <2>2 DEF StageFits
  <2>4. SettleSurvey(StealOver, w)
    BY <1>3, <2>2 DEF ResolveSteal
  <2>5. Settles(StealOver)
    BY <2>1, StealSettles
  <2>6. QED
    BY <2>1, <2>3, <2>4, <2>5 DEF SurveyWon
<1>4. QED
  BY <1>2, <1>3

\* The teams in order: as many places as teams, and no team in two of them.
LEMMA OrderFacts ==
    ASSUME NEW entered \in Orders
    PROVE  /\ entered \in Seq(Teams) /\ Len(entered) = Cardinality(Teams)
           /\ Len(entered) \in {2, 3} /\ entered # <<>>
           /\ \A i \in 1..Len(entered) : entered[i] \in Teams
           /\ \A i, j \in 1..Len(entered) : entered[i] = entered[j] => i = j
<1>1. PICK n : n = Cardinality(Teams)
  OBVIOUS
<1>2. n \in {2, 3} /\ IsFiniteSet(Teams)
  BY <1>1, Round4Assumption DEF Round4Assumption
<1>3. entered \in [1..n -> Teams] /\ \A t \in Teams : \E i \in 1..n : entered[i] = t
  BY <1>1 DEF Orders
<1>4. IsFiniteSet(1..n) /\ Cardinality(1..n) = n
  BY <1>2, FS_Interval
<1>5. entered \in Surjection(1..n, Teams)
  BY <1>3 DEF Surjection
<1>6. entered \in Injection(1..n, Teams)
  BY <1>1, <1>4, <1>5, FS_SurjSameCardinalityImpliesInj
<1>7. \A i, j \in 1..n : entered[i] = entered[j] => i = j
  BY <1>6 DEF Injection, IsInjective
<1>8. entered \in Seq(Teams) /\ Len(entered) = n
  BY <1>2, <1>3
<1>9. entered # <<>>
  BY <1>2, <1>8
<1>10. QED
  BY <1>1, <1>2, <1>3, <1>7, <1>8, <1>9

\* The first matchup is between two different teams, and of three the first one
\* waits for its winner.
LEMMA FirstMatchupFacts ==
    ASSUME standings' \in Orders, FirstMatchup(standings')
    PROVE  /\ stage' \in {"FIRST", "FINAL"} /\ standings' # <<>>
           /\ Len(contesting') = 2 /\ contesting'[1] # contesting'[2]
           /\ {contesting'[1], contesting'[2], standings'[1]} \subseteq Teams
           /\ stage' = "FIRST" => standings'[1] \notin {contesting'[1], contesting'[2]}
<1>1. PICK e \in Orders : e = standings'
  OBVIOUS
<1>2. /\ e \in Seq(Teams) /\ Len(e) \in {2, 3} /\ e # <<>>
      /\ \A i \in 1..Len(e) : e[i] \in Teams
      /\ \A i, j \in 1..Len(e) : e[i] = e[j] => i = j
  BY OrderFacts
<1>3. CASE Len(e) = 2
  <2>1. stage' = "FINAL" /\ contesting' = e
    BY <1>1, <1>3 DEF FirstMatchup
  <2>2. 1 \in 1..Len(e) /\ 2 \in 1..Len(e)
    BY <1>3
  <2>3. QED
    BY <1>1, <1>2, <1>3, <2>1, <2>2
<1>4. CASE Len(e) = 3
  <2>1. PICK c : c = Tail(e)
    OBVIOUS
  <2>2. stage' = "FIRST" /\ contesting' = c
    BY <1>1, <1>4, <2>1 DEF FirstMatchup
  <2>3. Len(c) = Len(e) - 1 /\ \A i \in 1..Len(c) : c[i] = e[i + 1]
    BY <1>2, <2>1, HeadTailProperties
  <2>4. 1 \in 1..Len(e) /\ 2 \in 1..Len(e) /\ 3 \in 1..Len(e)
    BY <1>4
  <2>5. e[1] \in Teams /\ e[2] \in Teams /\ e[3] \in Teams
        /\ e[1] # e[2] /\ e[1] # e[3] /\ e[2] # e[3]
    BY <1>2, <2>4
  <2>6. Len(c) = 2 /\ c[1] = e[2] /\ c[2] = e[3]
    BY <1>4, <2>3
  <2>7. QED
    BY <1>1, <1>2, <2>2, <2>5, <2>6
<1>5. QED
  BY <1>2, <1>3, <1>4

\* The steps that leave the survey to itself, and those that only move windows.
Around ==
    \/ StartGame /\ UNCHANGED r4Vars
    \/ BeginRound4 \/ DevStartRound4 \/ StartFaceoffRefused
    \/ \E t \in Teams : GrantForgiveMeh(t)
    \/ DecideFirstMatchup \/ BeginFinalMatchup \/ AroundTheRound

WindowsMove == PauseRound4 \/ ResumeRound4 \/ TimePasses

\* Every step of the round is one of five kinds.
LEMMA StepKinds ==
    ASSUME SurveyInv, MatchupInv, R4Next
    PROVE  PlaysOn \/ SurveyWon \/ StartFaceoff \/ Around \/ WindowsMove
<1>1. ASSUME NEW t \in Teams, NEW text \in Texts, SubmitFaceoffAnswer(t, text) PROVE PlaysOn
  BY <1>1, FaceoffMatchFacts, FaceoffSteps DEF SubmitFaceoffAnswer
<1>2. ASSUME NEW t \in Teams, NEW r \in Ranks \cup {NoMatch}, HostRuleFaceoffAnswer(t, r)
      PROVE  PlaysOn
  BY <1>2, FaceoffSteps, Round4Assumption DEF HostRuleFaceoffAnswer, NoMatch, Round4Assumption
<1>3. CASE \/ \E t \in Teams : Buzz(t)
           \/ StartOpponentChanceTimer
           \/ \E t \in Teams, play \in BOOLEAN : ChoosePlayOrPass(t, play)
  BY <1>3, FaceoffSteps
<1>4. CASE Tick
  <2>1. CASE RuleFaceoffAnswer(survey.faceoff.buzzed, NoMatch)
    BY <2>1, FaceoffSteps DEF NoMatch
  <2>2. CASE TurnIsOver /\ StrikesNow(Struck(survey))
    BY <2>2, BoardSteps
  <2>3. QED
    BY <1>4, <2>1, <2>2 DEF Tick
<1>5. CASE \/ StartBoardTurnTimer \/ CancelBoardTurnTimer
           \/ \E r \in Ranks : HostRuleBoardAnswer(r)
           \/ \E afterRetry \in BOOLEAN : RecordStrike(afterRetry)
           \/ \E n \in 0..MaxStrikes : SetStrikes(n)
           \/ \E r \in Ranks, t \in survey.pair : ApplySteups(r, t)
  BY <1>5, BoardSteps DEF HostRuleBoardAnswer
<1>6. ASSUME NEW t \in Teams, NEW text \in Texts, SubmitBoardAnswer(t, text)
      PROVE  PlaysOn \/ SurveyWon
  BY <1>6, BoardSteps DEF SubmitBoardAnswer
<1>7. CASE StartStealTimer \/ \E t \in Teams : SubmitStealWager(t)
  BY <1>7, StealSteps
<1>8. ASSUME NEW t \in Teams, NEW text \in Texts, SubmitStealAnswer(t, text)
      PROVE  PlaysOn \/ SurveyWon
  <2>1. \E correct \in BOOLEAN : ResolveSteal(correct)
    BY <1>8 DEF SubmitStealAnswer
  <2>2. QED
    BY <2>1, StealSteps
<1>9. CASE \E correct \in BOOLEAN : RuleStealAnswer(correct)
  BY <1>9, StealSteps DEF RuleStealAnswer
<1>10. QED
  BY <1>1, <1>2, <1>3, <1>4, <1>5, <1>6, <1>7, <1>8, <1>9
     DEF R4Next, WithoutAnIntent, Around, WindowsMove

\* What is around the survey leaves it alone.
LEMMA AroundLeavesSurvey ==
    ASSUME Around
    PROVE  survey' = survey
  BY DEF Around, r4Vars, BeginRound4, DevStartRound4, DevEnterRound4, StartFaceoffRefused,
         GrantForgiveMeh, DecideFirstMatchup, BeginFinalMatchup, AroundTheRound

\* What is around the survey keeps it.
LEMMA AroundKeeps ==
    ASSUME FlowInv, SurveyInv, MatchupInv, WinsInv, Around
    PROVE  GoesOn /\ SurveyInv' /\ WinsInv' /\ (Paused' <=> Paused)
<1>d. dealt \in Nat /\ dealt \in 0..Surveys
  BY Round4Assumption DEF SurveyInv, Round4Assumption
<1>1. ASSUME PlainStep \/ UNCHANGED vars, UNCHANGED <<survey, paid>>, gated \subseteq gated',
             HostMoves \/ UNCHANGED <<members, active, settlements>>,
             stage # "none" => stage' # "none", dealt' \in 0..Surveys, dealt' >= dealt,
             wins' = wins \/ wins' = [t \in Teams |-> 0]
      PROVE  GoesOn /\ SurveyInv' /\ WinsInv' /\ (Paused' <=> Paused)
  <2>1. GoesOn /\ (Paused' <=> Paused)
    BY <1>1, GameStepFacts
  <2>2. PlayingTeamsAwaited'
    BY <1>1, AwaitedStay
  <2>3. QED
    BY <1>1, <2>1, <2>2, SurveyStays
<1>2. CASE StartGame /\ UNCHANGED r4Vars
  BY <1>1, <1>2, <1>d DEF StartGame, r4Vars, matchupVars, playVars, PlainStep
<1>3. CASE BeginRound4
  <2>1. stage = "none"
    BY <1>3 DEF BeginRound4, MatchupInv
  <2>2. QED
    BY <1>1, <1>3, <1>d, <2>1 DEF BeginRound4, vars, playVars
<1>4. CASE DevStartRound4
  <2>1. MayEnter(Round4Index, standings # <<>>) /\ WalksTo(Round4Index)
        /\ UNCHANGED <<survey, paid, dealt, wins, gated>>
    BY <1>4 DEF DevStartRound4, DevEnterRound4
  <2>2. stage = "none" /\ Running
    BY <2>1 DEF MayEnter, MatchupInv
  <2>3. Round4Index \in Nat
    BY Round4Assumption DEF Round4Assumption
  <2>4. GoesOn /\ ~Paused' /\ ~Paused
    BY <2>1, <2>2, <2>3, WalkKeepsFlow DEF GoesOn, Running
  <2>5. survey.no = 0
    BY <2>2 DEF SurveyInv
  <2>6. PlayingTeamsAwaited'
    BY <2>1, <2>5 DEF PlayingTeamsAwaited
  <2>7. QED
    BY <1>d, <2>1, <2>2, <2>4, <2>6, SurveyStays
<1>5. CASE StartFaceoffRefused
  <2>1. /\ dealt' \in 0..Surveys /\ dealt' >= dealt
        /\ UNCHANGED <<survey, paid, stage, wins, gated>>
    BY <1>5, <1>d, Round4Assumption
       DEF StartFaceoffRefused, TakeSurvey, matchupVars, Round4Assumption
  <2>2. CASE AdvancePhase("CHALLENGE_INTRO")
    <3>1. PlainStep
      BY <2>2, PhaseNames DEF PlainStep
    <3>2. UNCHANGED <<members, active, settlements>>
      BY <2>2 DEF AdvancePhase, playVars
    <3>3. QED
      BY <1>1, <2>1, <3>1, <3>2
  <2>3. CASE UNCHANGED vars
    BY <1>1, <2>1, <2>3 DEF vars, playVars
  <2>4. QED
    BY <1>5, <2>2, <2>3 DEF StartFaceoffRefused
<1>6. CASE \E t \in Teams : GrantForgiveMeh(t)
  BY <1>1, <1>6, <1>d DEF GrantForgiveMeh, vars, playVars, matchupVars
<1>7. CASE DecideFirstMatchup \/ BeginFinalMatchup
  BY <1>1, <1>7, <1>d DEF DecideFirstMatchup, BeginFinalMatchup, vars, playVars
<1>8. CASE AroundTheRound
  <2>1. PlainStep /\ HostMoves
    BY <1>8 DEF AroundTheRound, HostMoves, PlainStep
  <2>2. QED
    BY <1>1, <1>8, <1>d, <2>1 DEF AroundTheRound, matchupVars
<1>9. QED
  BY <1>2, <1>3, <1>4, <1>5, <1>6, <1>7, <1>8 DEF Around

\* The pause, the resume and the clock move the windows and nothing else.
LEMMA EveryWindowKeeps ==
    ASSUME FlowInv, SurveyInv, WinsInv, GoesOn, NEW event \in {"pause", "resume", "tick"},
           EveryWindow(event), UNCHANGED <<members, active, challenge, settlements>>,
           event = "pause" => Paused', event = "resume" => ~Paused',
           event = "tick" => (Paused' <=> Paused)
    PROVE  SurveyInv' /\ WinsInv' /\ SameHands(survey') /\ SameSurvey(survey')
<1>1. survey \in SurveyRecords /\ StageFits(survey) /\ survey.pot = Worth(survey.revealed)
  BY DEF SurveyInv, Sound
<1>2. /\ survey.faceoff \in FaceoffRecords /\ survey.board \in BoardRecords
      /\ survey.steal \in StealRecords
  BY <1>1 DEF SurveyRecords
<1>3. PICK fw, bw, sw : /\ fw = WindowAfter(event, survey.faceoff.window)
                        /\ bw = WindowAfter(event, survey.board.window)
                        /\ sw = WindowAfter(event, survey.steal.window)
  OBVIOUS
<1>4. /\ AnswerMs \in Nat /\ survey.faceoff.window \in WindowsUpTo(AnswerMs)
      /\ TurnMs \in Nat /\ survey.board.window \in WindowsUpTo(TurnMs)
      /\ ConferMs \in Nat /\ survey.steal.window \in WindowsUpTo(ConferMs)
  BY <1>2, WindowKinds DEF FaceoffRecords, BoardRecords, StealRecords
<1>5. /\ FollowsPause(survey.faceoff.window, Paused)
      /\ FollowsPause(survey.board.window, Paused)
      /\ FollowsPause(survey.steal.window, Paused)
  BY DEF SurveyInv, WindowsFollowPause
<1>6. fw \in WindowsUpTo(AnswerMs) /\ FollowsPause(fw, Paused')
  BY <1>3, <1>4, <1>5, WindowFollowsOn
<1>7. bw \in WindowsUpTo(TurnMs) /\ FollowsPause(bw, Paused')
  BY <1>3, <1>4, <1>5, WindowFollowsOn
<1>8. sw \in WindowsUpTo(ConferMs) /\ FollowsPause(sw, Paused')
  BY <1>3, <1>4, <1>5, WindowFollowsOn
<1>9. PICK f : f = [survey.faceoff EXCEPT !.window = fw]
  OBVIOUS
<1>10. /\ f \in FaceoffRecords /\ f.window = fw /\ f.winner = survey.faceoff.winner
       /\ f.buzzed = survey.faceoff.buzzed /\ f.status = survey.faceoff.status
  BY <1>2, <1>6, <1>9 DEF FaceoffRecords
<1>11. PICK b : b = [survey.board EXCEPT !.window = bw]
  OBVIOUS
<1>12. /\ b \in BoardRecords /\ b.window = bw /\ b.holder = survey.board.holder
       /\ b.strikes = survey.board.strikes
  BY <1>2, <1>7, <1>11 DEF BoardRecords
<1>13. PICK st : st = [survey.steal EXCEPT !.window = sw]
  OBVIOUS
<1>14. /\ st \in StealRecords /\ st.window = sw /\ st.thief = survey.steal.thief
       /\ st.status = survey.steal.status
  BY <1>2, <1>8, <1>13 DEF StealRecords
<1>15. PICK s : s = survey'
  OBVIOUS
<1>16. s = [survey EXCEPT !.faceoff = f, !.board = b, !.steal = st]
  BY <1>1, <1>3, <1>9, <1>11, <1>13, <1>15 DEF EveryWindow, SurveyRecords
<1>17. s \in SurveyRecords
  BY <1>1, <1>10, <1>12, <1>14, <1>16 DEF SurveyRecords
<1>18. /\ s.no = survey.no /\ s.challenge = survey.challenge /\ s.progress = survey.progress
       /\ s.pair = survey.pair /\ s.faceoff = f /\ s.board = b
       /\ s.steal = st /\ s.winner = survey.winner /\ s.awarded = survey.awarded
       /\ s.revealed = survey.revealed /\ s.pot = survey.pot
  BY <1>1, <1>16 DEF SurveyRecords
<1>19. StageFits(s)
  BY <1>1, <1>10, <1>12, <1>14, <1>18 DEF StageFits
<1>20. Sound(survey)'
  BY <1>1, <1>15, <1>17, <1>18, <1>19 DEF Sound
<1>21. SameSurvey(s) /\ SameHands(s)
  BY <1>12, <1>14, <1>18 DEF SameSurvey, SameHands
<1>22. WindowsFollowPause'
  BY <1>6, <1>7, <1>8, <1>10, <1>12, <1>14, <1>15, <1>18 DEF WindowsFollowPause
<1>23. /\ stage' = stage /\ wins' = wins /\ dealt' = dealt /\ paid' = paid
  BY DEF EveryWindow, matchupVars
<1>24. PaidInv'
  <2>1. gated' = gated
    BY DEF EveryWindow, matchupVars
  <2>2. QED
    BY <1>15, <1>18, <1>21, <1>23, <2>1, PaidStays
<1>25. PlayingTeamsAwaited'
  <2>1. Required(s) = Required(survey)
    BY <1>12, <1>14, <1>18 DEF Required
  <2>2. QED
    BY <1>15, <1>18, <2>1 DEF SurveyInv, PlayingTeamsAwaited, MembersOfTeams
<1>26. SurveyInv'
  BY <1>15, <1>18, <1>20, <1>22, <1>23, <1>24, <1>25 DEF SurveyInv
<1>27. WinsInv'
  BY <1>15, <1>18, <1>23 DEF WinsInv, InPlay
<1>28. QED
  BY <1>15, <1>21, <1>26, <1>27

\* The pause, the resume and the clock keep the game and the survey sound.
LEMMA WindowsMoveKeeps ==
    ASSUME FlowInv, SurveyInv, WinsInv, WindowsMove
    PROVE  GoesOn /\ SurveyInv' /\ WinsInv' /\ SameHands(survey') /\ SameSurvey(survey')
<1>t. TypeOK /\ PauseShape
  BY DEF FlowInv
<1>1. CASE PauseRound4
  <2>1. PICK by : Pause(by)
    BY <1>1 DEF PauseRound4, GamePauses, HostPause, ActivePlayerDisconnect
  <2>2. Paused' /\ UNCHANGED <<members, active, challenge, settlements>>
    BY <2>1, OverlayFacts DEF Pause, playVars
  <2>3. Next
    BY <1>1 DEF PauseRound4, GamePauses, Next
  <2>4. GoesOn
    BY <1>t, <2>3, NextFlow, NothingIsTakenBack DEF GoesOn
  <2>5. EveryWindow("pause")
    BY <1>1 DEF PauseRound4
  <2>6. QED
    BY <2>2, <2>4, <2>5, EveryWindowKeeps
<1>2. CASE ResumeRound4
  <2>1. Resume /\ Next /\ EveryWindow("resume")
    BY <1>2 DEF ResumeRound4, Next
  <2>2. ~Paused' /\ UNCHANGED <<members, active, challenge, settlements>>
    BY <1>t, <2>1, OverlayFacts DEF Resume, playVars
  <2>3. GoesOn
    BY <1>t, <2>1, NextFlow, NothingIsTakenBack DEF GoesOn
  <2>4. QED
    BY <2>1, <2>2, <2>3, EveryWindowKeeps
<1>3. CASE TimePasses
  <2>1. UNCHANGED vars /\ EveryWindow("tick")
    BY <1>3 DEF TimePasses
  <2>2. GoesOn /\ (Paused' <=> Paused)
    BY <2>1, GameStepFacts
  <2>3. UNCHANGED <<members, active, challenge, settlements>>
    BY <2>1 DEF vars, playVars
  <2>4. QED
    BY <2>1, <2>2, <2>3, EveryWindowKeeps
<1>4. QED
  BY <1>1, <1>2, <1>3 DEF WindowsMove

\* The matchups go on between teams of the game.
LEMMA MatchupKeeps ==
    ASSUME SurveyInv, MatchupInv, R4Next
    PROVE  MatchupInv'
<1>1. ASSUME UNCHANGED <<standings, stage, contesting, advancing, gated>>, owed' \subseteq Teams
      PROVE  MatchupInv'
  BY <1>1 DEF MatchupInv
<1>2. CASE PlaysOn \/ WindowsMove
  BY <1>1, <1>2
     DEF PlaysOn, WindowsMove, PauseRound4, ResumeRound4, TimePasses, EveryWindow, matchupVars,
         MatchupInv
<1>3. CASE SurveyWon
  BY <1>1, <1>3 DEF SurveyWon, SettleSurvey, MatchupInv
<1>4. CASE StartFaceoff \/ StartFaceoffRefused
  BY <1>1, <1>4 DEF StartFaceoff, StartSurvey, StartFaceoffRefused, matchupVars, MatchupInv
<1>5. CASE StartGame /\ UNCHANGED r4Vars
  BY <1>1, <1>5 DEF r4Vars, matchupVars, MatchupInv
<1>6. CASE (\E t \in Teams : GrantForgiveMeh(t)) \/ AroundTheRound
  BY <1>1, <1>6 DEF GrantForgiveMeh, AroundTheRound, matchupVars, MatchupInv
<1>7. CASE BeginRound4 \/ DevStartRound4
  <2>1. standings = <<>> /\ stage = "none" /\ advancing = None
    <3>1. standings = <<>> /\ stage = "none"
      BY <1>7 DEF BeginRound4, DevStartRound4, DevEnterRound4, MayEnter, MatchupInv
    <3>2. QED
      BY <3>1 DEF MatchupInv
  <2>2. UNCHANGED <<advancing, gated, owed>>
    BY <1>7 DEF BeginRound4, DevStartRound4, DevEnterRound4
  <2>3. CASE standings' \in Orders /\ FirstMatchup(standings')
    BY <2>1, <2>2, <2>3, FirstMatchupFacts DEF MatchupInv
  <2>4. CASE UNCHANGED <<standings, stage, contesting>>
    BY <1>1, <2>2, <2>4 DEF MatchupInv
  <2>5. QED
    BY <1>7, <2>3, <2>4 DEF BeginRound4, DevStartRound4, DevEnterRound4
<1>8. CASE DecideFirstMatchup
  <2>1. /\ stage = "FIRST" /\ Ahead \in {1, 2} /\ advancing' = contesting[Ahead]
        /\ gated' = gated \cup {contesting[3 - Ahead]}
        /\ UNCHANGED <<standings, stage, contesting, owed>>
    BY <1>8 DEF DecideFirstMatchup, Ahead
  <2>2. contesting[Ahead] \in {contesting[1], contesting[2]}
        /\ contesting[3 - Ahead] \in {contesting[1], contesting[2]}
    BY <2>1
  <2>3. QED
    BY <2>1, <2>2 DEF MatchupInv
<1>9. CASE BeginFinalMatchup
  <2>1. /\ stage = "FIRST" /\ advancing # None /\ stage' = "FINAL"
        /\ contesting' = <<advancing, standings[1]>> /\ advancing' = None
        /\ UNCHANGED <<standings, gated, owed>>
    BY <1>9 DEF BeginFinalMatchup
  <2>2. advancing \in Teams /\ standings[1] \in Teams /\ advancing # standings[1]
    BY <2>1 DEF MatchupInv
  <2>3. Len(contesting') = 2 /\ contesting'[1] = advancing /\ contesting'[2] = standings[1]
    BY <2>1
  <2>4. QED
    BY <2>1, <2>2, <2>3 DEF MatchupInv
<1>10. QED
  BY <1>2, <1>3, <1>4, <1>5, <1>6, <1>7, <1>8, <1>9, StepKinds DEF Around

R4Inv == FlowInv /\ SurveyInv /\ MatchupInv /\ WinsInv

\* The invariant is inductive.
LEMMA R4InvStep == R4Inv /\ [R4Next]_allR4Vars => R4Inv'
<1> SUFFICES ASSUME R4Inv, [R4Next]_allR4Vars PROVE R4Inv'
  OBVIOUS
<1>i. FlowInv /\ SurveyInv /\ MatchupInv /\ WinsInv
  BY DEF R4Inv
<1>1. CASE R4Next
  <2>1. MatchupInv'
    BY <1>1, <1>i, MatchupKeeps
  <2>2. FlowInv' /\ SurveyInv' /\ WinsInv'
    <3>1. CASE PlaysOn
      BY <1>i, <3>1, PlaysOnKeepsFlow, PlaysOnKeepsSurvey
    <3>2. CASE SurveyWon
      BY <1>i, <3>2, SettleKeeps DEF SurveyWon, GoesOn
    <3>3. CASE StartFaceoff
      BY <1>i, <3>3, StartKeeps DEF GoesOn
    <3>4. CASE Around
      BY <1>i, <3>4, AroundKeeps DEF GoesOn
    <3>5. CASE WindowsMove
      BY <1>i, <3>5, WindowsMoveKeeps DEF GoesOn
    <3>6. QED
      BY <1>1, <1>i, <3>1, <3>2, <3>3, <3>4, <3>5, StepKinds
  <2>3. QED
    BY <2>1, <2>2 DEF R4Inv
<1>2. CASE UNCHANGED allR4Vars
  <2>1. FlowInv'
    BY <1>2, <1>i, NextFlow DEF allR4Vars
  <2>2. MatchupInv'
    BY <1>2, <1>i DEF allR4Vars, r4Vars, matchupVars, MatchupInv
  <2>3. WinsInv'
    BY <1>2, <1>i DEF allR4Vars, r4Vars, matchupVars, WinsInv, InPlay
  <2>4. /\ UNCHANGED <<survey, paid, dealt, stage, members, active, settlements, phase, challenge>>
        /\ gated' = gated
    BY <1>2 DEF allR4Vars, r4Vars, matchupVars, vars, flowVars, playVars
  <2>5. SurveyInv'
    BY <1>i, <2>4
       DEF SurveyInv, Sound, StageFits, WindowsFollowPause, Paused, PaidInv, PaidOnce,
           PaidToWinner, LostToAnotherResult, PlayingTeamsAwaited, MembersOfTeams, Required
  <2>6. QED
    BY <2>1, <2>2, <2>3, <2>5 DEF R4Inv
<1>3. QED
  BY <1>1, <1>2

\* The round begins with no survey.
LEMMA R4InitInv == R4Init => R4Inv
<1> SUFFICES ASSUME R4Init PROVE R4Inv
  OBVIOUS
<1>1. FlowInv
  BY InitFlow DEF R4Init
<1>2. /\ standings = <<>> /\ stage = "none" /\ wins = [t \in Teams |-> 0] /\ advancing = None
      /\ gated = {} /\ dealt = 0 /\ survey = NewSurvey(0, 0, "not_started", {}) /\ paid = <<>>
      /\ owed = {}
  BY DEF R4Init
<1>3. MatchupInv
  BY <1>2 DEF MatchupInv
<1>4. PICK f : f = FreshFaceoff
  OBVIOUS
<1>5. /\ f \in FaceoffRecords /\ f.status = "reading" /\ f.winner = None /\ f.window = NoWindow
  BY <1>4, WindowKinds DEF FreshFaceoff, FaceoffRecords, NoMatch
<1>6. PICK h : h = FreshBoard(None)
  OBVIOUS
<1>7. h \in BoardRecords /\ h.holder = None /\ h.strikes = 0 /\ h.window = NoWindow
  BY <1>6, WindowKinds DEF FreshBoard, BoardRecords
<1>8. PICK st : st = FreshSteal(None, "none")
  OBVIOUS
<1>9. st \in StealRecords /\ st.thief = None /\ st.status = "none" /\ st.window = NoWindow
  BY <1>8, WindowKinds DEF FreshSteal, StealRecords
<1>10. PICK barred : barred = [r \in Ranks |-> None]
  OBVIOUS
<1>11. barred \in [Ranks -> Teams \cup {None}]
  BY <1>10
<1>12. survey = [no |-> 0, challenge |-> 0, progress |-> "not_started", pair |-> {},
                 revealed |-> {}, barred |-> barred, pot |-> 0, faceoff |-> f, board |-> h,
                 steal |-> st, winner |-> None, awarded |-> 0]
  BY <1>2, <1>4, <1>6, <1>8, <1>10 DEF NewSurvey
<1>13. survey \in SurveyRecords
  BY <1>5, <1>7, <1>9, <1>11, <1>12 DEF SurveyRecords
<1>14. /\ survey.no = 0 /\ survey.challenge = 0 /\ survey.progress = "not_started"
       /\ survey.pair = {} /\ survey.revealed = {} /\ survey.pot = 0 /\ survey.faceoff = f
       /\ survey.board = h /\ survey.steal = st /\ survey.winner = None /\ survey.awarded = 0
  BY <1>12
<1>15. Sound(survey)
  BY <1>5, <1>7, <1>9, <1>13, <1>14, WorthFacts, WindowKinds DEF Sound, StageFits
<1>16. WindowsFollowPause
  BY <1>5, <1>7, <1>9, <1>14 DEF WindowsFollowPause, FollowsPause, Exists, NoWindow
<1>17. challenge.id \in Nat
  BY <1>1, GameFlowAssumption DEF FlowInv, TypeOK, GameFlowAssumption
<1>18. SurveyInv
  BY <1>2, <1>14, <1>15, <1>16, <1>17, Round4Assumption
     DEF SurveyInv, PaidInv, PaidOnce, PaidToWinner, LostToAnotherResult, PlayingTeamsAwaited,
         Round4Assumption
<1>19. WinsInv
  BY <1>2, <1>14 DEF WinsInv, InPlay
<1>20. QED
  BY <1>1, <1>3, <1>18, <1>19 DEF R4Inv

\* It holds in every state of the round.
LEMMA R4Invariant == R4Spec => []R4Inv
  BY R4InitInv, R4InvStep, PTL DEF R4Spec

\* The invariant says what the runs check.
LEMMA R4InvGives ==
    R4Inv => /\ BoardIsSound /\ GameIsSound /\ TimerIsSound
             /\ PotMatchesBoard /\ PaidOnce /\ PaidToWinner /\ LostToAnotherResult
<1> SUFFICES ASSUME R4Inv
             PROVE  /\ BoardIsSound /\ GameIsSound /\ TimerIsSound
                    /\ PotMatchesBoard /\ PaidOnce /\ PaidToWinner /\ LostToAnotherResult
  OBVIOUS
<1>i. FlowInv /\ SurveyInv /\ MatchupInv /\ WinsInv
  BY DEF R4Inv
<1>1. GameIsSound /\ TimerIsSound
  BY <1>i, FlowInvGives
<1>2. /\ survey \in SurveyRecords /\ StageFits(survey) /\ survey.pot = Worth(survey.revealed)
      /\ WindowsFollowPause /\ PaidInv /\ PlayingTeamsAwaited
      /\ dealt \in 0..Surveys /\ survey.no <= dealt /\ survey.challenge <= challenge.id
  BY <1>i DEF SurveyInv, Sound
<1>3. PotMatchesBoard /\ PaidOnce /\ PaidToWinner /\ LostToAnotherResult
  BY <1>2 DEF PotMatchesBoard, BoardPoints, Worth, PaidInv
<1>4. R4TypeOK
  <2>1. /\ standings \in Orders \cup {<<>>} /\ stage \in {"none", "FIRST", "FINAL"}
        /\ stage # "none" => Len(contesting) = 2 /\ contesting[1] # contesting[2]
        /\ advancing \in Teams \cup {None} /\ gated \subseteq Teams /\ owed \subseteq Teams
    BY <1>i DEF MatchupInv
  <2>2. wins \in [Teams -> 0..Surveys]
    BY <1>i, <1>2, Round4Assumption DEF WinsInv, Round4Assumption
  <2>3. survey.no \in 0..dealt /\ survey.challenge \in 0..challenge.id
    <3>1. /\ survey.no \in Nat /\ survey.challenge \in Nat /\ dealt \in Nat
          /\ challenge.id \in Nat
      BY <1>i, <1>2, GameFlowAssumption, Round4Assumption
         DEF SurveyRecords, FlowInv, TypeOK, GameFlowAssumption, Round4Assumption
    <3>2. QED
      BY <1>2, <3>1
  <2>4. /\ survey.progress \in {"not_started", "faceoff", "board_play", "steal", "resolved"}
        /\ survey.pair \subseteq Teams /\ survey.revealed \subseteq Ranks
        /\ survey.barred \in [Ranks -> Teams \cup {None}]
        /\ survey.faceoff \in FaceoffRecords /\ survey.board \in BoardRecords
        /\ survey.steal \in StealRecords
    BY <1>2 DEF SurveyRecords
  <2>5. /\ survey.faceoff.status \in {"reading", "buzzed", "opponent_chance", "decided", "complete"}
        /\ survey.faceoff.window \in WindowsUpTo(AnswerMs)
    BY <2>4 DEF FaceoffRecords
  <2>6. survey.board.strikes \in 0..MaxStrikes /\ survey.board.window \in WindowsUpTo(TurnMs)
    BY <2>4 DEF BoardRecords
  <2>7. /\ survey.steal.status \in {"none", "conferring", "awaiting_answer", "resolved"}
        /\ survey.steal.window \in WindowsUpTo(ConferMs)
    BY <2>4 DEF StealRecords
  <2>8. QED
    BY <2>1, <2>2, <2>3, <2>4, <2>5, <2>6, <2>7 DEF R4TypeOK
<1>5. QED
  BY <1>1, <1>2, <1>3, <1>4 DEF BoardIsSound

\* What holds of a survey between any two steps (BoardIsSound): it is well formed
\* through face-off, board and steal, its windows stand still exactly while the game
\* is paused, and until its challenge is settled every member of the teams it waits
\* for is active, however the board came to them.
THEOREM BoardIsSoundAlways == R4Spec => []BoardIsSound
  BY R4Invariant, R4InvGives, PTL

\* The step that wins a survey awards what its board then shows.
LEMMA WinAwards ==
    ASSUME R4Inv, [R4Next]_allR4Vars
    PROVE  AwardsTheBoard
<1>i. FlowInv /\ SurveyInv /\ MatchupInv /\ WinsInv
  BY DEF R4Inv
<1>1. SUFFICES ASSUME survey.progress # "resolved", survey'.progress = "resolved"
               PROVE  survey'.awarded = (IF survey'.no \in Doubled THEN 2 ELSE 1)
                                            * BoardPoints(survey'.revealed)
  BY DEF AwardsTheBoard
<1>2. CASE SurveyWon
  <2>1. PICK s, w : /\ w \in Teams /\ Settles(s) /\ survey' = Resolved(s, w)
                    /\ survey.progress \in {"board_play", "steal"}
    BY <1>2 DEF SurveyWon, SettleSurvey
  <2>2. PICK a : a = Award(s)
    OBVIOUS
  <2>3. s \in SurveyRecords /\ s.pot = BoardPoints(s.revealed) /\ s.pot \in Nat
    BY <2>1 DEF Settles, SurveyRecords, BoardPoints, Worth
  <2>4. a = (IF s.no \in Doubled THEN 2 ELSE 1) * BoardPoints(s.revealed)
    BY <2>2, <2>3 DEF Award
  <2>5. PICK u : u = survey'
    OBVIOUS
  <2>6. u = [s EXCEPT !.progress = "resolved", !.winner = w, !.awarded = a]
    BY <2>1, <2>2, <2>5 DEF Resolved
  <2>7. u.no = s.no /\ u.revealed = s.revealed /\ u.awarded = a
    BY <2>3, <2>6 DEF SurveyRecords
  <2>8. QED
    BY <2>4, <2>5, <2>7
<1>3. ASSUME PlaysOn PROVE FALSE
  BY <1>1, <1>3 DEF PlaysOn, SameHands, Counts, TakesBoard, StrikesOut
<1>4. ASSUME StartFaceoff PROVE FALSE
  <2>1. CASE BetweenSurveys
    <3>1. PICK id : id = challenge'.id
      OBVIOUS
    <3>2. survey' = NewSurvey(dealt', id, "faceoff", {contesting[1], contesting[2]})
      BY <1>4, <2>1, <3>1 DEF StartFaceoff, StartSurvey
    <3>3. survey'.progress = "faceoff"
      BY <3>2 DEF NewSurvey
    <3>4. QED
      BY <1>1, <3>3
  <2>2. CASE ~BetweenSurveys
    BY <1>1, <1>4, <2>2 DEF StartFaceoff, StartSurvey
  <2>3. QED
    BY <2>1, <2>2
<1>5. ASSUME WindowsMove PROVE FALSE
  BY <1>1, <1>5, <1>i, WindowsMoveKeeps DEF SameHands
<1>6. ASSUME Around PROVE FALSE
  <2>1. survey' = survey
    BY <1>6, AroundLeavesSurvey
  <2>2. QED
    BY <1>1, <2>1
<1>7. ASSUME UNCHANGED allR4Vars PROVE FALSE
  BY <1>1, <1>7 DEF allR4Vars, r4Vars
<1>8. QED
  BY <1>2, <1>3, <1>4, <1>5, <1>6, <1>7, <1>i, StepKinds

\* The pot is what the board shows and the award the pot; no survey is paid twice and
\* no challenge pays two, what is paid goes to the winner, and a survey goes unpaid
\* only where its challenge was given another result (PotIsWhole).
THEOREM PotIsWholeAlways == R4Spec => PotIsWhole
<1>1. R4Inv /\ [R4Next]_allR4Vars => [AwardsTheBoard]_allR4Vars
  BY WinAwards
<1>2. QED
  BY <1>1, R4Invariant, R4InvGives, PTL DEF R4Spec, PotIsWhole

\* Round 4 keeps what the engine's own module promises of the game and its timer.
THEOREM Round4StaysSound == R4Spec => [](GameIsSound /\ TimerIsSound)
  BY R4Invariant, R4InvGives, PTL

-----------------------------------------------------------------------------
(* A survey is a feud.                                                     *)

\* Each step of the round is a move of the feud or none.
LEMMA StepIsFeudStep ==
    ASSUME R4Inv, [R4Next]_allR4Vars
    PROVE  [\/ Feud!NextSurvey \/ Feud!TakeTheBoard \/ Feud!CountStrikes
            \/ Feud!StrikeOut \/ Feud!Win]_(Feud!FVars)
<1>i. FlowInv /\ SurveyInv /\ MatchupInv /\ WinsInv
  BY DEF R4Inv
<1>s. ASSUME SameHands(survey'), SameSurvey(survey') PROVE UNCHANGED Feud!FVars
  BY <1>s DEF SameHands, SameSurvey, Feud!FVars
<1>1. CASE PlaysOn
  <2>1. SameSurvey(survey')
    BY <1>1 DEF PlaysOn, Plays
  <2>2. CASE SameHands(survey')
    BY <1>s, <2>1, <2>2
  <2>3. CASE Counts(survey')
    BY <2>1, <2>3 DEF Counts, SameSurvey, Feud!CountStrikes
  <2>4. CASE TakesBoard(survey')
    BY <2>1, <2>4 DEF TakesBoard, SameSurvey, Feud!TakeTheBoard
  <2>5. CASE StrikesOut(survey')
    BY <2>1, <2>5 DEF StrikesOut, SameSurvey, Feud!StrikeOut
  <2>6. QED
    BY <1>1, <2>2, <2>3, <2>4, <2>5 DEF PlaysOn
<1>2. CASE SurveyWon
  <2>1. PICK s, w : /\ w \in Teams /\ Settles(s) /\ survey' = Resolved(s, w)
                    /\ survey.progress \in {"board_play", "steal"}
                    /\ survey.progress = "board_play" => w = survey.board.holder
                    /\ w \in {survey.board.holder, survey.steal.thief}
    BY <1>2 DEF SurveyWon, SettleSurvey
  <2>2. PICK u : u = survey'
    OBVIOUS
  <2>3. /\ u.no = survey.no /\ u.progress = "resolved" /\ u.winner = w
        /\ u.board.holder = survey.board.holder /\ u.board.strikes = survey.board.strikes
        /\ u.steal.thief = survey.steal.thief
    BY <1>i, <2>1, <2>2, ResolvedFacts
  <2>4. QED
    BY <2>1, <2>2, <2>3 DEF Feud!Win
<1>3. CASE StartFaceoff
  <2>1. CASE BetweenSurveys
    <3>1. PICK id : id = challenge'.id
      OBVIOUS
    <3>2. PICK s : s = NewSurvey(dealt', id, "faceoff", {contesting[1], contesting[2]})
      OBVIOUS
    <3>3. survey' = s
      BY <1>3, <2>1, <3>1, <3>2 DEF StartFaceoff, StartSurvey
    <3>4. /\ contesting[1] \in Teams /\ contesting[2] \in Teams /\ contesting[1] # contesting[2]
      BY <1>3, <1>i DEF StartFaceoff, MatchupInv
    <3>5. dealt \in Nat /\ dealt' = dealt + 1 /\ survey.no \in Nat /\ survey.no <= dealt
      BY <1>3, <1>i, Round4Assumption
         DEF StartFaceoff, TakeSurvey, SurveyInv, Sound, SurveyRecords, Round4Assumption
    <3>6. challenge.id \in Nat /\ id = challenge.id + 1
      BY <1>3, <1>i, <3>1, GameFlowAssumption
         DEF StartFaceoff, StartSurvey, PreparesAndStarts, FlowInv, TypeOK, GameFlowAssumption
    <3>7. dealt' \in Nat \ {0} /\ id \in Nat \ {0} /\ dealt' > survey.no
      BY <3>5, <3>6
    <3>8. /\ s.no = dealt' /\ s.progress = "faceoff"
          /\ s.board.holder = None /\ s.board.strikes = 0 /\ s.steal.thief = None
          /\ s.winner = None
      BY <3>2, <3>4, <3>7, NewSurveyFacts
    <3>9. QED
      BY <2>1, <3>3, <3>7, <3>8 DEF BetweenSurveys, Feud!NextSurvey
  <2>2. CASE ~BetweenSurveys
    <3>1. survey' = survey
      BY <1>3, <2>2 DEF StartFaceoff, StartSurvey
    <3>2. QED
      BY <3>1 DEF Feud!FVars
  <2>3. QED
    BY <2>1, <2>2
<1>4. CASE Around \/ UNCHANGED allR4Vars
  <2>1. survey' = survey
    BY <1>4
       DEF Around, r4Vars, BeginRound4, DevStartRound4, DevEnterRound4, StartFaceoffRefused,
           GrantForgiveMeh, DecideFirstMatchup, BeginFinalMatchup, AroundTheRound, allR4Vars
  <2>2. QED
    BY <2>1 DEF Feud!FVars
<1>5. CASE WindowsMove
  BY <1>5, <1>i, <1>s, WindowsMoveKeeps
<1>6. QED
  BY <1>1, <1>2, <1>3, <1>4, <1>5, <1>i, StepKinds

\* A survey implements the feud (ImplementsFeud): a face-off gives the board to one
\* team, it keeps it until its strikes and only they hand the other team the steal,
\* and the survey is won once, by a team that held or stole it.
THEOREM Round4ImplementsFeud == R4Spec => ImplementsFeud
<1>1. R4Init => Feud!FInit
  BY DEF R4Init, NewSurvey, FreshBoard, FreshSteal, Feud!FInit
<1>2. QED
  BY <1>1, StepIsFeudStep, R4Invariant, PTL DEF R4Spec, ImplementsFeud, Feud!FSpec

=============================================================================

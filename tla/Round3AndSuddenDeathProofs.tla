--------------------- MODULE Round3AndSuddenDeathProofs ---------------------
(***************************************************************************)
(* Proofs about the two parts of the game in which teams are put out or    *)
(* put through one by one, each a game of its own.                         *)
(*                                                                         *)
(* Round 3, for every number of teams, contests and items: the contests    *)
(* come in order and are paid each through a challenge of its own, their   *)
(* windows ride the pause, Think Fast always has somebody left, the round  *)
(* implements OrderedRound, and its rock-paper-scissors is fair and        *)
(* implements Elimination.                                                 *)
(*                                                                         *)
(* Sudden Death, for every number of players and teams and every length of *)
(* the answer window: the game around it stays sound, the answer window    *)
(* rides the pause, two in a row decides, and it implements TwoInARow.     *)
(***************************************************************************)
EXTENDS Round3, SuddenDeath, GameFlowProofs

-----------------------------------------------------------------------------
(* Round 3: what the round keeps to.                                       *)

Places == 1..Len(Contests)

Windows3 == [left : Nat, state : {"none", "running", "frozen"}]

SlotRecords ==
    [progress : {"not_started", "in_progress", "resolved"}, challenge : Nat,
     winner : Teams \cup {None}, score : [Teams -> 0..MaxScore], shown : Nat,
     window : Windows3, at : 0..MaxTurns, out : SUBSET Teams]

\* A contest's slot by itself: over exactly with a winner, who was not out, and
\* paid through a challenge of the game; with a window only while it is played,
\* which stands still with the game, and no more shown than was there.
SlotFits(i, s) ==
    /\ s \in SlotRecords
    /\ s.progress = "not_started" <=> s.challenge = 0
    /\ s.progress = "resolved" <=> s.winner # None
    /\ s.progress # "not_started" => Begun /\ s.challenge <= challenge.id
    /\ s.progress = "resolved" => settlements[s.challenge] > 0
    /\ s.shown + content[i] <= Items[i]
    /\ s.window \in WindowsUpTo(Contests[i].windowMs)
    /\ Exists(s.window) => s.progress = "in_progress"
    /\ FollowsPause(s.window, Paused)
    /\ Teams \ s.out # {} /\ s.winner \notin s.out

\* Whatever comes before a contest that was started is over, on an earlier challenge.
InTurn ==
    \A i \in Places, j \in Places :
        j < i /\ slots[i].progress # "not_started" =>
            slots[j].progress = "resolved" /\ slots[j].challenge < slots[i].challenge

SlotsInv ==
    /\ order \in Orders \cup {<<>>}
    /\ content \in [Places -> Nat]
    /\ slots \in [Places -> SlotRecords]
    /\ \A i \in Places : SlotFits(i, slots[i])
    /\ InTurn

WinsInv ==
    /\ wins \in [Teams -> Nat]
    /\ \A t \in Teams : wins[t] = Cardinality({i \in DOMAIN slots : slots[i].winner = t})

\* The tiebreak is among the leaders, once the contests are over.
TieInv ==
    /\ tied \subseteq Teams /\ standing \subseteq tied
    /\ throws \in [Teams -> Throws \cup {None}]
    /\ r3Winner \in Teams \cup {None}
    /\ tied # {} \/ r3Winner # None => Complete
    /\ tied # {} => tied = Leaders(wins)
    /\ tied # {} /\ r3Winner = None => Cardinality(standing) > 1
    /\ r3Winner # None => r3Winner \in Leaders(wins)

R3Inv == FlowInv /\ SlotsInv /\ WinsInv /\ TieInv

\* The contests are numbered, and the constants are what they should be.
LEMMA PlaceFacts ==
    /\ Len(Contests) \in Nat /\ DOMAIN Contests = Places /\ Places \subseteq Nat
    /\ IsFiniteSet(Places) /\ Cardinality(Places) = Len(Contests)
    /\ \A i \in Places : Contests[i].windowMs \in Nat
    /\ Items \in [Places -> Nat]
    /\ IsFiniteSet(Teams) /\ Teams # {} /\ None \notin Teams
    /\ MaxScore \in Nat /\ MaxTurns \in Nat /\ Round3Index \in Nat
<1> DEFINE Table == [format : {"elimination", "points"}, mode : {"single", "stream"},
                     windowMs : Nat]
<1>1. Contests \in Seq(Table)
  BY Round3Assumption DEF Round3Assumption
<1>2. Len(Contests) \in Nat /\ DOMAIN Contests = Places /\ Places \subseteq Nat
      /\ \A i \in Places : Contests[i] \in Table
  <2> HIDE DEF Table
  <2>1. QED
    BY <1>1 DEF Places
<1>3. IsFiniteSet(Places) /\ Cardinality(Places) = Len(Contests)
  BY <1>2, FS_Interval DEF Places
<1>4. Items \in [Places -> Nat]
  BY <1>2, Round3Assumption DEF Round3Assumption
<1>5. QED
  BY <1>2, <1>3, <1>4, Round3Assumption, GameFlowAssumption
     DEF Round3Assumption, GameFlowAssumption

\* The contest being played or next: those before it are over, those after it
\* have not begun.
LEMMA CurFacts ==
    ASSUME SlotsInv, ~Complete
    PROVE  /\ Cur \in Places /\ slots[Cur].progress # "resolved"
           /\ \A i \in Places : i < Cur => slots[i].progress = "resolved"
           /\ \A i \in Places : i > Cur => slots[i].progress = "not_started"
<1>1. Unresolved \subseteq Nat /\ Unresolved # {}
  BY PlaceFacts DEF SlotsInv, Complete, Unresolved
<1>2. \E i \in Unresolved : \A j \in Unresolved : i <= j
  BY <1>1, LeastNatural
<1>3. Cur \in Unresolved /\ \A j \in Unresolved : Cur <= j
  BY <1>2 DEF Cur, Min
<1>4. Cur \in Places /\ Cur \in Nat /\ slots[Cur].progress # "resolved"
  BY <1>3, PlaceFacts DEF Unresolved, SlotsInv
<1>5. ASSUME NEW i \in Places, i < Cur PROVE slots[i].progress = "resolved"
  <2>1. i \in Nat /\ ~(Cur <= i)
    BY <1>4, <1>5, PlaceFacts
  <2>2. QED
    BY <1>3, <2>1 DEF Unresolved, SlotsInv
<1>6. ASSUME NEW i \in Places, i > Cur PROVE slots[i].progress = "not_started"
  BY <1>4, <1>6, PlaceFacts DEF SlotsInv, InTurn
<1>7. QED
  BY <1>4, <1>5, <1>6

\* What a step makes of a slot it leaves alone.
LEMMA StillFits ==
    ASSUME FlowInv, FlowInv', NEW i \in Places, NEW s, SlotFits(i, s),
           Begun => Begun',
           challenge'.id >= challenge.id,
           \A c \in 1..MaxChallenges : settlements'[c] >= settlements[c],
           content[i] \in Nat, content'[i] \in Nat, content'[i] <= content[i],
           s.progress = "in_progress" => (Paused' <=> Paused)
    PROVE  SlotFits(i, s)'
<1>1. /\ challenge.id \in 0..MaxChallenges /\ challenge'.id \in 0..MaxChallenges
      /\ settlements \in [1..MaxChallenges -> Nat] /\ settlements' \in [1..MaxChallenges -> Nat]
      /\ MaxChallenges \in Nat
  BY GameFlowAssumption DEF GameFlowAssumption, FlowInv, TypeOK
<1>2. s.challenge \in Nat /\ s.shown \in Nat /\ Items[i] \in Nat
  BY PlaceFacts DEF SlotFits, SlotRecords
<1>3. s.progress # "not_started" => Begun' /\ s.challenge <= challenge'.id
  BY <1>1, <1>2 DEF SlotFits
<1>4. s.progress = "resolved" => settlements'[s.challenge] > 0
  <2>1. s.progress = "resolved" => s.challenge \in 1..MaxChallenges
    BY <1>1, <1>2 DEF SlotFits
  <2>2. QED
    BY <1>1, <2>1 DEF SlotFits
<1>5. s.shown + content'[i] <= Items[i]
  BY <1>2 DEF SlotFits
<1>6. FollowsPause(s.window, Paused')
  BY DEF SlotFits, FollowsPause
<1>7. QED
  BY <1>3, <1>4, <1>5, <1>6 DEF SlotFits

\* The game around the round stays sound, through the walk to it as well; no
\* step takes back a challenge or a result, and only the round's own pause and
\* resume pause and resume the game.
LEMMA GameGoesOn ==
    ASSUME FlowInv, [R3Next]_allVars
    PROVE  /\ FlowInv'
           /\ challenge'.id >= challenge.id
           /\ \A c \in 1..MaxChallenges : settlements'[c] >= settlements[c]
           /\ PauseRound3 \/ ResumeRound3 \/ (Paused' <=> Paused)
<1>t. TypeOK
  BY DEF FlowInv
<1>1. CASE DevStartRound3
  BY <1>1, WalkKeepsFlow, PlaceFacts DEF DevStartRound3, DevEnterRound3, MayEnter, Running
<1>2. CASE PlainStep \/ UNCHANGED vars
  <2>1. [Next]_vars /\ (Paused' <=> Paused)
    BY <1>2, <1>t, PlainStepFacts DEF vars, flowVars, Paused
  <2>2. QED
    BY <2>1, <1>t, NextFlow, NothingIsTakenBack
<1>3. CASE PauseRound3 \/ ResumeRound3
  <2>1. Next
    BY <1>3 DEF PauseRound3, ResumeRound3, GamePauses, Next
  <2>2. QED
    BY <1>3, <2>1, <1>t, NextFlow, NothingIsTakenBack
<1>4. AroundTheRound => PlainStep
  BY DEF AroundTheRound, HostMoves, PlainStep
<1>5. QED
  BY <1>1, <1>2, <1>3, <1>4
     DEF R3Next, BeginRound3, PrepareRound3Challenge, StartChallengeInRoom, NextItem, AwardPoint,
         ThinkFastValid, ThinkFastEliminate, ConfirmRound3Challenge, PayResult, SubmitRpsChoice,
         Tick, ItemMovesOn, ThrowsRevealed, TimePasses, allVars, PlainStep

\* A step that leaves the slots alone.
LEMMA SlotsStay ==
    ASSUME FlowInv, FlowInv', SlotsInv, UNCHANGED slots,
           order' \in Orders \cup {<<>>}, Begun => Begun',
           content' \in [Places -> Nat], \A i \in Places : content'[i] <= content[i],
           challenge'.id >= challenge.id,
           \A c \in 1..MaxChallenges : settlements'[c] >= settlements[c],
           Paused' <=> Paused
    PROVE  SlotsInv'
<1>1. ASSUME NEW i \in Places PROVE SlotFits(i, slots[i])'
  <2>1. PICK s : s = slots[i]
    OBVIOUS
  <2>2. SlotFits(i, s) /\ content[i] \in Nat /\ content'[i] \in Nat
    BY <2>1 DEF SlotsInv
  <2>3. SlotFits(i, s)'
    BY <2>2, StillFits
  <2>4. s = slots'[i]
    BY <2>1
  <2>5. QED
    BY <2>3, <2>4
<1>2. QED
  BY <1>1 DEF SlotsInv, InTurn

\* A step that changes the slot of the current contest to one that fits.
LEMMA SlotMoves ==
    ASSUME FlowInv, FlowInv', SlotsInv, ~Complete, NEW k, k = Cur,
           NEW s, SlotBecomes(s), SlotFits(k, s)',
           s.progress # "not_started" =>
               \A j \in Places : j < k => slots[j].challenge < s.challenge,
           order' \in Orders \cup {<<>>}, Begun => Begun',
           content' \in [Places -> Nat], \A i \in Places : content'[i] <= content[i],
           challenge'.id >= challenge.id,
           \A c \in 1..MaxChallenges : settlements'[c] >= settlements[c]
    PROVE  /\ SlotsInv'
           /\ k \in Places /\ \A i \in Places : slots'[i] = IF i = k THEN s ELSE slots[i]
<1>1. /\ k \in Places /\ k \in Nat
      /\ \A i \in Places : i < k => slots[i].progress = "resolved"
      /\ \A i \in Places : i > k => slots[i].progress = "not_started"
      /\ \A i \in Places : i # k => i < k \/ i > k
  BY CurFacts, PlaceFacts
<1>2. s \in SlotRecords
  BY DEF SlotFits
<1>3. /\ slots' \in [Places -> SlotRecords]
      /\ \A i \in Places : slots'[i] = IF i = k THEN s ELSE slots[i]
  BY <1>1, <1>2 DEF SlotBecomes, SlotsInv
<1>4. ASSUME NEW i \in Places PROVE SlotFits(i, slots[i])'
  <2>1. CASE i = k
    BY <1>3, <2>1
  <2>2. CASE i # k
    <3>1. PICK r : r = slots[i]
      OBVIOUS
    <3>2. SlotFits(i, r) /\ content[i] \in Nat /\ content'[i] \in Nat
          /\ r.progress # "in_progress"
      BY <1>1, <2>2, <3>1 DEF SlotsInv
    <3>3. SlotFits(i, r)'
      BY <3>2, StillFits
    <3>4. r = slots'[i]
      BY <1>3, <2>2, <3>1
    <3>5. QED
      BY <3>3, <3>4
  <2>3. QED
    BY <2>1, <2>2
<1>5. InTurn'
  <2>1. ASSUME NEW i \in Places, NEW j \in Places, j < i, slots'[i].progress # "not_started"
        PROVE  slots'[j].progress = "resolved" /\ slots'[j].challenge < slots'[i].challenge
    <3>1. CASE i = k
      BY <1>1, <1>3, <2>1, <3>1, PlaceFacts
    <3>2. CASE i > k
      BY <1>1, <1>3, <2>1, <3>2, PlaceFacts
    <3>3. CASE i < k
      <4>1. j # k /\ i # k /\ slots'[j] = slots[j] /\ slots'[i] = slots[i]
        BY <1>1, <1>3, <2>1, <3>3, PlaceFacts
      <4>2. QED
        BY <2>1, <4>1 DEF SlotsInv, InTurn
    <3>4. QED
      BY <1>1, <3>1, <3>2, <3>3
  <2>2. QED
    BY <2>1 DEF InTurn
<1>6. QED
  BY <1>1, <1>3, <1>4, <1>5 DEF SlotsInv

-----------------------------------------------------------------------------
(* What the operations make of the slots.                                  *)

\* No contest gets or loses a result, and none begins that is not prepared.
ResultsStay ==
    /\ \A i \in Places : /\ slots'[i].winner = slots[i].winner
                         /\ slots'[i].progress = "resolved" <=> slots[i].progress = "resolved"
    /\ \/ PrepareRound3Challenge
       \/ \A i \in Places : slots'[i].progress = slots[i].progress

\* Of a step inside the contest being played.
LEMMA PlayedOn ==
    ASSUME R3Inv, GoesOn, Playing, NEW k, k = Cur, NEW z, z = slots[Cur],
           NEW s \in SlotRecords, SlotBecomes(s),
           s.progress = "in_progress", s.challenge = z.challenge, s.winner = z.winner,
           content' \in [Places -> Nat], \A i \in Places : content'[i] <= content[i],
           s.shown + content'[k] <= Items[k],
           s.window \in WindowsUpTo(Contests[k].windowMs), FollowsPause(s.window, Paused'),
           Teams \ s.out # {}, UNCHANGED order
    PROVE  SlotsInv' /\ ResultsStay
<1>1. /\ FlowInv /\ SlotsInv /\ ~Complete /\ Begun /\ z.progress = "in_progress"
      /\ k \in Places /\ SlotFits(k, z)
  BY CurFacts DEF R3Inv, Playing, SlotsInv
<1>2. challenge.id \in Nat /\ challenge'.id \in Nat /\ Begun'
  BY <1>1 DEF GoesOn, FlowInv, TypeOK, Begun
<1>3. SlotFits(k, s)'
  <2>1. s.winner = None /\ None \notin s.out
    BY <1>1, PlaceFacts DEF SlotFits, SlotRecords
  <2>2. s.challenge <= challenge'.id /\ s.challenge # 0
    BY <1>1, <1>2 DEF SlotFits, GoesOn, SlotRecords
  <2>3. QED
    BY <1>2, <2>1, <2>2 DEF SlotFits
<1>4. \A j \in Places : j < k => slots[j].challenge < s.challenge
  BY <1>1 DEF SlotsInv, InTurn
<1>5. SlotsInv' /\ \A i \in Places : slots'[i] = IF i = k THEN s ELSE slots[i]
  BY <1>1, <1>2, <1>3, <1>4, SlotMoves DEF GoesOn, SlotsInv
<1>6. QED
  BY <1>1, <1>5 DEF ResultsStay

\* Of the step that begins a contest.
LEMMA PreparedKeeps ==
    ASSUME R3Inv, GoesOn, PrepareRound3Challenge
    PROVE  /\ SlotsInv' /\ ResultsStay /\ ~Complete
           /\ slots[Cur].progress = "not_started" /\ slots'[Cur].progress = "in_progress"
           /\ \A i \in Places : i # Cur => slots'[i] = slots[i]
<1>1. PICK k : k = Cur
  OBVIOUS
<1>2. PICK z : z = slots[Cur]
  OBVIOUS
<1>3. PICK id : id = challenge'.id
  OBVIOUS
<1>4. PICK s : s = MarkPrepared(id)
  OBVIOUS
<1>5. /\ FlowInv /\ SlotsInv /\ ~Complete /\ Begun /\ z.progress = "not_started"
      /\ k \in Places /\ SlotFits(k, z) /\ UNCHANGED <<order, content, settlements>>
  BY <1>1, <1>2, CurFacts
     DEF R3Inv, PrepareRound3Challenge, NextToPrepare, SlotsInv, PrepareChallenge
<1>6. id = challenge.id + 1 /\ challenge.id \in Nat /\ id \in Nat
  BY <1>3 DEF PrepareRound3Challenge, PrepareChallenge, R3Inv, FlowInv, TypeOK
<1>7. z \in SlotRecords /\ z.challenge = 0 /\ z.winner = None /\ ~Exists(z.window)
  BY <1>5 DEF SlotFits
<1>8. /\ s \in SlotRecords /\ s.progress = "in_progress" /\ s.challenge = id
      /\ s.winner = None /\ s.shown = z.shown /\ s.window = z.window /\ s.out = {}
  <2>1. s = [z EXCEPT !.progress = "in_progress", !.challenge = id,
                      !.score = [t \in Teams |-> 0], !.at = 0, !.out = {}]
    BY <1>2, <1>4 DEF MarkPrepared
  <2>2. 0 \in 0..MaxTurns /\ [t \in Teams |-> 0] \in [Teams -> 0..MaxScore]
    BY PlaceFacts
  <2>3. QED
    BY <1>6, <1>7, <2>1, <2>2 DEF SlotRecords
<1>9. SlotFits(k, s)'
  BY <1>3, <1>5, <1>6, <1>7, <1>8, PlaceFacts DEF SlotFits, Begun, Exists, FollowsPause
<1>10. \A j \in Places : j < k => slots[j].challenge < s.challenge
  <2>1. ASSUME NEW j \in Places, j < k PROVE slots[j].challenge < s.challenge
    <3>1. slots[j].progress = "resolved"
      BY <1>1, <1>5, <2>1, CurFacts
    <3>2. slots[j].challenge <= challenge.id /\ slots[j].challenge \in Nat
      BY <1>5, <3>1 DEF SlotsInv, SlotFits, SlotRecords
    <3>3. QED
      BY <1>6, <1>8, <3>2
  <2>2. QED
    BY <2>1
<1>11. SlotBecomes(s)
  BY <1>3, <1>4 DEF PrepareRound3Challenge
<1>12. SlotsInv' /\ \A i \in Places : slots'[i] = IF i = k THEN s ELSE slots[i]
  <2>1. content' \in [Places -> Nat] /\ \A i \in Places : content'[i] <= content[i]
    BY <1>5 DEF SlotsInv
  <2>2. order' \in Orders \cup {<<>>} /\ (Begun => Begun')
    BY <1>5 DEF SlotsInv, Begun
  <2>3. QED
    BY <1>1, <1>5, <1>9, <1>10, <1>11, <2>1, <2>2, SlotMoves DEF GoesOn
<1>13. QED
  BY <1>2, <1>1, <1>5, <1>7, <1>8, <1>12 DEF ResultsStay

\* The slot of the contest being played.
LEMMA PlayedSlot ==
    ASSUME R3Inv, Playing, NEW k, k = Cur, NEW z, z = slots[Cur]
    PROVE  /\ k \in Places /\ SlotFits(k, z) /\ z \in SlotRecords /\ z.progress = "in_progress"
           /\ ~Complete /\ content \in [Places -> Nat] /\ Teams # {}
BY CurFacts, PlaceFacts DEF R3Inv, Playing, SlotsInv, SlotFits

\* An item taken is one less to come and, where it is shown, one more shown.
LEMMA TakeKeeps ==
    ASSUME R3Inv, GoesOn, ~Complete, Begun, content[Cur] > 0, Paused' <=> Paused, UNCHANGED order,
           (TakeItem(TRUE) /\ Playing /\ ~Paused) \/ TakeItem(FALSE)
    PROVE  SlotsInv' /\ ResultsStay
<1>1. PICK k : k = Cur
  OBVIOUS
<1>2. /\ k \in Places /\ content \in [Places -> Nat] /\ content[k] > 0
      /\ content' = [content EXCEPT ![k] = @ - 1]
  BY <1>1, CurFacts DEF R3Inv, SlotsInv, TakeItem
<1>3. /\ content' \in [Places -> Nat] /\ content'[k] = content[k] - 1
      /\ \A i \in Places : content'[i] <= content[i]
  BY <1>2
<1>4. CASE TakeItem(TRUE) /\ Playing /\ ~Paused
  <2>1. PICK z : z = slots[Cur]
    OBVIOUS
  <2>2. PICK w : w = IF Contests[k].windowMs = 0 THEN NoWindow
                     ELSE OpenWindow(Contests[k].windowMs)
    OBVIOUS
  <2>3. PICK s : s = Revealed
    OBVIOUS
  <2>4. SlotFits(k, z) /\ z \in SlotRecords /\ z.progress = "in_progress"
    BY <1>1, <1>4, <2>1, PlayedSlot
  <2>5. w \in WindowsUpTo(Contests[k].windowMs) /\ w \in Windows3 /\ w.state # "frozen"
    BY <1>2, <2>2, PlaceFacts DEF NoWindow, OpenWindow, WindowsUpTo, Windows3
  <2>n. PICK n : n = z.shown + 1
    OBVIOUS
  <2>6. s = [z EXCEPT !.shown = n, !.window = w] /\ n \in Nat
    BY <1>1, <2>1, <2>2, <2>3, <2>4, <2>n DEF Revealed, SlotRecords
  <2>7. /\ s \in SlotRecords /\ s.progress = z.progress /\ s.challenge = z.challenge
        /\ s.winner = z.winner /\ s.shown = n /\ s.window = w /\ s.out = z.out
    BY <2>4, <2>5, <2>6 DEF SlotRecords
  <2>8. s.shown + content'[k] <= Items[k] /\ Teams \ s.out # {}
    <3>1. z.shown \in Nat /\ z.shown + content[k] <= Items[k] /\ Teams \ z.out # {}
      BY <2>4 DEF SlotFits, SlotRecords
    <3>2. content[k] \in Nat /\ content'[k] = content[k] - 1 /\ Items[k] \in Nat
      BY <1>2, <1>3, PlaceFacts
    <3>3. QED
      BY <2>7, <2>n, <3>1, <3>2
  <2>9. FollowsPause(s.window, Paused')
    BY <1>4, <2>5, <2>7 DEF FollowsPause
  <2>10. SlotBecomes(s)
    BY <1>4, <2>3 DEF TakeItem
  <2>11. QED
    BY <1>1, <1>3, <1>4, <2>1, <2>4, <2>5, <2>7, <2>8, <2>9, <2>10, PlayedOn
<1>5. CASE TakeItem(FALSE)
  <2>1. UNCHANGED slots
    BY <1>5 DEF TakeItem
  <2>2. order' \in Orders \cup {<<>>} /\ (Begun => Begun')
    BY DEF R3Inv, SlotsInv, Begun
  <2>3. SlotsInv'
    BY <1>3, <2>1, <2>2, SlotsStay DEF R3Inv, GoesOn
  <2>4. QED
    BY <2>1, <2>3 DEF ResultsStay
<1>6. QED
  BY <1>4, <1>5

\* Points and turns, which say nothing of the result.
LEMMA ScoredKeeps ==
    ASSUME R3Inv, GoesOn, Playing, UNCHANGED <<vars, order, content>>,
           NEW score \in [Teams -> 0..MaxScore], NEW at \in 0..MaxTurns,
           NEW out \in SUBSET Teams, Teams \ out # {},
           SlotBecomes([slots[Cur] EXCEPT !.score = score, !.at = at, !.out = out])
    PROVE  SlotsInv' /\ ResultsStay
<1>1. PICK k : k = Cur
  OBVIOUS
<1>2. PICK z : z = slots[Cur]
  OBVIOUS
<1>3. PICK s : s = [z EXCEPT !.score = score, !.at = at, !.out = out]
  OBVIOUS
<1>4. SlotFits(k, z) /\ z \in SlotRecords /\ z.progress = "in_progress" /\ k \in Places
      /\ content \in [Places -> Nat]
  BY <1>1, <1>2, PlayedSlot
<1>5. /\ s \in SlotRecords /\ s.progress = z.progress /\ s.challenge = z.challenge
      /\ s.winner = z.winner /\ s.shown = z.shown /\ s.window = z.window /\ s.out = out
  BY <1>3, <1>4 DEF SlotRecords
<1>6. Paused' <=> Paused
  BY DEF vars, flowVars, Paused
<1>7. /\ s.shown + content'[k] <= Items[k] /\ s.window \in WindowsUpTo(Contests[k].windowMs)
      /\ FollowsPause(s.window, Paused')
  BY <1>4, <1>5, <1>6 DEF SlotFits, FollowsPause
<1>8. content' \in [Places -> Nat] /\ \A i \in Places : content'[i] <= content[i]
  BY <1>4
<1>9. SlotBecomes(s)
  BY <1>2, <1>3
<1>10. QED
  BY <1>1, <1>2, <1>4, <1>5, <1>7, <1>8, <1>9, PlayedOn

\* In a finite set of numbers each is preceded by fewer than there are, and every
\* number of predecessors occurs.
LEMMA EveryTurnComes ==
    ASSUME NEW S, S \subseteq Nat, IsFiniteSet(S), NEW n \in Nat, n < Cardinality(S)
    PROVE  \E i \in S : Cardinality({j \in S : j < i}) = n
<1> DEFINE Before(i) == {j \in S : j < i}
           f == [i \in S |-> Cardinality(Before(i))]
           T == 0..Cardinality(S) - 1
<1>1. Cardinality(S) \in Nat
  BY FS_CardinalityType
<1>2. ASSUME NEW i \in S
      PROVE  IsFiniteSet(Before(i)) /\ Cardinality(Before(i)) \in Nat
  <2>1. Before(i) \in SUBSET S
    OBVIOUS
  <2> HIDE DEF Before
  <2>2. QED
    BY <2>1, FS_Subset, FS_CardinalityType
<1>3. ASSUME NEW i \in S, NEW U \in SUBSET S, IsFiniteSet(U), Before(i) \cup {i} \subseteq U
      PROVE  Cardinality(Before(i)) < Cardinality(U)
  <2>1. i \notin Before(i)
    OBVIOUS
  <2> HIDE DEF Before
  <2>2. Cardinality(Before(i) \cup {i}) = Cardinality(Before(i)) + 1
    BY <1>2, <2>1, FS_AddElement
  <2>3. Cardinality(Before(i) \cup {i}) <= Cardinality(U) /\ Cardinality(U) \in Nat
    BY <1>3, FS_Subset, FS_CardinalityType
  <2>4. QED
    BY <1>2, <2>2, <2>3
<1>4. f \in [S -> T]
  <2>1. ASSUME NEW i \in S PROVE Cardinality(Before(i)) \in T
    <3>1. Cardinality(Before(i)) < Cardinality(S)
      <4>1. Before(i) \cup {i} \subseteq S
        OBVIOUS
      <4>2. QED
        BY <1>3, <4>1
    <3>2. QED
      BY <1>1, <1>2, <3>1
  <2>2. QED
    BY <2>1
<1>5. \A a, b \in S : f[a] = f[b] => a = b
  <2>1. ASSUME NEW a \in S, NEW b \in S, a < b PROVE f[a] # f[b]
    <3>1. Before(a) \cup {a} \subseteq Before(b) /\ Before(b) \in SUBSET S
      <4>1. a \in Nat /\ b \in Nat /\ S \subseteq Nat
        OBVIOUS
      <4>2. \A j \in S : j < a => j < b
        BY <2>1, <4>1
      <4>3. QED
        BY <2>1, <4>2
    <3>2. IsFiniteSet(Before(b)) /\ Cardinality(Before(a)) \in Nat
      BY <1>2
    <3>3. Cardinality(Before(a)) < Cardinality(Before(b))
      BY <1>3, <3>1, <3>2
    <3>4. Cardinality(Before(b)) \in Nat
      BY <1>2
    <3>5. QED
      BY <3>2, <3>3, <3>4
  <2>2. \A a, b \in S : a < b \/ b < a \/ a = b
    OBVIOUS
  <2> HIDE DEF f
  <2>3. QED
    BY <2>1, <2>2
<1>6. IsFiniteSet(T) /\ Cardinality(T) = Cardinality(S) /\ n \in T
  <2>1. Cardinality(S) - 1 \in Int /\ 0 \in Int
    BY <1>1
  <2>2. IsFiniteSet(T) /\ Cardinality(T) = IF 0 > Cardinality(S) - 1 THEN 0
                                           ELSE Cardinality(S) - 1 - 0 + 1
    BY <2>1, FS_Interval
  <2>3. n \in T
    BY <1>1
  <2> HIDE DEF T
  <2>4. QED
    BY <1>1, <2>2, <2>3
<1>7. f \in Injection(S, T)
  BY <1>4, <1>5 DEF Injection, IsInjective
<1> HIDE DEF T
<1>8. f \in Surjection(S, T)
  BY <1>6, <1>7, FS_Injection
<1>9. \E i \in S : f[i] = n
  BY <1>6, <1>8 DEF Surjection
<1>10. QED
  BY <1>9

\* The order of a round has every team once.
LEMMA OrderFacts ==
    ASSUME order \in Orders
    PROVE  /\ Cardinality(Teams) \in Nat
           /\ order \in [1..Cardinality(Teams) -> Teams]
           /\ \A i, j \in 1..Cardinality(Teams) : order[i] = order[j] => i = j
<1> DEFINE D == 1..Cardinality(Teams)
<1>1. Cardinality(Teams) \in Nat
  BY PlaceFacts, FS_CardinalityType
<1>2. IsFiniteSet(D) /\ Cardinality(D) = Cardinality(Teams)
  BY <1>1, FS_Interval
<1>3. order \in [D -> Teams] /\ \A t \in Teams : \E i \in D : order[i] = t
  BY DEF Orders
<1> HIDE DEF D
<1>4. order \in Surjection(D, Teams)
  BY <1>3 DEF Surjection
<1>5. order \in Injection(D, Teams)
  BY <1>2, <1>4, FS_Surjection
<1>6. \A i, j \in D : order[i] = order[j] => i = j
  BY <1>5 DEF Injection, IsInjective
<1>7. QED
  BY <1>1, <1>3, <1>6 DEF D

\* Who is up is a team still in, and where two are left another one is as well.
LEMMA TurnFacts ==
    ASSUME order \in Orders, NEW s, s.at \in Nat, s.out \subseteq Teams, SomeoneIsLeft(s)
    PROVE  /\ CurrentThinkFastTeam(s) \in Teams
           /\ Teams \ (s.out \cup {CurrentThinkFastTeam(s)}) # {}
           /\ Cardinality(Remaining(s)) \in Nat
<1> DEFINE D == 1..Cardinality(Teams)
           R == Remaining(s)
           Up(i) == Cardinality({j \in R : j < i}) = s.at % Cardinality(R)
<1>1. /\ Cardinality(Teams) \in Nat /\ order \in [D -> Teams]
      /\ \A i, j \in D : order[i] = order[j] => i = j
  BY OrderFacts
<1>2. R = {i \in D : order[i] \notin s.out} /\ R \subseteq Nat
  BY <1>1 DEF Remaining
<1>3. IsFiniteSet(R) /\ Cardinality(R) \in Nat /\ Cardinality(R) > 1
  <2>1. IsFiniteSet(D)
    BY <1>1, FS_Interval
  <2>2. R \in SUBSET D
    BY <1>2
  <2> HIDE DEF D, R
  <2>3. IsFiniteSet(R) /\ Cardinality(R) \in Nat
    BY <2>1, <2>2, FS_Subset, FS_CardinalityType
  <2>4. QED
    BY <2>3 DEF SomeoneIsLeft, R
<1> HIDE DEF R
<1>4. s.at % Cardinality(R) \in Nat /\ s.at % Cardinality(R) < Cardinality(R)
  BY <1>3
<1>5. \E i \in R : Up(i)
  <2>1. PICK n : n = s.at % Cardinality(R)
    OBVIOUS
  <2>2. n \in Nat /\ n < Cardinality(R)
    BY <1>4, <2>1
  <2>3. \E i \in R : Cardinality({j \in R : j < i}) = n
    <3>1. R \subseteq Nat /\ IsFiniteSet(R)
      BY <1>2, <1>3
    <3>2. QED
      BY <2>2, <3>1, EveryTurnComes
  <2>4. QED
    BY <2>1, <2>3
<1> DEFINE u == CHOOSE i \in R : Up(i)
<1>6. u \in R
  BY <1>5
<1>7. CurrentThinkFastTeam(s) = order[u]
  BY DEF CurrentThinkFastTeam, R
<1> HIDE DEF u
<1>8. PICK v \in R : v # u
  <2>1. R # {u}
    <3>1. Cardinality({u}) = 1
      BY FS_Singleton
    <3>2. QED
      BY <1>3, <3>1
  <2>2. QED
    BY <1>6, <2>1
<1>9. order[v] \in Teams /\ order[v] \notin s.out /\ order[v] # order[u] /\ order[u] \in Teams
  BY <1>1, <1>2, <1>6, <1>8
<1>10. QED
  BY <1>3, <1>7, <1>9 DEF R

\* A remainder is no more than what it is taken of.
LEMMA RemainderFacts ==
    ASSUME NEW a \in Nat, NEW n \in Nat, n > 0
    PROVE  a % n \in 0..a
<1>1. a % n \in Nat /\ a % n < n
  OBVIOUS
<1>2. CASE a < n
  <2>1. a % n = a
    BY <1>2
  <2>2. QED
    BY <2>1
<1>3. CASE a >= n
  BY <1>1, <1>3
<1>4. QED
  BY <1>2, <1>3

\* A point, and a turn passed or lost.
LEMMA PointsAndTurnsKeep ==
    ASSUME R3Inv, GoesOn,
           (\E t \in Teams : AwardPoint(t)) \/ ThinkFastValid \/ ThinkFastEliminate
    PROVE  SlotsInv' /\ ResultsStay
<1>1. Playing /\ UNCHANGED <<vars, order, content>>
  BY DEF AwardPoint, ThinkFastValid, ThinkFastEliminate, InThinkFast
<1>2. PICK z : z = slots[Cur]
  OBVIOUS
<1>3. /\ z \in SlotRecords /\ Teams \ z.out # {} /\ MaxScore \in Nat /\ MaxTurns \in Nat
      /\ z.score \in [Teams -> 0..MaxScore] /\ z.at \in 0..MaxTurns /\ z.out \in SUBSET Teams
  <2>1. PICK k : k = Cur
    OBVIOUS
  <2>2. SlotFits(k, z)
    BY <1>1, <1>2, <2>1, PlayedSlot
  <2>3. QED
    BY <2>2, PlaceFacts DEF SlotFits, SlotRecords
<1>4. order \in Orders
  BY <1>1 DEF Playing, Begun, R3Inv, SlotsInv
<1>5. ASSUME NEW score \in [Teams -> 0..MaxScore], NEW at \in 0..MaxTurns,
             NEW out \in SUBSET Teams, Teams \ out # {},
             SlotBecomes([z EXCEPT !.score = score, !.at = at, !.out = out])
      PROVE  SlotsInv' /\ ResultsStay
  BY <1>1, <1>2, <1>5, ScoredKeeps
<1>6. ASSUME NEW t \in Teams, AwardPoint(t) PROVE SlotsInv' /\ ResultsStay
  <2>1. z.score[t] < MaxScore /\ SlotBecomes([z EXCEPT !.score[t] = @ + 1])
    BY <1>2, <1>6 DEF AwardPoint, Scored
  <2>2. PICK score : score = [z.score EXCEPT ![t] = z.score[t] + 1]
    OBVIOUS
  <2>3. score \in [Teams -> 0..MaxScore]
    <3>1. z.score[t] + 1 \in 0..MaxScore
      BY <1>3, <2>1
    <3>2. QED
      BY <1>3, <2>2, <3>1
  <2>4. [z EXCEPT !.score[t] = @ + 1] = [z EXCEPT !.score = score, !.at = z.at, !.out = z.out]
    BY <1>3, <2>2 DEF SlotRecords
  <2>5. QED
    BY <1>3, <1>5, <2>1, <2>3, <2>4
<1>7. ASSUME ThinkFastValid PROVE SlotsInv' /\ ResultsStay
  <2>1. z.at < MaxTurns /\ SlotBecomes([z EXCEPT !.at = z.at + 1])
    BY <1>2, <1>7 DEF ThinkFastValid, TurnPassed
  <2>2. PICK at : at = z.at + 1
    OBVIOUS
  <2>3. at \in 0..MaxTurns
    BY <1>3, <2>1, <2>2
  <2>4. [z EXCEPT !.at = at] = [z EXCEPT !.score = z.score, !.at = at, !.out = z.out]
    BY <1>3 DEF SlotRecords
  <2>5. QED
    BY <1>3, <1>5, <2>1, <2>2, <2>3, <2>4
<1>8. ASSUME ThinkFastEliminate PROVE SlotsInv' /\ ResultsStay
  <2>1. SomeoneIsLeft(z) /\ SlotBecomes(Eliminated(z))
    BY <1>2, <1>8 DEF ThinkFastEliminate
  <2>2. PICK t : t = CurrentThinkFastTeam(z)
    OBVIOUS
  <2>3. PICK n : n = Cardinality(Remaining(z))
    OBVIOUS
  <2>4. t \in Teams /\ Teams \ (z.out \cup {t}) # {} /\ n \in Nat /\ n > 1
    BY <1>3, <1>4, <2>1, <2>2, <2>3, TurnFacts DEF SomeoneIsLeft
  <2>5. PICK at : at = z.at % (n - 1)
    OBVIOUS
  <2>6. at \in 0..MaxTurns
    <3>1. PICK m : m = n - 1
      OBVIOUS
    <3>2. m \in Nat /\ m > 0
      BY <2>4, <3>1
    <3>3. z.at % m \in 0..z.at /\ z.at \in Nat
      BY <1>3, <3>2, RemainderFacts
    <3>4. QED
      BY <1>3, <2>5, <3>1, <3>3
  <2>7. Eliminated(z) = [z EXCEPT !.score = z.score, !.at = at, !.out = z.out \cup {t}]
    <3>1. Eliminated(z) = [z EXCEPT !.out = z.out \cup {t}, !.at = at]
      BY <2>2, <2>3, <2>4, <2>5 DEF Eliminated
    <3>2. QED
      BY <1>3, <3>1 DEF SlotRecords
  <2>8. PICK out : out = z.out \cup {t}
    OBVIOUS
  <2>9. out \in SUBSET Teams /\ Teams \ out # {}
    BY <1>3, <2>4, <2>8
  <2>10. SlotBecomes([z EXCEPT !.score = z.score, !.at = at, !.out = out])
    BY <2>1, <2>7, <2>8
  <2>11. QED
    BY <1>3, <1>5, <2>6, <2>9, <2>10
<1>9. QED
  BY <1>6, <1>7, <1>8

\* A pause, a resume and the clock reach the window of the contest being played.
LEMMA WindowsKeep ==
    ASSUME R3Inv, GoesOn, NEW event \in {"pause", "resume", "tick"}, EveryWindow(event),
           event = "pause" => Paused', event = "resume" => ~Paused',
           event = "tick" => (Paused' <=> Paused)
    PROVE  SlotsInv' /\ ResultsStay
<1>g. UNCHANGED <<order, content>> /\ order' \in Orders \cup {<<>>} /\ (Begun => Begun')
      /\ content \in [Places -> Nat] /\ content' \in [Places -> Nat]
      /\ (\A i \in Places : content'[i] <= content[i]) /\ FlowInv /\ SlotsInv
  BY DEF EveryWindow, R3Inv, SlotsInv, Begun
<1>1. CASE Begun /\ ~Complete
  <2>1. PICK k : k = Cur
    OBVIOUS
  <2>2. PICK z : z = slots[Cur]
    OBVIOUS
  <2>3. PICK w : w = WindowAfter(event, z.window)
    OBVIOUS
  <2>4. PICK s : s = [z EXCEPT !.window = w]
    OBVIOUS
  <2>5. k \in Places /\ SlotFits(k, z) /\ z \in SlotRecords /\ Contests[k].windowMs \in Nat
    BY <1>1, <1>g, <2>1, <2>2, CurFacts, PlaceFacts DEF SlotsInv, SlotFits
  <2>6. /\ w \in WindowsUpTo(Contests[k].windowMs) /\ (Exists(w) <=> Exists(z.window))
        /\ event = "pause" => w.state # "running"
        /\ event = "resume" => w.state # "frozen"
        /\ event = "tick" => w.state = z.window.state
    <3>1. z.window \in WindowsUpTo(Contests[k].windowMs)
      BY <2>5 DEF SlotFits
    <3>2. QED
      BY <2>3, <2>5, <3>1, WindowAfterFacts
  <2>7. w \in Windows3
    <3>1. \A d \in Nat : \A x \in WindowsUpTo(d) : x \in Windows3
      BY DEF WindowsUpTo, Windows3, NoWindow
    <3>2. QED
      BY <2>5, <2>6, <3>1
  <2>8. /\ s \in SlotRecords /\ s.progress = z.progress /\ s.challenge = z.challenge
        /\ s.winner = z.winner /\ s.shown = z.shown /\ s.window = w /\ s.out = z.out
    BY <2>4, <2>5, <2>7 DEF SlotRecords
  <2>9. FollowsPause(w, Paused')
    <3>1. w.state \in {"none", "running", "frozen"}
      BY <2>7 DEF Windows3
    <3>2. CASE event = "pause"
      BY <2>6, <3>1, <3>2 DEF FollowsPause, Exists
    <3>3. CASE event = "resume"
      BY <2>6, <3>1, <3>3 DEF FollowsPause, Exists
    <3>4. CASE event = "tick"
      BY <2>5, <2>6, <3>1, <3>4 DEF FollowsPause, Exists, SlotFits
    <3>5. QED
      BY <3>2, <3>3, <3>4
  <2>10. SlotFits(k, s)'
    <3>1. challenge.id \in Nat /\ challenge'.id \in Nat /\ challenge'.id >= challenge.id
      BY DEF GoesOn, R3Inv, FlowInv, TypeOK
    <3>2. s.progress # "not_started" => Begun' /\ s.challenge <= challenge'.id
      BY <1>g, <2>5, <2>8, <3>1 DEF SlotFits, SlotRecords
    <3>3. z.progress # "resolved"
      BY <1>1, <1>g, <2>2, CurFacts
    <3>4. s.shown + content'[k] <= Items[k]
      BY <1>g, <2>5, <2>8 DEF SlotFits
    <3>5. QED
      BY <2>5, <2>6, <2>8, <2>9, <3>2, <3>3, <3>4 DEF SlotFits
  <2>11. SlotBecomes(s)
    BY <1>1, <2>2, <2>3, <2>4 DEF EveryWindow
  <2>12. \A j \in Places : z.progress # "not_started" /\ j < k => slots[j].challenge < s.challenge
    BY <1>g, <2>1, <2>2, <2>5, <2>8 DEF SlotsInv, InTurn
  <2>13. SlotsInv' /\ \A i \in Places : slots'[i] = IF i = k THEN s ELSE slots[i]
    BY <1>1, <1>g, <2>1, <2>8, <2>10, <2>11, <2>12, SlotMoves DEF GoesOn
  <2>14. QED
    BY <2>1, <2>2, <2>8, <2>13 DEF ResultsStay
<1>2. CASE ~(Begun /\ ~Complete)
  <2>1. UNCHANGED slots
    BY <1>2 DEF EveryWindow
  <2>2. ASSUME NEW i \in Places PROVE SlotFits(i, slots[i])'
    <3>1. PICK s : s = slots[i]
      OBVIOUS
    <3>2. SlotFits(i, s) /\ content[i] \in Nat /\ content'[i] \in Nat
          /\ s.progress # "in_progress"
      BY <1>2, <1>g, <3>1 DEF SlotsInv, SlotFits, Complete, Unresolved
    <3>3. SlotFits(i, s)'
      BY <1>g, <3>2, StillFits DEF GoesOn
    <3>4. s = slots'[i]
      BY <2>1, <3>1
    <3>5. QED
      BY <3>3, <3>4
  <2>3. SlotsInv'
    BY <1>g, <2>1, <2>2 DEF SlotsInv, InTurn
  <2>4. QED
    BY <2>1, <2>3 DEF ResultsStay
<1>3. QED
  BY <1>1, <1>2

\* An item whose time ran out where no other is left: its window goes.
LEMMA WindowGoes ==
    ASSUME R3Inv, GoesOn, Playing, UNCHANGED <<vars, order, content>>,
           SlotBecomes([slots[Cur] EXCEPT !.window = NoWindow])
    PROVE  SlotsInv' /\ ResultsStay
<1>1. PICK k : k = Cur
  OBVIOUS
<1>2. PICK z : z = slots[Cur]
  OBVIOUS
<1>3. PICK s : s = [z EXCEPT !.window = NoWindow]
  OBVIOUS
<1>4. SlotFits(k, z) /\ z \in SlotRecords /\ z.progress = "in_progress" /\ k \in Places
      /\ content \in [Places -> Nat]
  BY <1>1, <1>2, PlayedSlot
<1>5. NoWindow \in Windows3 /\ NoWindow \in WindowsUpTo(Contests[k].windowMs)
      /\ FollowsPause(NoWindow, Paused')
  BY DEF NoWindow, Windows3, WindowsUpTo, FollowsPause, Exists
<1>6. /\ s \in SlotRecords /\ s.progress = z.progress /\ s.challenge = z.challenge
      /\ s.winner = z.winner /\ s.shown = z.shown /\ s.window = NoWindow /\ s.out = z.out
  BY <1>3, <1>4, <1>5 DEF SlotRecords
<1>7. s.shown + content'[k] <= Items[k] /\ Teams \ s.out # {}
  BY <1>4, <1>6 DEF SlotFits
<1>8. content' \in [Places -> Nat] /\ \A i \in Places : content'[i] <= content[i]
  BY <1>4
<1>9. SlotBecomes(s)
  BY <1>2, <1>3
<1>10. QED
  BY <1>1, <1>2, <1>4, <1>5, <1>6, <1>7, <1>8, <1>9, PlayedOn

\* The contest the Host confirms is over, with a winner who was still in, and
\* paid: its challenge is the one resolved now, or one resolved before it.
LEMMA ConfirmedKeeps ==
    ASSUME R3Inv, GoesOn, NEW t \in Teams, ConfirmRound3Challenge(t)
    PROVE  /\ SlotsInv' /\ Cur \in Places /\ slots[Cur].winner = None
           /\ slots[Cur].progress = "in_progress"
           /\ slots'[Cur].winner = t /\ slots'[Cur].progress = "resolved"
           /\ \A i \in Places : i # Cur => slots'[i] = slots[i]
<1>1. PICK k : k = Cur
  OBVIOUS
<1>2. PICK z : z = slots[Cur]
  OBVIOUS
<1>3. PICK s : s = Resulted(t)
  OBVIOUS
<1>4. Playing /\ t \notin z.out /\ UNCHANGED <<order, content>> /\ PayResult /\ SlotBecomes(s)
  BY <1>2, <1>3 DEF ConfirmRound3Challenge, MayWin
<1>5. /\ SlotFits(k, z) /\ z \in SlotRecords /\ z.progress = "in_progress" /\ k \in Places
      /\ content \in [Places -> Nat] /\ ~Complete /\ FlowInv /\ SlotsInv /\ FlowInv'
  BY <1>1, <1>2, <1>4, PlayedSlot DEF R3Inv, GoesOn
<1>6. NoWindow \in Windows3 /\ NoWindow \in WindowsUpTo(Contests[k].windowMs)
      /\ FollowsPause(NoWindow, Paused') /\ ~Exists(NoWindow)
  BY DEF NoWindow, Windows3, WindowsUpTo, FollowsPause, Exists
<1>7. s = [z EXCEPT !.progress = "resolved", !.winner = t, !.window = NoWindow]
  BY <1>2, <1>3 DEF Resulted
<1>8. /\ s \in SlotRecords /\ s.progress = "resolved" /\ s.challenge = z.challenge
      /\ s.winner = t /\ s.shown = z.shown /\ s.window = NoWindow /\ s.out = z.out
  BY <1>5, <1>6, <1>7 DEF SlotRecords
<1>9. settlements'[z.challenge] > 0 /\ z.challenge <= challenge'.id /\ z.challenge # 0
  <2>1. /\ z.challenge \in Nat /\ z.challenge # 0 /\ z.challenge <= challenge.id
        /\ challenge.id \in 0..MaxChallenges /\ MaxChallenges \in Nat
    BY <1>5, GameFlowAssumption
       DEF GameFlowAssumption, SlotFits, SlotRecords, FlowInv, TypeOK
  <2>2. challenge'.id = challenge.id /\ challenge'.status = "resolved"
    BY <1>4, <1>5 DEF PayResult, ResolveChallenge, FlowInv, TypeOK
  <2>3. z.challenge \in 1..MaxChallenges
    BY <2>1
  <2>4. \A c \in 1..MaxChallenges : /\ c < challenge'.id => settlements'[c] > 0
                                    /\ c = challenge'.id => settlements'[c] > 0
    BY <1>5, <2>2 DEF FlowInv, SettledInOrder
  <2>5. QED
    BY <2>1, <2>2, <2>3, <2>4
<1>10. SlotFits(k, s)'
  <2>1. Begun'
    BY <1>4 DEF Playing, Begun
  <2>2. t # None /\ s.shown + content'[k] <= Items[k]
    BY <1>4, <1>5, <1>8, PlaceFacts DEF SlotFits
  <2>3. QED
    BY <1>4, <1>5, <1>6, <1>8, <1>9, <2>1, <2>2 DEF SlotFits
<1>11. \A j \in Places : j < k => slots[j].challenge < s.challenge
  BY <1>1, <1>2, <1>5, <1>8 DEF SlotsInv, InTurn
<1>12. SlotsInv' /\ \A i \in Places : slots'[i] = IF i = k THEN s ELSE slots[i]
  <2>1. content' \in [Places -> Nat] /\ \A i \in Places : content'[i] <= content[i]
    BY <1>4, <1>5
  <2>2. order' \in Orders \cup {<<>>} /\ (Begun => Begun')
    BY <1>4, <1>5 DEF SlotsInv, Begun
  <2>3. QED
    BY <1>1, <1>4, <1>5, <1>10, <1>11, <2>1, <2>2, SlotMoves DEF GoesOn
<1>13. z.winner = None
  BY <1>5 DEF SlotFits
<1>14. QED
  BY <1>1, <1>2, <1>5, <1>8, <1>12, <1>13

\* Every step keeps the slots, and only a confirmation gives a result.
LEMMA SlotsStep ==
    ASSUME R3Inv, [R3Next]_allVars
    PROVE  SlotsInv' /\ ((\E t \in Teams : ConfirmRound3Challenge(t)) \/ ResultsStay)
<1>g. /\ GoesOn /\ FlowInv /\ SlotsInv
      /\ PauseRound3 \/ ResumeRound3 \/ (Paused' <=> Paused)
  BY GameGoesOn DEF GoesOn, R3Inv
<1>t. /\ content \in [Places -> Nat] /\ order \in Orders \cup {<<>>}
      /\ PauseShape
  BY <1>g DEF SlotsInv, FlowInv
<1>s. ASSUME UNCHANGED <<slots, content>>, order' \in Orders \cup {<<>>}, Begun => Begun',
             Paused' <=> Paused
      PROVE  SlotsInv' /\ ResultsStay
  <2>1. content' \in [Places -> Nat] /\ \A i \in Places : content'[i] <= content[i]
    BY <1>s, <1>t
  <2>2. SlotsInv'
    BY <1>g, <1>s, <2>1, SlotsStay DEF GoesOn
  <2>3. QED
    BY <1>s, <2>2 DEF ResultsStay
<1>p. ASSUME UNCHANGED vars PROVE Paused' <=> Paused
  BY <1>p DEF vars, flowVars, Paused
<1>1. ASSUME BeginRound3 \/ DevStartRound3 PROVE SlotsInv' /\ ResultsStay
  <2>1. UNCHANGED <<slots, content>> /\ order' \in Orders \cup {<<>>} /\ (Begun => Begun')
    BY <1>1, <1>t DEF BeginRound3, DevStartRound3, DevEnterRound3, MayEnter
  <2>2. Paused' <=> Paused
    BY <1>g, <1>1, <1>p, WalkKeepsFlow, PlaceFacts
       DEF BeginRound3, DevStartRound3, DevEnterRound3, MayEnter, Running
  <2>3. QED
    BY <1>s, <2>1, <2>2
<1>2. ASSUME PrepareRound3Challenge PROVE SlotsInv' /\ ResultsStay
  BY <1>2, <1>g, PreparedKeeps
<1>3. ASSUME StartChallengeInRoom PROVE SlotsInv' /\ ResultsStay
  <2>1. Running /\ phase' = "ACTIVE_PLAY" /\ UNCHANGED order
    BY <1>3 DEF StartChallengeInRoom, StartChallenge, MoveTo
  <2>2. ~Paused /\ ~Paused'
    BY <2>1 DEF Running, Paused
  <2>3. CASE NeedsOpeningItem /\ content[Cur] > 0
    <3>1. ~Complete /\ Begun /\ content[Cur] > 0 /\ TakeItem(MayReveal)
      BY <1>3, <2>3 DEF StartChallengeInRoom, NeedsOpeningItem
    <3>2. (TakeItem(TRUE) /\ Playing /\ ~Paused) \/ TakeItem(FALSE)
      BY <2>2, <3>1 DEF TakeItem, MayReveal
    <3>3. QED
      BY <1>g, <2>1, <2>2, <3>1, <3>2, TakeKeeps
  <2>4. CASE ~(NeedsOpeningItem /\ content[Cur] > 0)
    BY <1>3, <1>s, <1>t, <2>1, <2>2, <2>4 DEF StartChallengeInRoom, Begun
  <2>5. QED
    BY <2>3, <2>4
<1>4. ASSUME NextItem PROVE SlotsInv' /\ ResultsStay
  <2>1. ~Complete /\ Begun /\ content[Cur] > 0 /\ UNCHANGED <<vars, order>>
        /\ TakeItem(Running /\ MayReveal)
    BY <1>4 DEF NextItem
  <2>2. (TakeItem(TRUE) /\ Playing /\ ~Paused) \/ TakeItem(FALSE)
    BY <2>1 DEF TakeItem, MayReveal, Running
  <2>3. QED
    BY <1>g, <1>p, <2>1, <2>2, TakeKeeps
<1>5. ASSUME (\E t \in Teams : AwardPoint(t)) \/ ThinkFastValid \/ ThinkFastEliminate
      PROVE  SlotsInv' /\ ResultsStay
  BY <1>5, <1>g, PointsAndTurnsKeep
<1>6. ASSUME NEW t \in Teams, ConfirmRound3Challenge(t) PROVE SlotsInv'
  BY <1>6, <1>g, ConfirmedKeeps
<1>7. ASSUME ItemMovesOn PROVE SlotsInv' /\ ResultsStay
  <2>1. Running /\ Playing /\ UNCHANGED <<vars, order>>
    BY <1>7 DEF ItemMovesOn, ItemOver
  <2>2. CASE content[Cur] > 0
    <3>1. TakeItem(TRUE) /\ Playing /\ ~Paused /\ ~Complete /\ Begun
      BY <1>7, <2>1, <2>2 DEF ItemMovesOn, Running, Playing
    <3>2. QED
      BY <1>g, <1>p, <2>1, <2>2, <3>1, TakeKeeps
  <2>3. CASE ~(content[Cur] > 0)
    BY <1>7, <1>g, <2>1, <2>3, WindowGoes DEF ItemMovesOn
  <2>4. QED
    BY <2>2, <2>3
<1>8. ASSUME PauseRound3 PROVE SlotsInv' /\ ResultsStay
  <2>1. Paused' /\ EveryWindow("pause")
    BY <1>8, OverlayFacts DEF PauseRound3, GamePauses, HostPause, ActivePlayerDisconnect
  <2>2. QED
    BY <1>g, <2>1, WindowsKeep
<1>9. ASSUME ResumeRound3 PROVE SlotsInv' /\ ResultsStay
  <2>1. ~Paused' /\ EveryWindow("resume")
    BY <1>9, <1>t, OverlayFacts DEF ResumeRound3
  <2>2. QED
    BY <1>g, <2>1, WindowsKeep
<1>10. ASSUME TimePasses PROVE SlotsInv' /\ ResultsStay
  BY <1>10, <1>g, <1>p, WindowsKeep DEF TimePasses
<1>11. ASSUME UNCHANGED <<order, slots, content>>, Paused' <=> Paused
       PROVE  SlotsInv' /\ ResultsStay
  BY <1>11, <1>s, <1>t DEF Begun
<1>12. ASSUME UNCHANGED r3Vars PROVE SlotsInv' /\ ResultsStay
  <2>1. CASE Paused' <=> Paused
    BY <1>11, <1>12, <2>1 DEF r3Vars
  <2>2. CASE PauseRound3 \/ ResumeRound3
    BY <1>8, <1>9, <2>2
  <2>3. QED
    BY <1>g, <2>1, <2>2
<1>13. QED
  BY <1>1, <1>2, <1>3, <1>4, <1>5, <1>6, <1>7, <1>8, <1>9, <1>10, <1>11, <1>12, <1>p
     DEF R3Next, Tick, ThrowsRevealed, SubmitRpsChoice, AroundTheRound, allVars

-----------------------------------------------------------------------------
(* Who won how often, and who leads.                                       *)

\* The round is over when every contest is.
LEMMA CompleteMeans == SlotsInv => (Complete <=> \A i \in Places : slots[i].progress = "resolved")
  BY DEF SlotsInv, Complete, Unresolved

\* No team can have won more contests than there are.
LEMMA WinsBound ==
    ASSUME SlotsInv, WinsInv, NEW t \in Teams
    PROVE  wins[t] \in 0..Len(Contests)
<1>1. PICK won : won = {i \in DOMAIN slots : slots[i].winner = t}
  OBVIOUS
<1>2. won \in SUBSET Places
  BY <1>1 DEF SlotsInv
<1>3. Cardinality(won) <= Cardinality(Places) /\ IsFiniteSet(won)
  BY <1>2, PlaceFacts, FS_Subset
<1>4. wins[t] = Cardinality(won) /\ wins[t] \in Nat
  BY <1>1 DEF WinsInv
<1>5. QED
  BY <1>3, <1>4, PlaceFacts

\* The same of the state after a step.
LEMMA WinsBoundNext == SlotsInv' /\ WinsInv' => (\A t \in Teams : wins[t] \in 0..Len(Contests))'
<1>1. SlotsInv /\ WinsInv => \A t \in Teams : wins[t] \in 0..Len(Contests)
  BY WinsBound
<1>2. QED
  BY <1>1, PTL

\* Somebody leads.
LEMMA LeadersExist ==
    ASSUME NEW w \in [Teams -> Nat], NEW n \in Nat, \A t \in Teams : w[t] <= n
    PROVE  /\ Leaders(w) # {} /\ Leaders(w) \subseteq Teams
           /\ IsFiniteSet(Leaders(w)) /\ Cardinality(Leaders(w)) \in Nat
           /\ Cardinality(Leaders(w)) # 1 => Cardinality(Leaders(w)) > 1
<1> DEFINE Bounds == {m \in Nat : \A t \in Teams : w[t] <= m}
<1>1. Bounds \subseteq Nat /\ Bounds # {}
  OBVIOUS
<1>2. PICK m \in Bounds : \A k \in Bounds : m <= k
  <2> HIDE DEF Bounds
  <2>1. QED
    BY <1>1, LeastNatural
<1>3. m \in Nat /\ \A t \in Teams : w[t] <= m
  OBVIOUS
<1>4. PICK t \in Teams : w[t] = m
  <2>1. SUFFICES ASSUME \A t \in Teams : w[t] # m PROVE FALSE
    OBVIOUS
  <2>2. \A t \in Teams : w[t] < m
    BY <1>3, <2>1
  <2>3. m # 0
    BY <2>2, PlaceFacts
  <2>4. m - 1 \in Nat /\ \A t \in Teams : w[t] <= m - 1
    BY <1>3, <2>2, <2>3
  <2>5. m <= m - 1
    BY <1>2, <2>4
  <2>6. QED
    BY <1>3, <2>5
<1>5. t \in Leaders(w) /\ Leaders(w) \in SUBSET Teams
  BY <1>3, <1>4 DEF Leaders
<1>6. IsFiniteSet(Leaders(w)) /\ Cardinality(Leaders(w)) \in Nat /\ Cardinality(Leaders(w)) # 0
  BY <1>5, PlaceFacts, FS_Subset, FS_CardinalityType, FS_EmptySet
<1>7. QED
  BY <1>5, <1>6

\* Only a confirmation counts a win.
LEMMA WinsKept ==
    ASSUME R3Inv, [R3Next]_allVars
    PROVE  WinsInv'
<1>1. SlotsInv /\ WinsInv /\ SlotsInv'
      /\ ((\E t \in Teams : ConfirmRound3Challenge(t)) \/ ResultsStay)
  BY SlotsStep DEF R3Inv
<1>2. DOMAIN slots = Places /\ DOMAIN slots' = Places
  BY <1>1 DEF SlotsInv
<1>3. ASSUME NEW t \in Teams, ConfirmRound3Challenge(t) PROVE WinsInv'
  <2>1. PICK k : k = Cur
    OBVIOUS
  <2>2. /\ k \in Places /\ slots[k].winner = None /\ slots'[k].winner = t
        /\ \A i \in Places : i # k => slots'[i] = slots[i]
    BY <1>3, <2>1, GameGoesOn, ConfirmedKeeps DEF GoesOn, R3Inv
  <2>3. wins' = [wins EXCEPT ![t] = wins[t] + 1] /\ wins \in [Teams -> Nat]
    BY <1>1, <1>3 DEF ConfirmRound3Challenge, WinsInv
  <2>4. wins' \in [Teams -> Nat]
    BY <2>3
  <2>5. ASSUME NEW u \in Teams
        PROVE  wins'[u] = Cardinality({i \in DOMAIN slots' : slots'[i].winner = u})
    <3>1. PICK old : old = {i \in DOMAIN slots : slots[i].winner = u}
      OBVIOUS
    <3>2. PICK new : new = {i \in DOMAIN slots' : slots'[i].winner = u}
      OBVIOUS
    <3>3. wins[u] = Cardinality(old) /\ old \in SUBSET Places
      BY <1>1, <1>2, <3>1 DEF WinsInv
    <3>4. CASE u = t
      <4>1. new = old \cup {k} /\ k \notin old
        BY <1>2, <2>2, <3>1, <3>2, <3>4, PlaceFacts
      <4>2. IsFiniteSet(old)
        BY <3>3, PlaceFacts, FS_Subset
      <4>3. Cardinality(new) = Cardinality(old) + 1
        BY <4>1, <4>2, FS_AddElement
      <4>4. QED
        BY <2>3, <3>2, <3>3, <3>4, <4>3
    <3>5. CASE u # t
      <4>1. new = old
        BY <1>2, <2>2, <3>1, <3>2, <3>5, PlaceFacts
      <4>2. QED
        BY <2>3, <3>2, <3>3, <3>5, <4>1
    <3>6. QED
      BY <3>4, <3>5
  <2>6. QED
    BY <2>4, <2>5 DEF WinsInv
<1>4. ASSUME ~ \E t \in Teams : ConfirmRound3Challenge(t) PROVE WinsInv'
  <2>1. UNCHANGED wins
    BY <1>4
       DEF R3Next, BeginRound3, DevStartRound3, DevEnterRound3, PrepareRound3Challenge,
           StartChallengeInRoom, NextItem, AwardPoint, ThinkFastValid, ThinkFastEliminate,
           SubmitRpsChoice, Tick, ItemMovesOn, ThrowsRevealed, PauseRound3, ResumeRound3,
           TimePasses, EveryWindow, AroundTheRound, allVars, r3Vars
  <2>2. \A i \in Places : slots'[i].winner = slots[i].winner
    BY <1>1, <1>4 DEF ResultsStay
  <2>3. ASSUME NEW u \in Teams
        PROVE  {i \in DOMAIN slots' : slots'[i].winner = u}
                 = {i \in DOMAIN slots : slots[i].winner = u}
    BY <1>2, <2>2
  <2>4. QED
    BY <1>1, <2>1, <2>3 DEF WinsInv
<1>5. QED
  BY <1>3, <1>4

-----------------------------------------------------------------------------
(* The tiebreak.                                                           *)

\* Whoever is left of an attempt was in it, and somebody is left: of two different
\* choices one beats the other.
LEMMA SurvivorsFacts ==
    ASSUME standing # {}, standing \subseteq Teams, AllChoicesIn,
           throws \in [Teams -> Throws \cup {None}]
    PROVE  Survivors \subseteq standing /\ Survivors # {}
<1>1. PICK thrown : thrown = {throws[t] : t \in standing}
  OBVIOUS
<1>2. thrown \subseteq Throws
  BY <1>1 DEF AllChoicesIn
<1>3. Survivors = IF Cardinality(thrown) # 2 THEN standing
                  ELSE {t \in standing : \E c \in thrown : Beats(throws[t], c)}
  BY <1>1 DEF Survivors
<1>4. CASE Cardinality(thrown) = 2
  <2>1. IsFiniteSet(thrown)
    <3>1. IsFiniteSet({"ROCK"} \cup {"PAPER"} \cup {"SCISSORS"})
      BY FS_Singleton, FS_Union
    <3>2. Throws = {"ROCK"} \cup {"PAPER"} \cup {"SCISSORS"}
      BY DEF Throws
    <3>3. QED
      BY <1>2, <3>1, <3>2, FS_Subset
  <2>2. PICK a : a \in thrown
    BY <1>4, <2>1, FS_EmptySet
  <2>3. Cardinality(thrown \ {a}) = 1 /\ IsFiniteSet(thrown \ {a})
    BY <1>4, <2>1, <2>2, FS_RemoveElement
  <2>4. PICK b : b \in thrown \ {a}
    BY <2>3, FS_EmptySet
  <2>5. Beats(a, b) \/ Beats(b, a)
    BY <1>2, <2>2, <2>4 DEF Throws, Beats
  <2>6. PICK t \in standing, c \in thrown : Beats(throws[t], c)
    BY <1>1, <2>2, <2>4, <2>5
  <2>7. QED
    BY <1>3, <1>4, <2>6
<1>5. CASE Cardinality(thrown) # 2
  BY <1>3, <1>5
<1>6. QED
  BY <1>4, <1>5

\* An attempt revealed leaves one winner or several to go on.
LEMMA RevealedFacts ==
    ASSUME TieInv, ThrowsRevealed
    PROVE  /\ tied # {} /\ r3Winner = None /\ standing # {} /\ standing \subseteq Teams
           /\ standing' \subseteq standing /\ standing' # {}
           /\ IsFiniteSet(standing') /\ Cardinality(standing') \in Nat
           /\ Cardinality(standing') = 1 => r3Winner' \in standing'
           /\ Cardinality(standing') # 1 => Cardinality(standing') > 1 /\ r3Winner' = None
<1>1. /\ standing # {} /\ r3Winner = None /\ AllChoicesIn /\ standing' = Survivors
      /\ IF Cardinality(Survivors) = 1 THEN r3Winner' \in Survivors ELSE UNCHANGED r3Winner
  BY DEF ThrowsRevealed, ThrowsDue, ResolveRps
<1>2. standing \subseteq Teams /\ tied # {} /\ throws \in [Teams -> Throws \cup {None}]
  BY <1>1 DEF TieInv
<1>3. standing' \subseteq standing /\ standing' # {}
  BY <1>1, <1>2, SurvivorsFacts
<1>4. IsFiniteSet(standing') /\ Cardinality(standing') \in Nat /\ Cardinality(standing') # 0
  <2>1. standing' \in SUBSET Teams
    BY <1>2, <1>3
  <2>2. QED
    BY <1>3, <2>1, PlaceFacts, FS_Subset, FS_CardinalityType, FS_EmptySet
<1>5. QED
  BY <1>1, <1>2, <1>3, <1>4

\* The last contest decides the round: one leader has won, or more are tied.
LEMMA ConfirmDecides ==
    ASSUME R3Inv, SlotsInv', WinsInv', GoesOn, NEW t \in Teams, ConfirmRound3Challenge(t)
    PROVE  /\ tied = {} /\ r3Winner = None /\ standing = {}
           /\ Complete' <=> Cardinality(Unresolved) = 1
           /\ throws' \in [Teams -> Throws \cup {None}]
           /\ IF ~Complete' THEN UNCHANGED tieVars
              ELSE \/ r3Winner' \in Leaders(wins') /\ UNCHANGED <<tied, standing>>
                      /\ throws' = NoThrows
                   \/ /\ tied' = Leaders(wins') /\ standing' = tied' /\ r3Winner' = None
                      /\ Leaders(wins') # {} /\ Leaders(wins') \subseteq Teams
                      /\ Cardinality(standing') > 1 /\ throws' = NoThrows
<1>1. PICK k : k = Cur
  OBVIOUS
<1>2. /\ k \in Places /\ slots[k].progress = "in_progress" /\ slots'[k].progress = "resolved"
      /\ \A i \in Places : i # k => slots'[i] = slots[i]
  BY <1>1, ConfirmedKeeps
<1>3. SlotsInv /\ TieInv /\ ~Complete
  BY DEF R3Inv, ConfirmRound3Challenge, MayWin, Playing
<1>4. tied = {} /\ r3Winner = None /\ standing = {} /\ throws \in [Teams -> Throws \cup {None}]
  BY <1>3 DEF TieInv
<1>5. Complete' <=> Cardinality(Unresolved) = 1
  <2>1. k \in Unresolved /\ Unresolved \in SUBSET Places
    BY <1>2, <1>3 DEF Unresolved, SlotsInv
  <2>2. IsFiniteSet(Unresolved)
    BY <2>1, PlaceFacts, FS_Subset
  <2>3. Cardinality(Unresolved) = 1 <=> Unresolved = {k}
    BY <2>1, <2>2, FS_Singleton
  <2>4. Unresolved = {k} <=> \A i \in Places : i # k => slots[i].progress = "resolved"
    BY <1>2, <1>3, <2>1 DEF Unresolved, SlotsInv
  <2>5. Complete' <=> \A i \in Places : slots'[i].progress = "resolved"
    BY DEF SlotsInv, Complete, Unresolved
  <2>6. QED
    BY <1>2, <2>3, <2>4, <2>5
<1>6. NoThrows \in [Teams -> Throws \cup {None}]
  BY DEF NoThrows
<1>7. IF Cardinality(Unresolved) = 1 THEN DecideWinner(wins') ELSE UNCHANGED tieVars
  BY DEF ConfirmRound3Challenge
<1>8. PICK w : w = wins'
  OBVIOUS
<1>9. /\ Leaders(w) # {} /\ Leaders(w) \subseteq Teams
      /\ Cardinality(Leaders(w)) # 1 => Cardinality(Leaders(w)) > 1
  <2>1. w \in [Teams -> Nat]
    BY <1>8 DEF WinsInv
  <2>2. \A u \in Teams : w[u] <= Len(Contests)
    <3>1. \A u \in Teams : wins'[u] \in 0..Len(Contests)
      BY WinsBoundNext
    <3>2. QED
      BY <1>8, <3>1, PlaceFacts
  <2>3. QED
    BY <2>1, <2>2, PlaceFacts, LeadersExist
<1>10. CASE Complete'
  BY <1>4, <1>5, <1>6, <1>7, <1>8, <1>9, <1>10 DEF DecideWinner
<1>11. CASE ~Complete'
  BY <1>4, <1>5, <1>6, <1>7, <1>11 DEF tieVars
<1>12. QED
  BY <1>4, <1>5, <1>10, <1>11

\* Every step keeps the tiebreak among the leaders.
LEMMA TieKept ==
    ASSUME R3Inv, [R3Next]_allVars
    PROVE  TieInv'
<1>g. /\ GoesOn /\ SlotsInv /\ TieInv /\ SlotsInv' /\ WinsInv'
      /\ (\E t \in Teams : ConfirmRound3Challenge(t)) \/ ResultsStay
  BY GameGoesOn, SlotsStep, WinsKept DEF GoesOn, R3Inv
<1>c. ResultsStay => (Complete' <=> Complete)
  <2>1. Complete' <=> \A i \in Places : slots'[i].progress = "resolved"
    BY <1>g DEF SlotsInv, Complete, Unresolved
  <2>2. QED
    BY <1>g, <2>1, CompleteMeans DEF ResultsStay
<1>1. ASSUME NEW t \in Teams, ConfirmRound3Challenge(t) PROVE TieInv'
  <2>1. /\ tied = {} /\ r3Winner = None /\ standing = {}
        /\ throws' \in [Teams -> Throws \cup {None}]
        /\ IF ~Complete' THEN UNCHANGED tieVars
           ELSE \/ r3Winner' \in Leaders(wins') /\ UNCHANGED <<tied, standing>>
                \/ /\ tied' = Leaders(wins') /\ standing' = tied' /\ r3Winner' = None
                   /\ Leaders(wins') \subseteq Teams /\ Cardinality(standing') > 1
    BY <1>1, <1>g, ConfirmDecides
  <2>2. Leaders(wins') \subseteq Teams /\ None \notin Teams
    BY PlaceFacts DEF Leaders
  <2>3. QED
    BY <2>1, <2>2 DEF TieInv, tieVars
<1>2. ASSUME NEW t \in Teams, NEW c \in Throws, SubmitRpsChoice(t, c) PROVE TieInv'
  <2>1. UNCHANGED <<tied, standing, r3Winner, slots, wins>> /\ throws' = [throws EXCEPT ![t] = c]
    BY <1>2 DEF SubmitRpsChoice
  <2>2. throws' \in [Teams -> Throws \cup {None}]
    BY <1>g, <2>1 DEF TieInv
  <2>3. Complete' <=> Complete
    BY <2>1 DEF Complete, Unresolved
  <2>4. QED
    BY <1>g, <2>1, <2>2, <2>3 DEF TieInv
<1>3. ASSUME ThrowsRevealed PROVE TieInv'
  <2>1. /\ tied # {} /\ r3Winner = None
        /\ standing' \subseteq standing /\ standing' # {}
        /\ Cardinality(standing') = 1 => r3Winner' \in standing'
        /\ Cardinality(standing') # 1 => Cardinality(standing') > 1 /\ r3Winner' = None
    BY <1>3, <1>g, RevealedFacts
  <2>2. UNCHANGED <<tied, slots, wins>> /\ throws' = NoThrows
    BY <1>3 DEF ThrowsRevealed, ResolveRps
  <2>3. throws' \in [Teams -> Throws \cup {None}]
    BY <2>2 DEF NoThrows
  <2>4. Complete' <=> Complete
    BY <2>2 DEF Complete, Unresolved
  <2>5. tied \subseteq Teams /\ standing \subseteq tied /\ tied = Leaders(wins) /\ Complete
    BY <1>g, <2>1 DEF TieInv
  <2>6. r3Winner' \in Leaders(wins) \/ (r3Winner' = None /\ Cardinality(standing') > 1)
    BY <2>1, <2>5
  <2>7. QED
    BY <2>1, <2>2, <2>3, <2>4, <2>5, <2>6, PlaceFacts DEF TieInv
<1>4. ASSUME UNCHANGED <<tieVars, wins>>, ResultsStay PROVE TieInv'
  BY <1>4, <1>g, <1>c DEF TieInv, tieVars
<1>5. CASE \E t \in Teams : ConfirmRound3Challenge(t)
  BY <1>1, <1>5
<1>6. CASE ~ \E t \in Teams : ConfirmRound3Challenge(t)
  <2>1. ResultsStay
    BY <1>g, <1>6
  <2>2. \/ UNCHANGED <<tieVars, wins>> \/ ThrowsRevealed
        \/ \E t \in Teams, c \in Throws : SubmitRpsChoice(t, c)
    BY <1>6
       DEF R3Next, BeginRound3, DevStartRound3, DevEnterRound3, PrepareRound3Challenge,
           StartChallengeInRoom, NextItem, AwardPoint, ThinkFastValid, ThinkFastEliminate,
           Tick, ItemMovesOn, PauseRound3, ResumeRound3,
           TimePasses, EveryWindow, AroundTheRound, allVars, r3Vars
  <2>3. QED
    BY <1>2, <1>3, <1>4, <2>1, <2>2
<1>7. QED
  BY <1>5, <1>6

-----------------------------------------------------------------------------
(* The invariant, and what it gives.                                       *)

\* Before the round nothing is prepared, shown or won.
LEMMA R3Initially == R3Init => R3Inv
<1> SUFFICES ASSUME R3Init PROVE R3Inv
  OBVIOUS
<1>1. FlowInv /\ Init
  BY InitFlow DEF R3Init
<1>2. /\ order = <<>> /\ content = Items /\ DOMAIN Contests = Places
      /\ slots = [i \in Places |-> FreshSlot] /\ content \in [Places -> Nat]
  BY PlaceFacts DEF R3Init
<1>3. FreshSlot \in SlotRecords
  <2>1. NoWindow \in Windows3
    BY DEF NoWindow, Windows3
  <2>2. [t \in Teams |-> 0] \in [Teams -> 0..MaxScore] /\ 0 \in 0..MaxTurns /\ 0 \in Nat
    BY PlaceFacts
  <2>3. QED
    BY <2>1, <2>2 DEF FreshSlot, SlotRecords
<1>4. ASSUME NEW i \in Places PROVE SlotFits(i, slots[i])
  <2>1. slots[i] = FreshSlot
    BY <1>2
  <2>2. SlotFits(i, FreshSlot)
    BY <1>2, <1>3, PlaceFacts
       DEF SlotFits, FreshSlot, NoWindow, WindowsUpTo, Exists, FollowsPause
  <2>3. QED
    BY <2>1, <2>2
<1>5. InTurn
  BY <1>2 DEF InTurn, FreshSlot
<1>6. SlotsInv
  BY <1>2, <1>3, <1>4, <1>5 DEF SlotsInv
<1>7. WinsInv
  <2>1. wins = [t \in Teams |-> 0]
    BY DEF R3Init
  <2>2. ASSUME NEW t \in Teams
        PROVE  Cardinality({i \in DOMAIN slots : slots[i].winner = t}) = 0
    <3>1. {i \in DOMAIN slots : slots[i].winner = t} = {}
      BY <1>2, PlaceFacts DEF FreshSlot
    <3>2. QED
      BY <3>1, FS_EmptySet
  <2>3. QED
    BY <2>1, <2>2 DEF WinsInv
<1>8. TieInv
  BY PlaceFacts DEF TieInv, R3Init, NoThrows
<1>9. QED
  BY <1>1, <1>6, <1>7, <1>8 DEF R3Inv

\* Every step keeps the invariant.
LEMMA R3Step == R3Inv /\ [R3Next]_allVars => R3Inv'
  BY GameGoesOn, SlotsStep, WinsKept, TieKept DEF R3Inv

\* And so it always holds.
LEMMA R3Invariant == R3Spec => []R3Inv
  BY R3Initially, R3Step, PTL DEF R3Spec

\* Each winner was paid for by a challenge of its own: that of the slot.
LEMMA PaidEach == R3Inv => ResultsArePaid
<1> SUFFICES ASSUME R3Inv PROVE ResultsArePaid
  OBVIOUS
<1>1. PICK won : won = {i \in DOMAIN slots : slots[i].winner # None}
  OBVIOUS
<1>2. PICK paid : paid = {c \in DOMAIN settlements : settlements[c] > 0}
  OBVIOUS
<1>3. SlotsInv /\ settlements \in [1..MaxChallenges -> Nat] /\ MaxChallenges \in Nat
      /\ challenge.id \in 0..MaxChallenges
  BY GameFlowAssumption DEF GameFlowAssumption, R3Inv, FlowInv, TypeOK
<1>4. ASSUME NEW i \in won
      PROVE  /\ i \in Places /\ i \in Nat /\ slots[i].progress = "resolved"
             /\ slots[i].challenge \in paid /\ slots[i].challenge \in Nat
  <2>1. i \in Places /\ slots[i].winner # None /\ SlotFits(i, slots[i]) /\ i \in Nat
    BY <1>1, <1>3, PlaceFacts DEF SlotsInv
  <2>2. /\ slots[i].challenge \in Nat /\ slots[i].challenge # 0
        /\ slots[i].challenge <= challenge.id /\ settlements[slots[i].challenge] > 0
        /\ slots[i].progress = "resolved"
    BY <2>1 DEF SlotFits, SlotRecords
  <2>3. slots[i].challenge \in 1..MaxChallenges
    BY <1>3, <2>2
  <2>4. QED
    BY <1>2, <1>3, <2>1, <2>2, <2>3
<1>5. PICK f : f = [i \in won |-> slots[i].challenge]
  OBVIOUS
<1>6. f \in [won -> paid]
  BY <1>4, <1>5
<1>7. \A i, j \in won : f[i] = f[j] => i = j
  <2>1. SUFFICES ASSUME NEW i \in won, NEW j \in won, j < i, f[i] = f[j] PROVE FALSE
    BY <1>4
  <2>2. slots[j].challenge < slots[i].challenge
    BY <1>3, <1>4, <2>1 DEF SlotsInv, InTurn
  <2>3. QED
    BY <1>4, <1>5, <2>1, <2>2
<1>8. f \in Injection(won, paid)
  BY <1>6, <1>7 DEF Injection, IsInjective
<1>9. IsFiniteSet(paid)
  <2>1. paid \in SUBSET (1..MaxChallenges)
    BY <1>2, <1>3
  <2>2. IsFiniteSet(1..MaxChallenges)
    BY <1>3, FS_Interval
  <2>3. QED
    BY <2>1, <2>2, FS_Subset
<1>10. Cardinality(won) <= Cardinality(paid)
  BY <1>8, <1>9, FS_Injection
<1>11. QED
  BY <1>1, <1>2, <1>10 DEF ResultsArePaid

\* What holds of the round between any two steps.
LEMMA R3InvGives == R3Inv => VerbalIsSound
<1> SUFFICES ASSUME R3Inv PROVE VerbalIsSound
  OBVIOUS
<1>1. SlotsInv /\ WinsInv /\ TieInv /\ challenge.id \in Nat
      /\ DOMAIN slots = Places /\ DOMAIN Contests = Places
  BY PlaceFacts DEF R3Inv, FlowInv, TypeOK, SlotsInv
<1>2. ASSUME NEW i \in Places, NEW s, s = slots[i]
      PROVE  /\ s.progress \in {"not_started", "in_progress", "resolved"}
             /\ s.challenge \in 0..challenge.id /\ s.winner \in Teams \cup {None}
             /\ s.score \in [Teams -> 0..MaxScore] /\ s.shown \in 0..Items[i]
             /\ s.window \in WindowsUpTo(Contests[i].windowMs)
             /\ s.at \in 0..MaxTurns /\ s.out \subseteq Teams
             /\ FollowsPause(s.window, Paused)
             /\ Teams \ s.out # {} /\ s.winner \notin s.out
  <2>1. SlotFits(i, s) /\ s \in SlotRecords /\ content[i] \in Nat /\ Items[i] \in Nat
    BY <1>1, <1>2, PlaceFacts DEF SlotsInv, SlotFits
  <2>2. s.challenge \in 0..challenge.id
    BY <1>1, <2>1 DEF SlotFits, SlotRecords
  <2>3. s.shown \in 0..Items[i]
    BY <2>1 DEF SlotFits, SlotRecords
  <2>4. QED
    BY <2>1, <2>2, <2>3 DEF SlotFits, SlotRecords
<1>3. wins \in [Teams -> 0..Len(Contests)]
  BY <1>1, WinsBound DEF WinsInv
<1>4. R3TypeOK
  BY <1>1, <1>2, <1>3 DEF R3TypeOK, SlotsInv, TieInv
<1>5. WindowFollowsPause
  BY <1>1, <1>2 DEF WindowFollowsPause
<1>6. ThinkFastHasItsWinner
  BY <1>1, <1>2 DEF ThinkFastHasItsWinner
<1>7. WonByALeader
  BY <1>1 DEF WonByALeader, WinsInv, TieInv, Leaders
<1>8. QED
  BY <1>4, <1>5, <1>6, <1>7, PaidEach DEF VerbalIsSound

\* Round 3 stays well-formed for any number of teams, contests and items: the
\* items' windows stand still with the game, Think Fast always has somebody left
\* to win it, results are paid each through a challenge of its own, and whoever
\* wins the round has as many wins as any.
THEOREM VerbalIsSoundAlways == R3Spec => []VerbalIsSound
  BY R3Invariant, R3InvGives, PTL

\* The game the round is played in stays sound, the walk to it included.
THEOREM Round3StaysSound == R3Spec => [](GameIsSound /\ TimerIsSound)
<1>1. R3Inv => GameIsSound /\ TimerIsSound
  BY FlowInvGives DEF R3Inv
<1>2. QED
  BY <1>1, R3Invariant, PTL

-----------------------------------------------------------------------------
(* The tiebreak is fair.                                                   *)

\* Throws come one by one from teams that have not thrown, and are only revealed
\* and thrown again all together.
THEOREM ThrowsRevealedTogetherAlways == R3Spec => ThrowsRevealedTogether
<1> DEFINE Step == throws' # throws =>
                       IF \A t \in standing : throws[t] # None
                       THEN throws' = NoThrows
                       ELSE \E t \in standing : throws[t] = None
                                   /\ throws' = [throws EXCEPT ![t] = throws'[t]]
<1>1. R3Inv /\ [R3Next]_allVars => [Step]_allVars
  <2> SUFFICES ASSUME R3Inv, [R3Next]_allVars PROVE Step
    OBVIOUS
  <2>1. ASSUME NEW t \in Teams, ConfirmRound3Challenge(t) PROVE Step
    <3>1. SlotsInv' /\ WinsInv' /\ GoesOn
      BY GameGoesOn, SlotsStep, WinsKept DEF GoesOn, R3Inv
    <3>2. standing = {} /\ (UNCHANGED tieVars \/ throws' = NoThrows)
      BY <2>1, <3>1, ConfirmDecides
    <3>3. QED
      BY <3>2 DEF tieVars
  <2>2. ASSUME NEW t \in Teams, NEW c \in Throws, SubmitRpsChoice(t, c) PROVE Step
    <3>1. t \in standing /\ throws[t] = None /\ throws' = [throws EXCEPT ![t] = c]
          /\ throws \in [Teams -> Throws \cup {None}]
      BY <2>2 DEF SubmitRpsChoice, MayThrow, R3Inv, TieInv
    <3>2. throws'[t] = c
      BY <3>1
    <3>3. QED
      BY <3>1, <3>2
  <2>3. CASE ThrowsRevealed
    BY <2>3 DEF ThrowsRevealed, ThrowsDue, AllChoicesIn, ResolveRps
  <2>4. CASE UNCHANGED throws
    BY <2>4
  <2>5. QED
    BY <2>1, <2>2, <2>3, <2>4
       DEF R3Next, BeginRound3, DevStartRound3, DevEnterRound3, PrepareRound3Challenge,
           StartChallengeInRoom, NextItem, AwardPoint, ThinkFastValid, ThinkFastEliminate,
           Tick, ItemMovesOn, PauseRound3, ResumeRound3,
           TimePasses, EveryWindow, AroundTheRound, allVars, r3Vars, tieVars
<1>2. QED
  BY <1>1, R3Invariant, PTL DEF R3Spec, ThrowsRevealedTogether

\* The abstract knockout counts as the round does.
LEMMA KnockoutCounts == \A S : Knockout!Cardinality(S) = Cardinality(S)
  BY DEF Knockout!Cardinality, Cardinality

\* What the tiebreak shows of itself changes in three ways: the last contest ties
\* some teams, an attempt sends some out, an attempt leaves one.
LEMMA StepIsKnockoutStep ==
    ASSUME R3Inv, [R3Next]_allVars
    PROVE  [Knockout!Begin \/ Knockout!KnockOut \/ Knockout!Crown]_(Knockout!KVars)
<1>g. SlotsInv' /\ WinsInv' /\ GoesOn /\ TieInv
  BY GameGoesOn, SlotsStep, WinsKept DEF GoesOn, R3Inv
<1>1. ASSUME NEW t \in Teams, ConfirmRound3Challenge(t)
      PROVE  Knockout!Begin \/ UNCHANGED Knockout!KVars
  <2>1. CASE UNCHANGED <<tied, standing>>
    BY <1>1, <1>g, <2>1, ConfirmDecides DEF Knockout!KVars
  <2>2. CASE ~UNCHANGED <<tied, standing>>
    <3>1. /\ standing = {} /\ standing' \in SUBSET Teams /\ Cardinality(standing') > 1
          /\ r3Winner' = None
      BY <1>1, <1>g, <2>2, ConfirmDecides DEF tieVars
    <3>2. QED
      BY <3>1, KnockoutCounts DEF Knockout!Begin
  <2>3. QED
    BY <2>1, <2>2
<1>2. ASSUME ThrowsRevealed
      PROVE  Knockout!KnockOut \/ Knockout!Crown \/ UNCHANGED Knockout!KVars
  <2>1. /\ tied # {} /\ r3Winner = None /\ tied' = tied
        /\ standing' \subseteq standing /\ standing' # {}
        /\ IsFiniteSet(standing') /\ Cardinality(standing') \in Nat
        /\ Cardinality(standing') = 1 => r3Winner' \in standing'
        /\ Cardinality(standing') # 1 => Cardinality(standing') > 1 /\ r3Winner' = None
    BY <1>2, <1>g, RevealedFacts DEF ThrowsRevealed, ResolveRps
  <2>2. CASE Cardinality(standing') = 1
    <3>1. standing' = {r3Winner'}
      BY <2>1, <2>2, FS_Singleton
    <3>2. QED
      BY <2>1, <3>1 DEF Knockout!Crown
  <2>3. CASE Cardinality(standing') # 1
    BY <2>1, <2>3, KnockoutCounts DEF Knockout!KnockOut, Knockout!KVars
  <2>4. QED
    BY <2>2, <2>3
<1>3. CASE UNCHANGED <<tied, standing, r3Winner>>
  BY <1>3 DEF Knockout!KVars
<1>4. QED
  BY <1>1, <1>2, <1>3
     DEF R3Next, BeginRound3, DevStartRound3, DevEnterRound3, PrepareRound3Challenge,
         StartChallengeInRoom, NextItem, AwardPoint, ThinkFastValid, ThinkFastEliminate,
         SubmitRpsChoice, Tick, ItemMovesOn, PauseRound3, ResumeRound3,
         TimePasses, EveryWindow, AroundTheRound, allVars, r3Vars, tieVars

\* The tiebreak is a knockout of the tied teams, with one left in the end: whoever
\* is out stays out, however often an attempt is played again.
THEOREM Round3ImplementsElimination == R3Spec => ImplementsElimination
<1>1. R3Init => Knockout!KInit
  BY DEF R3Init, Knockout!KInit
<1>2. QED
  BY <1>1, StepIsKnockoutStep, R3Invariant, PTL DEF R3Spec, ImplementsElimination, Knockout!KSpec

\* Nobody throws knowing another's throw, and nobody leaves but by a throw that lost.
THEOREM TiebreakIsFairAlways == R3Spec => TiebreakIsFair
  BY ThrowsRevealedTogetherAlways, Round3ImplementsElimination DEF TiebreakIsFair

-----------------------------------------------------------------------------
(* The contests implement OrderedRound.                                    *)

\* How many contests are over: those before the current one.
Over == Len(Contests) - Cardinality(Unresolved)

LEMMA OverFacts ==
    ASSUME SlotsInv
    PROVE  /\ Over \in Nat /\ \A i \in 1..Over : i \in Places
           /\ ~Complete => Over = Cur - 1 /\ Over < Len(Contests)
           /\ Complete => Over = Len(Contests)
<1>1. CASE Complete
  <2>1. Cardinality(Unresolved) = 0
    BY <1>1, FS_EmptySet DEF Complete
  <2>2. QED
    BY <1>1, <2>1, PlaceFacts DEF Over, Places
<1>2. CASE ~Complete
  <2>1. PICK k : k = Cur
    OBVIOUS
  <2>2. PICK n : n = Len(Contests)
    OBVIOUS
  <2>3. /\ k \in Places /\ slots[k].progress # "resolved" /\ n \in Nat /\ Places = 1..n
        /\ \A i \in Places : i < k => slots[i].progress = "resolved"
        /\ \A i \in Places : i > k => slots[i].progress = "not_started"
    BY <1>2, <2>1, <2>2, CurFacts, PlaceFacts DEF Places
  <2>4. Unresolved = k..n
    <3>1. \A i \in Places : slots[i].progress # "resolved" <=> i >= k
      BY <2>3
    <3>2. Unresolved = {i \in Places : i >= k}
      BY <3>1 DEF Unresolved, SlotsInv
    <3>3. QED
      BY <2>3, <3>2
  <2>5. Cardinality(Unresolved) = n - k + 1
    BY <2>3, <2>4, FS_Interval
  <2>6. Over = k - 1
    BY <2>2, <2>3, <2>5 DEF Over
  <2>7. QED
    BY <1>2, <2>1, <2>2, <2>3, <2>6
<1>3. QED
  BY <1>1, <1>2

\* Preparing a contest opens one, confirming its winner closes it with that
\* winner, and nothing else is a step of the abstract round.
LEMMA ContestStepIsRoundStep ==
    ASSUME R3Inv, R3Inv', [R3Next]_allVars
    PROVE  [Order!ONext]_(Order!ovars)
<1>g. /\ SlotsInv /\ SlotsInv' /\ GoesOn /\ Len(Contests) \in Nat
      /\ DOMAIN slots = Places /\ DOMAIN slots' = Places
      /\ (\E t \in Teams : ConfirmRound3Challenge(t)) \/ ResultsStay
  BY GameGoesOn, SlotsStep, PlaceFacts DEF GoesOn, R3Inv, SlotsInv
<1>o. Over \in Nat /\ \A i \in 1..Over : i \in Places
  BY <1>g, OverFacts
<1>1. CASE PrepareRound3Challenge
  <2>1. PICK k : k = Cur
    OBVIOUS
  <2>2. /\ k \in Places /\ ~Complete
        /\ slots[k].progress = "not_started" /\ slots'[k].progress = "in_progress"
        /\ \A i \in Places : i # k => slots'[i] = slots[i]
        /\ \A i \in Places : i < k => slots[i].progress = "resolved"
        /\ \A i \in Places : i > k => slots[i].progress = "not_started"
    BY <1>1, <1>g, <2>1, PreparedKeeps, CurFacts
  <2>3. Over < Len(Contests) /\ \A i \in 1..Over : i \in Places /\ i # k
    BY <1>g, <1>o, <2>1, <2>2, OverFacts
  <2>4. Unresolved' = Unresolved
    BY <1>g, <2>2 DEF Unresolved
  <2>5. \A i \in 1..Over : slots'[i].winner = slots[i].winner
    BY <2>2, <2>3
  <2>6. [i \in 1..Len(Contests) - Cardinality(Unresolved') |-> slots'[i].winner]
          = [i \in 1..Len(Contests) - Cardinality(Unresolved) |-> slots[i].winner]
    BY <2>4, <2>5 DEF Over
  <2>7. Len([i \in 1..Over |-> slots[i].winner]) = Over
    BY <1>o
  <2>8. ~ \E i \in Unresolved : slots[i].progress = "in_progress"
    <3>1. ASSUME NEW i \in Places PROVE slots[i].progress # "in_progress"
      <4>1. i = k \/ i < k \/ i > k
        BY <2>2, PlaceFacts
      <4>2. QED
        BY <2>2, <4>1
    <3>2. QED
      BY <1>g, <3>1 DEF Unresolved
  <2>9. \E i \in Unresolved' : slots'[i].progress = "in_progress"
    BY <1>g, <2>2 DEF Unresolved
  <2>10. Order!Open
    BY <2>3, <2>6, <2>7, <2>8, <2>9 DEF Order!Open, Over
  <2>11. QED
    BY <2>10 DEF Order!ONext
<1>2. ASSUME NEW t \in Teams, ConfirmRound3Challenge(t) PROVE Order!ONext
  <2>1. PICK k : k = Cur
    OBVIOUS
  <2>2. /\ k \in Places /\ ~Complete
        /\ slots[k].progress = "in_progress" /\ slots'[k].progress = "resolved"
        /\ slots'[k].winner = t /\ \A i \in Places : i # k => slots'[i] = slots[i]
        /\ \A i \in Places : i < k => slots[i].progress = "resolved"
        /\ \A i \in Places : i > k => slots[i].progress = "not_started"
    BY <1>2, <1>g, <2>1, ConfirmedKeeps, CurFacts DEF ConfirmRound3Challenge, MayWin, Playing
  <2>3. PICK m : m = Over
    OBVIOUS
  <2>4. m \in Nat /\ k = m + 1 /\ m < Len(Contests) /\ \A i \in 1..m : i \in Places /\ i # k
    BY <1>g, <1>o, <2>1, <2>2, <2>3, OverFacts, PlaceFacts
  <2>5. Len(Contests) - Cardinality(Unresolved') = m + 1
    <3>1. Unresolved' = Unresolved \ {k} /\ k \in Unresolved /\ Unresolved \in SUBSET Places
      BY <1>g, <2>2 DEF Unresolved
    <3>2. IsFiniteSet(Unresolved)
      BY <3>1, PlaceFacts, FS_Subset
    <3>3. Cardinality(Unresolved') = Cardinality(Unresolved) - 1 /\ Cardinality(Unresolved) \in Nat
      BY <3>1, <3>2, FS_RemoveElement, FS_CardinalityType
    <3>4. QED
      BY <1>g, <2>3, <3>3 DEF Over
  <2>6. (\E i \in Unresolved : slots[i].progress = "in_progress")
        /\ ~ \E i \in Unresolved' : slots'[i].progress = "in_progress"
    <3>1. ASSUME NEW i \in Places PROVE slots'[i].progress # "in_progress"
      <4>1. i = k \/ i < k \/ i > k
        BY <2>2, PlaceFacts
      <4>2. QED
        BY <2>2, <4>1, PlaceFacts
    <3>2. QED
      BY <1>g, <2>2, <3>1 DEF Unresolved
  <2>7. [i \in 1..m + 1 |-> slots'[i].winner] = Append([i \in 1..m |-> slots[i].winner], t)
    <3> DEFINE old == [i \in 1..m |-> slots[i].winner]
    <3>1. \A i \in 1..m + 1 : slots'[i].winner = IF i = m + 1 THEN t ELSE slots[i].winner
      <4>1. \A i \in 1..m + 1 : i = m + 1 \/ i \in 1..m
        BY <2>4
      <4>2. QED
        BY <2>2, <2>4, <4>1
    <3>2. Len(old) = m
      BY <2>4
    <3>3. Append(old, t) = [i \in 1..m + 1 |-> IF i = m + 1 THEN t ELSE old[i]]
      BY <2>4, <3>2
    <3>4. \A i \in 1..m + 1 : i # m + 1 => old[i] = slots[i].winner
      BY <2>4
    <3>5. [i \in 1..m + 1 |-> slots'[i].winner]
            = [i \in 1..m + 1 |-> IF i = m + 1 THEN t ELSE old[i]]
      BY <3>1, <3>4
    <3>6. QED
      BY <3>3, <3>5
  <2>8. Order!Close(t)
    BY <2>3, <2>5, <2>6, <2>7 DEF Order!Close, Over
  <2>9. QED
    BY <2>8 DEF Order!ONext
<1>3. CASE /\ \A i \in Places : slots'[i].winner = slots[i].winner
           /\ \A i \in Places : slots'[i].progress = slots[i].progress
  <2>1. Unresolved' = Unresolved
    BY <1>g, <1>3 DEF Unresolved
  <2>2. (\E i \in Unresolved' : slots'[i].progress = "in_progress")
          <=> (\E i \in Unresolved : slots[i].progress = "in_progress")
    BY <1>g, <1>3, <2>1 DEF Unresolved
  <2>3. [i \in 1..Len(Contests) - Cardinality(Unresolved') |-> slots'[i].winner]
          = [i \in 1..Len(Contests) - Cardinality(Unresolved) |-> slots[i].winner]
    BY <1>3, <1>o, <2>1 DEF Over
  <2>4. QED
    BY <2>2, <2>3 DEF Order!ovars
<1>4. QED
  BY <1>1, <1>2, <1>3, <1>g DEF ResultsStay

\* The round opens its contests one at a time in order and closes each with one
\* winner, which is then final.
THEOREM Round3ImplementsOrderedRound == R3Spec => ImplementsOrderedRound
<1>1. R3Init => Order!OInit
  <2> SUFFICES ASSUME R3Init PROVE Order!OInit
    OBVIOUS
  <2>1. SlotsInv /\ slots = [i \in Places |-> FreshSlot]
    BY R3Initially, PlaceFacts DEF R3Init, R3Inv
  <2>2. Unresolved = Places /\ \A i \in Places : slots[i].progress = "not_started"
    BY <2>1 DEF Unresolved, FreshSlot
  <2>3. Cardinality(Unresolved) = Len(Contests) /\ Len(Contests) \in Nat
    BY <2>2, PlaceFacts
  <2>4. [i \in 1..Len(Contests) - Cardinality(Unresolved) |-> slots[i].winner] = <<>>
    BY <2>3
  <2>5. QED
    BY <2>2, <2>4 DEF Order!OInit
<1>2. R3Inv /\ R3Inv' /\ [R3Next]_allVars => [Order!ONext]_(Order!ovars)
  BY ContestStepIsRoundStep
<1>3. QED
  BY <1>1, <1>2, R3Invariant, PTL DEF R3Spec, ImplementsOrderedRound, Order!OSpec

-----------------------------------------------------------------------------
(* Sudden Death: what the contest's state keeps to, beyond what the runs   *)
(* ask of it: it has teams before it has a face-off, who buzzed is one of  *)
(* them, an open face-off has no winner and no champion yet, and nobody    *)
(* else has a streak.                                                      *)

Contenders ==
    /\ faceoff.status # "none" => sdTeams # <<>>
    /\ faceoff.status = "none" => faceoff.winner = None
    /\ faceoff.status = "buzzed" => faceoff.buzzed \in Contestants
    /\ faceoff.status \in {"reading", "buzzed"} => faceoff.winner = None /\ sdWinner = None
    /\ \A t \in Teams : streak[t] > 0 => t \in Contestants

SDInv == FlowInv /\ SDTypeOK /\ AnswerWindowFollowsPause /\ StreaksDecide /\ Contenders

\* It holds where nobody has been called to Sudden Death.
LEMMA SDInitially == SDInit => SDInv
<1> SUFFICES ASSUME SDInit PROVE SDInv
  OBVIOUS
<1>1. FlowInv /\ now \in Nat
  BY InitFlow DEF SDInit, FlowInv, TypeOK
<1>2. SDTypeOK
  BY <1>1, NoTimerFacts DEF SDInit, SDTypeOK, FaceoffStatuses
<1>3. StreaksDecide
  BY GameFlowAssumption DEF GameFlowAssumption, SDInit, StreaksDecide
<1>4. QED
  BY <1>1, <1>2, <1>3 DEF SDInit, SDInv, AnswerWindowFollowsPause, Contenders

\* A face-off is between teams of the game.
LEMMA ContestantsAreTeams ==
    ASSUME SDTypeOK
    PROVE  /\ Contestants \subseteq Teams
           /\ sdTeams # <<>> => \E a, b \in Teams : Contestants = {a, b}
<1>1. CASE sdTeams = <<>>
  BY <1>1 DEF Contestants
<1>2. CASE sdTeams \in Teams \X Teams
  <2>1. PICK a \in Teams, b \in Teams : sdTeams = <<a, b>>
    BY <1>2
  <2>2. DOMAIN sdTeams = {1, 2} /\ sdTeams[1] = a /\ sdTeams[2] = b
    BY <2>1
  <2>3. Contestants = {a, b}
    BY <2>2 DEF Contestants
  <2>4. QED
    BY <2>3
<1>3. QED
  BY <1>1, <1>2 DEF SDTypeOK

-----------------------------------------------------------------------------
(* The game around the contest. *)

\* The steps of Sudden Death that no other intent of the Host could have made:
\* the game jumps to its phase, or is over; each leaves the game sound.
LEMMA ContestKeepsFlow ==
    ASSUME SDInv,
           \/ \E a, b \in Teams : BeginSuddenDeath(a, b)
           \/ StartFaceoff
           \/ \E t \in Teams : Buzz(t)
           \/ \E correct \in BOOLEAN : RuleAnswer(correct)
           \/ RecordNoDecision
    PROVE  FlowInv' /\ ~Paused /\ ~Paused' /\ now' = now
<1> USE DEF vars, flowVars, playVars, timerVars
<1>t. /\ phase \in Phases /\ active \subseteq UNION {members[t] : t \in Teams}
      /\ ~Paused => resumePhase = NoPhase
  BY DEF SDInv, FlowInv, TypeOK, WaitsOnlyOnMembers, PauseShape
<1>1. ASSUME NEW a \in Teams, NEW b \in Teams, BeginSuddenDeath(a, b)
      PROVE  FlowInv' /\ ~Paused /\ ~Paused' /\ now' = now
  BY <1>1, <1>t, MovedGameKeepsFlow, PhaseNames DEF BeginSuddenDeath, SDInv, Running, Paused
<1>2. CASE StartFaceoff
  <2>1. Contestants \subseteq Teams
    BY ContestantsAreTeams DEF SDInv
  <2>2. active' \subseteq UNION {members[t] : t \in Teams}
    BY <1>2, <2>1 DEF StartFaceoff
  <2>3. Running /\ phase' = phase /\ resumePhase' = NoPhase
    BY <1>2, <1>t DEF StartFaceoff, Running
  <2>4. QED
    BY <1>2, <1>t, <2>2, <2>3, MovedGameKeepsFlow DEF StartFaceoff, SDInv, Running, Paused
<1>3. ASSUME NEW t \in Teams, Buzz(t) PROVE FlowInv' /\ ~Paused /\ ~Paused' /\ now' = now
  BY <1>3, <1>t, MovedGameKeepsFlow DEF Buzz, SDInv, Running, Paused
<1>4. ASSUME NEW correct \in BOOLEAN, RuleAnswer(correct)
      PROVE  FlowInv' /\ ~Paused /\ ~Paused' /\ now' = now
  <2>1. Running /\ active' \subseteq UNION {members[t] : t \in Teams}
    BY <1>4, <1>t DEF RuleAnswer, Decide
  <2>2. phase' \in Phases \ {"PAUSED"} /\ resumePhase' = NoPhase
    <3>1. UNCHANGED <<phase, resumePhase>> \/ TryMoveTo("GAME_OVER")
      BY <1>4 DEF RuleAnswer, Decide
    <3>2. CASE UNCHANGED <<phase, resumePhase>>
      BY <2>1, <3>2, <1>t DEF Running, Paused
    <3>3. CASE TryMoveTo("GAME_OVER")
      BY <2>1, <3>3, <1>t, TransitionFacts DEF TryMoveTo, Running, Paused
    <3>4. QED
      BY <3>1, <3>2, <3>3
  <2>3. QED
    BY <1>4, <2>1, <2>2, MovedGameKeepsFlow DEF RuleAnswer, SDInv, Running, Paused
<1>5. CASE RecordNoDecision
  <2>1. Running /\ phase' = phase /\ resumePhase' = NoPhase
        /\ active' \subseteq UNION {members[t] : t \in Teams}
    BY <1>5, <1>t DEF RecordNoDecision, Running
  <2>2. QED
    BY <1>5, <1>t, <2>1, MovedGameKeepsFlow DEF RecordNoDecision, SDInv, Running, Paused
<1>6. QED
  BY <1>1, <1>2, <1>3, <1>4, <1>5

\* An intent that is not the contest's is one of the game's.
LEMMA FlowStepIsPlain == ASSUME FlowStep PROVE PlainStep
BY DEF FlowStep, PlainStep

\* Whatever is done in the contest or around it, the game stays sound.
LEMMA SDStepKeepsFlow == SDInv /\ [SDNext]_allSDVars => FlowInv'
<1> SUFFICES ASSUME SDInv, [SDNext]_allSDVars PROVE FlowInv'
  OBVIOUS
<1>1. FlowInv
  BY DEF SDInv
<1>2. CASE SDPause \/ SDResume
  BY <1>1, <1>2, NextFlow DEF SDPause, SDResume, Next
<1>3. CASE FlowStep
  BY <1>1, <1>3, FlowStepIsPlain, PlainStepFacts, NextFlow DEF FlowInv
<1>4. CASE AnswerTimeout
  BY <1>4, ContestKeepsFlow DEF AnswerTimeout
<1>5. CASE UNCHANGED allSDVars
  BY <1>1, <1>5, NextFlow DEF allSDVars
<1>6. QED
  BY <1>2, <1>3, <1>4, <1>5, ContestKeepsFlow DEF SDNext

-----------------------------------------------------------------------------
(* The answer window. *)

WindowInv ==
    /\ answer \in Deadlines /\ WellFormed(now, answer)
    /\ answer # NoTimer => answer.durationMs > 0
    /\ AnswerWindowFollowsPause

\* The window is opened by a buzz, forgotten by a ruling, and stands still
\* exactly through each pause; nothing else reaches it.
LEMMA WindowKept == SDInv /\ [SDNext]_allSDVars => WindowInv'
<1> SUFFICES ASSUME SDInv, [SDNext]_allSDVars PROVE WindowInv'
  OBVIOUS
<1> USE DEF AnswerWindowFollowsPause
<1>t. /\ TypeOK /\ PauseShape /\ now \in Nat
      /\ answer \in Deadlines /\ WellFormed(now, answer)
      /\ answer # NoTimer => answer.durationMs > 0
      /\ answer # NoTimer <=> faceoff.status = "buzzed"
      /\ answer # NoTimer => (IsPaused(answer) <=> Paused)
      /\ faceoff \in [status : FaceoffStatuses, buzzed : Teams \cup {None},
                      winner : Teams \cup {None}, noDecision : BOOLEAN]
  BY DEF SDInv, SDTypeOK, FlowInv, TypeOK
<1>a. ASSUME UNCHANGED <<now, answer, faceoff>>, Paused' <=> Paused PROVE WindowInv'
  BY <1>t, <1>a DEF WindowInv
<1>b. ASSUME now' = now, answer' = NoTimer, faceoff'.status # "buzzed" PROVE WindowInv'
  BY <1>t, <1>b, NoTimerFacts DEF WindowInv
<1>1. ASSUME NEW a \in Teams, NEW b \in Teams, BeginSuddenDeath(a, b) PROVE WindowInv'
  BY <1>1, <1>a, ContestKeepsFlow DEF BeginSuddenDeath
<1>2. CASE StartFaceoff
  BY <1>2, <1>b DEF StartFaceoff
<1>3. ASSUME NEW t \in Teams, Buzz(t) PROVE WindowInv'
  <2>1. answer' = StartDeadline(now, AnswerMs) /\ now' = now /\ faceoff'.status = "buzzed"
        /\ ~Paused'
    BY <1>3, <1>t DEF Buzz, vars, flowVars, Running, Paused
  <2>2. answer' \in Deadlines /\ WellFormed(now, answer') /\ ~IsPaused(answer')
        /\ answer'.durationMs > 0
    BY <2>1, <1>t, StartFacts, SuddenDeathAssumption DEF SuddenDeathAssumption
  <2>3. answer' # NoTimer
    BY <2>2, PositiveIsSet
  <2>4. QED
    BY <2>1, <2>2, <2>3 DEF WindowInv
<1>4. ASSUME NEW correct \in BOOLEAN, RuleAnswer(correct) PROVE WindowInv'
  <2>1. now' = now /\ answer' = NoTimer
    BY <1>4 DEF RuleAnswer
  <2>2. faceoff'.status = "decided"
    BY <1>4, <1>t DEF RuleAnswer, Decide
  <2>3. QED
    BY <2>1, <2>2, <1>b
<1>5. CASE RecordNoDecision
  BY <1>5, <1>b, <1>t DEF RecordNoDecision
<1>6. CASE SDPause
  <2>1. ~Paused /\ Paused' /\ now' = now /\ faceoff' = faceoff
    BY <1>6, OverlayFacts DEF SDPause, HostPause, ActivePlayerDisconnect
  <2>2. CASE answer = NoTimer
    BY <1>6, <2>1, <2>2, <1>b, <1>t DEF SDPause, PauseTheAnswer
  <2>3. CASE answer # NoTimer
    <3>1. answer' = PauseDeadline(now, answer)
      BY <1>6, <2>3 DEF SDPause, PauseTheAnswer
    <3>2. answer' \in Deadlines /\ WellFormed(now, answer') /\ IsPaused(answer')
          /\ answer'.durationMs > 0
      BY <3>1, <2>3, <1>t, PauseFacts
    <3>3. QED
      BY <2>1, <2>3, <3>2, <1>t, PositiveIsSet DEF WindowInv
  <2>4. QED
    BY <2>2, <2>3
<1>7. CASE SDResume
  <2>1. Paused /\ ~Paused' /\ now' = now /\ faceoff' = faceoff
    BY <1>7, <1>t, OverlayFacts DEF SDResume
  <2>2. CASE answer = NoTimer
    BY <1>7, <2>1, <2>2, <1>b, <1>t DEF SDResume, ResumeTheAnswer
  <2>3. CASE answer # NoTimer
    <3>1. answer' = ResumeDeadline(now, answer)
      BY <1>7, <2>3 DEF SDResume, ResumeTheAnswer
    <3>2. answer' \in Deadlines /\ WellFormed(now, answer') /\ ~IsPaused(answer')
          /\ answer'.durationMs > 0
      BY <3>1, <2>3, <1>t, ResumeFacts
    <3>3. QED
      BY <2>1, <2>3, <3>2, <1>t, PositiveIsSet DEF WindowInv
  <2>4. QED
    BY <2>2, <2>3
<1>8. CASE FlowStep
  <2>1. (Paused' <=> Paused) /\ (ClockTick \/ now' = now) /\ UNCHANGED <<answer, faceoff>>
    BY <1>8, <1>t, FlowStepIsPlain, PlainStepFacts DEF FlowStep, sdVars
  <2>2. CASE now' = now
    BY <2>1, <2>2, <1>a
  <2>3. CASE ClockTick
    BY <2>1, <2>3, <1>t, TickFacts DEF ClockTick, WindowInv
  <2>4. QED
    BY <2>1, <2>2, <2>3
<1>9. CASE UNCHANGED allSDVars
  BY <1>9, <1>a DEF allSDVars, vars, flowVars, sdVars, Paused
<1>10. QED
  BY <1>1, <1>2, <1>3, <1>4, <1>5, <1>6, <1>7, <1>8, <1>9 DEF SDNext, AnswerTimeout

-----------------------------------------------------------------------------
(* The streaks. *)

\* The last winner is whoever is on a streak.
LEMMA LastWinnerFacts ==
    ASSUME SDTypeOK, StreaksDecide
    PROVE  /\ \A t \in Teams : streak[t] > 0 => LastWinner = t
           /\ (\A t \in Teams : streak[t] = 0) => LastWinner = None
<1>1. ASSUME NEW t \in Teams, streak[t] > 0 PROVE LastWinner = t
  <2>1. LastWinner = CHOOSE u \in Teams : streak[u] > 0
    BY <1>1 DEF LastWinner
  <2>2. LastWinner \in Teams /\ streak[LastWinner] > 0
    BY <1>1, <2>1
  <2>3. QED
    BY <1>1, <2>2 DEF StreaksDecide
<1>2. ASSUME \A t \in Teams : streak[t] = 0 PROVE LastWinner = None
  BY <1>2 DEF LastWinner
<1>3. QED
  BY <1>1, <1>2

\* Deciding a face-off raises the winner's streak, ends everyone else's, and
\* names the champion exactly when that makes two.
LEMMA DecideFacts ==
    ASSUME SDInv, faceoff.status = "buzzed", NEW winner \in Contestants,
           NEW loser \in Contestants, winner # loser, Decide(winner, loser)
    PROVE  /\ winner \in Teams /\ streak[winner] \in {0, 1} /\ sdWinner = None
           /\ streak' = [t \in Teams |-> IF t = winner THEN streak[t] + 1 ELSE 0]
           /\ sdWinner' = IF streak[winner] = 1 THEN winner ELSE None
           /\ faceoff' = [status |-> "decided", buzzed |-> faceoff.buzzed,
                          winner |-> winner, noDecision |-> faceoff.noDecision]
<1>1. Contestants \subseteq Teams /\ Contestants = {winner, loser}
  BY ContestantsAreTeams DEF SDInv, Contenders
<1>2. /\ streak \in [Teams -> Nat] /\ sdWinner = None
      /\ \A t \in Teams : streak[t] <= 2 /\ (streak[t] = 2 <=> sdWinner = t)
      /\ \A t \in Teams : t \notin {winner, loser} => streak[t] = 0
  BY <1>1 DEF SDInv, SDTypeOK, StreaksDecide, Contenders
<1>3. streak[winner] \in {0, 1}
  BY <1>1, <1>2, GameFlowAssumption DEF GameFlowAssumption
<1>4. streak' = [t \in Teams |-> IF t = winner THEN streak[t] + 1 ELSE 0]
  BY <1>1, <1>2 DEF Decide, BumpStreak
<1>5. sdWinner' = IF streak[winner] = 1 THEN winner ELSE None
  BY <1>1, <1>2, <1>3, <1>4 DEF Decide
<1>6. faceoff' = [status |-> "decided", buzzed |-> faceoff.buzzed,
                  winner |-> winner, noDecision |-> faceoff.noDecision]
  BY DEF Decide, SDInv, SDTypeOK
<1>7. QED
  BY <1>1, <1>2, <1>3, <1>4, <1>5, <1>6

\* A ruling that finds another team decides between the two.
LEMMA RulingDecides ==
    ASSUME SDInv, NEW correct \in BOOLEAN, RuleAnswer(correct),
           Contestants # {faceoff.buzzed}
    PROVE  \E winner, loser \in Contestants : winner # loser /\ Decide(winner, loser)
BY DEF RuleAnswer, SDInv, Contenders

ScoreVars == <<sdTeams, streak, faceoff, sdWinner>>

\* The part of the invariant that is about teams, face-offs and streaks.
ScoreInv ==
    /\ sdTeams \in {<<>>} \cup (Teams \X Teams)
    /\ streak \in [Teams -> Nat]
    /\ faceoff \in [status : FaceoffStatuses, buzzed : Teams \cup {None},
                    winner : Teams \cup {None}, noDecision : BOOLEAN]
    /\ sdWinner \in Teams \cup {None}
    /\ StreaksDecide
    /\ Contenders

\* Every step keeps the score: one streak at a time, over when it is two.
LEMMA ScoreKept == SDInv /\ [SDNext]_allSDVars => ScoreInv'
<1> SUFFICES ASSUME SDInv, [SDNext]_allSDVars PROVE ScoreInv'
  OBVIOUS
<1>t. ScoreInv
  BY DEF SDInv, SDTypeOK, ScoreInv
<1>a. ASSUME UNCHANGED ScoreVars PROVE ScoreInv'
  BY <1>t, <1>a DEF ScoreVars, ScoreInv, StreaksDecide, Contenders, Contestants
<1>b. ASSUME UNCHANGED <<sdTeams, streak, sdWinner>>, faceoff.status # "none",
             faceoff' \in [status : {"decided"}, buzzed : Teams \cup {None},
                           winner : {faceoff.winner}, noDecision : BOOLEAN]
      PROVE  ScoreInv'
  BY <1>t, <1>b DEF ScoreInv, StreaksDecide, Contenders, Contestants, FaceoffStatuses
<1>1. ASSUME NEW a \in Teams, NEW b \in Teams, BeginSuddenDeath(a, b) PROVE ScoreInv'
  <2>1. \A t \in Teams : streak[t] = 0
    BY <1>1, <1>t DEF BeginSuddenDeath, ScoreInv, Contenders, Contestants
  <2>2. sdTeams' = <<a, b>> /\ UNCHANGED <<streak, faceoff, sdWinner>>
    BY <1>1 DEF BeginSuddenDeath
  <2>3. faceoff.status = "none"
    BY <1>1, <1>t DEF BeginSuddenDeath, ScoreInv, Contenders
  <2>4. QED
    BY <1>t, <2>1, <2>2, <2>3 DEF ScoreInv, StreaksDecide, Contenders
<1>2. CASE StartFaceoff
  <2>1. /\ UNCHANGED <<sdTeams, streak, sdWinner>> /\ sdTeams # <<>> /\ sdWinner = None
        /\ faceoff' = [status |-> "reading", buzzed |-> None, winner |-> None,
                       noDecision |-> FALSE]
    BY <1>2 DEF StartFaceoff, FaceoffMayStart, NoFaceoffOpen
  <2>2. QED
    BY <1>t, <2>1 DEF ScoreInv, StreaksDecide, Contenders, Contestants, FaceoffStatuses
<1>3. ASSUME NEW t \in Teams, Buzz(t) PROVE ScoreInv'
  <2>1. /\ UNCHANGED <<sdTeams, streak, sdWinner>>
        /\ faceoff.status = "reading" /\ t \in Contestants
        /\ faceoff' = [status |-> "buzzed", buzzed |-> t, winner |-> faceoff.winner,
                       noDecision |-> faceoff.noDecision]
    BY <1>3, <1>t DEF Buzz, ScoreInv
  <2>2. QED
    BY <1>t, <2>1 DEF ScoreInv, StreaksDecide, Contenders, Contestants, FaceoffStatuses
<1>4. ASSUME NEW correct \in BOOLEAN, RuleAnswer(correct) PROVE ScoreInv'
  <2>1. faceoff.status = "buzzed" /\ sdTeams' = sdTeams
    BY <1>4 DEF RuleAnswer
  <2>2. CASE Contestants = {faceoff.buzzed}
    BY <1>4, <1>b, <1>t, <2>1, <2>2 DEF RuleAnswer, ScoreInv
  <2>3. CASE Contestants # {faceoff.buzzed}
    <3>1. PICK winner \in Contestants, loser \in Contestants :
             winner # loser /\ Decide(winner, loser)
      BY <1>4, <2>3, RulingDecides
    <3>2. /\ winner \in Teams /\ streak[winner] \in {0, 1}
          /\ streak' = [t \in Teams |-> IF t = winner THEN streak[t] + 1 ELSE 0]
          /\ sdWinner' = IF streak[winner] = 1 THEN winner ELSE None
          /\ faceoff' = [status |-> "decided", buzzed |-> faceoff.buzzed,
                         winner |-> winner, noDecision |-> faceoff.noDecision]
      BY <2>1, <3>1, DecideFacts
    <3>3. streak' \in [Teams -> Nat] /\ streak'[winner] = streak[winner] + 1
          /\ \A t \in Teams : streak'[t] > 0 => t = winner
      BY <1>t, <3>2 DEF ScoreInv
    <3>4. StreaksDecide'
      BY <3>2, <3>3, GameFlowAssumption DEF StreaksDecide, GameFlowAssumption
    <3>5. Contenders'
      BY <1>t, <2>1, <3>1, <3>2, <3>3 DEF ScoreInv, Contenders, Contestants
    <3>6. QED
      BY <1>t, <2>1, <3>2, <3>3, <3>4, <3>5 DEF ScoreInv, FaceoffStatuses
  <2>4. QED
    BY <2>2, <2>3
<1>5. CASE RecordNoDecision
  BY <1>5, <1>b, <1>t DEF RecordNoDecision, ScoreInv
<1>6. QED
  BY <1>a, <1>1, <1>2, <1>3, <1>4, <1>5
     DEF SDNext, AnswerTimeout, SDPause, SDResume, FlowStep, sdVars, allSDVars, ScoreVars

\* Every step keeps it.
LEMMA SDStep == SDInv /\ [SDNext]_allSDVars => SDInv'
<1>1. FlowInv' /\ WindowInv' /\ ScoreInv' => SDInv'
  BY DEF SDInv, SDTypeOK, WindowInv, ScoreInv
<1>2. QED
  BY <1>1, SDStepKeepsFlow, WindowKept, ScoreKept

\* So it holds throughout.
LEMMA SDInvariant == SDSpec => []SDInv
BY SDInitially, SDStep, PTL DEF SDSpec

\* However the Host, the tick, buzzes and pauses come in between, the contest is
\* well-formed, its answer window stands still exactly while the game is paused,
\* and it is over exactly when one team has won two face-offs in a row.
THEOREM ContestIsSoundAlways == SDSpec => []ContestIsSound
<1>1. SDInv => ContestIsSound
  BY DEF SDInv, ContestIsSound
<1>2. QED
  BY <1>1, SDInvariant, PTL

\* Sudden Death takes nothing from the game around it: the phase it jumps to, the
\* active players it names and the end it declares leave every guarantee of the
\* game and its timer as it was.
THEOREM SuddenDeathStaysSound == SDSpec => [](GameIsSound /\ TimerIsSound)
<1>1. SDInv => GameIsSound /\ TimerIsSound
  BY FlowInvGives DEF SDInv
<1>2. QED
  BY <1>1, SDInvariant, PTL

-----------------------------------------------------------------------------
(* The contest implements TwoInARow. *)

\* The same of the state after a step.
LEMMA LastWinnerNext == SDInv' => (\A t \in Teams : streak[t] > 0 => LastWinner = t)'
<1>1. SDInv => \A t \in Teams : streak[t] > 0 => LastWinner = t
  BY LastWinnerFacts DEF SDInv
<1>2. QED
  BY <1>1, PTL

\* A decided face-off is a win of the abstract contest; nothing else is a step.
LEMMA StepIsContestStep ==
    SDInv /\ SDInv' /\ [SDNext]_allSDVars => [Contest!TNext]_(Contest!tvars)
<1> SUFFICES ASSUME SDInv, SDInv', [SDNext]_allSDVars
             PROVE  Contest!TNext \/ UNCHANGED Contest!tvars
  OBVIOUS
<1>t. /\ SDTypeOK /\ StreaksDecide /\ streak \in [Teams -> Nat]
      /\ \A t \in Teams : streak[t] > 0 => LastWinner = t
      /\ (\A t \in Teams : streak[t] = 0) => LastWinner = None
  BY LastWinnerFacts DEF SDInv, SDTypeOK
<1>a. ASSUME UNCHANGED <<streak, sdWinner>> PROVE UNCHANGED Contest!tvars
  BY <1>a DEF Contest!tvars, LastWinner
<1>1. ASSUME NEW correct \in BOOLEAN, RuleAnswer(correct)
      PROVE  Contest!TNext \/ UNCHANGED Contest!tvars
  <2>1. CASE Contestants = {faceoff.buzzed}
    BY <1>1, <2>1, <1>a DEF RuleAnswer
  <2>2. CASE Contestants # {faceoff.buzzed}
    <3>1. PICK winner \in Contestants, loser \in Contestants :
             winner # loser /\ Decide(winner, loser)
      BY <1>1, <2>2, RulingDecides
    <3>2. /\ winner \in Teams /\ streak[winner] \in {0, 1} /\ sdWinner = None
          /\ streak' = [t \in Teams |-> IF t = winner THEN streak[t] + 1 ELSE 0]
          /\ sdWinner' = IF streak[winner] = 1 THEN winner ELSE None
      BY <1>1, <3>1, DecideFacts DEF RuleAnswer
    <3>3. LastWinner' = winner
      <4>1. streak'[winner] > 0
        BY <3>2
      <4>2. \A t \in Teams : streak'[t] > 0 => LastWinner' = t
        BY LastWinnerNext
      <4>3. QED
        BY <3>2, <4>1, <4>2
    <3>4. streak[winner] = 1 <=> LastWinner = winner
      <4>1. CASE streak[winner] = 1
        BY <1>t, <3>2, <4>1
      <4>2. CASE streak[winner] = 0
        <5>1. ASSUME NEW t \in Teams, streak[t] > 0 PROVE LastWinner # winner
          BY <1>t, <4>2, <5>1
        <5>2. ASSUME \A t \in Teams : streak[t] = 0 PROVE LastWinner # winner
          BY <1>t, <3>2, <5>2, GameFlowAssumption DEF GameFlowAssumption
        <5>3. QED
          BY <1>t, <4>2, <5>1, <5>2
      <4>3. QED
        BY <3>2, <4>1, <4>2
    <3>5. Contest!Win(winner)
      BY <3>2, <3>3, <3>4 DEF Contest!Win
    <3>6. QED
      BY <3>2, <3>5 DEF Contest!TNext
  <2>3. QED
    BY <2>1, <2>2
<1>2. QED
  BY <1>a, <1>1
     DEF SDNext, AnswerTimeout, BeginSuddenDeath, StartFaceoff, Buzz, RecordNoDecision,
         SDPause, SDResume, FlowStep, sdVars, allSDVars

\* The detailed contest, with its buzzes, windows, timeouts and pauses, is a
\* sequence of face-offs won one at a time and over at two in a row.
THEOREM SuddenDeathImplementsTwoInARow == SDSpec => ImplementsTwoInARow
<1>1. SDInit => Contest!TInit
  BY DEF SDInit, Contest!TInit, LastWinner
<1>2. SDInv /\ SDInv' /\ [SDNext]_allSDVars => [Contest!TNext]_(Contest!tvars)
  BY StepIsContestStep
<1>3. QED
  BY <1>1, <1>2, SDInvariant, PTL DEF SDSpec, ImplementsTwoInARow, Contest!TSpec

=============================================================================

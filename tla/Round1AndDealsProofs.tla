------------------------ MODULE Round1AndDealsProofs ------------------------
(***************************************************************************)
(* Proofs about two parts that share nothing but the game.                 *)
(*                                                                         *)
(* Of Host Deals, wagers and the stake of a steal, for every table of      *)
(* terms, every stake and every result: the books balance however often    *)
(* the floor cuts a loss short, nobody gets the other half of a deal       *)
(* without paying for it, and what is settled is settled once.  The sums   *)
(* over deals and wagers come first, since the books are kept in them.     *)
(*                                                                         *)
(* Of Round 1, for every number of teams, questions and tiebreak items and *)
(* whatever is typed: a question is sound between any two steps, what it   *)
(* paid is what was ruled, nobody answers knowing, and the tiebreak is a   *)
(* knockout.  One invariant carries them all; each action keeps it and     *)
(* moves a sheet of answers only onward, in the sense of Later.            *)
(***************************************************************************)
EXTENDS Deals, Round1, GameFlowProofs

-----------------------------------------------------------------------------
(* What the deals and the wagers of a team moved, as such sums. *)

DealRecords ==
    [template : DOMAIN Terms \cup {"none"}, team : Teams \cup {None},
     opponent : Teams \cup {None}, choice : {"none", "accept", "decline"},
     settled : BOOLEAN, applied : [Teams -> Int]]

Wagers ==
    [team : Teams, amount : Nat, balanceAtLock : Nat, for : {"itself", "steal"},
     status : {"locked", "won", "lost", "cancelled"}, applied : Int]

\* What each deal shows it moved of the team's balance, and each wager.
DealRow(t) == [r \in 1..MaxRound |-> deal[r].applied[t]]
WagerRow(t) == [w \in DOMAIN wagers |-> IF wagers[w].team = t THEN wagers[w].applied ELSE 0]

DealsTyped == deal \in [1..MaxRound -> DealRecords]

\* DealsMoved is the sum of the one.
DealsTallied ==
    DealsTyped =>
    \A t \in Teams : \E f, i :
        /\ f \in [1..MaxRound -> Int]
        /\ Tally(i, f, 1..MaxRound) /\ DealsMoved(t) = i[1..MaxRound]
        /\ \A r \in 1..MaxRound : f[r] = deal[r].applied[t]

LEMMA DealsMovedIsATally == DealsTallied
<1> SUFFICES ASSUME DealsTyped, NEW t \in Teams
             PROVE  \E f, i :
                        /\ f \in [1..MaxRound -> Int]
                        /\ Tally(i, f, 1..MaxRound) /\ DealsMoved(t) = i[1..MaxRound]
                        /\ \A r \in 1..MaxRound : f[r] = deal[r].applied[t]
  BY DEF DealsTallied
<1> DEFINE D == 1..MaxRound
           P(i) == i = [s \in SUBSET D |->
                          IF s = {} THEN 0 ELSE deal[Pick(s)].applied[t] + i[s \ {Pick(s)}]]
           sum == CHOOSE i : P(i)
<1>1. \A i : Tally(i, DealRow(t), D) <=> P(i)
  <2>1. \A s \in SUBSET D : s # {} => DealRow(t)[Pick(s)] = deal[Pick(s)].applied[t]
    BY DEF DealRow, Pick
  <2>2. QED
    BY <2>1 DEF Tally
<1>2. \E i : P(i)
  <2>1. IsFiniteSet(D)
    BY FS_Interval, GameFlowAssumption DEF GameFlowAssumption
  <2>2. \E i : Tally(i, DealRow(t), D)
    BY <2>1, TallyExists
  <2> HIDE DEF P, D
  <2>3. QED
    BY <1>1, <2>2
<1>3. P(sum)
  <2> HIDE DEF P
  <2>1. QED
    BY <1>2
<1>4. DealsMoved(t) = sum[D]
  BY Zenon DEF DealsMoved, MapThenSumSet, MapThenFoldSet, Pick
<1>5. DealRow(t) \in [D -> Int] /\ \A r \in D : DealRow(t)[r] = deal[r].applied[t]
  <2>1. \A r \in D : deal[r].applied[t] \in Int
    BY DEF DealsTyped, DealRecords
  <2>2. QED
    BY <2>1 DEF DealRow
<1>6. Tally(sum, DealRow(t), D)
  <2> HIDE DEF P, sum
  <2>1. QED
    BY <1>1, <1>3
<1>7. QED
  <2> HIDE DEF sum
  <2>1. QED
    BY <1>4, <1>5, <1>6

\* WagersMoved is the sum of the other.
WagersTallied ==
    wagers \in Seq(Wagers) =>
    \A t \in Teams : \E f, i :
        /\ f \in [1..Len(wagers) -> Int]
        /\ Tally(i, f, 1..Len(wagers)) /\ WagersMoved(t) = i[1..Len(wagers)]
        /\ \A w \in 1..Len(wagers) : f[w] = IF wagers[w].team = t THEN wagers[w].applied ELSE 0

LEMMA WagersMovedIsATally == WagersTallied
<1> SUFFICES ASSUME wagers \in Seq(Wagers), NEW t \in Teams
             PROVE  \E f, i :
                        /\ f \in [1..Len(wagers) -> Int]
                        /\ Tally(i, f, 1..Len(wagers)) /\ WagersMoved(t) = i[1..Len(wagers)]
                        /\ \A w \in 1..Len(wagers) :
                               f[w] = IF wagers[w].team = t THEN wagers[w].applied ELSE 0
  BY DEF WagersTallied
<1> DEFINE D == DOMAIN wagers
           P(i) == i = [s \in SUBSET D |->
                          IF s = {} THEN 0
                          ELSE (IF wagers[Pick(s)].team = t THEN wagers[Pick(s)].applied ELSE 0)
                                   + i[s \ {Pick(s)}]]
           sum == CHOOSE i : P(i)
<1>d. D = 1..Len(wagers) /\ Len(wagers) \in Nat
  OBVIOUS
<1>1. \A i : Tally(i, WagerRow(t), D) <=> P(i)
  <2>1. \A s \in SUBSET D : s # {} =>
           WagerRow(t)[Pick(s)] = IF wagers[Pick(s)].team = t THEN wagers[Pick(s)].applied ELSE 0
    BY DEF WagerRow, Pick
  <2>2. QED
    BY <2>1 DEF Tally
<1>2. \E i : P(i)
  <2>1. IsFiniteSet(D)
    BY <1>d, FS_Interval
  <2>2. \E i : Tally(i, WagerRow(t), D)
    BY <2>1, TallyExists
  <2> HIDE DEF P, D
  <2>3. QED
    BY <1>1, <2>2
<1>3. P(sum)
  <2> HIDE DEF P
  <2>1. QED
    BY <1>2
<1>4. WagersMoved(t) = sum[D]
  BY Zenon DEF WagersMoved, MapThenSumSet, MapThenFoldSet, Pick
<1>5. /\ WagerRow(t) \in [D -> Int]
      /\ \A w \in D : WagerRow(t)[w] = IF wagers[w].team = t THEN wagers[w].applied ELSE 0
  <2>1. \A w \in D : wagers[w] \in Wagers
    BY <1>d
  <2>2. \A w \in D : wagers[w].applied \in Int
    BY <2>1 DEF Wagers
  <2>3. QED
    BY <2>2 DEF WagerRow
<1>6. Tally(sum, WagerRow(t), D)
  <2> HIDE DEF P, sum
  <2>1. QED
    BY <1>1, <1>3
<1>7. QED
  <2> HIDE DEF sum, D
  <2>1. QED
    BY <1>d, <1>4, <1>5, <1>6

\* The same of the state after a step.
LEMMA DealsTalliedNext == DealsTallied'
BY DealsMovedIsATally, PTL

\* The same of the state after a step.
LEMMA WagersTalliedNext == WagersTallied'
BY WagersMovedIsATally, PTL

\* Two sums over the same set.
Sums(i, f, j, g, D) ==
    IsFiniteSet(D) /\ f \in [D -> Int] /\ g \in [D -> Int] /\ Tally(i, f, D) /\ Tally(j, g, D)

\* The summand x alone differs.
DifferAt(x, f, g, D) == x \in D /\ \A y \in D \ {x} : g[y] = f[y]

\* They differ by what one summand differs by, where only one does.
LEMMA SumsMove ==
    ASSUME NEW D, NEW f, NEW g, NEW i, NEW j, NEW x, Sums(i, f, j, g, D), DifferAt(x, f, g, D)
    PROVE  j[D] = i[D] + (g[x] - f[x]) /\ i[D] \in Int
<1>1. /\ IsFiniteSet(D) /\ f \in [D -> Int] /\ g \in [D -> Int]
      /\ Tally(i, f, D) /\ Tally(j, g, D)
  BY DEF Sums
<1>2. \A z \in D : (\A y \in D \ {z} : g[y] = f[y]) => j[D] = i[D] + (g[z] - f[z])
  BY <1>1, TallyMoves
<1>3. D \in SUBSET D /\ i[D] \in Int
  BY <1>1, TallyType
<1>4. QED
  BY <1>2, <1>3 DEF DifferAt

\* There are only so many rounds.
LEMMA RoundsAreFinite == IsFiniteSet(1..MaxRound)
  BY FS_Interval, GameFlowAssumption DEF GameFlowAssumption

\* Where one deal changes, what the deals moved changes by what it did.
LEMMA DealsMove ==
    ASSUME DealsTyped, DealsTyped', NEW t \in Teams, NEW r \in 1..MaxRound,
           \A q \in (1..MaxRound) \ {r} : deal'[q] = deal[q]
    PROVE  /\ DealsMoved(t)' = DealsMoved(t) + (deal'[r].applied[t] - deal[r].applied[t])
           /\ DealsMoved(t) \in Int
<1> DEFINE D == 1..MaxRound
<1>1. IsFiniteSet(D)
  BY RoundsAreFinite
<1>2. PICK f, i : /\ f \in [D -> Int] /\ Tally(i, f, D) /\ DealsMoved(t) = i[D]
                                 /\ \A q \in D : f[q] = deal[q].applied[t]
  BY DealsMovedIsATally DEF DealsTallied
<1>3. PICK g, j : /\ g \in [D -> Int] /\ Tally(j, g, D) /\ DealsMoved(t)' = j[D]
                                 /\ \A q \in D : g[q] = deal'[q].applied[t]
  BY DealsTalliedNext DEF DealsTallied
<1>4. r \in D /\ \A q \in D \ {r} : g[q] = f[q]
  BY <1>2, <1>3
<1>5. j[D] = i[D] + (g[r] - f[r]) /\ i[D] \in Int
  <2> HIDE DEF D
  <2>1. Sums(i, f, j, g, D)
    BY <1>1, <1>2, <1>3 DEF Sums
  <2>2. DifferAt(r, f, g, D)
    BY <1>4 DEF DifferAt
  <2>3. QED
    BY <2>1, <2>2, SumsMove
<1>6. QED
  BY <1>2, <1>3, <1>4, <1>5

\* Where none does, it stays.
LEMMA DealsStay ==
    ASSUME DealsTyped, UNCHANGED deal, NEW t \in Teams
    PROVE  DealsMoved(t)' = DealsMoved(t) /\ DealsMoved(t) \in Int
<1> DEFINE D == 1..MaxRound
<1>1. IsFiniteSet(D)
  BY RoundsAreFinite
<1>2. PICK f, i : /\ f \in [D -> Int] /\ Tally(i, f, D) /\ DealsMoved(t) = i[D]
                                 /\ \A q \in D : f[q] = deal[q].applied[t]
  BY DealsMovedIsATally DEF DealsTallied
<1>3. DealsTyped'
  BY DEF DealsTyped
<1>4. PICK g, j : /\ g \in [D -> Int] /\ Tally(j, g, D) /\ DealsMoved(t)' = j[D]
                                 /\ \A q \in D : g[q] = deal'[q].applied[t]
  BY <1>3, DealsTalliedNext DEF DealsTallied
<1>5. \A q \in D : f[q] = g[q]
  BY <1>2, <1>4
<1>6. D \in SUBSET D
  OBVIOUS
<1>7. i[D] = j[D] /\ i[D] \in Int
  <2> HIDE DEF D
  <2>1. i[D] = j[D]
    BY <1>1, <1>2, <1>4, <1>5, <1>6, TalliesAgree
  <2>2. i[D] \in Int
    BY <1>1, <1>2, <1>6, TallyType
  <2>3. QED
    BY <2>1, <2>2
<1>8. QED
  BY <1>2, <1>4, <1>7

\* There are only so many wagers.
LEMMA WagersAreFinite ==
    ASSUME wagers \in Seq(Wagers)
    PROVE  IsFiniteSet(1..Len(wagers)) /\ IsFiniteSet(1..Len(wagers) + 1)
<1>1. Len(wagers) \in Int /\ Len(wagers) + 1 \in Int
  OBVIOUS
<1>2. QED
  BY <1>1, FS_Interval

\* Where one wager is settled, what the wagers moved changes for its team.
LEMMA WagersMove ==
    ASSUME wagers \in Seq(Wagers), wagers' \in Seq(Wagers), Len(wagers') = Len(wagers),
           NEW t \in Teams, NEW w \in 1..Len(wagers), wagers'[w].team = wagers[w].team,
           \A v \in 1..Len(wagers) \ {w} : wagers'[v] = wagers[v]
    PROVE  /\ WagersMoved(t)' = WagersMoved(t) +
                 IF wagers[w].team = t THEN wagers'[w].applied - wagers[w].applied ELSE 0
           /\ WagersMoved(t) \in Int
<1> DEFINE D == 1..Len(wagers)
<1>1. IsFiniteSet(D)
  BY WagersAreFinite
<1>2. PICK f, i :
          /\ f \in [D -> Int] /\ Tally(i, f, D) /\ WagersMoved(t) = i[D]
          /\ \A v \in D : f[v] = IF wagers[v].team = t THEN wagers[v].applied ELSE 0
  BY WagersMovedIsATally DEF WagersTallied
<1>3. PICK g, j :
          /\ g \in [D -> Int] /\ Tally(j, g, D) /\ WagersMoved(t)' = j[D]
          /\ \A v \in D : g[v] = IF wagers'[v].team = t THEN wagers'[v].applied ELSE 0
  BY WagersTalliedNext DEF WagersTallied
<1>4. w \in D /\ \A v \in D \ {w} : g[v] = f[v]
  BY <1>2, <1>3
<1>5. j[D] = i[D] + (g[w] - f[w]) /\ i[D] \in Int
  <2> HIDE DEF D
  <2>1. Sums(i, f, j, g, D)
    BY <1>1, <1>2, <1>3 DEF Sums
  <2>2. DifferAt(w, f, g, D)
    BY <1>4 DEF DifferAt
  <2>3. QED
    BY <2>1, <2>2, SumsMove
<1>6. QED
  BY <1>2, <1>3, <1>4, <1>5

\* Where a wager is added that has moved nothing yet, it stays.
LEMMA WagersGrow ==
    ASSUME wagers \in Seq(Wagers), NEW new \in Wagers, new.applied = 0,
           wagers' = Append(wagers, new), NEW t \in Teams
    PROVE  WagersMoved(t)' = WagersMoved(t) /\ WagersMoved(t) \in Int
<1> DEFINE D == 1..Len(wagers)
           E == 1..Len(wagers) + 1
           x == Len(wagers) + 1
<1>d. /\ wagers' \in Seq(Wagers) /\ Len(wagers') = Len(wagers) + 1
      /\ wagers'[x] = new /\ \A v \in D : wagers'[v] = wagers[v]
      /\ E = 1..Len(wagers') /\ D = E \ {x} /\ x \in E
  OBVIOUS
<1>1. IsFiniteSet(E)
  BY WagersAreFinite
<1>2. PICK f, i :
          /\ f \in [D -> Int] /\ Tally(i, f, D) /\ WagersMoved(t) = i[D]
          /\ \A v \in D : f[v] = IF wagers[v].team = t THEN wagers[v].applied ELSE 0
  BY WagersMovedIsATally DEF WagersTallied
<1>3. PICK g, j :
          /\ g \in [E -> Int] /\ Tally(j, g, E) /\ WagersMoved(t)' = j[E]
          /\ \A v \in E : g[v] = IF wagers'[v].team = t THEN wagers'[v].applied ELSE 0
  BY <1>d, WagersTalliedNext DEF WagersTallied
<1>4. (\A v \in D : g[v] = f[v]) /\ g[x] = 0
  <2>1. x \in E /\ D \subseteq E
    OBVIOUS
  <2>2. g[x] = 0
    BY <1>d, <1>3, <2>1
  <2>3. ASSUME NEW v \in D PROVE g[v] = f[v]
    BY <1>d, <1>2, <1>3, <2>1
  <2>4. QED
    BY <2>2, <2>3
<1>5. j[E] = i[D] + g[x] /\ i[D] \in Int
  <2>1. D = E \ {x} /\ x \in E
    BY <1>d
  <2> HIDE DEF D, E, x
  <2>2. QED
    BY <1>1, <1>2, <1>3, <1>4, <2>1, TallyGrows
<1>6. QED
  BY <1>2, <1>3, <1>4, <1>5

\* Where the wagers are left alone, it stays.
LEMMA WagersStay ==
    ASSUME wagers \in Seq(Wagers), UNCHANGED wagers, NEW t \in Teams
    PROVE  WagersMoved(t)' = WagersMoved(t) /\ WagersMoved(t) \in Int
<1> DEFINE D == 1..Len(wagers)
<1>1. IsFiniteSet(D)
  BY WagersAreFinite
<1>2. PICK f, i :
          /\ f \in [D -> Int] /\ Tally(i, f, D) /\ WagersMoved(t) = i[D]
          /\ \A v \in D : f[v] = IF wagers[v].team = t THEN wagers[v].applied ELSE 0
  BY WagersMovedIsATally DEF WagersTallied
<1>3. PICK g, j :
          /\ g \in [D -> Int] /\ Tally(j, g, D) /\ WagersMoved(t)' = j[D]
          /\ \A v \in D : g[v] = IF wagers'[v].team = t THEN wagers'[v].applied ELSE 0
  BY WagersTalliedNext DEF WagersTallied
<1>4. \A v \in D : f[v] = g[v]
  BY <1>2, <1>3
<1>5. D \in SUBSET D
  OBVIOUS
<1>6. i[D] = j[D] /\ i[D] \in Int
  <2> HIDE DEF D
  <2>1. i[D] = j[D]
    BY <1>1, <1>2, <1>3, <1>4, <1>5, TalliesAgree
  <2>2. i[D] \in Int
    BY <1>1, <1>2, <1>5, TallyType
  <2>3. QED
    BY <2>1, <2>2
<1>7. QED
  BY <1>2, <1>3, <1>6

-----------------------------------------------------------------------------
(* The ledger. *)

\* An entry moves one balance, by what it shows, never below nothing; what can
\* be afforded is moved in full.
LEMMA MovedFacts ==
    ASSUME NEW b \in [Teams -> Nat], NEW t \in Teams, NEW delta \in Int
    PROVE  /\ Moved(b, t, delta) \in [Teams -> Nat]
           /\ Applied(b, t, delta) \in Int
           /\ \A u \in Teams : Moved(b, t, delta)[u] =
                                   IF u = t THEN b[t] + Applied(b, t, delta) ELSE b[u]
           /\ b[t] + delta >= 0 => Applied(b, t, delta) = delta
BY DEF Moved, Applied, ClampBb

-----------------------------------------------------------------------------
(* The inductive invariant. *)

\* A deal has terms and a team while it is offered; nothing is moved before an
\* answer; an accepted one was paid in full, or holds a bet nobody has settled.
DealShape(d) ==
    /\ d.template # "none" =>
           /\ d.template \in DOMAIN Terms /\ d.team \in Teams
           /\ Terms[d.template].opponent > 0 => d.opponent \in Teams \ {d.team}
    /\ d.choice # "none" => d.template # "none"
    /\ d.choice = "none" => d.applied = Unsettled
    /\ d.choice = "accept" =>
           IF Terms[d.template].bet
           THEN ~d.settled => d.applied[d.team] = 0
           ELSE d.applied[d.team] = -Terms[d.template].cost

\* A stake is at most half of what its team had; it moves nothing while locked.
WagerShape(w) ==
    /\ 2 * w.amount <= w.balanceAtLock
    /\ w.status = "locked" => w.applied = 0

Steals ==
    [status : {"none", "conferring", "awaiting_answer", "resolved"},
     thief : Teams \cup {None}, wager : Nat]

BalancesTyped == balance \in [Teams -> Nat] /\ results \in [Teams -> Int]
DealsSound == DealsTyped /\ \A r \in 1..MaxRound : DealShape(deal[r])
WagersSound == wagers \in Seq(Wagers) /\ \A w \in 1..Len(wagers) : WagerShape(wagers[w])
StealSound ==
    /\ steal \in Steals /\ steal.wager <= Len(wagers)
    /\ steal.status # "none" => steal.thief \in Teams

DInv ==
    /\ BalancesTyped /\ DealsSound /\ WagersSound /\ StealSound
    /\ BooksBalance /\ NoStrayStake

\* The terms of a deal are amounts.
LEMMA TermsFacts ==
    ASSUME NEW d \in DOMAIN Terms
    PROVE  /\ Terms[d].decline \in Nat /\ Terms[d].cost \in Nat
           /\ Terms[d].opponent \in Nat /\ Terms[d].win \in Nat
           /\ Terms[d].bet \in BOOLEAN
BY DealsAssumption DEF DealsAssumption

\* What touches neither deals, wagers nor balances keeps all of it.
LEMMA SameBooks == ASSUME DInv, UNCHANGED dealVars PROVE DInv'
<1>1. UNCHANGED <<balance, results, deal, wagers, steal>>
  BY DEF dealVars
<1>2. BalancesTyped' /\ DealsSound' /\ WagersSound' /\ StealSound' /\ NoStrayStake'
  BY <1>1 DEF DInv, BalancesTyped, DealsSound, DealsTyped, DealShape, WagersSound, WagerShape,
              StealSound, NoStrayStake, Locked
<1>3. \A t \in Teams : DealsMoved(t)' = DealsMoved(t) /\ WagersMoved(t)' = WagersMoved(t)
  BY <1>1, DealsStay, WagersStay DEF DInv, DealsSound, WagersSound
<1>4. BooksBalance'
  BY <1>1, <1>3 DEF DInv, BooksBalance
<1>5. QED
  BY <1>2, <1>4 DEF DInv

\* A deal that changes by what it moves keeps the books.
LEMMA DealEffect ==
    ASSUME DInv, NEW r \in 1..MaxRound, NEW d \in DealRecords, DealShape(d),
           deal' = [deal EXCEPT ![r] = d], balance' \in [Teams -> Nat],
           \A u \in Teams : balance'[u] = balance[u] + (d.applied[u] - deal[r].applied[u]),
           UNCHANGED <<results, wagers, steal>>
    PROVE  DInv'
<1>1. /\ deal \in [1..MaxRound -> DealRecords] /\ \A q \in 1..MaxRound : DealShape(deal[q])
      /\ balance \in [Teams -> Nat] /\ results \in [Teams -> Int]
  BY DEF DInv, DealsSound, DealsTyped, BalancesTyped
<1>2. /\ deal' \in [1..MaxRound -> DealRecords] /\ deal'[r] = d
      /\ \A q \in (1..MaxRound) \ {r} : deal'[q] = deal[q]
  BY <1>1
<1>3. DealsSound'
  BY <1>1, <1>2 DEF DealsSound, DealsTyped, DealShape
<1>4. BalancesTyped'
  BY <1>1 DEF BalancesTyped
<1>5. WagersSound' /\ StealSound' /\ NoStrayStake'
  BY DEF DInv, WagersSound, WagerShape, StealSound, NoStrayStake, Locked
<1>6. BooksBalance'
  <2> SUFFICES ASSUME NEW t \in Teams
               PROVE  balance'[t] = StartingBb + results'[t] + DealsMoved(t)' + WagersMoved(t)'
    BY DEF BooksBalance
  <2>1. /\ DealsMoved(t)' = DealsMoved(t) + (d.applied[t] - deal[r].applied[t])
        /\ DealsMoved(t) \in Int
    BY <1>1, <1>2, DealsMove DEF DealsTyped
  <2>2. WagersMoved(t)' = WagersMoved(t) /\ WagersMoved(t) \in Int
    BY WagersStay DEF DInv, WagersSound
  <2>3. balance[t] = StartingBb + results[t] + DealsMoved(t) + WagersMoved(t)
    BY DEF DInv, BooksBalance
  <2>4. StartingBb \in Int /\ results[t] \in Int /\ balance[t] \in Int
        /\ d.applied[t] \in Int /\ deal[r].applied[t] \in Int
    <3>1. deal[r] \in DealRecords
      BY <1>1
    <3>2. d.applied[t] \in Int /\ deal[r].applied[t] \in Int
      BY <3>1 DEF DealRecords
    <3>3. QED
      BY <1>1, <3>2, DealsAssumption DEF DealsAssumption
  <2>5. balance'[t] = balance[t] + (d.applied[t] - deal[r].applied[t]) /\ results'[t] = results[t]
    OBVIOUS
  <2>6. QED
    BY <2>1, <2>2, <2>3, <2>4, <2>5
<1>7. QED
  BY <1>3, <1>4, <1>5, <1>6 DEF DInv

\* Where no deal changes, the books are kept if a balance moves by what results
\* and wagers show.
LEMMA BooksKept ==
    ASSUME DInv, UNCHANGED deal, BalancesTyped',
           \A u \in Teams :
               /\ WagersMoved(u)' \in Int /\ WagersMoved(u) \in Int
               /\ balance'[u] = balance[u] + (results'[u] - results[u])
                                           + (WagersMoved(u)' - WagersMoved(u))
    PROVE  BooksBalance'
<1> SUFFICES ASSUME NEW t \in Teams
             PROVE  balance'[t] = StartingBb + results'[t] + DealsMoved(t)' + WagersMoved(t)'
  BY DEF BooksBalance
<1>1. DealsMoved(t)' = DealsMoved(t) /\ DealsMoved(t) \in Int
  BY DealsStay DEF DInv, DealsSound
<1>2. balance[t] = StartingBb + results[t] + DealsMoved(t) + WagersMoved(t)
  BY DEF DInv, BooksBalance
<1>3. /\ StartingBb \in Int /\ balance[t] \in Int /\ balance'[t] \in Int
      /\ results[t] \in Int /\ results'[t] \in Int
  BY DealsAssumption DEF DealsAssumption, DInv, BalancesTyped
<1>4. /\ WagersMoved(t)' \in Int /\ WagersMoved(t) \in Int
      /\ balance'[t] = balance[t] + (results'[t] - results[t])
                                  + (WagersMoved(t)' - WagersMoved(t))
  OBVIOUS
<1>5. QED
  BY <1>1, <1>2, <1>3, <1>4

\* A settled wager moves its team's balance by what it shows it moved.
LEMMA SettleEffect ==
    ASSUME DInv, NEW w \in 1..Len(wagers), Locked(w), NEW won \in BOOLEAN,
           wagers' = Settled(w, won)
    PROVE  /\ WagersSound' /\ Len(wagers') = Len(wagers)
           /\ wagers'[w].status # "locked"
           /\ \A v \in 1..Len(wagers) : v # w => wagers'[v] = wagers[v]
           /\ AfterWager(w, won) \in [Teams -> Nat]
           /\ \A u \in Teams :
                 /\ WagersMoved(u) \in Int /\ WagersMoved(u)' \in Int
                 /\ AfterWager(w, won)[u] = balance[u] + (WagersMoved(u)' - WagersMoved(u))
<1> DEFINE x == wagers[w]
           moved == Applied(balance, x.team, Stake(w, won))
<1>1. /\ wagers \in Seq(Wagers) /\ balance \in [Teams -> Nat]
      /\ \A v \in 1..Len(wagers) : WagerShape(wagers[v])
  BY DEF DInv, WagersSound, BalancesTyped
<1>2. x \in Wagers
  BY <1>1
<1>3. x.team \in Teams /\ x.amount \in Nat /\ x.applied = 0
  BY <1>1, <1>2 DEF Wagers, WagerShape, Locked
<1>4. Stake(w, won) \in Int
  BY <1>3 DEF Stake
<1>5. /\ AfterWager(w, won) \in [Teams -> Nat] /\ moved \in Int
      /\ \A u \in Teams : AfterWager(w, won)[u] = IF u = x.team THEN balance[u] + moved
                                                                 ELSE balance[u]
  <2>1. PICK team \in Teams, stake \in Int : team = x.team /\ stake = Stake(w, won)
    BY <1>3, <1>4
  <2>2. /\ Moved(balance, team, stake) \in [Teams -> Nat]
        /\ Applied(balance, team, stake) \in Int
        /\ \A u \in Teams : Moved(balance, team, stake)[u] =
               IF u = team THEN balance[team] + Applied(balance, team, stake) ELSE balance[u]
    BY <1>1, MovedFacts
  <2>3. AfterWager(w, won) = Moved(balance, team, stake) /\ moved = Applied(balance, team, stake)
    BY <2>1 DEF AfterWager
  <2>4. QED
    BY <2>1, <2>2, <2>3
<1>6. /\ Len(wagers') = Len(wagers)
      /\ wagers'[w] = [x EXCEPT !.status = IF won THEN "won" ELSE "lost", !.applied = moved]
      /\ \A v \in 1..Len(wagers) : v # w => wagers'[v] = wagers[v]
  <2> DEFINE y == [x EXCEPT !.status = IF won THEN "won" ELSE "lost", !.applied = moved]
  <2>1. wagers' = [wagers EXCEPT ![w] = y]
    BY <1>1 DEF Settled
  <2> HIDE DEF y
  <2>2. Len(wagers') = Len(wagers) /\ wagers'[w] = y
        /\ \A v \in 1..Len(wagers) : v # w => wagers'[v] = wagers[v]
    BY <1>1, <2>1
  <2>3. QED
    BY <2>2 DEF y
<1>7. wagers'[w] \in Wagers
  BY <1>2, <1>5, <1>6 DEF Wagers
<1>8. /\ wagers'[w].status # "locked" /\ wagers'[w].applied = moved
      /\ wagers'[w].team = x.team /\ wagers'[w].amount = x.amount
      /\ wagers'[w].balanceAtLock = x.balanceAtLock
  BY <1>2, <1>6 DEF Wagers
<1>9. wagers' \in Seq(Wagers)
  <2>1. /\ wagers' = [wagers EXCEPT ![w] = wagers'[w]]
    BY <1>1, <1>6 DEF Settled
  <2>2. QED
    BY <1>1, <1>7, <2>1
<1>10. WagersSound'
  <2>1. WagerShape(wagers'[w])
    BY <1>1, <1>8 DEF WagerShape
  <2>2. \A v \in 1..Len(wagers') : WagerShape(wagers'[v])
    BY <1>1, <1>6, <2>1
  <2>3. QED
    BY <1>9, <2>2 DEF WagersSound, WagerShape
<1>11. \A u \in Teams :
          /\ WagersMoved(u) \in Int /\ WagersMoved(u)' \in Int
          /\ AfterWager(w, won)[u] = balance[u] + (WagersMoved(u)' - WagersMoved(u))
  <2> TAKE u \in Teams
  <2>1. /\ WagersMoved(u)' = WagersMoved(u) +
             IF x.team = u THEN wagers'[w].applied - x.applied ELSE 0
        /\ WagersMoved(u) \in Int
    BY <1>1, <1>6, <1>8, <1>9, WagersMove
  <2>2. balance[u] \in Int
    BY <1>1
  <2> HIDE DEF x, moved
  <2>3. QED
    BY <1>3, <1>5, <1>8, <2>1, <2>2
<1>12. QED
  BY <1>5, <1>6, <1>8, <1>10, <1>11

\* A wager just proposed moves nothing.
LEMMA ProposeEffect ==
    ASSUME DInv, NEW new \in Wagers, WagerShape(new), new.applied = 0,
           wagers' = Append(wagers, new), UNCHANGED <<balance, results, deal>>
    PROVE  /\ WagersSound' /\ BooksBalance' /\ BalancesTyped' /\ DealsSound'
           /\ Len(wagers') = Len(wagers) + 1 /\ wagers'[Len(wagers) + 1] = new
           /\ \A v \in 1..Len(wagers) : wagers'[v] = wagers[v]
<1>1. wagers \in Seq(Wagers) /\ \A v \in 1..Len(wagers) : WagerShape(wagers[v])
  BY DEF DInv, WagersSound
<1>2. /\ Len(wagers') = Len(wagers) + 1 /\ wagers'[Len(wagers) + 1] = new
      /\ \A v \in 1..Len(wagers) : wagers'[v] = wagers[v]
      /\ wagers' \in Seq(Wagers) /\ Len(wagers) \in Nat
  BY <1>1
<1>3. WagersSound'
  <2>1. \A v \in 1..Len(wagers) + 1 : v \in 1..Len(wagers) \/ v = Len(wagers) + 1
    BY <1>2
  <2>2. QED
    BY <1>1, <1>2, <2>1 DEF WagersSound, WagerShape
<1>4. BalancesTyped' /\ DealsSound'
  BY DEF DInv, BalancesTyped, DealsSound, DealsTyped, DealShape
<1>5. \A u \in Teams : WagersMoved(u)' = WagersMoved(u) /\ WagersMoved(u) \in Int
  BY <1>1, WagersGrow
<1>6. BooksBalance'
  <2>1. \A u \in Teams : balance[u] \in Int /\ results[u] \in Int
    BY DEF DInv, BalancesTyped
  <2>2. QED
    BY <1>4, <1>5, <2>1, BooksKept
<1>7. QED
  BY <1>2, <1>3, <1>4, <1>6

-----------------------------------------------------------------------------
(* One lemma an operation. *)

\* What is waiting for an answer has terms and moved nothing yet.
LEMMA WaitingFacts ==
    ASSUME DInv, NEW r \in 1..MaxRound, NEW t \in Teams, Waiting(r, t)
    PROVE  /\ deal[r] \in DealRecords /\ deal \in [1..MaxRound -> DealRecords]
           /\ deal[r].template \in DOMAIN Terms /\ deal[r].template # "none"
           /\ deal[r].team = t /\ deal[r].applied = [u \in Teams |-> 0]
           /\ TermsOf(r).opponent > 0 => deal[r].opponent \in Teams \ {t}
           /\ balance \in [Teams -> Nat]
<1>1. deal[r] \in DealRecords /\ DealShape(deal[r]) /\ deal \in [1..MaxRound -> DealRecords]
  BY DEF DInv, DealsSound, DealsTyped
<1>2. balance \in [Teams -> Nat]
  BY DEF DInv, BalancesTyped
<1>3. QED
  BY <1>1, <1>2 DEF DealShape, Waiting, TermsOf, Unsettled

\* The first deal of a round.
LEMMA OfferKeeps ==
    ASSUME DInv, NEW d \in DOMAIN Terms, NEW t \in Teams, NEW o \in Teams \cup {None},
           OfferHostDeal(d, t, o)
    PROVE  DInv'
<1>1. deal \in [1..MaxRound -> DealRecords]
  BY DEF DInv, DealsSound, DealsTyped
<1>2. CASE roundIndex \in 1..MaxRound
  <2> DEFINE r == roundIndex
             new == [NoDeal EXCEPT !.template = d, !.team = t, !.opponent = o]
  <2>n. NoDeal \in DealRecords /\ NoDeal.choice = "none" /\ NoDeal.applied = Unsettled
    BY DEF NoDeal, DealRecords, Unsettled
  <2>1. /\ new.template = d /\ new.team = t /\ new.opponent = o
        /\ new.choice = "none" /\ new.applied = Unsettled
    BY <2>n DEF DealRecords
  <2>2. new \in DealRecords
    BY <2>n DEF DealRecords
  <2>3. DealShape(new)
    BY <2>1 DEF DealShape, OfferHostDeal, NeedsOpponent, Unsettled
  <2>4. deal[r] \in DealRecords /\ deal[r].applied = [u \in Teams |-> 0]
    BY <1>1, <1>2 DEF DInv, DealsSound, DealShape, OfferHostDeal, NoDealThisRound, Unsettled
  <2>5. balance \in [Teams -> Nat]
    BY DEF DInv, BalancesTyped
  <2>6. \A u \in Teams : balance[u] = balance[u] + (new.applied[u] - deal[r].applied[u])
    <3>1. TAKE u \in Teams
    <3>2. new.applied[u] = 0 /\ deal[r].applied[u] = 0 /\ balance[u] \in Int
      BY <2>1, <2>4, <2>5 DEF Unsettled
    <3> HIDE DEF new
    <3>3. QED
      BY <3>2
  <2>7. deal' = [deal EXCEPT ![r] = new] /\ UNCHANGED <<balance, results, wagers, steal>>
    BY DEF OfferHostDeal
  <2> HIDE DEF new
  <2>8. QED
    BY <1>2, <2>2, <2>3, <2>5, <2>6, <2>7, DealEffect
<1>3. CASE roundIndex \notin 1..MaxRound
  <2>1. UNCHANGED dealVars
    BY <1>1, <1>3 DEF OfferHostDeal, dealVars
  <2>2. QED
    BY <2>1, SameBooks
<1>4. QED
  BY <1>2, <1>3

\* The safe side.
LEMMA DeclineKeeps ==
    ASSUME DInv, NEW r \in 1..MaxRound, NEW t \in Teams, DeclineHostDeal(r, t)
    PROVE  DInv'
<1> DEFINE moved == Applied(balance, t, TermsOf(r).decline)
           row == [[u \in Teams |-> 0] EXCEPT ![t] = moved]
           d == [deal[r] EXCEPT !.choice = "decline", !.applied = row]
<1>1. Waiting(r, t)
  BY DEF DeclineHostDeal
<1>w. /\ deal[r] \in DealRecords /\ deal \in [1..MaxRound -> DealRecords]
      /\ deal[r].template \in DOMAIN Terms /\ deal[r].template # "none"
      /\ deal[r].team = t /\ deal[r].applied = [u \in Teams |-> 0]
      /\ TermsOf(r).opponent > 0 => deal[r].opponent \in Teams \ {t}
      /\ balance \in [Teams -> Nat]
  BY <1>1, WaitingFacts
<1>2. TermsOf(r).decline \in Int
  BY <1>w, TermsFacts DEF TermsOf
<1>3. /\ Moved(balance, t, TermsOf(r).decline) \in [Teams -> Nat] /\ moved \in Int
      /\ \A u \in Teams : Moved(balance, t, TermsOf(r).decline)[u] =
                              IF u = t THEN balance[t] + moved ELSE balance[u]
  <2>1. PICK delta \in Int : delta = TermsOf(r).decline
    BY <1>2
  <2>b. balance \in [Teams -> Nat] /\ t \in Teams
    BY <1>w
  <2>2. /\ Moved(balance, t, delta) \in [Teams -> Nat] /\ Applied(balance, t, delta) \in Int
        /\ \A u \in Teams : Moved(balance, t, delta)[u] =
                                IF u = t THEN balance[t] + Applied(balance, t, delta)
                                ELSE balance[u]
    BY <2>b, MovedFacts
  <2>3. QED
    BY <2>1, <2>2
<1>4. deal' = [deal EXCEPT ![r] = d]
  BY <1>w DEF DeclineHostDeal
<1>5. row \in [Teams -> Int] /\ \A u \in Teams : row[u] = IF u = t THEN moved ELSE 0
  BY <1>3
<1> HIDE DEF row, moved
<1>6. d \in DealRecords
  BY <1>5, <1>w DEF DealRecords
<1>7. /\ d.choice = "decline" /\ d.applied = row /\ d.template = deal[r].template
      /\ d.team = deal[r].team /\ d.opponent = deal[r].opponent
  BY <1>w DEF DealRecords
<1>8. DealShape(d)
  BY <1>7, <1>w DEF DealShape, TermsOf
<1> HIDE DEF d
<1>9. \A u \in Teams : balance'[u] = balance[u] + (d.applied[u] - deal[r].applied[u])
  BY <1>3, <1>5, <1>7, <1>w DEF DeclineHostDeal
<1>10. QED
  BY <1>3, <1>4, <1>6, <1>8, <1>9, DealEffect DEF DeclineHostDeal

\* The side that is paid for.
LEMMA AcceptKeeps ==
    ASSUME DInv, NEW r \in 1..MaxRound, NEW t \in Teams, AcceptHostDeal(r, t)
    PROVE  DInv'
<1>1. Waiting(r, t)
  BY DEF AcceptHostDeal
<1>w. /\ deal[r] \in DealRecords /\ deal \in [1..MaxRound -> DealRecords]
      /\ deal[r].template \in DOMAIN Terms /\ deal[r].template # "none"
      /\ deal[r].team = t /\ deal[r].applied = [u \in Teams |-> 0]
      /\ TermsOf(r).opponent > 0 => deal[r].opponent \in Teams \ {t}
      /\ balance \in [Teams -> Nat]
  BY <1>1, WaitingFacts
<1>2. PICK cost \in Nat, share \in Nat : cost = TermsOf(r).cost /\ share = TermsOf(r).opponent
  BY <1>w, TermsFacts DEF TermsOf
<1>3. PICK paid : paid = Moved(balance, t, -cost)
  OBVIOUS
<1>4. /\ paid \in [Teams -> Nat] /\ Applied(balance, t, -cost) = -cost
      /\ \A u \in Teams : paid[u] = IF u = t THEN balance[t] - cost ELSE balance[u]
  <2>1. balance[t] - cost >= 0 /\ -cost \in Int /\ balance[t] \in Nat
    BY <1>2, <1>w DEF AcceptHostDeal, StillAffordable
  <2>2. /\ Moved(balance, t, -cost) \in [Teams -> Nat] /\ Applied(balance, t, -cost) = -cost
        /\ \A u \in Teams : Moved(balance, t, -cost)[u] =
               IF u = t THEN balance[t] + Applied(balance, t, -cost) ELSE balance[u]
    BY <1>w, <2>1, MovedFacts
  <2>3. QED
    BY <1>3, <2>1, <2>2
<1>5. PICK flag \in BOOLEAN : flag = (TermsOf(r).cost > 0) /\ (flag \/ cost = 0)
  <2>1. CASE cost > 0
    <3>1. TRUE = (TermsOf(r).cost > 0)
      BY <1>2, <2>1
    <3>2. QED
      BY <3>1
  <2>2. CASE cost = 0
    <3>1. FALSE = (TermsOf(r).cost > 0)
      BY <1>2, <2>2
    <3>2. QED
      BY <2>2, <3>1
  <2>3. QED
    BY <2>1, <2>2
<1> DEFINE row == [[u \in Teams |-> 0] EXCEPT ![t] = -cost]
           d == [deal[r] EXCEPT !.choice = "accept", !.settled = flag, !.applied = row]
           mine == [deal EXCEPT ![r].choice = "accept",
                                ![r].settled = TermsOf(r).cost > 0,
                                ![r].applied[t] = Applied(balance, t, -TermsOf(r).cost)]
           o == deal[r].opponent
           split == o # None /\ share > 0
<1>6. row \in [Teams -> Int] /\ \A u \in Teams : row[u] = IF u = t THEN -cost ELSE 0
  OBVIOUS
<1>7. mine = [deal EXCEPT ![r] = d]
  <2>1. mine = [deal EXCEPT ![r].choice = "accept", ![r].settled = flag,
                            ![r].applied[t] = -cost]
    BY <1>2, <1>4, <1>5
  <2> HIDE DEF mine
  <2>2. QED
    BY <1>w, <2>1
<1>8. /\ split => /\ deal' = [mine EXCEPT ![r].applied[o] = Applied(paid, o, share)]
                  /\ balance' = Moved(paid, o, share)
      /\ ~split => deal' = mine /\ balance' = paid
  <2> HIDE DEF mine
  <2>1. QED
    BY <1>2, <1>3, Zenon DEF AcceptHostDeal, mine
<1>9. /\ d \in DealRecords /\ d.choice = "accept" /\ d.applied = row /\ d.settled = flag
      /\ d.template = deal[r].template /\ d.team = deal[r].team /\ d.opponent = o
  <2> HIDE DEF row
  <2>1. QED
    BY <1>6, <1>w DEF DealRecords
<1> HIDE DEF d, mine, row
<1>10. flag \/ row[t] = 0
  BY <1>2, <1>5, <1>6
<1>11. /\ deal[r].template \in DOMAIN Terms /\ t \in Teams /\ row[t] = -cost
       /\ Terms[deal[r].template].cost = cost
       /\ Terms[deal[r].template].opponent > 0 => o \in Teams \ {t}
  BY <1>2, <1>6, <1>w DEF TermsOf
<1>12. CASE split
  <2>1. o \in Teams /\ o # t /\ share \in Int
    BY <1>2, <1>12, <1>w
  <2>2. /\ Moved(paid, o, share) \in [Teams -> Nat] /\ Applied(paid, o, share) \in Int
        /\ \A u \in Teams : Moved(paid, o, share)[u] =
               IF u = o THEN paid[o] + Applied(paid, o, share) ELSE paid[u]
    <3> HIDE DEF o
    <3>1. QED
      BY <1>4, <2>1, MovedFacts
  <2>3. PICK given \in Int : given = Applied(paid, o, share)
    BY <2>2
  <2> DEFINE full == [row EXCEPT ![o] = given]
             e == [d EXCEPT !.applied = full]
  <2>4. full \in [Teams -> Int]
        /\ \A u \in Teams : full[u] = IF u = o THEN given ELSE row[u]
    BY <1>6, <2>1
  <2>5. deal' = [deal EXCEPT ![r] = e] /\ balance' = Moved(paid, o, share)
    BY <1>7, <1>8, <1>9, <1>12, <1>w, <2>3
  <2> HIDE DEF full
  <2>6. /\ e \in DealRecords /\ e.choice = "accept" /\ e.applied = full
        /\ e.template = deal[r].template /\ e.team = t
        /\ e.opponent = o /\ e.settled = flag
    BY <1>9, <1>w, <2>4 DEF DealRecords
  <2> HIDE DEF e
  <2>7. full[t] = row[t]
    BY <2>1, <2>4
  <2>8. DealShape(e)
    BY <1>10, <1>11, <1>w, <2>6, <2>7 DEF DealShape
  <2>9. \A u \in Teams : balance'[u] = balance[u] + (e.applied[u] - deal[r].applied[u])
    <3>1. TAKE u \in Teams
    <3>2. balance[u] \in Int /\ deal[r].applied[u] = 0
      BY <1>w
    <3>3. QED
      BY <1>4, <1>6, <2>1, <2>2, <2>3, <2>4, <2>5, <2>6, <3>2
  <2>10. QED
    BY <2>2, <2>5, <2>6, <2>8, <2>9, DealEffect DEF AcceptHostDeal
<1>13. CASE ~split
  <2>1. deal' = [deal EXCEPT ![r] = d] /\ balance' = paid
    BY <1>7, <1>8, <1>13
  <2>2. DealShape(d)
    BY <1>9, <1>10, <1>11, <1>w DEF DealShape
  <2>3. \A u \in Teams : balance'[u] = balance[u] + (d.applied[u] - deal[r].applied[u])
    <3>1. TAKE u \in Teams
    <3>2. balance[u] \in Int /\ deal[r].applied[u] = 0
      BY <1>w
    <3>3. QED
      BY <1>4, <1>6, <1>9, <2>1, <3>2
  <2>4. QED
    BY <1>4, <1>9, <2>1, <2>2, <2>3, DealEffect DEF AcceptHostDeal
<1>14. QED
  BY <1>12, <1>13

\* The bet of an accepted deal, once.
LEMMA SettleBetKeeps ==
    ASSUME DInv, NEW r \in 1..MaxRound, NEW won \in BOOLEAN, SettlePendingBet(r, won)
    PROVE  DInv'
<1>1. /\ deal[r].choice = "accept" /\ TermsOf(r).bet /\ ~deal[r].settled
  BY DEF SettlePendingBet
<1>w. /\ deal[r] \in DealRecords /\ deal \in [1..MaxRound -> DealRecords]
      /\ DealShape(deal[r]) /\ balance \in [Teams -> Nat]
  BY DEF DInv, DealsSound, DealsTyped, BalancesTyped
<1>t. /\ deal[r].template \in DOMAIN Terms /\ deal[r].template # "none"
      /\ deal[r].team \in Teams /\ deal[r].applied[deal[r].team] = 0
      /\ deal[r].applied \in [Teams -> Int]
  BY <1>1, <1>w DEF DealShape, TermsOf, DealRecords
<1>2. PICK t \in Teams : t = deal[r].team
  BY <1>t
<1>3. PICK payout \in Int : payout = IF won THEN TermsOf(r).win ELSE 0
  BY <1>t, TermsFacts DEF TermsOf
<1>4. /\ Moved(balance, t, payout) \in [Teams -> Nat] /\ Applied(balance, t, payout) \in Int
      /\ \A u \in Teams : Moved(balance, t, payout)[u] =
             IF u = t THEN balance[t] + Applied(balance, t, payout) ELSE balance[u]
  BY <1>w, MovedFacts
<1>5. PICK moved \in Int : moved = Applied(balance, t, payout)
  BY <1>4
<1> DEFINE row == [deal[r].applied EXCEPT ![t] = moved]
           d == [deal[r] EXCEPT !.settled = TRUE, !.applied = row]
<1>6. deal' = [deal EXCEPT ![r] = d]
  BY <1>2, <1>3, <1>5, <1>t, <1>w DEF SettlePendingBet
<1>7. balance' = Moved(balance, t, payout)
  BY <1>2, <1>3 DEF SettlePendingBet
<1>8. /\ row \in [Teams -> Int]
      /\ \A u \in Teams : row[u] = IF u = t THEN moved ELSE deal[r].applied[u]
  BY <1>t
<1> HIDE DEF row
<1>9. /\ d \in DealRecords /\ d.settled /\ d.applied = row /\ d.choice = deal[r].choice
      /\ d.template = deal[r].template /\ d.team = deal[r].team
      /\ d.opponent = deal[r].opponent
  BY <1>8, <1>w DEF DealRecords
<1> HIDE DEF d
<1>10. DealShape(d)
  BY <1>1, <1>9, <1>w DEF DealShape, TermsOf
<1>11. \A u \in Teams : balance'[u] = balance[u] + (d.applied[u] - deal[r].applied[u])
  <2>1. TAKE u \in Teams
  <2>2. balance[u] \in Int /\ deal[r].applied[u] \in Int
    BY <1>w, <1>t
  <2>3. QED
    BY <1>2, <1>4, <1>5, <1>7, <1>8, <1>9, <1>t, <2>2
<1>12. QED
  BY <1>4, <1>6, <1>7, <1>9, <1>10, <1>11, DealEffect DEF SettlePendingBet

\* A stake its team may lock is at most half of what it has.
LEMMA NewWagerFacts ==
    ASSUME DInv, NEW t \in Teams, NEW amount \in Stakes, MayWager(t, amount),
           NEW for \in {"itself", "steal"}, NEW w, w = NewWager(t, amount, for)
    PROVE  w \in Wagers /\ WagerShape(w) /\ w.applied = 0 /\ w.for = for
<1>1. balance[t] \in Nat /\ amount \in Nat
  BY DealsAssumption DEF DInv, BalancesTyped, DealsAssumption
<1>2. amount <= balance[t] \div 2
  BY DEF MayWager, MaxWagerFor
<1>3. 2 * amount <= balance[t]
  BY <1>1, <1>2
<1>4. QED
  BY <1>1, <1>3 DEF NewWager, Wagers, WagerShape

\* A wager on its own.
LEMMA ProposeKeeps ==
    ASSUME DInv, NEW t \in Teams, NEW amount \in Stakes, ProposeWager(t, amount)
    PROVE  DInv'
<1>1. PICK w : w = NewWager(t, amount, "itself")
  OBVIOUS
<1>2. w \in Wagers /\ WagerShape(w) /\ w.applied = 0 /\ w.for = "itself"
  BY <1>1, NewWagerFacts DEF ProposeWager
<1>3. wagers' = Append(wagers, w) /\ UNCHANGED <<balance, results, deal, steal>>
  BY <1>1 DEF ProposeWager
<1>4. /\ WagersSound' /\ BooksBalance' /\ BalancesTyped' /\ DealsSound'
      /\ Len(wagers') = Len(wagers) + 1 /\ wagers'[Len(wagers) + 1] = w
      /\ \A v \in 1..Len(wagers) : wagers'[v] = wagers[v]
  BY <1>2, <1>3, ProposeEffect
<1>d. /\ Len(wagers) \in Nat /\ DOMAIN wagers = 1..Len(wagers)
      /\ DOMAIN wagers' = 1..Len(wagers) + 1
  BY <1>4 DEF DInv, WagersSound
<1>5. NoStrayStake'
  <2> SUFFICES ASSUME NEW v \in 1..Len(wagers) + 1,
                      wagers'[v].status = "locked", wagers'[v].for = "steal"
               PROVE  steal'.wager = v /\ steal'.status = "awaiting_answer"
    BY <1>d DEF NoStrayStake, Locked
  <2>1. v \in 1..Len(wagers)
    BY <1>2, <1>4, <1>d
  <2>2. QED
    BY <1>3, <1>4, <1>d, <2>1 DEF DInv, NoStrayStake, Locked
<1>6. StealSound'
  BY <1>3, <1>4, <1>d DEF DInv, StealSound, Steals
<1>7. QED
  BY <1>4, <1>5, <1>6 DEF DInv

\* The Host settles one.
LEMMA ResolveWagerKeeps ==
    ASSUME DInv, NEW w \in DOMAIN wagers, NEW won \in BOOLEAN, ResolveWager(w, won)
    PROVE  DInv'
<1>d. DOMAIN wagers = 1..Len(wagers) /\ w \in 1..Len(wagers)
  BY DEF DInv, WagersSound
<1>1. /\ WagersSound' /\ Len(wagers') = Len(wagers)
      /\ wagers'[w].status # "locked"
      /\ \A v \in 1..Len(wagers) : v # w => wagers'[v] = wagers[v]
      /\ AfterWager(w, won) \in [Teams -> Nat]
      /\ \A u \in Teams :
            /\ WagersMoved(u) \in Int /\ WagersMoved(u)' \in Int
            /\ AfterWager(w, won)[u] = balance[u] + (WagersMoved(u)' - WagersMoved(u))
  BY <1>d, SettleEffect DEF ResolveWager
<1>2. balance' = AfterWager(w, won) /\ UNCHANGED <<results, deal, steal>>
  BY DEF ResolveWager
<1>3. BalancesTyped' /\ DealsSound' /\ StealSound'
  BY <1>1, <1>2 DEF DInv, BalancesTyped, DealsSound, DealsTyped, DealShape, StealSound
<1>4. NoStrayStake'
  <2>1. DOMAIN wagers' = 1..Len(wagers)
    BY <1>1 DEF WagersSound
  <2>2. QED
    BY <1>d, <1>1, <1>2, <2>1 DEF DInv, NoStrayStake, Locked
<1>5. BooksBalance'
  <2>1. \A u \in Teams :
           /\ WagersMoved(u)' \in Int /\ WagersMoved(u) \in Int
           /\ balance'[u] = balance[u] + (results'[u] - results[u])
                                       + (WagersMoved(u)' - WagersMoved(u))
    <3>1. TAKE u \in Teams
    <3>2. results[u] \in Int /\ balance[u] \in Int
      BY DEF DInv, BalancesTyped
    <3>3. QED
      BY <1>1, <1>2, <3>2
  <2>2. QED
    BY <1>2, <1>3, <2>1, BooksKept
<1>6. QED
  BY <1>1, <1>3, <1>4, <1>5 DEF DInv

\* A board is handed over.
LEMMA StartStealKeeps ==
    ASSUME DInv, NEW t \in Teams, StartSteal(t)
    PROVE  DInv'
<1>1. UNCHANGED <<balance, results, deal, wagers>>
  BY DEF StartSteal
<1>2. BalancesTyped' /\ DealsSound' /\ WagersSound'
  BY <1>1 DEF DInv, BalancesTyped, DealsSound, DealsTyped, DealShape, WagersSound, WagerShape
<1>3. \A u \in Teams : DealsMoved(u)' = DealsMoved(u) /\ WagersMoved(u)' = WagersMoved(u)
  BY <1>1, DealsStay, WagersStay DEF DInv, DealsSound, WagersSound
<1>4. BooksBalance'
  BY <1>1, <1>3 DEF DInv, BooksBalance
<1>5. Len(wagers) \in Nat
  BY DEF DInv, WagersSound
<1>6. StealSound'
  BY <1>1, <1>5 DEF StartSteal, StealSound, Steals
<1>7. NoStrayStake'
  BY <1>1 DEF DInv, StartSteal, NoStrayStake, Locked
<1>8. QED
  BY <1>2, <1>4, <1>6, <1>7 DEF DInv

\* The thief's stake, or the second try that is cancelled at once.
LEMMA LockStealKeeps ==
    ASSUME DInv, NEW amount \in Stakes, LockStealWager(amount)
    PROVE  DInv'
<1>1. PICK w : w = NewWager(steal.thief, amount, "steal")
  OBVIOUS
<1>2. w \in Wagers /\ WagerShape(w) /\ w.applied = 0 /\ w.for = "steal"
  <2>1. steal.thief \in Teams /\ MayWager(steal.thief, amount)
    BY DEF DInv, StealSound, LockStealWager
  <2>2. QED
    BY <1>1, <2>1, NewWagerFacts
<1>3. UNCHANGED <<balance, results, deal>>
  BY DEF LockStealWager
<1>d. /\ Len(wagers) \in Nat /\ DOMAIN wagers = 1..Len(wagers) /\ steal \in Steals
      /\ steal.wager \in Nat /\ steal.wager <= Len(wagers)
  BY DEF DInv, WagersSound, StealSound, Steals
<1>4. CASE steal.status = "conferring"
  <2>1. /\ wagers' = Append(wagers, w)
        /\ steal' = [steal EXCEPT !.status = "awaiting_answer", !.wager = Len(wagers) + 1]
    BY <1>1, <1>4 DEF LockStealWager
  <2>2. /\ WagersSound' /\ BooksBalance' /\ BalancesTyped' /\ DealsSound'
        /\ Len(wagers') = Len(wagers) + 1 /\ wagers'[Len(wagers) + 1] = w
        /\ \A v \in 1..Len(wagers) : wagers'[v] = wagers[v]
    BY <1>2, <1>3, <2>1, ProposeEffect
  <2>3. /\ steal' \in Steals /\ steal'.status = "awaiting_answer"
        /\ steal'.wager = Len(wagers) + 1 /\ steal'.thief = steal.thief
    <3>1. PICK n \in Nat : n = Len(wagers) + 1
      BY <1>d
    <3>2. steal' = [steal EXCEPT !.status = "awaiting_answer", !.wager = n]
      BY <2>1, <3>1
    <3>3. QED
      BY <1>d, <3>1, <3>2 DEF Steals
  <2>4. StealSound'
    BY <1>4, <1>d, <2>2, <2>3 DEF DInv, StealSound
  <2>5. NoStrayStake'
    <3>1. DOMAIN wagers' = 1..Len(wagers) + 1
      BY <2>2 DEF WagersSound
    <3> SUFFICES ASSUME NEW v \in 1..Len(wagers) + 1,
                        wagers'[v].status = "locked", wagers'[v].for = "steal"
                 PROVE  v = Len(wagers) + 1
      BY <2>3, <3>1 DEF NoStrayStake, Locked
    <3>2. ASSUME v \in 1..Len(wagers) PROVE FALSE
      BY <1>4, <1>d, <2>2, <3>2 DEF DInv, NoStrayStake, Locked
    <3>3. QED
      BY <1>d, <3>2
  <2>6. QED
    BY <2>2, <2>4, <2>5 DEF DInv
<1>5. CASE steal.status # "conferring"
  <2>1. wagers' = Append(wagers, Cancelled(w)) /\ UNCHANGED steal
    BY <1>1, <1>5 DEF LockStealWager
  <2>2. PICK c : c = Cancelled(w)
    OBVIOUS
  <2>3. c \in Wagers /\ WagerShape(c) /\ c.applied = 0 /\ c.status = "cancelled"
    BY <1>2, <2>2 DEF Cancelled, Wagers, WagerShape
  <2>4. /\ WagersSound' /\ BooksBalance' /\ BalancesTyped' /\ DealsSound'
        /\ Len(wagers') = Len(wagers) + 1 /\ wagers'[Len(wagers) + 1] = c
        /\ \A v \in 1..Len(wagers) : wagers'[v] = wagers[v]
    BY <1>3, <2>1, <2>2, <2>3, ProposeEffect
  <2>5. StealSound'
    BY <1>d, <2>1, <2>4 DEF DInv, StealSound
  <2>6. NoStrayStake'
    <3>1. DOMAIN wagers' = 1..Len(wagers) + 1
      BY <2>4 DEF WagersSound
    <3> SUFFICES ASSUME NEW v \in 1..Len(wagers) + 1,
                        wagers'[v].status = "locked", wagers'[v].for = "steal"
                 PROVE  steal'.wager = v /\ steal'.status = "awaiting_answer"
      BY <3>1 DEF NoStrayStake, Locked
    <3>2. v \in 1..Len(wagers)
      BY <1>d, <2>3, <2>4
    <3>3. QED
      BY <1>d, <2>1, <2>4, <3>2 DEF DInv, NoStrayStake, Locked
  <2>7. QED
    BY <2>4, <2>5, <2>6 DEF DInv
<1>6. QED
  BY <1>4, <1>5

\* The stake where it is still open, then the pot where the challenge is.
LEMMA ResolveStealKeeps ==
    ASSUME DInv, NEW correct \in BOOLEAN, NEW defender \in Teams, NEW pot \in Pots,
           ResolveSteal(correct, defender, pot)
    PROVE  DInv'
<1>d. /\ Len(wagers) \in Nat /\ DOMAIN wagers = 1..Len(wagers) /\ steal \in Steals
      /\ steal.wager <= Len(wagers) /\ balance \in [Teams -> Nat]
      /\ results \in [Teams -> Int] /\ pot \in Int
  BY DealsAssumption DEF DInv, WagersSound, StealSound, BalancesTyped, DealsAssumption
<1>1. /\ steal.status \in {"conferring", "awaiting_answer"}
      /\ steal' = [steal EXCEPT !.status = "resolved"] /\ deal' = deal
  BY DEF ResolveSteal
<1>2. /\ steal.thief \in Teams /\ steal' \in Steals /\ steal'.status = "resolved"
      /\ steal'.thief = steal.thief /\ steal'.wager = steal.wager
  BY <1>d, <1>1 DEF DInv, StealSound, Steals
<1>3. PICK staked : staked = IF WagerStillLocked THEN AfterWager(steal.wager, correct) ELSE balance
  OBVIOUS
<1>4. /\ WagersSound' /\ Len(wagers') = Len(wagers) /\ staked \in [Teams -> Nat]
      /\ \A u \in Teams :
            /\ WagersMoved(u) \in Int /\ WagersMoved(u)' \in Int
            /\ staked[u] = balance[u] + (WagersMoved(u)' - WagersMoved(u))
      /\ \A v \in 1..Len(wagers) :
            wagers'[v].status = "locked" => v # steal.wager /\ wagers'[v] = wagers[v]
  <2>1. CASE WagerStillLocked
    <3>1. steal.wager \in 1..Len(wagers) /\ Locked(steal.wager)
      BY <1>d, <2>1 DEF WagerStillLocked, Steals
    <3>2. wagers' = Settled(steal.wager, correct)
      BY <2>1 DEF ResolveSteal
    <3>3. PICK w \in 1..Len(wagers) : w = steal.wager
      BY <3>1
    <3>4. /\ WagersSound' /\ Len(wagers') = Len(wagers)
          /\ wagers'[w].status # "locked"
          /\ \A v \in 1..Len(wagers) : v # w => wagers'[v] = wagers[v]
          /\ AfterWager(w, correct) \in [Teams -> Nat]
          /\ \A u \in Teams :
                /\ WagersMoved(u) \in Int /\ WagersMoved(u)' \in Int
                /\ AfterWager(w, correct)[u] = balance[u] + (WagersMoved(u)' - WagersMoved(u))
      BY <3>1, <3>2, <3>3, SettleEffect
    <3>5. QED
      BY <1>3, <2>1, <3>3, <3>4
  <2>2. CASE ~WagerStillLocked
    <3>1. wagers' = wagers
      BY <2>2 DEF ResolveSteal
    <3>2. \A u \in Teams : WagersMoved(u)' = WagersMoved(u) /\ WagersMoved(u) \in Int
      BY <3>1, WagersStay DEF DInv, WagersSound
    <3>3. WagersSound'
      BY <3>1 DEF DInv, WagersSound, WagerShape
    <3>4. \A v \in 1..Len(wagers) : wagers[v].status = "locked" => v # steal.wager
      BY <2>2 DEF WagerStillLocked, Locked
    <3>5. \A u \in Teams : staked[u] = balance[u] + (WagersMoved(u)' - WagersMoved(u))
      BY <1>3, <1>d, <2>2, <3>2
    <3>6. QED
      BY <1>3, <1>d, <2>2, <3>1, <3>2, <3>3, <3>4, <3>5
  <2>3. QED
    BY <2>1, <2>2
<1>5. StealSound'
  BY <1>2, <1>4, <1>d DEF StealSound
<1>6. NoStrayStake'
  <2>1. DOMAIN wagers' = 1..Len(wagers)
    BY <1>4 DEF WagersSound
  <2>2. QED
    BY <1>4, <1>d, <2>1 DEF DInv, NoStrayStake, Locked
<1>7. DealsSound'
  BY <1>1 DEF DInv, DealsSound, DealsTyped, DealShape
<1>8. BalancesTyped' /\ \A u \in Teams : balance'[u] = staked[u] + (results'[u] - results[u])
  <2>1. CASE NoOpenChallenge
    <3>1. balance' = staked /\ results' = results
      BY <1>3, <2>1 DEF ResolveSteal
    <3>2. \A u \in Teams : staked[u] \in Int /\ results[u] \in Int
      BY <1>4, <1>d
    <3>3. QED
      BY <1>4, <1>d, <3>1, <3>2 DEF BalancesTyped
  <2>2. CASE ~NoOpenChallenge
    <3>1. PICK t \in Teams : t = IF correct THEN steal.thief ELSE defender
      BY <1>2
    <3>2. PaidTo(staked, t, pot)
      BY <1>3, <2>2, <3>1 DEF ResolveSteal
    <3>3. /\ Moved(staked, t, pot) \in [Teams -> Nat] /\ Applied(staked, t, pot) \in Int
          /\ \A u \in Teams : Moved(staked, t, pot)[u] =
                 IF u = t THEN staked[t] + Applied(staked, t, pot) ELSE staked[u]
      <4>1. staked \in [Teams -> Nat] /\ pot \in Int
        BY <1>4, <1>d
      <4>2. QED
        BY <4>1, MovedFacts
    <3>4. PICK paid \in Int : paid = Applied(staked, t, pot)
      BY <3>3
    <3>5. /\ results' \in [Teams -> Int]
          /\ \A u \in Teams : results'[u] = IF u = t THEN results[t] + paid ELSE results[u]
      BY <1>d, <3>2, <3>4 DEF PaidTo
    <3>6. balance' = Moved(staked, t, pot)
      BY <3>2 DEF PaidTo
    <3>7. \A u \in Teams : staked[u] \in Int /\ results[u] \in Int
      BY <1>4, <1>d
    <3>8. \A u \in Teams : balance'[u] = staked[u] + (results'[u] - results[u])
      BY <3>3, <3>4, <3>5, <3>6, <3>7
    <3>9. QED
      BY <3>3, <3>5, <3>6, <3>8 DEF BalancesTyped
  <2>3. QED
    BY <2>1, <2>2
<1>9. BooksBalance'
  <2>1. \A u \in Teams :
           /\ WagersMoved(u)' \in Int /\ WagersMoved(u) \in Int
           /\ balance'[u] = balance[u] + (results'[u] - results[u])
                                       + (WagersMoved(u)' - WagersMoved(u))
    <3>1. TAKE u \in Teams
    <3>2. results[u] \in Int /\ balance[u] \in Int /\ results'[u] \in Int
      BY <1>8, <1>d DEF BalancesTyped
    <3>3. QED
      BY <1>4, <1>8, <3>2
  <2>2. QED
    BY <1>1, <1>8, <2>1, BooksKept
<1>10. QED
  BY <1>4, <1>5, <1>6, <1>7, <1>8, <1>9 DEF DInv

\* A result or an adjustment by the Host moves balances by what its entries show.
LEMMA ResultsKeep ==
    ASSUME DInv, UNCHANGED <<deal, wagers, steal>>, BalancesTyped',
           \A u \in Teams : balance'[u] = balance[u] + (results'[u] - results[u])
    PROVE  DInv'
<1>1. WagersSound' /\ StealSound' /\ NoStrayStake' /\ DealsSound'
  BY DEF DInv, WagersSound, WagerShape, StealSound, NoStrayStake, Locked, DealsSound,
         DealsTyped, DealShape
<1>2. \A u \in Teams :
         /\ WagersMoved(u)' \in Int /\ WagersMoved(u) \in Int
         /\ balance'[u] = balance[u] + (results'[u] - results[u])
                                     + (WagersMoved(u)' - WagersMoved(u))
  <2>1. TAKE u \in Teams
  <2>2. WagersMoved(u)' = WagersMoved(u) /\ WagersMoved(u) \in Int
    BY WagersStay DEF DInv, WagersSound
  <2>3. results[u] \in Int /\ balance[u] \in Int /\ results'[u] \in Int
    BY DEF DInv, BalancesTyped
  <2>4. QED
    BY <2>2, <2>3
<1>3. BooksBalance'
  BY <1>2, BooksKept
<1>4. QED
  BY <1>1, <1>3 DEF DInv

-----------------------------------------------------------------------------
(* Every step, and what follows. *)

\* Before the first deal every team has what it started with.
LEMMA InitBooks == DInit => DInv
<1> SUFFICES ASSUME DInit PROVE DInv
  OBVIOUS
<1>1. /\ balance = [t \in Teams |-> StartingBb] /\ results = [t \in Teams |-> 0]
      /\ deal = [r \in 1..MaxRound |-> NoDeal] /\ wagers = <<>>
      /\ steal = [status |-> "none", thief |-> None, wager |-> 0]
  BY DEF DInit
<1>n. NoDeal \in DealRecords /\ DealShape(NoDeal) /\ NoDeal.applied = Unsettled
  BY DEF NoDeal, DealRecords, Unsettled, DealShape
<1>2. DealsSound
  BY <1>1, <1>n DEF DealsSound, DealsTyped
<1>3. WagersSound /\ StealSound /\ NoStrayStake
  BY <1>1 DEF WagersSound, StealSound, Steals, NoStrayStake
<1>4. BalancesTyped
  BY <1>1, DealsAssumption DEF BalancesTyped, DealsAssumption
<1>5. ASSUME NEW t \in Teams PROVE DealsMoved(t) = 0 /\ WagersMoved(t) = 0
  <2>1. DealsMoved(t) = 0
    <3>1. PICK f, i :
              /\ f \in [1..MaxRound -> Int]
              /\ Tally(i, f, 1..MaxRound) /\ DealsMoved(t) = i[1..MaxRound]
              /\ \A r \in 1..MaxRound : f[r] = deal[r].applied[t]
      BY <1>2, DealsMovedIsATally DEF DealsTallied, DealsSound
    <3>2. \A r \in 1..MaxRound : f[r] = 0
      BY <1>1, <1>n, <3>1 DEF Unsettled
    <3>3. IsFiniteSet(1..MaxRound)
      BY FS_Interval, GameFlowAssumption DEF GameFlowAssumption
    <3>4. QED
      BY <3>1, <3>2, <3>3, TallyOfNothing
  <2>2. WagersMoved(t) = 0
    <3>1. PICK f, i :
              /\ f \in [1..Len(wagers) -> Int]
              /\ Tally(i, f, 1..Len(wagers)) /\ WagersMoved(t) = i[1..Len(wagers)]
      BY <1>3, WagersMovedIsATally DEF WagersTallied, WagersSound
    <3>2. 1..Len(wagers) = {}
      BY <1>1
    <3>3. QED
      BY <3>1, <3>2, TallyAt
  <2>3. QED
    BY <2>1, <2>2
<1>6. BooksBalance
  BY <1>1, <1>5, DealsAssumption DEF BooksBalance, DealsAssumption
<1>7. QED
  BY <1>2, <1>3, <1>4, <1>6 DEF DInv

\* What a challenge gives its teams.
LEMMA ResultStepKeeps ==
    ASSUME DInv, ResultStep
    PROVE  DInv'
<1>1. PICK delta \in [Teams -> Deltas] :
          /\ balance' = [t \in Teams |-> ClampBb(balance[t] + delta[t])]
          /\ results' = [t \in Teams |-> results[t] + Applied(balance, t, delta[t])]
  BY DEF ResultStep
<1>2. \A t \in Teams : balance[t] \in Nat /\ results[t] \in Int /\ delta[t] \in Int
  BY DealsAssumption DEF DInv, BalancesTyped, DealsAssumption
<1>3. \A t \in Teams : /\ balance'[t] \in Nat /\ results'[t] \in Int
                       /\ balance'[t] = balance[t] + (results'[t] - results[t])
  BY <1>1, <1>2 DEF ClampBb, Applied
<1>4. BalancesTyped'
  BY <1>1, <1>3 DEF BalancesTyped
<1>5. UNCHANGED <<deal, wagers, steal>>
  BY DEF ResultStep
<1>6. QED
  BY <1>3, <1>4, <1>5, ResultsKeep

\* What the Host's developer panel gives one team.
LEMMA AdjustKeeps ==
    ASSUME DInv, NEW t \in Teams, NEW delta \in Deltas, DevAdjustBb(t, delta)
    PROVE  DInv'
<1>1. PaidTo(balance, t, delta) /\ UNCHANGED <<deal, wagers, steal>>
  BY DEF DevAdjustBb, AdjustBb
<1>2. balance \in [Teams -> Nat] /\ results \in [Teams -> Int] /\ delta \in Int
  BY DealsAssumption DEF DInv, BalancesTyped, DealsAssumption
<1>3. /\ Moved(balance, t, delta) \in [Teams -> Nat] /\ Applied(balance, t, delta) \in Int
      /\ \A u \in Teams : Moved(balance, t, delta)[u] =
             IF u = t THEN balance[t] + Applied(balance, t, delta) ELSE balance[u]
  BY <1>2, MovedFacts
<1>4. PICK paid \in Int : paid = Applied(balance, t, delta)
  BY <1>3
<1>5. /\ results' \in [Teams -> Int]
      /\ \A u \in Teams : results'[u] = IF u = t THEN results[t] + paid ELSE results[u]
  BY <1>1, <1>2, <1>4 DEF PaidTo
<1>6. balance' = Moved(balance, t, delta)
  BY <1>1 DEF PaidTo
<1>7. \A u \in Teams : balance'[u] = balance[u] + (results'[u] - results[u])
  <2>1. \A u \in Teams : balance[u] \in Int /\ results[u] \in Int
    BY <1>2
  <2>2. QED
    BY <1>3, <1>4, <1>5, <1>6, <2>1
<1>8. BalancesTyped'
  BY <1>3, <1>5, <1>6 DEF BalancesTyped
<1>9. QED
  BY <1>1, <1>7, <1>8, ResultsKeep

\* Every step keeps the invariant.
LEMMA NextBooks == DInv /\ [DNext]_allVars => DInv'
<1> SUFFICES ASSUME DInv, [DNext]_allVars PROVE DInv'
  OBVIOUS
<1>1. ASSUME NEW d \in DOMAIN Terms, NEW t \in Teams, NEW o \in Teams \cup {None},
             OfferHostDeal(d, t, o)
      PROVE  DInv'
  BY <1>1, OfferKeeps
<1>2. ASSUME NEW r \in 1..MaxRound, NEW t \in Teams,
             DeclineHostDeal(r, t) \/ AcceptHostDeal(r, t)
      PROVE  DInv'
  BY <1>2, DeclineKeeps, AcceptKeeps
<1>3. ASSUME NEW r \in 1..MaxRound, NEW won \in BOOLEAN, SettlePendingBet(r, won) PROVE DInv'
  BY <1>3, SettleBetKeeps
<1>4. ASSUME NEW t \in Teams, NEW amount \in Stakes, ProposeWager(t, amount) PROVE DInv'
  BY <1>4, ProposeKeeps
<1>5. ASSUME NEW w \in DOMAIN wagers, NEW won \in BOOLEAN, ResolveWager(w, won) PROVE DInv'
  BY <1>5, ResolveWagerKeeps
<1>6. ASSUME NEW t \in Teams, StartSteal(t) PROVE DInv'
  BY <1>6, StartStealKeeps
<1>7. ASSUME NEW amount \in Stakes, LockStealWager(amount) PROVE DInv'
  BY <1>7, LockStealKeeps
<1>8. ASSUME NEW correct \in BOOLEAN, NEW defender \in Teams \ {steal.thief}, NEW pot \in Pots,
             ResolveSteal(correct, defender, pot)
      PROVE  DInv'
  BY <1>8, ResolveStealKeeps
<1>9. CASE ResultStep
  BY <1>9, ResultStepKeeps
<1>10. ASSUME NEW t \in Teams, NEW delta \in Deltas, DevAdjustBb(t, delta) PROVE DInv'
  BY <1>10, AdjustKeeps
<1>11. CASE FlowStep
  BY <1>11, SameBooks DEF FlowStep
<1>12. CASE UNCHANGED allVars
  <2>1. UNCHANGED dealVars
    BY <1>12 DEF allVars
  <2>2. QED
    BY <2>1, SameBooks
<1>13. QED
  BY <1>1, <1>2, <1>3, <1>4, <1>5, <1>6, <1>7, <1>8, <1>9, <1>10, <1>11, <1>12 DEF DNext

\* To the game every step is one of its own or none.
LEMMA StepsOfTheGame == [DNext]_allVars => [Next]_vars
<1> SUFFICES ASSUME [DNext]_allVars PROVE [Next]_vars
  OBVIOUS
<1>1. CASE FlowStep
  BY <1>1 DEF FlowStep, Next
<1>2. CASE ResultStep
  BY <1>2 DEF ResultStep, Next
<1>3. ASSUME NEW correct, NEW defender, NEW pot, ResolveSteal(correct, defender, pot)
      PROVE  [Next]_vars
  BY <1>3 DEF ResolveSteal, Next
<1>4. CASE UNCHANGED allVars
  BY <1>4 DEF allVars
<1>5. ASSUME NEW d, NEW t, NEW o, OfferHostDeal(d, t, o) PROVE UNCHANGED vars
  BY <1>5 DEF OfferHostDeal
<1>6. ASSUME NEW r, NEW t, DeclineHostDeal(r, t) PROVE UNCHANGED vars
  BY <1>6 DEF DeclineHostDeal
<1>7. ASSUME NEW r, NEW t, AcceptHostDeal(r, t) PROVE UNCHANGED vars
  BY <1>7 DEF AcceptHostDeal
<1>8. ASSUME NEW r, NEW won, SettlePendingBet(r, won) PROVE UNCHANGED vars
  BY <1>8 DEF SettlePendingBet
<1>9. ASSUME NEW t, NEW amount, ProposeWager(t, amount) PROVE UNCHANGED vars
  BY <1>9 DEF ProposeWager
<1>10. ASSUME NEW w, NEW won, ResolveWager(w, won) PROVE UNCHANGED vars
  BY <1>10 DEF ResolveWager
<1>11. ASSUME NEW t, StartSteal(t) PROVE UNCHANGED vars
  BY <1>11 DEF StartSteal
<1>12. ASSUME NEW amount, LockStealWager(amount) PROVE UNCHANGED vars
  BY <1>12 DEF LockStealWager
<1>13. ASSUME NEW t, NEW delta, DevAdjustBb(t, delta) PROVE UNCHANGED vars
  BY <1>13 DEF DevAdjustBb, AdjustBb
<1>14. QED
  BY <1>1, <1>2, <1>3, <1>4, <1>5, <1>6, <1>7, <1>8, <1>9, <1>10, <1>11, <1>12, <1>13
     DEF DNext

\* The inductive invariant holds always.
LEMMA DInvAlways == DSpec => []DInv
<1>1. QED
  BY InitBooks, NextBooks, PTL DEF DSpec

\* Balances add up to what results, deals and wagers show they moved, and never
\* fall below nothing, however often the floor cut a loss short (ledger, deals).
THEOREM BalancesAddUpAlways == DSpec => []BalancesAddUp
<1>1. DInv => BalancesAddUp
  <2> SUFFICES ASSUME DInv PROVE DTypeOK
    BY DEF BalancesAddUp, DInv
  <2>1. balance \in [Teams -> Nat] /\ results \in [Teams -> Int]
    BY DEF DInv, BalancesTyped
  <2>2. ASSUME NEW r \in 1..MaxRound
        PROVE  /\ deal[r].template \in DOMAIN Terms \cup {"none"}
               /\ {deal[r].team, deal[r].opponent} \subseteq Teams \cup {None}
               /\ deal[r].choice \in {"none", "accept", "decline"}
               /\ deal[r].settled \in BOOLEAN /\ deal[r].applied \in [Teams -> Int]
    <3>1. deal[r] \in DealRecords
      BY DEF DInv, DealsSound, DealsTyped
    <3>2. QED
      BY <3>1 DEF DealRecords
  <2>3. ASSUME NEW w \in DOMAIN wagers
        PROVE  /\ wagers[w].team \in Teams /\ 2 * wagers[w].amount <= wagers[w].balanceAtLock
               /\ wagers[w].status \in {"locked", "won", "lost", "cancelled"}
               /\ wagers[w].applied \in Int
    <3>1. wagers[w] \in Wagers /\ WagerShape(wagers[w])
      BY DEF DInv, WagersSound
    <3>2. QED
      BY <3>1 DEF Wagers, WagerShape
  <2>4. /\ steal.status \in {"none", "conferring", "awaiting_answer", "resolved"}
        /\ steal.wager \in 0..Len(wagers)
    <3>1. steal \in Steals /\ steal.wager <= Len(wagers) /\ Len(wagers) \in Nat
      BY DEF DInv, StealSound, WagersSound
    <3>2. QED
      BY <3>1 DEF Steals
  <2>5. QED
    BY <2>1, <2>2, <2>3, <2>4 DEF DTypeOK
<1>2. QED
  BY <1>1, DInvAlways, PTL

\* Whoever accepts a deal without a bet has paid its cost in full, however poor
\* it has become since the offer (respond).
THEOREM AcceptedInFullAlways == DSpec => []AcceptedInFull
<1>1. DInv => AcceptedInFull
  BY DEF DInv, DealsSound, DealShape, AcceptedInFull, TermsOf
<1>2. QED
  BY <1>1, DInvAlways, PTL

\* What was settled stays settled, and no stake of a steal outlives its steal
\* (respond, resolveWager, lockRound4StealWager, resolveRound4Steal).
THEOREM StakesSettleOnceAlways == DSpec => StakesSettleOnce
<1> DEFINE Answered(r) == /\ deal[r].choice # "none"
                          /\ deal[r].settled \/ ~TermsOf(r).bet \/ deal[r].choice = "decline"
           Kept == /\ \A r \in 1..MaxRound :
                         deal[r].choice # "none" /\ (deal[r].settled \/ ~TermsOf(r).bet
                            \/ deal[r].choice = "decline") => deal'[r] = deal[r]
                   /\ \A w \in DOMAIN wagers : ~Locked(w) => wagers'[w] = wagers[w]
<1>1. DInv /\ [DNext]_allVars => [Kept]_allVars
  <2> SUFFICES ASSUME DInv, DNext PROVE Kept
    OBVIOUS
  <2>d. /\ deal \in [1..MaxRound -> DealRecords] /\ wagers \in Seq(Wagers)
        /\ DOMAIN wagers = 1..Len(wagers)
        /\ \A r \in 1..MaxRound : deal[r].choice # "none" => deal[r].template # "none"
    BY DEF DInv, DealsSound, DealsTyped, DealShape, WagersSound
  <2>a. ASSUME NEW r, UNCHANGED wagers, ~Answered(r),
               \A q \in 1..MaxRound : q # r => deal'[q] = deal[q]
        PROVE  Kept
    BY <2>a
  <2>b. ASSUME NEW w, UNCHANGED deal, Locked(w),
               \A v \in DOMAIN wagers : v # w => wagers'[v] = wagers[v]
        PROVE  Kept
    BY <2>b
  <2>c. ASSUME UNCHANGED deal, NEW w, wagers' = Append(wagers, w) PROVE Kept
    BY <2>c, <2>d
  <2>u. ASSUME UNCHANGED <<deal, wagers>> PROVE Kept
    BY <2>u
  <2>1. ASSUME NEW d, NEW t, NEW o, OfferHostDeal(d, t, o) PROVE Kept
    BY <2>1, <2>a, <2>d DEF OfferHostDeal, NoDealThisRound
  <2>2. ASSUME NEW r, NEW t, DeclineHostDeal(r, t) PROVE Kept
    BY <2>2, <2>a, <2>d DEF DeclineHostDeal, Waiting
  <2>3. ASSUME NEW r, NEW t, AcceptHostDeal(r, t) PROVE Kept
    <3>1. UNCHANGED wagers /\ ~Answered(r)
      BY <2>3 DEF AcceptHostDeal, Waiting
    <3>2. \A q \in 1..MaxRound : q # r => deal'[q] = deal[q]
      BY <2>3, <2>d DEF AcceptHostDeal
    <3>3. QED
      BY <2>a, <3>1, <3>2
  <2>4. ASSUME NEW r, NEW won, SettlePendingBet(r, won) PROVE Kept
    BY <2>4, <2>a, <2>d DEF SettlePendingBet
  <2>5. ASSUME NEW t, NEW amount, ProposeWager(t, amount) PROVE Kept
    BY <2>5, <2>c DEF ProposeWager
  <2>6. ASSUME NEW w, NEW won, ResolveWager(w, won) PROVE Kept
    BY <2>6, <2>b, <2>d DEF ResolveWager, Settled
  <2>7. ASSUME NEW amount, LockStealWager(amount) PROVE Kept
    BY <2>7, <2>c DEF LockStealWager
  <2>8. ASSUME NEW correct, NEW defender, NEW pot, ResolveSteal(correct, defender, pot)
        PROVE  Kept
    <3>1. CASE WagerStillLocked
      BY <2>8, <2>b, <2>d, <3>1 DEF ResolveSteal, Settled, WagerStillLocked
    <3>2. CASE ~WagerStillLocked
      BY <2>8, <2>u, <3>2 DEF ResolveSteal
    <3>3. QED
      BY <3>1, <3>2
  <2> HIDE DEF Kept
  <2>9. CASE FlowStep \/ ResultStep
    BY <2>9, <2>u DEF FlowStep, ResultStep, dealVars
  <2>10. ASSUME NEW t, StartSteal(t) PROVE Kept
    BY <2>10, <2>u DEF StartSteal
  <2>11. ASSUME NEW t, NEW delta, DevAdjustBb(t, delta) PROVE Kept
    BY <2>11, <2>u DEF DevAdjustBb, AdjustBb
  <2>12. QED
    BY <2>1, <2>2, <2>3, <2>4, <2>5, <2>6, <2>7, <2>8, <2>9, <2>10, <2>11 DEF DNext
<1>2. DInv => NoStrayStake
  BY DEF DInv
<1>3. DSpec => SettledOnce
  <2>1. DSpec => [][Kept]_allVars
    <3> HIDE DEF Kept
    <3>1. QED
      BY <1>1, DInvAlways, PTL DEF DSpec
  <2>2. QED
    BY <2>1 DEF SettledOnce
<1>4. QED
  BY <1>2, <1>3, DInvAlways, PTL DEF StakesSettleOnce

\* Deals, wagers and steals leave the game they are played in as sound as it is
\* without them.
THEOREM GameStaysSound == DSpec => [](GameIsSound /\ TimerIsSound)
<1>1. DInit => FlowInv
  BY InitFlow DEF DInit
<1>2. FlowInv /\ [DNext]_allVars => FlowInv'
  BY StepsOfTheGame, NextFlow
<1>3. QED
  BY <1>1, <1>2, FlowInvGives, PTL DEF DSpec

-----------------------------------------------------------------------------
(* Round 1. *)

\* What a team's answer may be, and a sheet of answers of the teams S whose
\* window is at most d.
AnswerRecords ==
    [sub : Typed \cup {NoAnswer}, ruling : Verdicts \cup {Unruled},
     retrySub : Typed \cup {NoAnswer}, retryRuling : Verdicts \cup {Unruled},
     retryOpen : BOOLEAN, retry : WindowsUpTo(RetryMs), awarded : Nat]

SheetRecords(S, d) ==
    [kind : {"question", "tiebreak"}, no : Nat, phase : SheetPhases, challenge : Nat,
     window : WindowsUpTo(d), answers : [S -> AnswerRecords]]

MacoRecords ==
    [viewer : Players \cup {None}, target : Teams \cup {None}, question : Nat,
     window : WindowsUpTo(MacoMs)]

\* The windows of a sheet are tied to the pause.
HeldBy(s, paused) ==
    /\ FollowsPause(s.window, paused)
    /\ \A t \in DOMAIN s.answers : FollowsPause(s.answers[t].retry, paused)

\* What holds of the sheets, the points and the peek alone.
SheetsInv ==
    /\ question \in SheetRecords(Teams, QuestionMs)
    /\ question.kind = "question" /\ question.no <= Questions
    /\ question.challenge <= challenge.id
    /\ question.phase = "pending" <=> question.no = 0
    /\ question.no > 0 => question.challenge > 0
    /\ DOMAIN attempt.answers \subseteq Teams
    /\ attempt \in SheetRecords(DOMAIN attempt.answers, TiebreakMs)
    /\ attempt.kind = "tiebreak" /\ attempt.no <= drawn
    /\ attempt.phase = "pending" <=> attempt.no = 0
    /\ attempt.phase # "retry"
    /\ nominee \in [Teams -> [Difficulties -> Players \cup {None}]]
    /\ points \in [Teams -> Nat]
    /\ drawn \in 0..MaxTiebreaks
    /\ maco \in MacoRecords
    /\ \A v \in verdicts : v.verdict \in Verdicts

\* A peek is at an answer there is, of the question being asked, by a nominee of
\* another team.
PeekIsSound ==
    maco.target # None =>
        /\ maco.question = question.no /\ maco.viewer \in Players
        /\ question.phase \in {"open", "grading", "retry"}
        /\ question.answers[maco.target].sub # NoAnswer
        /\ \E t \in Teams \ {maco.target} : nominee[t][LevelOf(question)] = maco.viewer

\* How far the round is, and who is still in it.
StageInv ==
    /\ r1Phase \in {"off", "nominating", "questions", "tiebreak", "complete"}
    /\ r1Phase # "off" => started /\ roundIndex > 0
    /\ r1Phase \in {"off", "nominating"} => question.no = 0
    /\ r1Phase \in {"tiebreak", "complete"} => question.phase = "revealed"
    /\ attempt.no > 0 => r1Phase \in {"tiebreak", "complete"}
    /\ r1Winner \in Teams \cup {None}
    /\ r1Phase = "complete" <=> r1Winner # None
    /\ standing \subseteq Teams
    /\ r1Phase = "tiebreak" => Cardinality(standing) > 1
    /\ r1Phase \notin {"tiebreak", "complete"} => standing = {}
    /\ r1Phase = "tiebreak" /\ attempt.no > 0 /\ attempt.phase # "revealed" =>
           DOMAIN attempt.answers = standing

R1Inv ==
    /\ FlowInv /\ SheetsInv /\ WindowsFollowPause /\ OwedAnswersAwaited /\ ScoredAsRuled
    /\ PeekIsSound /\ StageInv

-----------------------------------------------------------------------------
(* What the operators make of a sheet. *)

\* The constants as the proofs use them.
LEMMA R1Constants ==
    /\ QuestionMs \in Nat /\ RetryMs \in Nat /\ MacoMs \in Nat /\ TiebreakMs \in Nat
    /\ Questions \in Nat /\ MaxTiebreaks \in Nat
    /\ None \notin Players /\ None \notin Teams
BY Round1Assumption, GameFlowAssumption DEF Round1Assumption, GameFlowAssumption

\* The text decides for right, for wrong, or not.
LEMMA DeterministicType ==
    \A a \in Typed : Deterministic[a] \in Verdicts \cup {Unruled}
<1> SUFFICES ASSUME NEW a \in Typed PROVE Deterministic[a] \in Verdicts \cup {Unruled}
  OBVIOUS
<1>1. Deterministic[a] = GradeDeterministic(a, Accepted)
  BY DEF Deterministic
<1>2. GradeDeterministic(a, Accepted) \in {"CORRECT", "INCORRECT", "unruled"}
  BY DEF GradeDeterministic
<1>3. QED
  BY <1>1, <1>2 DEF Verdicts, Unruled

\* What the windows of a round can be.
LEMMA WindowKinds1 ==
    ASSUME NEW d \in Nat
    PROVE  /\ NoWindow \in WindowsUpTo(d) /\ OpenWindow(d) \in WindowsUpTo(d)
           /\ \A b : FollowsPause(NoWindow, b)
           /\ FollowsPause(OpenWindow(d), FALSE)
BY DEF NoWindow, OpenWindow, WindowsUpTo, FollowsPause, Exists

\* The same sheet later on: what was sent stays what it was, and what was revealed is left
\* as it was.
SameEnd(a, b) ==
    /\ b.sub = a.sub /\ b.retrySub = a.retrySub
    /\ b.ruling = a.ruling /\ b.retryRuling = a.retryRuling /\ b.awarded = a.awarded

Later(s, r) ==
    /\ r.kind = s.kind /\ r.no = s.no /\ r.challenge = s.challenge
    /\ DOMAIN r.answers = DOMAIN s.answers
    /\ r.phase = "pending" <=> s.phase = "pending"
    /\ s.phase = "revealed" => r.phase = "revealed"
    /\ \A t \in DOMAIN s.answers :
           /\ s.answers[t].sub # NoAnswer => r.answers[t].sub = s.answers[t].sub
           /\ s.answers[t].retrySub # NoAnswer =>
                  r.answers[t].retrySub = s.answers[t].retrySub
           /\ s.phase = "revealed" => SameEnd(s.answers[t], r.answers[t])

\* And it waits for nobody it did not wait for, opens no window, and is revealed
\* no sooner.
Proceeds(s, r) ==
    /\ Later(s, r)
    /\ r.phase = "revealed" => s.phase = "revealed"
    /\ r.phase = "retry" => s.phase = "retry"
    /\ Owing(r) \subseteq Owing(s)
    /\ \A b \in BOOLEAN : HeldBy(s, b) => HeldBy(r, b)

\* A sheet proceeds by standing still, and step by step.
LEMMA ProceedsIsAnOrder ==
    /\ \A s : Proceeds(s, s)
    /\ \A s, r, q : Proceeds(s, r) /\ Proceeds(r, q) => Proceeds(s, q)
<1>1. ASSUME NEW s PROVE Proceeds(s, s)
  BY DEF Proceeds, Later, SameEnd
<1>2. ASSUME NEW s, NEW r, NEW q, Proceeds(s, r), Proceeds(r, q) PROVE Proceeds(s, q)
  BY <1>2 DEF Proceeds, Later, SameEnd
<1>3. QED
  BY <1>1, <1>2

\* What grading, the judge and the Host do to a sheet: rulings, and those only
\* before the reveal.
OnlyRules(s, r) ==
    /\ r.kind = s.kind /\ r.no = s.no /\ r.challenge = s.challenge
    /\ r.phase = s.phase /\ r.window = s.window
    /\ DOMAIN r.answers = DOMAIN s.answers
    /\ \A t \in DOMAIN s.answers :
           LET a == s.answers[t]  b == r.answers[t] IN
           /\ b.sub = a.sub /\ b.retrySub = a.retrySub /\ b.retryOpen = a.retryOpen
           /\ b.retry = a.retry /\ b.awarded = a.awarded
           /\ s.phase = "revealed" => b.ruling = a.ruling /\ b.retryRuling = a.retryRuling

LEMMA RulingProceeds ==
    ASSUME NEW s, NEW r, OnlyRules(s, r)
    PROVE  Proceeds(s, r)
<1>1. Later(s, r)
  BY DEF OnlyRules, Later, SameEnd
<1>2. Owing(r) = Owing(s)
  BY DEF OnlyRules, Owing
<1>3. \A b \in BOOLEAN : HeldBy(s, b) => HeldBy(r, b)
  BY DEF OnlyRules, HeldBy
<1>4. QED
  BY <1>1, <1>2, <1>3 DEF OnlyRules, Proceeds

\* The sheet s with its rulings alone replaced.
RulingsOnly(r, as, s, S) ==
    /\ r = [s EXCEPT !.answers = as]
    /\ as = [t \in S |-> as[t]]
    /\ \A t \in S : \E v, w \in Verdicts \cup {Unruled} :
           as[t] = [s.answers[t] EXCEPT !.ruling = v, !.retryRuling = w]

\* Before the reveal.
LEMMA RulingsReplaced ==
    ASSUME NEW S, NEW d \in Nat, NEW s \in SheetRecords(S, d), s.phase # "revealed",
           NEW as, NEW r, RulingsOnly(r, as, s, S)
    PROVE  r \in SheetRecords(S, d) /\ OnlyRules(s, r)
<1>1. /\ DOMAIN s.answers = S /\ \A t \in S : s.answers[t] \in AnswerRecords
  BY DEF SheetRecords
<1>2. ASSUME NEW t \in S
      PROVE  /\ as[t] \in AnswerRecords
             /\ as[t].sub = s.answers[t].sub /\ as[t].retrySub = s.answers[t].retrySub
             /\ as[t].retryOpen = s.answers[t].retryOpen /\ as[t].retry = s.answers[t].retry
             /\ as[t].awarded = s.answers[t].awarded
  <2>1. PICK v, w \in Verdicts \cup {Unruled} :
            as[t] = [s.answers[t] EXCEPT !.ruling = v, !.retryRuling = w]
    BY DEF RulingsOnly
  <2>2. PICK a : a = s.answers[t]
    OBVIOUS
  <2>3. a \in AnswerRecords
    BY <1>1, <2>2
  <2>4. PICK b : b = as[t]
    OBVIOUS
  <2>5. b = [a EXCEPT !.ruling = v, !.retryRuling = w]
    BY <2>1, <2>2, <2>4
  <2>6. /\ b \in AnswerRecords /\ b.sub = a.sub /\ b.retrySub = a.retrySub
        /\ b.retryOpen = a.retryOpen /\ b.retry = a.retry /\ b.awarded = a.awarded
    BY <2>3, <2>5 DEF AnswerRecords
  <2>7. QED
    BY <2>2, <2>4, <2>6
<1>3. as \in [S -> AnswerRecords] /\ DOMAIN as = S
  BY <1>2 DEF RulingsOnly
<1>4. r = [s EXCEPT !.answers = as]
  BY DEF RulingsOnly
<1>5. /\ r \in SheetRecords(S, d) /\ r.answers = as
      /\ r.kind = s.kind /\ r.no = s.no /\ r.challenge = s.challenge
      /\ r.phase = s.phase /\ r.window = s.window
  BY <1>3, <1>4 DEF SheetRecords
<1>6. OnlyRules(s, r)
  <2>1. ASSUME NEW t \in DOMAIN s.answers
        PROVE  /\ r.answers[t].sub = s.answers[t].sub
               /\ r.answers[t].retrySub = s.answers[t].retrySub
               /\ r.answers[t].retryOpen = s.answers[t].retryOpen
               /\ r.answers[t].retry = s.answers[t].retry
               /\ r.answers[t].awarded = s.answers[t].awarded
    BY <1>1, <1>2, <1>5
  <2>2. DOMAIN r.answers = DOMAIN s.answers
    BY <1>1, <1>3, <1>5
  <2>3. QED
    BY <1>5, <2>1, <2>2 DEF OnlyRules
<1>7. QED
  BY <1>5, <1>6

\* Grading rules.
LEMMA GradedRules ==
    ASSUME NEW S, NEW d \in Nat, NEW s \in SheetRecords(S, d)
    PROVE  Graded(s) \in SheetRecords(S, d) /\ OnlyRules(s, Graded(s))
<1>0. DOMAIN s.answers = S /\ \A t \in S : s.answers[t] \in AnswerRecords
  BY DEF SheetRecords
<1>1. CASE ~TakesRulings(s)
  BY <1>1 DEF Graded, OnlyRules
<1>2. CASE TakesRulings(s)
  <2> DEFINE v(t) == IF t \in PendingFirst(s) THEN Deterministic[s.answers[t].sub]
                     ELSE s.answers[t].ruling
             w(t) == IF t \in PendingRetry(s) THEN Deterministic[s.answers[t].retrySub]
                     ELSE s.answers[t].retryRuling
             as == [t \in S |-> GradedAnswer(s, t)]
  <2>1. ASSUME NEW t \in S
        PROVE  v(t) \in Verdicts \cup {Unruled} /\ w(t) \in Verdicts \cup {Unruled}
    <3>1. /\ s.answers[t].ruling \in Verdicts \cup {Unruled}
          /\ s.answers[t].retryRuling \in Verdicts \cup {Unruled}
          /\ s.answers[t].sub \in Typed \cup {NoAnswer}
          /\ s.answers[t].retrySub \in Typed \cup {NoAnswer}
      BY <1>0 DEF AnswerRecords
    <3>2. /\ t \in PendingFirst(s) => s.answers[t].sub \in Typed
          /\ t \in PendingRetry(s) => s.answers[t].retrySub \in Typed
      BY <3>1 DEF PendingFirst, PendingRetry
    <3>3. QED
      BY <3>1, <3>2, DeterministicType
  <2>2. ASSUME NEW t \in S
        PROVE  as[t] = [s.answers[t] EXCEPT !.ruling = v(t), !.retryRuling = w(t)]
    BY DEF GradedAnswer
  <2>3. Graded(s) = [s EXCEPT !.answers = as]
    BY <1>0, <1>2 DEF Graded
  <2>4. as = [t \in S |-> as[t]]
    OBVIOUS
  <2> HIDE DEF v, w, as
  <2>5. s.phase # "revealed"
    BY <1>2 DEF TakesRulings
  <2>6. \A t \in S : \E x, y \in Verdicts \cup {Unruled} :
            as[t] = [s.answers[t] EXCEPT !.ruling = x, !.retryRuling = y]
    BY <2>1, <2>2
  <2>7. PICK r : r = Graded(s)
    OBVIOUS
  <2>8. RulingsOnly(r, as, s, S)
    BY <2>3, <2>4, <2>6, <2>7 DEF RulingsOnly
  <2>9. r \in SheetRecords(S, d) /\ OnlyRules(s, r)
    BY <2>5, <2>8, RulingsReplaced
  <2>10. QED
    BY <2>7, <2>9
<1>3. QED
  BY <1>1, <1>2

\* So does the judge.
LEMMA JudgedRules ==
    ASSUME NEW S, NEW d \in Nat, NEW s \in SheetRecords(S, d),
           \A x \in verdicts : x.verdict \in Verdicts
    PROVE  Judged(s) \in SheetRecords(S, d) /\ OnlyRules(s, Judged(s))
<1>0. DOMAIN s.answers = S /\ \A t \in S : s.answers[t] \in AnswerRecords
  BY DEF SheetRecords
<1>1. CASE ~TakesRulings(s)
  BY <1>1 DEF Judged, OnlyRules
<1>2. CASE TakesRulings(s)
  <2> DEFINE v(t) == IF s.answers[t].ruling = Unruled
                     THEN VerdictOr(Key(s, t, FALSE), s.answers[t].ruling)
                     ELSE s.answers[t].ruling
             w(t) == IF s.answers[t].retryRuling = Unruled
                     THEN VerdictOr(Key(s, t, TRUE), s.answers[t].retryRuling)
                     ELSE s.answers[t].retryRuling
             as == [t \in S |-> JudgedAnswer(s, t)]
  <2>0. ASSUME NEW k, NEW x \in Verdicts \cup {Unruled}
        PROVE  VerdictOr(k, x) \in Verdicts \cup {Unruled}
    <3>1. CASE k \in KeysOf(verdicts)
      <4>1. \E y \in verdicts : y.key = k
        BY <3>1 DEF KeysOf
      <4>2. (CHOOSE y \in verdicts : y.key = k) \in verdicts
        BY <4>1
      <4>3. QED
        BY <3>1, <4>2 DEF VerdictOr
    <3>2. CASE k \notin KeysOf(verdicts)
      BY <3>2 DEF VerdictOr
    <3>3. QED
      BY <3>1, <3>2
  <2>1. ASSUME NEW t \in S
        PROVE  v(t) \in Verdicts \cup {Unruled} /\ w(t) \in Verdicts \cup {Unruled}
    <3>1. /\ s.answers[t].ruling \in Verdicts \cup {Unruled}
          /\ s.answers[t].retryRuling \in Verdicts \cup {Unruled}
      BY <1>0 DEF AnswerRecords
    <3>2. QED
      BY <2>0, <3>1
  <2>2. ASSUME NEW t \in S
        PROVE  as[t] = [s.answers[t] EXCEPT !.ruling = v(t), !.retryRuling = w(t)]
    BY DEF JudgedAnswer
  <2>3. Judged(s) = [s EXCEPT !.answers = as]
    BY <1>0, <1>2 DEF Judged
  <2>4. as = [t \in S |-> as[t]]
    OBVIOUS
  <2> HIDE DEF v, w, as
  <2>5. s.phase # "revealed"
    BY <1>2 DEF TakesRulings
  <2>6. \A t \in S : \E x, y \in Verdicts \cup {Unruled} :
            as[t] = [s.answers[t] EXCEPT !.ruling = x, !.retryRuling = y]
    BY <2>1, <2>2
  <2>7. PICK r : r = Judged(s)
    OBVIOUS
  <2>8. RulingsOnly(r, as, s, S)
    BY <2>3, <2>4, <2>6, <2>7 DEF RulingsOnly
  <2>9. r \in SheetRecords(S, d) /\ OnlyRules(s, r)
    BY <2>5, <2>8, RulingsReplaced
  <2>10. QED
    BY <2>7, <2>9
<1>3. QED
  BY <1>1, <1>2

\* A sheet in which one team's answer is replaced.
LEMMA AnswerReplaced ==
    ASSUME NEW S, NEW d \in Nat, NEW s \in SheetRecords(S, d), NEW t \in S,
           NEW b \in AnswerRecords, NEW r, r = [s EXCEPT !.answers[t] = b]
    PROVE  /\ r \in SheetRecords(S, d) /\ DOMAIN r.answers = S /\ DOMAIN s.answers = S
           /\ r.kind = s.kind /\ r.no = s.no /\ r.challenge = s.challenge
           /\ r.phase = s.phase /\ r.window = s.window
           /\ \A u \in S : r.answers[u] = IF u = t THEN b ELSE s.answers[u]
<1>1. PICK as : as = [s.answers EXCEPT ![t] = b]
  OBVIOUS
<1>2. s.answers \in [S -> AnswerRecords]
  BY DEF SheetRecords
<1>3. as \in [S -> AnswerRecords] /\ \A u \in S : as[u] = IF u = t THEN b ELSE s.answers[u]
  BY <1>1, <1>2
<1>4. r = [s EXCEPT !.answers = as]
  BY <1>1
<1>5. /\ r \in SheetRecords(S, d) /\ r.answers = as
      /\ r.kind = s.kind /\ r.no = s.no /\ r.challenge = s.challenge
      /\ r.phase = s.phase /\ r.window = s.window
  BY <1>3, <1>4 DEF SheetRecords
<1>6. QED
  BY <1>2, <1>3, <1>5

\* A ruling of the Host's is one.
LEMMA WithRulingRules ==
    ASSUME NEW S, NEW d \in Nat, NEW s \in SheetRecords(S, d), NEW t \in S,
           NEW retry \in BOOLEAN, NEW v \in Verdicts, s.phase # "revealed",
           NEW r, r = WithRuling(s, t, retry, v)
    PROVE  r \in SheetRecords(S, d) /\ OnlyRules(s, r)
<1>1. PICK a : a = s.answers[t]
  OBVIOUS
<1>2. a \in AnswerRecords
  BY <1>1 DEF SheetRecords
<1>3. PICK b : b = IF retry THEN [a EXCEPT !.retryRuling = v] ELSE [a EXCEPT !.ruling = v]
  OBVIOUS
<1>4. /\ b \in AnswerRecords
      /\ b.sub = a.sub /\ b.retrySub = a.retrySub /\ b.retryOpen = a.retryOpen
      /\ b.retry = a.retry /\ b.awarded = a.awarded
  BY <1>2, <1>3 DEF AnswerRecords
<1>5. r = [s EXCEPT !.answers[t] = b]
  BY <1>1, <1>3 DEF WithRuling
<1>6. /\ r \in SheetRecords(S, d) /\ DOMAIN r.answers = S /\ DOMAIN s.answers = S
      /\ r.kind = s.kind /\ r.no = s.no /\ r.challenge = s.challenge
      /\ r.phase = s.phase /\ r.window = s.window
      /\ \A u \in S : r.answers[u] = IF u = t THEN b ELSE s.answers[u]
  BY <1>4, <1>5, AnswerReplaced
<1>7. QED
  BY <1>1, <1>4, <1>6 DEF OnlyRules

\* The answers that come in: the first, and the one after a retry.
LEMMA AnswerProceeds ==
    ASSUME NEW S, NEW d \in Nat, NEW s \in SheetRecords(S, d), NEW t \in S, NEW a \in Typed,
           NEW r, \/ TakesFirst(s, t) /\ r = [s EXCEPT !.answers[t].sub = a]
                  \/ TakesRetry(s, t) /\ r = [s EXCEPT !.answers[t].retrySub = a]
    PROVE  r \in SheetRecords(S, d) /\ Proceeds(s, r) /\ s.phase # "revealed"
<1>1. PICK c : c = s.answers[t]
  OBVIOUS
<1>2. c \in AnswerRecords
  BY <1>1 DEF SheetRecords
<1>3. PICK b : /\ r = [s EXCEPT !.answers[t] = b]
               /\ \/ /\ b = [c EXCEPT !.sub = a]
                     /\ s.phase = "open" /\ c.sub = NoAnswer
                  \/ /\ b = [c EXCEPT !.retrySub = a]
                     /\ s.phase = "retry" /\ c.retryOpen /\ c.retrySub = NoAnswer
  <2>1. CASE TakesFirst(s, t) /\ r = [s EXCEPT !.answers[t].sub = a]
    <3>1. PICK b : b = [c EXCEPT !.sub = a]
      OBVIOUS
    <3>2. r = [s EXCEPT !.answers[t] = b]
      BY <1>1, <2>1, <3>1
    <3>3. QED
      BY <1>1, <2>1, <3>1, <3>2 DEF TakesFirst
  <2>2. CASE TakesRetry(s, t) /\ r = [s EXCEPT !.answers[t].retrySub = a]
    <3>1. PICK b : b = [c EXCEPT !.retrySub = a]
      OBVIOUS
    <3>2. r = [s EXCEPT !.answers[t] = b]
      BY <1>1, <2>2, <3>1
    <3>3. QED
      BY <1>1, <2>2, <3>1, <3>2 DEF TakesRetry
  <2>3. QED
    BY <2>1, <2>2
<1>4. /\ b \in AnswerRecords /\ b.retryOpen = c.retryOpen /\ b.retry = c.retry
      /\ c.sub # NoAnswer => b.sub = c.sub
      /\ c.retrySub # NoAnswer => b.retrySub = c.retrySub
      /\ b.sub = NoAnswer => c.sub = NoAnswer
      /\ s.phase = "retry" /\ b.retrySub = NoAnswer => c.retrySub = NoAnswer
  BY <1>2, <1>3 DEF AnswerRecords
<1>5. /\ r \in SheetRecords(S, d) /\ DOMAIN r.answers = S /\ DOMAIN s.answers = S
      /\ r.kind = s.kind /\ r.no = s.no /\ r.challenge = s.challenge
      /\ r.phase = s.phase /\ r.window = s.window
      /\ \A u \in S : r.answers[u] = IF u = t THEN b ELSE s.answers[u]
  BY <1>3, <1>4, AnswerReplaced
<1>6. s.phase \in {"open", "retry"}
  BY <1>3
<1>7. Later(s, r)
  BY <1>1, <1>4, <1>5, <1>6 DEF Later
<1>8. Owing(r) \subseteq Owing(s)
  <2>1. ASSUME NEW u \in S
        PROVE  /\ r.answers[u].sub = NoAnswer => s.answers[u].sub = NoAnswer
               /\ r.answers[u].retryOpen = s.answers[u].retryOpen
               /\ s.phase = "retry" /\ r.answers[u].retrySub = NoAnswer =>
                      s.answers[u].retrySub = NoAnswer
    BY <1>1, <1>4, <1>5
  <2>2. CASE s.phase = "open"
    BY <1>5, <2>1, <2>2 DEF Owing
  <2>3. CASE s.phase = "retry"
    BY <1>5, <2>1, <2>3 DEF Owing
  <2>4. QED
    BY <1>6, <2>2, <2>3
<1>9. \A x \in BOOLEAN : HeldBy(s, x) => HeldBy(r, x)
  BY <1>1, <1>4, <1>5 DEF HeldBy
<1>10. QED
  BY <1>5, <1>6, <1>7, <1>8, <1>9 DEF Proceeds

\* Closing a sheet's window.
LEMMA ClosedProceeds ==
    ASSUME NEW S, NEW d \in Nat, NEW s \in SheetRecords(S, d), s.phase = "open",
           NEW r, r = Closed(s)
    PROVE  r \in SheetRecords(S, d) /\ Proceeds(s, r) /\ r.phase = "grading"
<1>1. /\ r \in SheetRecords(S, d) /\ r.phase = "grading" /\ r.window = NoWindow
      /\ r.kind = s.kind /\ r.no = s.no /\ r.challenge = s.challenge /\ r.answers = s.answers
  BY WindowKinds1 DEF Closed, SheetRecords, SheetPhases
<1>2. Later(s, r)
  BY <1>1 DEF Later
<1>3. Owing(r) = {}
  BY <1>1 DEF Owing
<1>4. \A b \in BOOLEAN : HeldBy(s, b) => HeldBy(r, b)
  BY <1>1, WindowKinds1 DEF HeldBy
<1>5. QED
  BY <1>1, <1>2, <1>3, <1>4 DEF Proceeds

\* Closing the retries that are open.
LEMMA RetriesClosedProceeds ==
    ASSUME NEW S, NEW d \in Nat, NEW s \in SheetRecords(S, d), s.phase = "retry",
           NEW r, r = RetriesClosed(s)
    PROVE  r \in SheetRecords(S, d) /\ Proceeds(s, r)
<1>1. DOMAIN s.answers = S /\ \A t \in S : s.answers[t] \in AnswerRecords
  BY DEF SheetRecords
<1>2. PICK as : as = [t \in S |-> IF s.answers[t].retryOpen
                                  THEN [s.answers[t] EXCEPT !.retry = NoWindow]
                                  ELSE s.answers[t]]
  OBVIOUS
<1>3. ASSUME NEW t \in S
      PROVE  /\ as[t] \in AnswerRecords
             /\ as[t].sub = s.answers[t].sub /\ as[t].retrySub = s.answers[t].retrySub
             /\ as[t].retry \in {NoWindow, s.answers[t].retry}
  <2>1. PICK a : a = s.answers[t]
    OBVIOUS
  <2>2. a \in AnswerRecords /\ NoWindow \in WindowsUpTo(RetryMs)
    BY <1>1, <2>1, R1Constants, WindowKinds1
  <2>3. as[t] = IF a.retryOpen THEN [a EXCEPT !.retry = NoWindow] ELSE a
    BY <1>2, <2>1
  <2>4. PICK b : b = as[t]
    OBVIOUS
  <2>5. /\ b \in AnswerRecords /\ b.sub = a.sub /\ b.retrySub = a.retrySub
        /\ b.retry \in {NoWindow, a.retry}
    BY <2>2, <2>3, <2>4 DEF AnswerRecords
  <2>6. QED
    BY <2>1, <2>4, <2>5
<1>4. as \in [S -> AnswerRecords] /\ DOMAIN as = S
  BY <1>2, <1>3
<1>5. r = [s EXCEPT !.phase = "grading", !.answers = as]
  BY <1>1, <1>2 DEF RetriesClosed
<1>6. /\ r \in SheetRecords(S, d) /\ r.answers = as /\ r.phase = "grading"
      /\ r.kind = s.kind /\ r.no = s.no /\ r.challenge = s.challenge /\ r.window = s.window
  BY <1>4, <1>5 DEF SheetRecords, SheetPhases
<1>7. Later(s, r)
  BY <1>1, <1>3, <1>4, <1>6 DEF Later
<1>8. Owing(r) = {}
  BY <1>6 DEF Owing
<1>9. \A b \in BOOLEAN : HeldBy(s, b) => HeldBy(r, b)
  BY <1>1, <1>3, <1>4, <1>6, WindowKinds1 DEF HeldBy
<1>10. QED
  BY <1>6, <1>7, <1>8, <1>9 DEF Proceeds

\* The windows as the tick finds them.
LEMMA AfterWindowsProceeds ==
    ASSUME NEW S, NEW d \in Nat, NEW s \in SheetRecords(S, d), NEW r, r = AfterWindows(s)
    PROVE  r \in SheetRecords(S, d) /\ Proceeds(s, r)
<1>1. CASE Running /\ SheetDue(s)
  <2>1. PICK c : c = Closed(s)
    OBVIOUS
  <2>2. c \in SheetRecords(S, d) /\ Proceeds(s, c) /\ c.phase = "grading"
    BY <1>1, <2>1, ClosedProceeds DEF SheetDue
  <2>3. r = c
    BY <1>1, <2>1, <2>2 DEF AfterWindows, RetryDue
  <2>4. QED
    BY <2>2, <2>3
<1>2. CASE ~(Running /\ SheetDue(s)) /\ RetryDue(s)
  <2>1. r = RetriesClosed(s) /\ s.phase = "retry"
    BY <1>2 DEF AfterWindows, RetryDue
  <2>2. QED
    BY <2>1, RetriesClosedProceeds
<1>3. CASE ~(Running /\ SheetDue(s)) /\ ~RetryDue(s)
  <2>1. r = s
    BY <1>3 DEF AfterWindows
  <2>2. QED
    BY <2>1, ProceedsIsAnOrder
<1>4. QED
  BY <1>1, <1>2, <1>3

-----------------------------------------------------------------------------
(* What a pause, a resume and the clock do to a sheet. *)

\* A sheet's windows all move on, and nothing else does.
LEMMA WindowsMoveOn ==
    ASSUME NEW S, NEW d \in Nat, NEW s \in SheetRecords(S, d),
           NEW event \in {"pause", "resume", "tick"}, NEW r, r = WithWindows(s, event)
    PROVE  /\ r \in SheetRecords(S, d) /\ Later(s, r) /\ r.phase = s.phase
           /\ Owing(r) = Owing(s)
           /\ r.window = WindowAfter(event, s.window)
           /\ DOMAIN r.answers = S
           /\ \A t \in S : r.answers[t].retry = WindowAfter(event, s.answers[t].retry)
<1>1. DOMAIN s.answers = S /\ (\A t \in S : s.answers[t] \in AnswerRecords)
      /\ s.window \in WindowsUpTo(d)
  BY DEF SheetRecords
<1>2. PICK as : as = [t \in S |-> WithRetry(s.answers[t], event)]
  OBVIOUS
<1>3. ASSUME NEW t \in S
      PROVE  /\ as[t] \in AnswerRecords /\ SameEnd(s.answers[t], as[t])
             /\ as[t].retryOpen = s.answers[t].retryOpen
             /\ as[t].retry = WindowAfter(event, s.answers[t].retry)
  <2>1. PICK a : a = s.answers[t]
    OBVIOUS
  <2>2. a \in AnswerRecords
    BY <1>1, <2>1
  <2>3. PICK w : w = WindowAfter(event, a.retry)
    OBVIOUS
  <2>4. w \in WindowsUpTo(RetryMs)
    BY <2>2, <2>3, R1Constants, WindowAfterFacts DEF AnswerRecords
  <2>5. PICK b : b = as[t]
    OBVIOUS
  <2>6. b = [a EXCEPT !.retry = w]
    BY <1>2, <2>1, <2>3, <2>5 DEF WithRetry
  <2>7. /\ b \in AnswerRecords /\ b.sub = a.sub /\ b.retrySub = a.retrySub
        /\ b.ruling = a.ruling /\ b.retryRuling = a.retryRuling /\ b.awarded = a.awarded
        /\ b.retryOpen = a.retryOpen /\ b.retry = w
    BY <2>2, <2>4, <2>6 DEF AnswerRecords
  <2>8. QED
    BY <2>1, <2>3, <2>5, <2>7 DEF SameEnd
<1>4. as \in [S -> AnswerRecords] /\ DOMAIN as = S
  BY <1>2, <1>3
<1>5. PICK w : w = WindowAfter(event, s.window)
  OBVIOUS
<1>6. w \in WindowsUpTo(d)
  BY <1>1, <1>5, WindowAfterFacts
<1>7. r = [s EXCEPT !.window = w, !.answers = as]
  BY <1>1, <1>2, <1>5 DEF WithWindows
<1>8. /\ r \in SheetRecords(S, d) /\ r.answers = as /\ r.window = w /\ r.phase = s.phase
      /\ r.kind = s.kind /\ r.no = s.no /\ r.challenge = s.challenge
  BY <1>4, <1>6, <1>7 DEF SheetRecords
<1>9. Later(s, r)
  BY <1>1, <1>3, <1>4, <1>8 DEF Later, SameEnd
<1>10. Owing(r) = Owing(s)
  <2>1. DOMAIN r.answers = S /\ DOMAIN s.answers = S /\ r.phase = s.phase
    BY <1>1, <1>4, <1>8
  <2>2. ASSUME NEW t \in S
        PROVE  /\ r.answers[t].sub = s.answers[t].sub
               /\ r.answers[t].retrySub = s.answers[t].retrySub
               /\ r.answers[t].retryOpen = s.answers[t].retryOpen
    BY <1>3, <1>8 DEF SameEnd
  <2>3. QED
    BY <2>1, <2>2 DEF Owing
<1>11. QED
  BY <1>3, <1>4, <1>5, <1>8, <1>9, <1>10

\* They stay tied to the pause.
LEMMA WindowsMoveOnTied ==
    ASSUME NEW S, NEW d \in Nat, NEW s \in SheetRecords(S, d), HeldBy(s, Paused),
           NEW event \in {"pause", "resume", "tick"}, NEW r, r = WithWindows(s, event),
           event = "pause" => Paused', event = "resume" => ~Paused',
           event = "tick" => (Paused' <=> Paused)
    PROVE  HeldBy(r, Paused')
<1>1. DOMAIN s.answers = S /\ (\A t \in S : s.answers[t] \in AnswerRecords)
      /\ s.window \in WindowsUpTo(d)
  BY DEF SheetRecords
<1>2. PICK b \in BOOLEAN : b = Paused'
  BY DEF Paused
<1>3. /\ DOMAIN r.answers = S /\ r.window = WindowAfter(event, s.window)
      /\ \A t \in S : r.answers[t].retry = WindowAfter(event, s.answers[t].retry)
  BY WindowsMoveOn
<1>4. ASSUME NEW e \in Nat, NEW w \in WindowsUpTo(e), FollowsPause(w, Paused)
      PROVE  FollowsPause(WindowAfter(event, w), Paused')
  BY <1>4, WindowFollowsOn
<1>5. FollowsPause(r.window, Paused')
  BY <1>1, <1>3, <1>4 DEF HeldBy
<1>6. ASSUME NEW t \in S PROVE FollowsPause(r.answers[t].retry, Paused')
  <2>1. s.answers[t].retry \in WindowsUpTo(RetryMs) /\ FollowsPause(s.answers[t].retry, Paused)
    BY <1>1 DEF HeldBy, AnswerRecords
  <2>2. PICK w : w = s.answers[t].retry
    OBVIOUS
  <2>3. FollowsPause(WindowAfter(event, w), Paused')
    BY <1>4, <2>1, <2>2, R1Constants
  <2>4. QED
    BY <1>3, <2>2, <2>3
<1>7. QED
  BY <1>3, <1>5, <1>6 DEF HeldBy

-----------------------------------------------------------------------------
(* The parts of a step. *)

\* The windows of the round are those of the sheets and the peek's.
LEMMA HeldTogether ==
    WindowsFollowPause <=>
        HeldBy(question, Paused) /\ HeldBy(attempt, Paused) /\ FollowsPause(maco.window, Paused)
  BY DEF WindowsFollowPause, Windowed, HeldBy

LEMMA HeldTogetherNext ==
    WindowsFollowPause' <=>
        /\ HeldBy(question', Paused') /\ HeldBy(attempt', Paused')
        /\ FollowsPause(maco'.window, Paused')
<1>1. (WindowsFollowPause <=>
        HeldBy(question, Paused) /\ HeldBy(attempt, Paused) /\ FollowsPause(maco.window, Paused))'
  BY HeldTogether, PTL
<1>2. QED
  BY <1>1 DEF HeldBy, FollowsPause

\* What a step makes of the game around the round.
FlowGoesOn ==
    /\ GoesOn
    /\ started => started' /\ roundIndex' >= roundIndex

\* Of the sheets, where none is new and the question is not revealed.
SheetsGoOn ==
    /\ question' \in SheetRecords(Teams, QuestionMs) /\ Later(question, question')
    /\ question'.phase = "revealed" => question.phase = "revealed"
    /\ attempt' \in SheetRecords(DOMAIN attempt.answers, TiebreakMs) /\ Later(attempt, attempt')
    /\ attempt'.phase # "retry"
    /\ points' = points /\ drawn' \in drawn..MaxTiebreaks
    /\ \A v \in verdicts' : v.verdict \in Verdicts

\* And of the peek.
MacoGoesOn ==
    /\ maco' \in MacoRecords
    /\ maco'.target # None => /\ maco'.target = maco.target /\ maco'.viewer = maco.viewer
                              /\ maco'.question = maco.question

\* A sheet is what it was, further on, or a new one.
LaterOrNew(s, r) == Later(s, r) \/ r.no > s.no

StepsOn == LaterOrNew(question, question') /\ LaterOrNew(attempt, attempt')

\* What stands still goes on.
LEMMA SheetsStand ==
    ASSUME R1Inv, UNCHANGED <<question, attempt, points, drawn, verdicts>>
    PROVE  SheetsGoOn
<1>1. drawn \in drawn..MaxTiebreaks
  BY R1Constants DEF R1Inv, SheetsInv
<1>2. QED
  BY <1>1, ProceedsIsAnOrder DEF R1Inv, SheetsInv, SheetsGoOn, Proceeds

LEMMA MacoStands ==
    ASSUME R1Inv, maco' \in {maco, NoMaco}
    PROVE  MacoGoesOn
<1>1. NoMaco \in MacoRecords /\ NoMaco.target = None
  BY R1Constants, WindowKinds1 DEF NoMaco, MacoRecords
<1>2. QED
  BY <1>1 DEF R1Inv, SheetsInv, MacoGoesOn

LEMMA FlowStands ==
    ASSUME R1Inv, UNCHANGED vars
    PROVE  FlowGoesOn /\ (Paused' <=> Paused)
<1>1. FlowInv'
  BY NextFlow DEF R1Inv
<1>2. QED
  BY <1>1 DEF R1Inv, FlowInv, TypeOK, FlowGoesOn, GoesOn, Paused, vars, flowVars, playVars

\* Sheets that go on keep what holds of them.
LEMMA SheetsGoOnSoundly ==
    ASSUME R1Inv, FlowGoesOn, SheetsGoOn, maco' \in MacoRecords,
           nominee' \in [Teams -> [Difficulties -> Players \cup {None}]]
    PROVE  SheetsInv' /\ ScoredAsRuled' /\ StepsOn
<1>1. /\ question \in SheetRecords(Teams, QuestionMs) /\ DOMAIN question.answers = Teams
      /\ question' \in SheetRecords(Teams, QuestionMs) /\ DOMAIN question'.answers = Teams
  BY DEF R1Inv, SheetsInv, SheetsGoOn, SheetRecords
<1>2. DOMAIN attempt'.answers = DOMAIN attempt.answers
  BY DEF SheetsGoOn, Later
<1>3. /\ challenge.id \in Nat /\ challenge'.id \in Nat /\ challenge'.id >= challenge.id
      /\ MaxChallenges \in Nat /\ challenge.id <= MaxChallenges
      /\ settlements \in [1..MaxChallenges -> Nat] /\ settlements' \in [1..MaxChallenges -> Nat]
      /\ \A c \in 1..MaxChallenges : settlements'[c] >= settlements[c]
  BY GameFlowAssumption DEF GameFlowAssumption, R1Inv, FlowInv, TypeOK, FlowGoesOn, GoesOn
<1>4. question.challenge \in Nat /\ question.no \in Nat
  BY <1>1 DEF SheetRecords
<1>5. SheetsInv'
  <2>1. /\ question'.kind = "question" /\ question'.no <= Questions
        /\ question'.challenge <= challenge'.id
        /\ question'.phase = "pending" <=> question'.no = 0
        /\ question'.no > 0 => question'.challenge > 0
    BY <1>3, <1>4 DEF R1Inv, SheetsInv, SheetsGoOn, Later
  <2>2. /\ DOMAIN attempt'.answers \subseteq Teams
        /\ attempt' \in SheetRecords(DOMAIN attempt'.answers, TiebreakMs)
        /\ attempt'.kind = "tiebreak"
        /\ attempt'.phase = "pending" <=> attempt'.no = 0
        /\ attempt'.phase # "retry"
    BY <1>2 DEF R1Inv, SheetsInv, SheetsGoOn, Later
  <2>3. points' \in [Teams -> Nat] /\ drawn' \in 0..MaxTiebreaks /\ attempt'.no <= drawn'
    <3>1. drawn \in Nat /\ drawn' \in drawn..MaxTiebreaks /\ MaxTiebreaks \in Nat
      BY R1Constants DEF R1Inv, SheetsInv, SheetsGoOn
    <3>2. attempt'.no = attempt.no /\ attempt.no \in Nat /\ attempt.no <= drawn
      BY DEF R1Inv, SheetsInv, SheetsGoOn, Later, SheetRecords
    <3>3. points' \in [Teams -> Nat]
      BY DEF R1Inv, SheetsInv, SheetsGoOn
    <3>4. QED
      BY <3>1, <3>2, <3>3
  <2>4. \A v \in verdicts' : v.verdict \in Verdicts
    BY DEF SheetsGoOn
  <2>5. QED
    BY <1>1, <2>1, <2>2, <2>3, <2>4 DEF SheetsInv, SheetRecords, AnswerRecords, MacoRecords
<1>6. ScoredAsRuled'
  <2> SUFFICES ASSUME question'.phase = "revealed" PROVE ScoredAsRuled'
    BY DEF ScoredAsRuled
  <2>1. question.phase = "revealed" /\ ScoredAsRuled
    BY DEF R1Inv, SheetsGoOn
  <2>2. question.no > 0 /\ question.challenge \in 1..MaxChallenges
        /\ question'.challenge = question.challenge
    BY <1>3, <1>4, <2>1 DEF R1Inv, SheetsInv, SheetsGoOn, Later
  <2>3. settlements'[question'.challenge] > 0
    BY <1>3, <2>1, <2>2 DEF ScoredAsRuled
  <2>4. ASSUME NEW t \in Teams
        PROVE  question'.answers[t].awarded > 0 <=> t \in Winners(question')
    <3>1. SameEnd(question.answers[t], question'.answers[t])
      BY <1>1, <2>1 DEF SheetsGoOn, Later
    <3>2. t \in Winners(question') <=> t \in Winners(question)
      BY <1>1, <3>1 DEF Winners, FinalVerdict, SameEnd
    <3>3. QED
      BY <2>1, <3>1, <3>2 DEF ScoredAsRuled, SameEnd
  <2>5. QED
    BY <2>3, <2>4 DEF ScoredAsRuled, Winners
<1>7. QED
  BY <1>5, <1>6 DEF SheetsGoOn, StepsOn, LaterOrNew

\* A peek goes on with the question it is at.
LEMMA PeekGoesOn ==
    ASSUME R1Inv, SheetsGoOn, MacoGoesOn, nominee' = nominee
    PROVE  PeekIsSound'
<1> SUFFICES ASSUME maco'.target # None PROVE PeekIsSound'
  BY DEF PeekIsSound
<1>1. /\ maco'.target = maco.target /\ maco'.viewer = maco.viewer
      /\ maco'.question = maco.question /\ PeekIsSound
      /\ maco.target \in Teams
  BY DEF R1Inv, MacoGoesOn, SheetsInv, MacoRecords
<1>2. /\ question'.no = question.no /\ question'.kind = question.kind
      /\ question'.phase \in SheetPhases
      /\ question.phase \in {"open", "grading", "retry"}
      /\ question'.phase = "pending" <=> question.phase = "pending"
      /\ question'.phase = "revealed" => question.phase = "revealed"
  BY <1>1 DEF R1Inv, SheetsGoOn, Later, SheetRecords, PeekIsSound
<1>3. question'.answers[maco.target].sub # NoAnswer
  BY <1>1 DEF R1Inv, SheetsGoOn, Later, SheetsInv, SheetRecords, PeekIsSound
<1>4. LevelOf(question') = LevelOf(question)
  BY <1>2 DEF LevelOf
<1>5. QED
  BY <1>1, <1>2, <1>3, <1>4 DEF PeekIsSound, SheetPhases, LevelOf

\* The round stays where it is.
LEMMA StageGoesOn ==
    ASSUME R1Inv, FlowGoesOn, SheetsGoOn, UNCHANGED <<r1Phase, standing, r1Winner>>
    PROVE  StageInv'
<1>1. roundIndex \in Nat /\ roundIndex' \in Nat
  BY DEF R1Inv, FlowInv, TypeOK, FlowGoesOn, GoesOn
<1>2. /\ r1Phase # "off" => started' /\ roundIndex' > 0
  BY <1>1 DEF R1Inv, StageInv, FlowGoesOn
<1>3. /\ question'.no = question.no /\ attempt'.no = attempt.no
      /\ question.phase = "revealed" => question'.phase = "revealed"
      /\ attempt.phase = "revealed" => attempt'.phase = "revealed"
      /\ DOMAIN attempt'.answers = DOMAIN attempt.answers
  BY DEF SheetsGoOn, Later
<1>4. QED
  BY <1>2, <1>3 DEF R1Inv, StageInv

\* So the whole goes on.
LEMMA AllGoesOn ==
    ASSUME R1Inv, FlowGoesOn, SheetsGoOn, MacoGoesOn, OwedAnswersAwaited', WindowsFollowPause',
           UNCHANGED <<r1Phase, nominee, standing, r1Winner>>
    PROVE  R1Inv' /\ StepsOn
<1>1. nominee' \in [Teams -> [Difficulties -> Players \cup {None}]] /\ maco' \in MacoRecords
  BY DEF R1Inv, SheetsInv, MacoGoesOn
<1>2. SheetsInv' /\ ScoredAsRuled' /\ StepsOn
  BY <1>1, SheetsGoOnSoundly
<1>3. PeekIsSound' /\ StageInv'
  BY PeekGoesOn, StageGoesOn
<1>4. QED
  BY <1>2, <1>3 DEF R1Inv, FlowGoesOn, GoesOn

\* The windows of sheets that proceed stay tied.
LEMMA WindowsProceed ==
    ASSUME R1Inv, Proceeds(question, question'), Proceeds(attempt, attempt'),
           maco' \in {maco, NoMaco}, Paused' <=> Paused
    PROVE  WindowsFollowPause'
<1>1. HeldBy(question, Paused) /\ HeldBy(attempt, Paused) /\ FollowsPause(maco.window, Paused)
  BY HeldTogether DEF R1Inv
<1>2. HeldBy(question, Paused') /\ HeldBy(attempt, Paused')
  BY <1>1 DEF HeldBy, FollowsPause
<1>3. Paused' \in BOOLEAN
  BY DEF Paused
<1>4. HeldBy(question', Paused') /\ HeldBy(attempt', Paused')
  BY <1>2, <1>3 DEF Proceeds
<1>5. FollowsPause(maco'.window, Paused')
  BY <1>1, WindowKinds1 DEF FollowsPause, NoMaco, NoWindow, Exists
<1>6. QED
  BY <1>4, <1>5, HeldTogetherNext

\* Who owes an answer is a nominee of the sheet.
LEMMA OwingAreAwaited ==
    ASSUME R1Inv, NEW q, q.phase \in {"open", "retry"}, NEW a,
           NEW t \in Owing(q), t \in Teams, NEW p \in members[t], nominee[t][LevelOf(q)] = p
    PROVE  p \in WaitsFor(q, a)
<1>1. p \in Players /\ p # None
  BY R1Constants DEF R1Inv, FlowInv, TypeOK
<1>2. p \in NomineesOf(q)
  BY <1>1 DEF NomineesOf
<1>3. QED
  BY <1>2 DEF WaitsFor, MembersOf

\* After a handler that tells the engine whom the question waits for.
LEMMA OwedOnceTold ==
    ASSUME R1Inv, UNCHANGED <<nominee, members>>, NEW a, active' = WaitsFor(question', a),
           DOMAIN question'.answers = Teams
    PROVE  OwedAnswersAwaited'
<1> SUFFICES ASSUME NEW t \in Teams, NEW p \in Players, YouMaySubmit(t, p)'
             PROVE  p \in active'
  BY DEF OwedAnswersAwaited
<1>1. PICK q : q = question'
  OBVIOUS
<1>2. p \in members[t] /\ nominee[t][LevelOf(q)] = p /\ t \in Owing(q)
  BY <1>1 DEF YouMaySubmit, IsNominee, LevelOf, Owing
<1>3. q.phase \in {"open", "retry"}
  BY <1>2 DEF Owing
<1>4. p \in WaitsFor(q, a)
  BY <1>2, <1>3, OwingAreAwaited
<1>5. QED
  BY <1>1, <1>4

\* A question that waits for nobody new goes on waiting for those it waited for,
\* unless they are gone or it is settled.
LEMMA OwedStill ==
    ASSUME R1Inv, GoesOn, nominee' = nominee,
           question'.no = question.no, question'.kind = question.kind,
           question'.challenge = question.challenge, Owing(question') \subseteq Owing(question),
           \/ \A t \in Teams : members'[t] \subseteq members[t] /\ members'[t] \cap active \subseteq active'
           \/ question.no > 0 => settlements'[question.challenge] > 0
    PROVE  OwedAnswersAwaited'
<1> SUFFICES ASSUME question'.no > 0, settlements'[question'.challenge] = 0,
                    NEW t \in Teams, NEW p \in Players, YouMaySubmit(t, p)'
             PROVE  p \in active'
  BY DEF OwedAnswersAwaited
<1>1. PICK q : q = question'
  OBVIOUS
<1>2. p \in members'[t] /\ nominee[t][LevelOf(q)] = p /\ t \in Owing(q)
  BY <1>1 DEF YouMaySubmit, IsNominee, LevelOf, Owing
<1>3. LevelOf(q) = LevelOf(question) /\ t \in Owing(question) /\ question.no > 0
  BY <1>1, <1>2 DEF LevelOf
<1>4. /\ challenge.id \in Nat /\ MaxChallenges \in Nat /\ challenge.id <= MaxChallenges
      /\ settlements \in [1..MaxChallenges -> Nat] /\ settlements' \in [1..MaxChallenges -> Nat]
      /\ \A c \in 1..MaxChallenges : settlements'[c] >= settlements[c]
      /\ question.challenge \in 1..MaxChallenges
  <2>1. challenge.id \in Nat /\ MaxChallenges \in Nat /\ challenge.id <= MaxChallenges
    BY GameFlowAssumption DEF GameFlowAssumption, R1Inv, FlowInv, TypeOK
  <2>2. /\ settlements \in [1..MaxChallenges -> Nat]
        /\ settlements' \in [1..MaxChallenges -> Nat]
        /\ \A c \in 1..MaxChallenges : settlements'[c] >= settlements[c]
    BY DEF R1Inv, FlowInv, TypeOK, GoesOn
  <2>3. /\ question.challenge \in Nat /\ question.challenge > 0
        /\ question.challenge <= challenge.id
    BY <1>3 DEF R1Inv, SheetsInv, SheetRecords
  <2>4. QED
    BY <2>1, <2>2, <2>3
<1>5. settlements'[question.challenge] = 0 /\ settlements[question.challenge] = 0
  BY <1>4
<1>6. p \in members[t] /\ members'[t] \cap active \subseteq active'
  BY <1>2, <1>3, <1>5
<1>7. YouMaySubmit(t, p)
  BY <1>2, <1>3, <1>6 DEF YouMaySubmit, IsNominee
<1>8. p \in active
  BY <1>3, <1>5, <1>7 DEF R1Inv, OwedAnswersAwaited
<1>9. QED
  BY <1>2, <1>6, <1>8

\* A handler that only tells the engine whom to wait for.
LEMMA OnlyActiveGoesOn ==
    ASSUME R1Inv, Running, NEW q, NEW a, OnlyActive(q, a)
    PROVE  /\ FlowGoesOn /\ (Paused' <=> Paused)
           /\ members' = members /\ active' = WaitsFor(q, a)
<1>1. /\ UNCHANGED <<now, started, phase, resumePhase, roundIndex, members, challenge,
                     settlements, turn, pausedBy, timerVars>>
      /\ active' = WaitsFor(q, a)
  BY DEF OnlyActive, ActiveAfter, flowVars
<1>2. phase \in Phases \ {"PAUSED"} /\ resumePhase = NoPhase
  BY DEF Running, Paused, R1Inv, FlowInv, TypeOK, PauseShape
<1>3. active' \subseteq UNION {members[t] : t \in Teams}
  BY <1>1 DEF WaitsFor, MembersOf
<1>4. FlowInv'
  BY <1>1, <1>2, <1>3, MovedGameKeepsFlow DEF R1Inv
<1>5. challenge.id \in Int /\ settlements \in [1..MaxChallenges -> Nat] /\ roundIndex \in Nat
  BY DEF R1Inv, FlowInv, TypeOK
<1>6. QED
  BY <1>1, <1>4, <1>5 DEF FlowGoesOn, GoesOn, Paused

-----------------------------------------------------------------------------
(* The handlers and the tick, which take the sheets one step on. *)

\* Where both sheets proceed and the game stands still, or is told whom to wait for.
LEMMA SheetsProceed ==
    ASSUME R1Inv,
           question' \in SheetRecords(Teams, QuestionMs), Proceeds(question, question'),
           attempt' \in SheetRecords(DOMAIN attempt.answers, TiebreakMs),
           Proceeds(attempt, attempt'),
           maco' \in {maco, NoMaco}, \A v \in verdicts' : v.verdict \in Verdicts,
           UNCHANGED <<r1Phase, nominee, points, standing, r1Winner, drawn>>,
           \/ UNCHANGED vars
           \/ Running /\ \E a : OnlyActive(question', a)
           \/ Running /\ Owing(question') = {} /\ \E q, a : OnlyActive(q, a)
    PROVE  R1Inv' /\ StepsOn
<1>1. FlowGoesOn /\ (Paused' <=> Paused)
  <2>1. ASSUME Running, NEW q, NEW a, OnlyActive(q, a)
        PROVE  FlowGoesOn /\ (Paused' <=> Paused)
    BY <2>1, OnlyActiveGoesOn
  <2>2. CASE UNCHANGED vars
    BY <2>2, FlowStands
  <2>3. CASE Running /\ \E q, a : OnlyActive(q, a)
    BY <2>1, <2>3
  <2>4. QED
    BY <2>2, <2>3
<1>2. SheetsGoOn
  <2>1. attempt'.phase # "retry"
    BY DEF R1Inv, SheetsInv, Proceeds
  <2>2. drawn' \in drawn..MaxTiebreaks
    BY R1Constants DEF R1Inv, SheetsInv
  <2>3. QED
    BY <2>1, <2>2 DEF SheetsGoOn, Proceeds
<1>3. MacoGoesOn /\ WindowsFollowPause'
  BY <1>1, MacoStands, WindowsProceed
<1>4. OwedAnswersAwaited'
  <2>1. DOMAIN question'.answers = Teams
    BY DEF SheetRecords
  <2>2. /\ question'.no = question.no /\ question'.kind = question.kind
        /\ question'.challenge = question.challenge /\ Owing(question') \subseteq Owing(question)
    BY DEF Proceeds, Later
  <2>3. CASE UNCHANGED vars
    <3>1. members' = members /\ active' = active
      BY <2>3 DEF vars, playVars
    <3>2. QED
      BY <1>1, <2>2, <3>1, OwedStill DEF FlowGoesOn
  <2>4. ASSUME Running, NEW a, OnlyActive(question', a) PROVE OwedAnswersAwaited'
    BY <2>1, <2>4, OnlyActiveGoesOn, OwedOnceTold
  <2>5. ASSUME Owing(question') = {} PROVE OwedAnswersAwaited'
    <3>1. ASSUME NEW t \in Teams, NEW p \in Players PROVE ~YouMaySubmit(t, p)'
      <4>1. YouMaySubmit(t, p)' => t \in Owing(question')
        BY DEF YouMaySubmit, Owing
      <4>2. QED
        BY <2>5, <4>1
    <3>2. QED
      BY <3>1 DEF OwedAnswersAwaited
  <2>6. QED
    BY <2>3, <2>4, <2>5
<1>5. QED
  BY <1>1, <1>2, <1>3, <1>4, AllGoesOn

\* A sheet that stands still.
LEMMA SheetsAreSheets ==
    ASSUME R1Inv
    PROVE  /\ question \in SheetRecords(Teams, QuestionMs) /\ Proceeds(question, question)
           /\ attempt \in SheetRecords(DOMAIN attempt.answers, TiebreakMs)
           /\ Proceeds(attempt, attempt)
           /\ \A v \in verdicts : v.verdict \in Verdicts
           /\ QuestionMs \in Nat /\ TiebreakMs \in Nat
  BY ProceedsIsAnOrder, R1Constants DEF R1Inv, SheetsInv

LEMMA SubmitKeeps ==
    ASSUME R1Inv, NEW t \in Teams, NEW p \in Players, NEW a \in Typed, SubmitAnswer(t, p, a)
    PROVE  R1Inv' /\ StepsOn
<1>1. question' \in SheetRecords(Teams, QuestionMs) /\ Proceeds(question, question')
  BY SheetsAreSheets, AnswerProceeds DEF SubmitAnswer
<1>2. QED
  BY <1>1, SheetsAreSheets, SheetsProceed DEF SubmitAnswer, judgeVars

LEMMA SubmitTiebreakKeeps ==
    ASSUME R1Inv, NEW t \in Teams, NEW p \in Players, NEW a \in Typed,
           SubmitTiebreakAnswer(t, p, a)
    PROVE  R1Inv' /\ StepsOn
<1>1. t \in DOMAIN attempt.answers
  BY DEF SubmitTiebreakAnswer, TakesFirst
<1>2. /\ attempt' \in SheetRecords(DOMAIN attempt.answers, TiebreakMs)
      /\ Proceeds(attempt, attempt')
  BY <1>1, SheetsAreSheets, AnswerProceeds DEF SubmitTiebreakAnswer
<1>3. question' = question /\ OnlyActive(question', attempt')
  BY DEF SubmitTiebreakAnswer
<1>4. QED
  BY <1>2, <1>3, SheetsAreSheets, SheetsProceed DEF SubmitTiebreakAnswer, judgeVars

LEMMA CloseKeeps ==
    ASSUME R1Inv, CloseQuestion
    PROVE  R1Inv' /\ StepsOn
<1>1. PICK c : c = Closed(question)
  OBVIOUS
<1>2. c \in SheetRecords(Teams, QuestionMs) /\ Proceeds(question, c)
  BY <1>1, SheetsAreSheets, ClosedProceeds DEF CloseQuestion
<1>3. question' = Graded(c)
  BY <1>1 DEF CloseQuestion
<1>4. question' \in SheetRecords(Teams, QuestionMs) /\ Proceeds(c, question')
  BY <1>2, <1>3, GradedRules, RulingProceeds, R1Constants
<1>5. Proceeds(question, question')
  BY <1>2, <1>4, ProceedsIsAnOrder
<1>6. QED
  BY <1>4, <1>5, SheetsAreSheets, SheetsProceed DEF CloseQuestion

LEMMA RuleKeeps ==
    ASSUME R1Inv, NEW t \in Teams, NEW r \in BOOLEAN, NEW v \in {"CORRECT", "INCORRECT"},
           RuleAnswer(t, r, v)
    PROVE  R1Inv' /\ StepsOn
<1>0. v \in Verdicts /\ Current.phase # "revealed"
  BY DEF Verdicts, RuleAnswer, TakesRulings
<1>1. CASE InTiebreak
  <2>1. /\ attempt' = WithRuling(attempt, t, FALSE, v) /\ question' = question
        /\ t \in DOMAIN attempt.answers /\ attempt.phase # "revealed"
    BY <1>0, <1>1 DEF RuleAnswer, Current
  <2>2. /\ attempt' \in SheetRecords(DOMAIN attempt.answers, TiebreakMs)
        /\ Proceeds(attempt, attempt')
    BY <1>0, <2>1, SheetsAreSheets, WithRulingRules, RulingProceeds
  <2>3. QED
    BY <2>1, <2>2, SheetsAreSheets, SheetsProceed DEF RuleAnswer, judgeVars
<1>2. CASE ~InTiebreak
  <2>1. /\ question' = WithRuling(question, t, r, v) /\ attempt' = attempt
        /\ question.phase # "revealed"
    BY <1>0, <1>2 DEF RuleAnswer, Current
  <2>2. question' \in SheetRecords(Teams, QuestionMs) /\ Proceeds(question, question')
    BY <1>0, <2>1, SheetsAreSheets, WithRulingRules, RulingProceeds
  <2>3. QED
    BY <2>1, <2>2, SheetsAreSheets, SheetsProceed DEF RuleAnswer, judgeVars
<1>3. QED
  BY <1>1, <1>2

LEMMA JudgeKeeps ==
    ASSUME R1Inv, NEW k, NEW v \in Verdicts, JudgeAnswers(k, v)
    PROVE  R1Inv' /\ StepsOn
<1>1. \A w \in verdicts' : w.verdict \in Verdicts
  BY SheetsAreSheets DEF JudgeAnswers
<1>2. QED
  BY <1>1, SheetsAreSheets, SheetsProceed DEF JudgeAnswers, sheetVars

\* The tick: what the windows make of the sheets, and what is ruled then.
LEMMA TickKeeps ==
    ASSUME R1Inv, Tick
    PROVE  R1Inv' /\ StepsOn
<1>1. PICK q, a, graded :
          /\ q = AfterWindows(question)
          /\ a = IF SheetDue(attempt) THEN Closed(attempt) ELSE attempt
          /\ graded = Graded(IF InTiebreak THEN a ELSE q)
          /\ question' = IF InTiebreak THEN q ELSE Judged(graded)
          /\ attempt' = IF InTiebreak THEN Judged(graded) ELSE a
          /\ IF Running /\ SheetDue(question)
             THEN PeekOver /\ OnlyActive(q, attempt)
             ELSE /\ maco' = IF Due(maco.window) THEN NoMaco ELSE maco
                  /\ UNCHANGED vars
  BY DEF Tick
<1>2. q \in SheetRecords(Teams, QuestionMs) /\ Proceeds(question, q)
  BY <1>1, SheetsAreSheets, AfterWindowsProceeds
<1>3. a \in SheetRecords(DOMAIN attempt.answers, TiebreakMs) /\ Proceeds(attempt, a)
  BY <1>1, SheetsAreSheets, ClosedProceeds DEF SheetDue
<1>4. ASSUME NEW S, NEW d \in Nat, NEW s \in SheetRecords(S, d), NEW g, g = Graded(s)
      PROVE  Judged(g) \in SheetRecords(S, d) /\ Proceeds(s, Judged(g))
  <2>1. g \in SheetRecords(S, d) /\ Proceeds(s, g)
    BY <1>4, GradedRules, RulingProceeds
  <2>2. Judged(g) \in SheetRecords(S, d) /\ Proceeds(g, Judged(g))
    BY <2>1, SheetsAreSheets, JudgedRules, RulingProceeds
  <2>3. QED
    BY <2>1, <2>2, ProceedsIsAnOrder
<1>5. question' \in SheetRecords(Teams, QuestionMs) /\ Proceeds(q, question')
  BY <1>1, <1>2, <1>4, SheetsAreSheets, ProceedsIsAnOrder
<1>6. attempt' \in SheetRecords(DOMAIN attempt.answers, TiebreakMs) /\ Proceeds(a, attempt')
  BY <1>1, <1>3, <1>4, SheetsAreSheets, ProceedsIsAnOrder
<1>7. Proceeds(question, question') /\ Proceeds(attempt, attempt')
  BY <1>2, <1>3, <1>5, <1>6, ProceedsIsAnOrder
<1>8. \A w \in verdicts' : w.verdict \in Verdicts
  BY SheetsAreSheets DEF Tick
<1>9. CASE Running /\ SheetDue(question)
  <2>1. q.phase = "grading"
    <3>1. PICK c : c = Closed(question)
      OBVIOUS
    <3>2. c.phase = "grading"
      BY <1>9, <3>1, SheetsAreSheets, ClosedProceeds DEF SheetDue
    <3>3. QED
      BY <1>1, <1>9, <3>1, <3>2 DEF AfterWindows, RetryDue
  <2>2. Owing(question') = {}
    <3>1. Owing(q) = {}
      BY <2>1 DEF Owing
    <3>2. QED
      BY <1>5, <3>1 DEF Proceeds
  <2>3. maco' = NoMaco /\ OnlyActive(q, attempt)
    BY <1>1, <1>9 DEF PeekOver
  <2>4. QED
    BY <1>5, <1>6, <1>7, <1>8, <1>9, <2>2, <2>3, SheetsProceed DEF Tick
<1>10. CASE ~(Running /\ SheetDue(question))
  <2>1. maco' \in {maco, NoMaco} /\ UNCHANGED vars
    BY <1>1, <1>10
  <2>2. QED
    BY <1>5, <1>6, <1>7, <1>8, <2>1, SheetsProceed DEF Tick
<1>11. QED
  BY <1>9, <1>10

-----------------------------------------------------------------------------
(* What the Host does to the game around the round. *)

\* Whatever was asked before a challenge that is over is paid for.
LEMMA AllSettled ==
    ASSUME R1Inv, NoOpenChallenge, question.no > 0
    PROVE  settlements[question.challenge] > 0
<1>1. /\ challenge.id \in Nat /\ MaxChallenges \in Nat /\ challenge.id <= MaxChallenges
  BY GameFlowAssumption DEF GameFlowAssumption, R1Inv, FlowInv, TypeOK
<1>2. question.challenge \in Nat /\ question.challenge > 0 /\ question.challenge <= challenge.id
  BY DEF R1Inv, SheetsInv, SheetRecords
<1>3. /\ challenge.status # "none"
      /\ challenge.status = "resolved"
  BY <1>1, <1>2 DEF NoOpenChallenge, R1Inv, FlowInv, SettledInOrder
<1>4. question.challenge \in 1..MaxChallenges
  BY <1>1, <1>2
<1>5. question.challenge < challenge.id \/ question.challenge = challenge.id
  BY <1>1, <1>2
<1>6. QED
  BY <1>3, <1>4, <1>5 DEF R1Inv, FlowInv, SettledInOrder

\* Once the engine's challenge is resolved, so is what was asked before.
LEMMA ResolvedIsSettled ==
    ASSUME R1Inv, ResolveChallenge, question.no > 0
    PROVE  settlements'[question.challenge] > 0
<1>1. /\ challenge.id \in Nat /\ MaxChallenges \in Nat /\ challenge.id <= MaxChallenges
      /\ settlements \in [1..MaxChallenges -> Nat]
  BY GameFlowAssumption DEF GameFlowAssumption, R1Inv, FlowInv, TypeOK
<1>2. question.challenge \in Nat /\ question.challenge > 0 /\ question.challenge <= challenge.id
  BY DEF R1Inv, SheetsInv, SheetRecords
<1>3. PICK c \in 1..MaxChallenges : c = question.challenge
  BY <1>1, <1>2
<1>4. settlements'[c] = IF c = challenge.id THEN settlements[c] + 1 ELSE settlements[c]
  BY ResolveSettles DEF R1Inv, FlowInv
<1>5. settlements[c] \in Nat
  BY <1>1
<1>6. c < challenge.id => settlements[c] > 0
  BY DEF R1Inv, FlowInv, SettledInOrder
<1>7. c < challenge.id \/ c = challenge.id
  BY <1>1, <1>2, <1>3
<1>8. QED
  BY <1>3, <1>4, <1>5, <1>6, <1>7

\* The Host's moves leave the game sound, the pause alone, and nobody who is
\* awaited behind.
LEMMA HostMovesGoOn ==
    ASSUME R1Inv, HostMoves
    PROVE  /\ FlowGoesOn /\ (Paused' <=> Paused)
           /\ \/ \A t \in Teams : members'[t] \subseteq members[t]
                                  /\ members'[t] \cap active \subseteq active'
              \/ question.no > 0 => settlements'[question.challenge] > 0
<1>1. PlainStep
  BY DEF HostMoves, PlainStep
<1>2. TypeOK /\ Next /\ (Paused' <=> Paused)
  BY <1>1, PlainStepFacts DEF R1Inv, FlowInv
<1>3. FlowInv'
  BY <1>2, NextFlow DEF R1Inv
<1>4. GoesOn
  BY <1>2, <1>3, NothingIsTakenBack DEF GoesOn
<1>5. roundIndex \in Nat
  BY <1>2 DEF TypeOK
<1>6. started' = started /\ roundIndex' >= roundIndex
  BY <1>5 DEF HostMoves, AdvancePhase, PrepareChallenge, StartChallenge, RequestReview,
     ResolveChallenge, RemoveMember, flowVars
<1>7. \/ \A t \in Teams : members'[t] \subseteq members[t]
                          /\ members'[t] \cap active \subseteq active'
      \/ question.no > 0 => settlements'[question.challenge] > 0
  <2>1. CASE \/ \E to \in Phases : AdvancePhase(to)
             \/ StartChallenge
             \/ RequestReview
    <3>1. members' = members /\ active' = active
      BY <2>1 DEF AdvancePhase, StartChallenge, RequestReview, playVars
    <3>2. QED
      BY <3>1
  <2>2. ASSUME NEW p \in Players, RemoveMember(p)
        PROVE  \A t \in Teams : members'[t] \subseteq members[t]
                                /\ members'[t] \cap active \subseteq active'
    <3>1. members' = [t \in Teams |-> members[t] \ {p}] /\ active' = active \ {p}
      BY <2>2 DEF RemoveMember
    <3>2. QED
      BY <3>1
  <2>3. CASE PrepareChallenge
    <3>1. NoOpenChallenge /\ settlements' = settlements
      BY <2>3 DEF PrepareChallenge
    <3>2. QED
      BY <3>1, AllSettled
  <2>4. CASE ResolveChallenge
    BY <2>4, ResolvedIsSettled
  <2>5. QED
    BY <2>1, <2>2, <2>3, <2>4 DEF HostMoves
<1>8. QED
  BY <1>2, <1>4, <1>6, <1>7 DEF FlowGoesOn

LEMMA HostMovesKeep ==
    ASSUME R1Inv, HostMoves, UNCHANGED r1Vars
    PROVE  R1Inv' /\ StepsOn
<1>1. /\ UNCHANGED <<question, attempt, points, maco, drawn, verdicts>>
      /\ UNCHANGED <<r1Phase, nominee, standing, r1Winner>>
  BY DEF r1Vars, sheetVars, judgeVars
<1>2. FlowGoesOn /\ (Paused' <=> Paused)
  BY HostMovesGoOn
<1>3. SheetsGoOn /\ MacoGoesOn
  BY <1>1, SheetsStand, MacoStands
<1>4. WindowsFollowPause'
  BY <1>1, <1>2, SheetsAreSheets, WindowsProceed
<1>5. OwedAnswersAwaited'
  <2>1. Owing(question') \subseteq Owing(question)
    BY <1>1
  <2>2. QED
    BY <1>1, <1>2, <2>1, HostMovesGoOn, OwedStill DEF FlowGoesOn
<1>6. QED
  BY <1>1, <1>2, <1>3, <1>4, <1>5, AllGoesOn

\* The refused handlers do no more.
LEMMA RefusedKeep ==
    ASSUME R1Inv, NextQuestionRefused \/ RevealRefused
    PROVE  R1Inv' /\ StepsOn
<1>1. "CHALLENGE_INTRO" \in Phases /\ "HOST_REVIEW" \in Phases
  BY PhaseNames
<1>2. HostMoves /\ UNCHANGED r1Vars
  BY <1>1 DEF NextQuestionRefused, RevealRefused, HostMoves
<1>3. QED
  BY <1>2, HostMovesKeep

-----------------------------------------------------------------------------
(* The pause, the resume and the clock. *)

\* The pause and the resume, as the round sees them.
LEMMA OverlayGoesOn ==
    ASSUME R1Inv, GamePauses \/ Resume
    PROVE  /\ FlowGoesOn /\ UNCHANGED <<members, active>>
           /\ (GamePauses => Paused') /\ (Resume => ~Paused')
<1>1. TypeOK /\ PauseShape
  BY DEF R1Inv, FlowInv
<1>2. Next
  BY DEF GamePauses, Next
<1>3. GamePauses => \E by : Pause(by)
  BY DEF GamePauses, HostPause, ActivePlayerDisconnect
<1>4. UNCHANGED <<started, roundIndex, members, active>>
  BY <1>3 DEF Pause, Resume, playVars
<1>5. GoesOn
  BY <1>1, <1>2, NextFlow, NothingIsTakenBack DEF GoesOn, R1Inv
<1>6. roundIndex \in Nat
  BY <1>1 DEF TypeOK
<1>7. FlowGoesOn
  BY <1>4, <1>5, <1>6 DEF FlowGoesOn
<1>8. GamePauses => Paused'
  BY <1>3, OverlayFacts
<1>9. Resume => ~Paused'
  BY <1>1, OverlayFacts
<1>10. QED
  BY <1>4, <1>7, <1>8, <1>9

LEMMA EveryWindowKeeps ==
    ASSUME R1Inv, NEW event \in {"pause", "resume", "tick"}, EveryWindow(event), FlowGoesOn,
           UNCHANGED <<members, active>>,
           event = "pause" => Paused', event = "resume" => ~Paused',
           event = "tick" => (Paused' <=> Paused)
    PROVE  R1Inv' /\ StepsOn
<1>1. /\ question' = WithWindows(question, event) /\ attempt' = WithWindows(attempt, event)
      /\ maco' = [maco EXCEPT !.window = WindowAfter(event, maco.window)]
      /\ UNCHANGED <<r1Phase, nominee, points, standing, r1Winner, drawn, verdicts>>
  BY DEF EveryWindow, judgeVars
<1>2. /\ question' \in SheetRecords(Teams, QuestionMs) /\ Later(question, question')
      /\ question'.phase = question.phase /\ Owing(question') = Owing(question)
  BY <1>1, SheetsAreSheets, WindowsMoveOn
<1>3. /\ attempt' \in SheetRecords(DOMAIN attempt.answers, TiebreakMs)
      /\ Later(attempt, attempt') /\ attempt'.phase = attempt.phase
  BY <1>1, SheetsAreSheets, WindowsMoveOn
<1>4. SheetsGoOn
  <2>1. drawn \in drawn..MaxTiebreaks /\ attempt.phase # "retry"
    BY R1Constants DEF R1Inv, SheetsInv
  <2>2. QED
    BY <1>1, <1>2, <1>3, <2>1, SheetsAreSheets DEF SheetsGoOn
<1>5. HeldBy(question, Paused) /\ HeldBy(attempt, Paused) /\ FollowsPause(maco.window, Paused)
  BY HeldTogether DEF R1Inv
<1>6. PICK w : w = WindowAfter(event, maco.window)
  OBVIOUS
<1>7. maco \in MacoRecords /\ maco.window \in WindowsUpTo(MacoMs)
  BY DEF R1Inv, SheetsInv, MacoRecords
<1>8. w \in WindowsUpTo(MacoMs) /\ FollowsPause(w, Paused')
  BY <1>5, <1>6, <1>7, R1Constants, WindowFollowsOn
<1>9. maco' = [maco EXCEPT !.window = w]
  BY <1>1, <1>6
<1>10. /\ maco' \in MacoRecords /\ maco'.window = w /\ maco'.target = maco.target
       /\ maco'.viewer = maco.viewer /\ maco'.question = maco.question
  BY <1>7, <1>8, <1>9 DEF MacoRecords
<1>11. MacoGoesOn
  BY <1>10 DEF MacoGoesOn
<1>12. HeldBy(question', Paused') /\ HeldBy(attempt', Paused')
  BY <1>1, <1>5, SheetsAreSheets, WindowsMoveOnTied
<1>13. WindowsFollowPause'
  BY <1>8, <1>10, <1>12, HeldTogetherNext
<1>14. OwedAnswersAwaited'
  <2>1. /\ question'.no = question.no /\ question'.kind = question.kind
        /\ question'.challenge = question.challenge
    BY <1>2 DEF Later
  <2>2. \A t \in Teams : members'[t] \subseteq members[t]
                         /\ members'[t] \cap active \subseteq active'
    OBVIOUS
  <2>3. QED
    BY <1>1, <1>2, <2>1, <2>2, OwedStill DEF FlowGoesOn
<1>15. QED
  BY <1>1, <1>4, <1>11, <1>13, <1>14, AllGoesOn

LEMMA OverlayKeeps ==
    ASSUME R1Inv, PauseRound1 \/ ResumeRound1 \/ TimePasses
    PROVE  R1Inv' /\ StepsOn
<1>1. CASE PauseRound1
  BY <1>1, OverlayGoesOn, EveryWindowKeeps DEF PauseRound1
<1>2. CASE ResumeRound1
  BY <1>2, OverlayGoesOn, EveryWindowKeeps DEF ResumeRound1
<1>3. CASE TimePasses
  <2>1. UNCHANGED vars /\ EveryWindow("tick") /\ UNCHANGED <<members, active>>
    BY <1>3 DEF TimePasses, vars, playVars
  <2>2. QED
    BY <2>1, FlowStands, EveryWindowKeeps
<1>4. QED
  BY <1>1, <1>2, <1>3

-----------------------------------------------------------------------------
(* The Host opens the round. *)

\* Nothing has been asked, so nothing is owed, peeked at or scored.
LEMMA OpeningKeeps ==
    ASSUME R1Inv, FlowGoesOn, Paused' <=> Paused, question.no = 0,
           UNCHANGED <<sheetVars, standing, r1Winner, drawn, judgeVars>>,
           nominee' \in [Teams -> [Difficulties -> Players \cup {None}]], StageInv'
    PROVE  R1Inv' /\ StepsOn
<1>1. UNCHANGED <<question, attempt, points, maco, drawn, verdicts>>
  BY DEF sheetVars, judgeVars
<1>2. SheetsGoOn
  BY <1>1, SheetsStand
<1>3. maco' \in MacoRecords
  BY <1>1 DEF R1Inv, SheetsInv
<1>4. SheetsInv' /\ ScoredAsRuled' /\ StepsOn
  BY <1>2, <1>3, SheetsGoOnSoundly
<1>5. WindowsFollowPause'
  BY <1>1, SheetsAreSheets, WindowsProceed
<1>6. question.phase = "pending"
  BY DEF R1Inv, SheetsInv
<1>7. PeekIsSound'
  BY <1>1, <1>6 DEF R1Inv, PeekIsSound
<1>8. OwedAnswersAwaited'
  BY <1>1 DEF OwedAnswersAwaited
<1>9. QED
  BY <1>4, <1>5, <1>7, <1>8 DEF R1Inv, FlowGoesOn, GoesOn

LEMMA StartGameKeeps ==
    ASSUME R1Inv, StartGameInRoom
    PROVE  R1Inv' /\ StepsOn
<1>1. PlainStep /\ StartGame /\ ~started
  BY DEF StartGameInRoom, StartGame, PlainStep
<1>2. TypeOK /\ Next /\ (Paused' <=> Paused)
  BY <1>1, PlainStepFacts DEF R1Inv, FlowInv
<1>3. GoesOn
  BY <1>2, NextFlow, NothingIsTakenBack DEF GoesOn, R1Inv
<1>4. FlowGoesOn
  BY <1>1, <1>3 DEF FlowGoesOn
<1>5. r1Phase = "off" /\ question.no = 0 /\ attempt.no = 0 /\ standing = {} /\ r1Winner = None
  BY <1>1 DEF R1Inv, StageInv, SheetsInv, SheetRecords
<1>6. /\ UNCHANGED <<question, attempt, standing, r1Winner>>
      /\ r1Phase' \in {"off", "nominating"} /\ started' = TRUE /\ roundIndex' = 1
      /\ UNCHANGED <<sheetVars, standing, r1Winner, drawn, judgeVars>>
      /\ nominee' = nominee
  BY DEF StartGameInRoom, StartGame, sheetVars
<1>7. StageInv'
  BY <1>5, <1>6 DEF StageInv
<1>8. QED
  BY <1>2, <1>4, <1>5, <1>6, <1>7, OpeningKeeps DEF R1Inv, SheetsInv

LEMMA NominatingKeeps ==
    ASSUME R1Inv,
           \/ BeginRound1
           \/ \E t \in Teams, d \in Difficulties, p \in Players : NominateAnswerer(t, d, p)
           \/ StartQuestions
    PROVE  R1Inv' /\ StepsOn
<1>1. /\ UNCHANGED vars /\ Running
      /\ UNCHANGED <<sheetVars, standing, r1Winner, drawn, judgeVars>>
      /\ UNCHANGED <<question, attempt, standing, r1Winner, started, roundIndex>>
      /\ r1Phase \in {"off", "nominating"} /\ r1Phase' \in {"nominating", "questions"}
      /\ r1Phase = "off" => roundIndex = 1
  BY DEF BeginRound1, NominateAnswerer, StartQuestions, sheetVars, vars, flowVars
<1>2. FlowGoesOn /\ (Paused' <=> Paused)
  BY <1>1, FlowStands
<1>3. question.no = 0 /\ attempt.no = 0 /\ standing = {} /\ r1Winner = None
  BY <1>1 DEF R1Inv, StageInv, SheetsInv, SheetRecords
<1>4. started /\ roundIndex > 0
  BY <1>1 DEF R1Inv, StageInv, Running
<1>5. StageInv'
  BY <1>1, <1>3, <1>4 DEF StageInv
<1>6. nominee' \in [Teams -> [Difficulties -> Players \cup {None}]]
  <2>1. nominee \in [Teams -> [Difficulties -> Players \cup {None}]]
    BY DEF R1Inv, SheetsInv
  <2>2. ASSUME NEW t \in Teams, NEW d \in Difficulties, NEW p \in Players,
               NominateAnswerer(t, d, p)
        PROVE  nominee' \in [Teams -> [Difficulties -> Players \cup {None}]]
    <3>1. PICK f : f = [nominee[t] EXCEPT ![d] = p]
      OBVIOUS
    <3>2. f \in [Difficulties -> Players \cup {None}]
      BY <2>1, <3>1
    <3>3. nominee' = [nominee EXCEPT ![t] = f]
      BY <2>2, <3>1 DEF NominateAnswerer
    <3>4. QED
      BY <2>1, <3>2, <3>3
  <2>3. QED
    BY <2>1, <2>2 DEF BeginRound1, StartQuestions
<1>7. QED
  BY <1>1, <1>2, <1>3, <1>5, <1>6, OpeningKeeps

-----------------------------------------------------------------------------
(* A new sheet, a retry, a peek. *)

\* A sheet newly asked.
Asked(s, k, n, c, d, S) == s = Sheet(k, n, c, d, S)

LEMMA SheetFacts ==
    ASSUME NEW k \in {"question", "tiebreak"}, NEW n \in Nat, n > 0, NEW c \in Nat,
           NEW d \in Nat, NEW S, NEW s, Asked(s, k, n, c, d, S)
    PROVE  /\ s \in SheetRecords(S, d) /\ DOMAIN s.answers = S
           /\ s.kind = k /\ s.no = n /\ s.challenge = c /\ s.phase = "open"
           /\ HeldBy(s, FALSE)
<1>1. FreshAnswer \in AnswerRecords /\ FreshAnswer.retry = NoWindow
  BY R1Constants, WindowKinds1 DEF FreshAnswer, AnswerRecords, NoAnswer, Unruled
<1>2. PICK as : as = [t \in S |-> FreshAnswer]
  OBVIOUS
<1>3. as \in [S -> AnswerRecords] /\ (\A t \in S : as[t].retry = NoWindow) /\ DOMAIN as = S
  BY <1>1, <1>2
<1>4. PICK w : w = OpenWindow(d)
  OBVIOUS
<1>5. w \in WindowsUpTo(d) /\ FollowsPause(w, FALSE)
  BY <1>4, WindowKinds1
<1>6. s = [kind |-> k, no |-> n, phase |-> "open", challenge |-> c, window |-> w,
           answers |-> as]
  BY <1>2, <1>4 DEF Sheet, Asked
<1>7. /\ s \in SheetRecords(S, d) /\ s.answers = as /\ s.window = w
      /\ s.kind = k /\ s.no = n /\ s.challenge = c /\ s.phase = "open"
  BY <1>3, <1>5, <1>6 DEF SheetRecords, SheetPhases
<1>8. HeldBy(s, FALSE)
  BY <1>3, <1>5, <1>7, WindowKinds1 DEF HeldBy
<1>9. QED
  BY <1>3, <1>7, <1>8

\* The two kinds there are.
LEMMA AskedFacts ==
    ASSUME NEW n \in Nat, n > 0, NEW c \in Nat, NEW S, NEW s
    PROVE  /\ Asked(s, "question", n, c, QuestionMs, S) =>
                 /\ s \in SheetRecords(S, QuestionMs) /\ DOMAIN s.answers = S
                 /\ s.kind = "question" /\ s.no = n /\ s.challenge = c /\ s.phase = "open"
                 /\ HeldBy(s, FALSE)
           /\ Asked(s, "tiebreak", n, c, TiebreakMs, S) =>
                 /\ s \in SheetRecords(S, TiebreakMs) /\ DOMAIN s.answers = S
                 /\ s.kind = "tiebreak" /\ s.no = n /\ s.challenge = c /\ s.phase = "open"
                 /\ HeldBy(s, FALSE)
<1>1. QuestionMs \in Nat /\ TiebreakMs \in Nat
  BY R1Constants
<1>2. ASSUME Asked(s, "question", n, c, QuestionMs, S)
      PROVE  /\ s \in SheetRecords(S, QuestionMs) /\ DOMAIN s.answers = S
             /\ s.kind = "question" /\ s.no = n /\ s.challenge = c /\ s.phase = "open"
             /\ HeldBy(s, FALSE)
  <2>1. PICK k \in {"question", "tiebreak"} : k = "question"
    OBVIOUS
  <2>2. Asked(s, k, n, c, QuestionMs, S)
    BY <1>2, <2>1
  <2>3. /\ s \in SheetRecords(S, QuestionMs) /\ DOMAIN s.answers = S
        /\ s.kind = k /\ s.no = n /\ s.challenge = c /\ s.phase = "open"
        /\ HeldBy(s, FALSE)
    BY <1>1, <2>2, SheetFacts
  <2>4. QED
    BY <2>1, <2>3
<1>3. ASSUME Asked(s, "tiebreak", n, c, TiebreakMs, S)
      PROVE  /\ s \in SheetRecords(S, TiebreakMs) /\ DOMAIN s.answers = S
             /\ s.kind = "tiebreak" /\ s.no = n /\ s.challenge = c /\ s.phase = "open"
             /\ HeldBy(s, FALSE)
  <2>1. PICK k \in {"question", "tiebreak"} : k = "tiebreak"
    OBVIOUS
  <2>2. Asked(s, k, n, c, TiebreakMs, S)
    BY <1>3, <2>1
  <2>3. /\ s \in SheetRecords(S, TiebreakMs) /\ DOMAIN s.answers = S
        /\ s.kind = k /\ s.no = n /\ s.challenge = c /\ s.phase = "open"
        /\ HeldBy(s, FALSE)
    BY <1>1, <2>2, SheetFacts
  <2>4. QED
    BY <2>1, <2>3
<1>4. QED
  BY <1>2, <1>3

LEMMA NextQuestionKeeps ==
    ASSUME R1Inv, NextQuestion
    PROVE  R1Inv' /\ StepsOn
<1>1. /\ PreparesAndStarts /\ NoOpenChallenge
      /\ UNCHANGED <<started, roundIndex, members, settlements>>
      /\ UNCHANGED <<r1Phase, nominee, attempt, points, standing, r1Winner, drawn, verdicts>>
      /\ challenge'.id = challenge.id + 1
  BY DEF NextQuestion, PreparesAndStarts, judgeVars
<1>2. active' \subseteq UNION {members[t] : t \in Teams}
  BY DEF NextQuestion, ActiveAfter, WaitsFor, MembersOf
<1>3. GoesOn /\ ~Paused /\ ~Paused' /\ (Paused' <=> Paused)
  BY <1>1, <1>2, StartedGameKeepsFlow DEF R1Inv
<1>4. roundIndex \in Nat /\ challenge.id \in Nat
  BY GameFlowAssumption DEF GameFlowAssumption, R1Inv, FlowInv, TypeOK
<1>5. FlowGoesOn
  BY <1>1, <1>3, <1>4 DEF FlowGoesOn
<1>6. CASE MayReveal
  <2>1. /\ question' = Sheet("question", question.no + 1, challenge.id + 1, QuestionMs, Teams)
        /\ active' = WaitsFor(question', attempt) /\ maco' = NoMaco
        /\ r1Phase = "questions" /\ question.no < Questions
    BY <1>6 DEF NextQuestion, MayReveal, ActiveAfter, PeekOver
  <2>2. question.no \in Nat /\ Questions \in Nat
    BY R1Constants, SheetsAreSheets DEF SheetRecords
  <2>3. /\ question' \in SheetRecords(Teams, QuestionMs) /\ DOMAIN question'.answers = Teams
        /\ question'.kind = "question" /\ question'.no = question.no + 1
        /\ question'.challenge = challenge'.id /\ question'.phase = "open"
        /\ HeldBy(question', FALSE)
    <3>1. PICK no \in Nat, ch \in Nat : no = question.no + 1 /\ ch = challenge.id + 1 /\ no > 0
      BY <1>4, <2>2
    <3>2. Asked(question', "question", no, ch, QuestionMs, Teams)
      BY <2>1, <3>1 DEF Asked
    <3>3. /\ question' \in SheetRecords(Teams, QuestionMs) /\ DOMAIN question'.answers = Teams
          /\ question'.kind = "question" /\ question'.no = no
          /\ question'.challenge = ch /\ question'.phase = "open"
          /\ HeldBy(question', FALSE)
      <4>1. PICK q : q = question'
        OBVIOUS
      <4>2. Asked(q, "question", no, ch, QuestionMs, Teams)
        BY <3>2, <4>1
      <4>3. no > 0
        BY <3>1
      <4>4. /\ q \in SheetRecords(Teams, QuestionMs) /\ DOMAIN q.answers = Teams
            /\ q.kind = "question" /\ q.no = no /\ q.challenge = ch /\ q.phase = "open"
            /\ HeldBy(q, FALSE)
        BY <4>2, <4>3, AskedFacts
      <4>5. QED
        BY <4>1, <4>4
    <3>4. QED
      BY <1>1, <3>1, <3>3
  <2>4. NoMaco \in MacoRecords /\ NoMaco.target = None /\ FollowsPause(NoMaco.window, FALSE)
    BY R1Constants, WindowKinds1 DEF NoMaco, MacoRecords
  <2>5. SheetsInv'
    BY <1>1, <1>4, <2>1, <2>2, <2>3, <2>4 DEF R1Inv, SheetsInv
  <2>6. WindowsFollowPause'
    <3>1. Paused = FALSE /\ Paused' = FALSE
      BY <1>3 DEF Paused
    <3>2. HeldBy(attempt', FALSE)
      BY <1>1, <3>1, HeldTogether DEF R1Inv
    <3>3. QED
      BY <2>1, <2>3, <2>4, <3>1, <3>2, HeldTogetherNext
  <2>7. OwedAnswersAwaited'
    BY <1>1, <2>1, <2>3, OwedOnceTold
  <2>8. ScoredAsRuled' /\ PeekIsSound'
    BY <2>1, <2>3, <2>4 DEF ScoredAsRuled, PeekIsSound
  <2>9. StageInv'
    BY <1>1, <2>1 DEF R1Inv, StageInv
  <2>10. StepsOn
    BY <1>1, <2>2, <2>3, SheetsAreSheets DEF StepsOn, LaterOrNew, Proceeds
  <2>11. QED
    BY <1>3, <2>5, <2>6, <2>7, <2>8, <2>9, <2>10 DEF R1Inv, GoesOn
<1>7. CASE ~MayReveal
  <2>1. UNCHANGED <<question, maco>>
    BY <1>7 DEF NextQuestion
  <2>2. SheetsGoOn /\ MacoGoesOn
    BY <1>1, <2>1, SheetsStand, MacoStands
  <2>3. WindowsFollowPause'
    BY <1>1, <1>3, <2>1, SheetsAreSheets, WindowsProceed
  <2>4. OwedAnswersAwaited'
    <3>1. question.no > 0 => settlements'[question.challenge] > 0
      BY <1>1, AllSettled
    <3>2. Owing(question') \subseteq Owing(question)
      BY <2>1
    <3>3. QED
      BY <1>1, <1>3, <2>1, <3>1, <3>2, OwedStill
  <2>5. QED
    BY <1>1, <1>5, <2>2, <2>3, <2>4, AllGoesOn
<1>8. QED
  BY <1>6, <1>7

LEMMA ViewMacoKeeps ==
    ASSUME R1Inv, NEW t \in Teams, NEW p \in Players, NEW u \in Teams, ViewMaco(t, p, u)
    PROVE  R1Inv' /\ StepsOn
<1>1. /\ Running /\ MayPeek(t, p, u)
      /\ maco' = [viewer |-> p, target |-> u, question |-> question.no,
                  window |-> OpenWindow(MacoMs)]
      /\ UNCHANGED vars
      /\ UNCHANGED <<r1Phase, nominee, question, attempt, points, standing, r1Winner, drawn,
                     verdicts>>
  BY DEF ViewMaco, judgeVars
<1>2. PICK w : w = OpenWindow(MacoMs)
  OBVIOUS
<1>3. w \in WindowsUpTo(MacoMs) /\ FollowsPause(w, FALSE) /\ question.no \in Nat
  BY <1>2, R1Constants, WindowKinds1, SheetsAreSheets DEF SheetRecords
<1>4. /\ maco' \in MacoRecords /\ maco'.window = w /\ maco'.viewer = p /\ maco'.target = u
      /\ maco'.question = question.no
  BY <1>1, <1>2, <1>3 DEF MacoRecords
<1>5. FlowGoesOn /\ (Paused' <=> Paused) /\ ~Paused
  BY <1>1, FlowStands DEF Running
<1>6. SheetsGoOn
  BY <1>1, SheetsStand
<1>7. SheetsInv' /\ ScoredAsRuled' /\ StepsOn
  <2>1. nominee' \in [Teams -> [Difficulties -> Players \cup {None}]]
    BY <1>1 DEF R1Inv, SheetsInv
  <2>2. QED
    BY <1>4, <1>5, <1>6, <2>1, SheetsGoOnSoundly
<1>8. StageInv'
  BY <1>1, <1>5, <1>6, StageGoesOn
<1>9. PeekIsSound'
  <2>1. /\ question.phase \in {"open", "grading"} /\ u # t
        /\ question.answers[u].sub # NoAnswer /\ nominee[t][LevelOf(question)] = p
    BY <1>1 DEF MayPeek, IsNominee
  <2>2. QED
    BY <1>1, <1>4, <2>1 DEF PeekIsSound, LevelOf
<1>10. WindowsFollowPause'
  <2>1. Paused = FALSE /\ Paused' = FALSE
    BY <1>5 DEF Paused
  <2>2. HeldBy(question', FALSE) /\ HeldBy(attempt', FALSE)
    BY <1>1, <2>1, HeldTogether DEF R1Inv
  <2>3. QED
    BY <1>3, <1>4, <2>1, <2>2, HeldTogetherNext
<1>11. OwedAnswersAwaited'
  <2>1. UNCHANGED <<members, active>>
    BY <1>1 DEF vars, playVars
  <2>2. \A x \in Teams : members'[x] \subseteq members[x]
                         /\ members'[x] \cap active \subseteq active'
    BY <2>1
  <2>3. Owing(question') \subseteq Owing(question)
    BY <1>1
  <2>4. QED
    BY <1>1, <1>5, <2>2, <2>3, OwedStill DEF FlowGoesOn
<1>12. QED
  BY <1>5, <1>7, <1>8, <1>9, <1>10, <1>11 DEF R1Inv, FlowGoesOn, GoesOn

LEMMA OpenRetryKeeps ==
    ASSUME R1Inv, NEW t \in Teams, OpenRetry(t)
    PROVE  R1Inv' /\ StepsOn
<1>1. /\ Running /\ question.no > 0 /\ question.phase # "revealed"
      /\ question' = [question EXCEPT !.phase = "retry", !.answers[t].retryOpen = TRUE,
                                      !.answers[t].retry = OpenWindow(RetryMs)]
      /\ OnlyActive(question', attempt)
      /\ UNCHANGED <<r1Phase, nominee, attempt, points, maco, standing, r1Winner, drawn, verdicts>>
  BY DEF OpenRetry, RetryEligible, judgeVars
<1>2. FlowGoesOn /\ (Paused' <=> Paused) /\ ~Paused /\ members' = members
      /\ active' = WaitsFor(question', attempt)
  BY <1>1, OnlyActiveGoesOn DEF Running
<1>3. PICK w : w = OpenWindow(RetryMs)
  OBVIOUS
<1>4. w \in WindowsUpTo(RetryMs) /\ FollowsPause(w, FALSE)
  BY <1>3, R1Constants, WindowKinds1
<1>5. /\ question \in SheetRecords(Teams, QuestionMs) /\ DOMAIN question.answers = Teams
      /\ question.answers[t] \in AnswerRecords
  BY SheetsAreSheets DEF SheetRecords
<1>6. PICK a : a = question.answers[t]
  OBVIOUS
<1>7. PICK b : b = [a EXCEPT !.retryOpen = TRUE, !.retry = w]
  OBVIOUS
<1>8. /\ b \in AnswerRecords /\ b.retry = w /\ b.sub = a.sub
  BY <1>4, <1>5, <1>6, <1>7 DEF AnswerRecords
<1>9. PICK m : m = [question EXCEPT !.phase = "retry"]
  OBVIOUS
<1>10. /\ m \in SheetRecords(Teams, QuestionMs) /\ m.answers = question.answers
       /\ m.phase = "retry" /\ m.kind = question.kind /\ m.no = question.no
       /\ m.challenge = question.challenge /\ m.window = question.window
  BY <1>5, <1>9 DEF SheetRecords, SheetPhases
<1>11. question' = [m EXCEPT !.answers[t] = b]
  BY <1>1, <1>3, <1>5, <1>6, <1>7, <1>9 DEF SheetRecords, AnswerRecords
<1>12. /\ question' \in SheetRecords(Teams, QuestionMs) /\ DOMAIN question'.answers = Teams
       /\ question'.kind = m.kind /\ question'.no = m.no /\ question'.challenge = m.challenge
       /\ question'.phase = m.phase /\ question'.window = m.window
       /\ \A u \in Teams : question'.answers[u] = IF u = t THEN b ELSE m.answers[u]
  BY <1>8, <1>10, <1>11, AnswerReplaced, R1Constants
<1>13. Later(question, question')
  <2>1. question.phase # "pending"
    BY <1>1 DEF R1Inv, SheetsInv
  <2>2. QED
    BY <1>1, <1>5, <1>6, <1>8, <1>10, <1>12, <2>1 DEF Later
<1>14. SheetsGoOn /\ MacoGoesOn
  <2>1. drawn \in drawn..MaxTiebreaks /\ attempt.phase # "retry"
    BY R1Constants DEF R1Inv, SheetsInv
  <2>2. Later(attempt, attempt)
    BY SheetsAreSheets DEF Proceeds
  <2>3. QED
    BY <1>1, <1>10, <1>12, <1>13, <2>1, <2>2, SheetsAreSheets, MacoStands DEF SheetsGoOn
<1>15. OwedAnswersAwaited'
  BY <1>1, <1>2, <1>12, OwedOnceTold
<1>16. WindowsFollowPause'
  <2>1. Paused = FALSE /\ Paused' = FALSE
    BY <1>2 DEF Paused
  <2>2. HeldBy(question, FALSE) /\ HeldBy(attempt', FALSE) /\ FollowsPause(maco'.window, FALSE)
    BY <1>1, <2>1, HeldTogether DEF R1Inv
  <2>3. HeldBy(question', FALSE)
    BY <1>4, <1>5, <1>8, <1>10, <1>12, <2>2 DEF HeldBy
  <2>4. QED
    BY <2>1, <2>2, <2>3, HeldTogetherNext
<1>17. QED
  BY <1>1, <1>2, <1>14, <1>15, <1>16, AllGoesOn

-----------------------------------------------------------------------------
(* The reveal. *)

\* Only who is right earns, and whoever is right earns something.
LEMMA AwardFacts ==
    ASSUME R1Inv, question.no > 0, NEW doubled, NEW t \in Teams
    PROVE  /\ Award(question, t, doubled) \in Nat
           /\ Award(question, t, doubled) > 0 <=> t \in Winners(question)
<1>1. question.no \in 1..Questions /\ question.kind = "question"
  BY R1Constants DEF R1Inv, SheetsInv, SheetRecords
<1>2. LevelOf(question) \in Difficulties
  BY <1>1, Round1Assumption DEF Round1Assumption, LevelOf
<1>3. PICK v : v = Value[LevelOf(question)]
  OBVIOUS
<1>4. v \in Nat \ {0}
  BY <1>2, <1>3, Round1Assumption DEF Round1Assumption
<1>5. Award(question, t, doubled) =
          IF t \in Winners(question) THEN (IF t \in doubled THEN 2 ELSE 1) * v ELSE 0
  BY <1>3 DEF Award
<1>6. QED
  BY <1>4, <1>5

\* Somebody leads.
LEMMA LeadersFacts ==
    ASSUME NEW pts \in [Teams -> Nat]
    PROVE  /\ Leaders(pts) \subseteq Teams /\ Leaders(pts) # {}
           /\ IsFiniteSet(Leaders(pts)) /\ Cardinality(Leaders(pts)) \in Nat
           /\ Cardinality(Leaders(pts)) # 0
<1>1. IsFiniteSet(Teams) /\ Teams # {}
  BY Round1Assumption DEF Round1Assumption
<1> DEFINE G == {s \in SUBSET Teams : s # {} => \E t \in s : \A u \in s : pts[u] <= pts[t]}
<1>2. {} \in G
  OBVIOUS
<1>3. ASSUME NEW s \in SUBSET Teams, s # {}, \A x \in s : s \ {x} \in G
      PROVE  s \in G
  <2>1. PICK x \in s : TRUE
    BY <1>3
  <2>2. CASE s \ {x} = {}
    <3>1. \A u \in s : u = x
      BY <2>2
    <3>2. pts[x] \in Nat
      BY <2>1
    <3>3. \A u \in s : pts[u] <= pts[x]
      BY <3>1, <3>2
    <3>4. QED
      BY <2>1, <3>3
  <2>3. CASE s \ {x} # {}
    <3>1. PICK t \in s \ {x} : \A u \in s \ {x} : pts[u] <= pts[t]
      BY <1>3, <2>1, <2>3
    <3>2. pts[x] \in Nat /\ pts[t] \in Nat /\ \A u \in s : pts[u] \in Nat
      BY <2>1, <3>1
    <3>3. CASE pts[x] <= pts[t]
      <4>1. \A u \in s : pts[u] <= pts[t]
        BY <3>1, <3>3
      <4>2. QED
        BY <3>1, <4>1
    <3>4. CASE pts[t] <= pts[x]
      <4>1. \A u \in s : pts[u] <= pts[x]
        BY <3>1, <3>2, <3>4
      <4>2. QED
        BY <2>1, <4>1
    <3>5. QED
      BY <3>2, <3>3, <3>4
  <2>4. QED
    BY <2>2, <2>3
<1>4. SUBSET Teams \subseteq G
  <2> HIDE DEF G
  <2>1. QED
    BY <1>1, <1>2, <1>3, SubsetsInduct
<1>5. Teams \in G
  BY <1>4
<1>6. Leaders(pts) \subseteq Teams /\ Leaders(pts) # {}
  BY <1>1, <1>5 DEF Leaders
<1>7. IsFiniteSet(Leaders(pts))
  BY <1>1, <1>6, FS_Subset
<1>8. Cardinality(Leaders(pts)) \in Nat /\ Cardinality(Leaders(pts)) # 0
  BY <1>6, <1>7, FS_CardinalityType, FS_EmptySet
<1>9. QED
  BY <1>6, <1>7, <1>8

\* What the last question decides.
LEMMA DecidesStage ==
    ASSUME NEW pts \in [Teams -> Nat], DecideWinner(pts), standing = {}, r1Winner = None
    PROVE  \/ /\ r1Phase' = "complete" /\ r1Winner' \in Teams /\ standing' = standing
           \/ /\ r1Phase' = "tiebreak" /\ r1Winner' = r1Winner
              /\ standing' \subseteq Teams /\ Cardinality(standing') > 1
<1>1. /\ Leaders(pts) \subseteq Teams /\ Leaders(pts) # {}
      /\ Cardinality(Leaders(pts)) \in Nat /\ Cardinality(Leaders(pts)) # 0
  BY LeadersFacts
<1>2. CASE Cardinality(Leaders(pts)) = 1
  BY <1>1, <1>2 DEF DecideWinner
<1>3. CASE Cardinality(Leaders(pts)) # 1
  <2>1. Cardinality(Leaders(pts)) > 1
    BY <1>1, <1>3
  <2>2. QED
    BY <1>1, <1>3, <2>1 DEF DecideWinner
<1>4. QED
  BY <1>2, <1>3

\* The sheet as it is revealed.
LEMMA RevealedSheet ==
    ASSUME R1Inv, question.no > 0, question.phase # "revealed", NEW doubled,
           RevealAndScore(question, doubled)
    PROVE  /\ question' \in SheetRecords(Teams, QuestionMs) /\ DOMAIN question'.answers = Teams
           /\ question'.phase = "revealed" /\ question'.window = NoWindow
           /\ question'.kind = question.kind /\ question'.no = question.no
           /\ question'.challenge = question.challenge
           /\ \A t \in Teams :
                 /\ question'.answers[t].sub = question.answers[t].sub
                 /\ question'.answers[t].retrySub = question.answers[t].retrySub
                 /\ question'.answers[t].retry = question.answers[t].retry
                 /\ question'.answers[t].awarded = Award(question, t, doubled)
                 /\ t \in Winners(question') <=> t \in Winners(question)
<1>1. /\ question \in SheetRecords(Teams, QuestionMs) /\ DOMAIN question.answers = Teams
      /\ \A t \in Teams : question.answers[t] \in AnswerRecords
  BY SheetsAreSheets DEF SheetRecords
<1>2. PICK as : as = [t \in Teams |->
                         [question.answers[t] EXCEPT !.awarded = Award(question, t, doubled)]]
  OBVIOUS
<1>3. ASSUME NEW t \in Teams
      PROVE  /\ as[t] \in AnswerRecords
             /\ as[t].sub = question.answers[t].sub
             /\ as[t].retrySub = question.answers[t].retrySub
             /\ as[t].retry = question.answers[t].retry
             /\ as[t].awarded = Award(question, t, doubled)
             /\ FinalVerdict(as[t]) = FinalVerdict(question.answers[t])
  <2>1. PICK a : a = question.answers[t]
    OBVIOUS
  <2>2. PICK n : n = Award(question, t, doubled)
    OBVIOUS
  <2>3. PICK b : b = as[t]
    OBVIOUS
  <2>4. a \in AnswerRecords /\ n \in Nat /\ b = [a EXCEPT !.awarded = n]
    BY <1>1, <1>2, <2>1, <2>2, <2>3, AwardFacts
  <2>5. /\ b \in AnswerRecords /\ b.sub = a.sub /\ b.retry = a.retry /\ b.awarded = n
        /\ b.retrySub = a.retrySub /\ b.retryRuling = a.retryRuling /\ b.ruling = a.ruling
    BY <2>4 DEF AnswerRecords
  <2>6. QED
    BY <2>1, <2>2, <2>3, <2>5 DEF FinalVerdict
<1>4. as \in [Teams -> AnswerRecords] /\ DOMAIN as = Teams
  BY <1>2, <1>3
<1>5. question' = [question EXCEPT !.phase = "revealed", !.window = NoWindow, !.answers = as]
  BY <1>1, <1>2 DEF RevealAndScore
<1>6. /\ question' \in SheetRecords(Teams, QuestionMs) /\ question'.answers = as
      /\ question'.phase = "revealed" /\ question'.window = NoWindow
      /\ question'.kind = question.kind /\ question'.no = question.no
      /\ question'.challenge = question.challenge
  BY <1>1, <1>4, <1>5, WindowKinds1, R1Constants DEF SheetRecords, SheetPhases
<1>7. \A t \in Teams : t \in Winners(question') <=> t \in Winners(question)
  BY <1>1, <1>3, <1>4, <1>6 DEF Winners
<1>8. QED
  BY <1>3, <1>4, <1>6, <1>7

LEMMA RevealKeeps ==
    ASSUME R1Inv, NEW doubled \in SUBSET Teams, RevealAnswer(doubled)
    PROVE  R1Inv' /\ StepsOn
<1>1. /\ ResolveChallenge /\ HostMoves
      /\ UNCHANGED <<nominee, attempt, drawn, verdicts, judging>>
      /\ r1Phase # "tiebreak" /\ r1Phase # "off"
  BY DEF RevealAnswer, HostMoves, judgeVars, InTiebreak
<1>2. CASE ~(question.no > 0 /\ question.phase # "revealed")
  <2>1. UNCHANGED r1Vars
    BY <1>1, <1>2 DEF RevealAnswer, r1Vars, sheetVars, judgeVars
  <2>2. QED
    BY <1>1, <2>1, HostMovesKeep
<1>3. CASE question.no > 0 /\ question.phase # "revealed"
  <2>1. RevealAndScore(question, doubled)
    BY <1>3 DEF RevealAnswer
  <2>2. /\ question' \in SheetRecords(Teams, QuestionMs) /\ DOMAIN question'.answers = Teams
        /\ question'.phase = "revealed" /\ question'.window = NoWindow
        /\ question'.kind = question.kind /\ question'.no = question.no
        /\ question'.challenge = question.challenge
        /\ \A t \in Teams :
              /\ question'.answers[t].sub = question.answers[t].sub
              /\ question'.answers[t].retrySub = question.answers[t].retrySub
              /\ question'.answers[t].retry = question.answers[t].retry
              /\ question'.answers[t].awarded = Award(question, t, doubled)
              /\ t \in Winners(question') <=> t \in Winners(question)
    BY <1>3, <2>1, RevealedSheet
  <2>3. FlowGoesOn /\ (Paused' <=> Paused)
    BY <1>1, HostMovesGoOn
  <2>4. /\ points' = [t \in Teams |-> points[t] + Award(question, t, doubled)]
        /\ maco' = NoMaco
    BY <2>1 DEF RevealAndScore, PeekOver
  <2>5. points' \in [Teams -> Nat]
    <3>1. ASSUME NEW t \in Teams PROVE points[t] + Award(question, t, doubled) \in Nat
      BY <1>3, AwardFacts DEF R1Inv, SheetsInv
    <3>2. QED
      BY <2>4, <3>1
  <2>6. NoMaco \in MacoRecords /\ NoMaco.target = None /\ \A b : FollowsPause(NoMaco.window, b)
    BY R1Constants, WindowKinds1 DEF NoMaco, MacoRecords
  <2>7. SheetsInv'
    <3>1. challenge.id \in Nat /\ challenge'.id \in Nat /\ challenge'.id >= challenge.id
      BY <2>3, GameFlowAssumption DEF GameFlowAssumption, R1Inv, FlowInv, TypeOK, FlowGoesOn,
         GoesOn
    <3>2. question.challenge \in Nat /\ question.no \in Nat
      BY SheetsAreSheets DEF SheetRecords
    <3>3. question'.challenge <= challenge'.id
      BY <2>2, <3>1, <3>2 DEF R1Inv, SheetsInv
    <3>4. QED
      BY <1>1, <1>3, <2>2, <2>4, <2>5, <2>6, <3>2, <3>3 DEF R1Inv, SheetsInv
  <2>8. ScoredAsRuled'
    <3>1. settlements'[question'.challenge] > 0
      BY <1>1, <1>3, <2>2, ResolvedIsSettled
    <3>2. \A t \in Teams : question'.answers[t].awarded > 0 <=> t \in Winners(question')
      BY <1>3, <2>2, AwardFacts
    <3>3. QED
      BY <3>1, <3>2 DEF ScoredAsRuled, Winners
  <2>9. PeekIsSound'
    BY <2>4, <2>6 DEF PeekIsSound
  <2>10. OwedAnswersAwaited'
    <3>1. \A t \in Teams, p \in Players : ~YouMaySubmit(t, p)'
      BY <2>2 DEF YouMaySubmit, Owing
    <3>2. QED
      BY <3>1 DEF OwedAnswersAwaited
  <2>11. WindowsFollowPause'
    <3>1. HeldBy(question, Paused) /\ HeldBy(attempt, Paused)
      BY HeldTogether DEF R1Inv
    <3>2. HeldBy(attempt', Paused')
      BY <1>1, <2>3, <3>1 DEF HeldBy, FollowsPause
    <3>3. DOMAIN question.answers = Teams
      BY SheetsAreSheets DEF SheetRecords
    <3>4. HeldBy(question', Paused')
      BY <2>2, <2>3, <3>1, <3>3, WindowKinds1 DEF HeldBy, FollowsPause
    <3>5. QED
      BY <2>4, <2>6, <3>2, <3>4, HeldTogetherNext
  <2>12. StageInv'
    <3>1. r1Phase = "questions" /\ attempt.no = 0 /\ standing = {} /\ r1Winner = None
      BY <1>1, <1>3, SheetsAreSheets DEF R1Inv, StageInv, SheetRecords
    <3>2. started' /\ roundIndex' > 0
      BY <2>3, <3>1 DEF R1Inv, StageInv, FlowGoesOn, GoesOn, FlowInv, TypeOK
    <3>3. \/ r1Phase' = r1Phase /\ standing' = standing /\ r1Winner' = r1Winner
          \/ DecideWinner(points')
      BY <2>1 DEF RevealAndScore
    <3>4. CASE r1Phase' = r1Phase /\ standing' = standing /\ r1Winner' = r1Winner
      BY <1>1, <2>2, <3>1, <3>2, <3>4 DEF R1Inv, StageInv
    <3>5. CASE DecideWinner(points')
      <4>1. PICK pts \in [Teams -> Nat] : pts = points'
        BY <2>5
      <4>2. \/ /\ r1Phase' = "complete" /\ r1Winner' \in Teams /\ standing' = standing
            \/ /\ r1Phase' = "tiebreak" /\ r1Winner' = r1Winner
               /\ standing' \subseteq Teams /\ Cardinality(standing') > 1
        BY <3>1, <3>5, <4>1, DecidesStage
      <4>3. None \notin Teams
        BY R1Constants
      <4>4. QED
        BY <1>1, <2>2, <3>1, <3>2, <4>2, <4>3 DEF StageInv
    <3>6. QED
      BY <3>3, <3>4, <3>5
  <2>13. StepsOn
    <3>1. Later(question, question')
      <4>1. question.phase # "pending" /\ DOMAIN question.answers = Teams
        BY <1>3, SheetsAreSheets DEF R1Inv, SheetsInv, SheetRecords
      <4>2. QED
        BY <1>3, <2>2, <4>1 DEF Later
    <3>2. Later(attempt, attempt')
      BY <1>1, SheetsAreSheets DEF Proceeds
    <3>3. QED
      BY <3>1, <3>2 DEF StepsOn, LaterOrNew
  <2>14. QED
    BY <2>3, <2>7, <2>8, <2>9, <2>10, <2>11, <2>12, <2>13 DEF R1Inv, FlowGoesOn, GoesOn
<1>4. QED
  BY <1>2, <1>3

-----------------------------------------------------------------------------
(* The tiebreak. *)

\* The item is taken; a new sheet is asked of those still standing, or none is.
LEMMA StartTiebreakKeeps ==
    ASSUME R1Inv, StartTiebreak
    PROVE  R1Inv' /\ StepsOn
<1>1. /\ drawn < MaxTiebreaks /\ drawn' = drawn + 1
      /\ UNCHANGED <<r1Phase, nominee, question, points, maco, standing, r1Winner, verdicts>>
  BY DEF StartTiebreak, judgeVars
<1>2. drawn \in Nat /\ MaxTiebreaks \in Nat /\ drawn' \in drawn..MaxTiebreaks /\ drawn' > 0
      /\ drawn' \in Nat
  BY <1>1, R1Constants DEF R1Inv, SheetsInv
<1>3. CASE Running /\ InTiebreak /\ attempt.phase \in {"pending", "revealed"}
  <2>1. /\ attempt' = Sheet("tiebreak", drawn', 0, TiebreakMs, standing)
        /\ OnlyActive(question', attempt')
    BY <1>1, <1>3 DEF StartTiebreak
  <2>2. /\ attempt' \in SheetRecords(standing, TiebreakMs) /\ DOMAIN attempt'.answers = standing
        /\ attempt'.kind = "tiebreak" /\ attempt'.no = drawn' /\ attempt'.phase = "open"
        /\ HeldBy(attempt', FALSE)
    <3>1. PICK n \in Nat : n = drawn' /\ n > 0
      BY <1>2
    <3>a. PICK a : a = attempt'
      OBVIOUS
    <3>2. Asked(a, "tiebreak", n, 0, TiebreakMs, standing)
      BY <2>1, <3>1, <3>a DEF Asked
    <3>3. n > 0 /\ 0 \in Nat
      BY <3>1
    <3>4. /\ a \in SheetRecords(standing, TiebreakMs) /\ DOMAIN a.answers = standing
          /\ a.kind = "tiebreak" /\ a.no = n /\ a.phase = "open" /\ HeldBy(a, FALSE)
      BY <3>2, <3>3, AskedFacts
    <3>5. QED
      BY <3>1, <3>a, <3>4
  <2>3. /\ FlowGoesOn /\ (Paused' <=> Paused) /\ ~Paused /\ members' = members
        /\ active' = WaitsFor(question', attempt')
        /\ UNCHANGED <<challenge, settlements, started, roundIndex>>
    BY <1>3, <2>1, OnlyActiveGoesOn DEF Running, OnlyActive, flowVars
  <2>4. r1Phase = "tiebreak" /\ standing \subseteq Teams
    BY <1>3 DEF InTiebreak, R1Inv, StageInv
  <2>5. SheetsInv'
    <3>1. /\ DOMAIN attempt'.answers \subseteq Teams
          /\ attempt' \in SheetRecords(DOMAIN attempt'.answers, TiebreakMs)
          /\ attempt'.kind = "tiebreak" /\ attempt'.no <= drawn'
          /\ attempt'.phase = "pending" <=> attempt'.no = 0
          /\ attempt'.phase # "retry"
      BY <1>2, <2>2, <2>4
    <3>2. drawn' \in 0..MaxTiebreaks
      BY <1>2
    <3>3. QED
      BY <1>1, <2>3, <3>1, <3>2 DEF R1Inv, SheetsInv
  <2>6. ScoredAsRuled'
    BY <1>1, <2>3 DEF R1Inv, ScoredAsRuled, Winners
  <2>7. PeekIsSound'
    BY <1>1 DEF R1Inv, PeekIsSound
  <2>8. StageInv'
    BY <1>1, <2>2, <2>3, <2>4 DEF R1Inv, StageInv
  <2>9. OwedAnswersAwaited'
    <3>1. DOMAIN question'.answers = Teams
      BY <1>1, SheetsAreSheets DEF SheetRecords
    <3>2. QED
      BY <1>1, <2>3, <3>1, OwedOnceTold
  <2>10. WindowsFollowPause'
    <3>1. Paused = FALSE /\ Paused' = FALSE
      BY <2>3 DEF Paused
    <3>2. HeldBy(question', FALSE) /\ FollowsPause(maco'.window, FALSE)
      BY <1>1, <3>1, HeldTogether DEF R1Inv
    <3>3. QED
      BY <2>2, <3>1, <3>2, HeldTogetherNext
  <2>11. StepsOn
    <3>1. attempt'.no > attempt.no
      BY <1>1, <1>2, <2>2, SheetsAreSheets DEF R1Inv, SheetsInv, SheetRecords
    <3>2. Later(question, question')
      BY <1>1, SheetsAreSheets DEF Proceeds
    <3>3. QED
      BY <3>1, <3>2 DEF StepsOn, LaterOrNew
  <2>12. QED
    BY <2>3, <2>5, <2>6, <2>7, <2>8, <2>9, <2>10, <2>11 DEF R1Inv, FlowGoesOn, GoesOn
<1>4. CASE ~(Running /\ InTiebreak /\ attempt.phase \in {"pending", "revealed"})
  <2>1. UNCHANGED vars /\ attempt' = attempt
    BY <1>4 DEF StartTiebreak
  <2>2. FlowGoesOn /\ (Paused' <=> Paused)
    BY <2>1, FlowStands
  <2>3. SheetsGoOn
    <3>1. attempt.phase # "retry"
      BY DEF R1Inv, SheetsInv
    <3>2. QED
      BY <1>1, <1>2, <2>1, <3>1, SheetsAreSheets DEF SheetsGoOn, Proceeds
  <2>4. MacoGoesOn /\ WindowsFollowPause'
    BY <1>1, <2>1, <2>2, SheetsAreSheets, MacoStands, WindowsProceed
  <2>5. OwedAnswersAwaited'
    <3>1. UNCHANGED <<members, active>>
      BY <2>1 DEF vars, playVars
    <3>2. \A t \in Teams : members'[t] \subseteq members[t]
                           /\ members'[t] \cap active \subseteq active'
      BY <3>1
    <3>3. Owing(question') \subseteq Owing(question)
      BY <1>1
    <3>4. QED
      BY <1>1, <2>2, <3>2, <3>3, OwedStill DEF FlowGoesOn
  <2>6. QED
    BY <1>1, <2>2, <2>3, <2>4, <2>5, AllGoesOn
<1>5. QED
  BY <1>3, <1>4

\* The survivors of a tiebreak question are of those it was asked of.
LEMMA SurvivorsFacts ==
    ASSUME R1Inv, InTiebreak, attempt.no > 0, attempt.phase # "revealed"
    PROVE  /\ Winners(attempt) \subseteq standing /\ standing \subseteq Teams
           /\ Survivors(Winners(attempt)) \subseteq standing
           /\ Cardinality(Winners(attempt)) # 1 =>
                  Cardinality(Survivors(Winners(attempt))) > 1
           /\ Cardinality(Winners(attempt)) = 1 =>
                  \E t \in standing : Winners(attempt) = {t}
                                      /\ Survivors(Winners(attempt)) = {t}
           /\ r1Winner = None
<1>1. /\ DOMAIN attempt.answers = standing /\ standing \subseteq Teams /\ r1Winner = None
      /\ Cardinality(standing) > 1
  BY DEF InTiebreak, R1Inv, StageInv
<1>2. Winners(attempt) \subseteq standing
  BY <1>1 DEF Winners
<1>3. IsFiniteSet(Teams) /\ IsFiniteSet(Winners(attempt))
  BY <1>1, <1>2, FS_Subset, Round1Assumption DEF Round1Assumption
<1>4. PICK W : W = Winners(attempt)
  OBVIOUS
<1>5. Cardinality(W) \in Nat /\ (Cardinality(W) = 0 <=> W = {})
      /\ (Cardinality(W) = 1 <=> \E x : W = {x})
  BY <1>3, <1>4, FS_CardinalityType, FS_EmptySet, FS_Singleton
<1>6. Cardinality(W) # 1 => Cardinality(Survivors(W)) > 1
  <2>1. CASE W = {}
    BY <1>1, <2>1 DEF Survivors
  <2>2. CASE W # {} /\ Cardinality(W) # 1
    BY <1>5, <2>2 DEF Survivors
  <2>3. QED
    BY <2>1, <2>2
<1>7. Cardinality(W) = 1 => \E t \in standing : W = {t} /\ Survivors(W) = {t}
  BY <1>2, <1>4, <1>5 DEF Survivors
<1>8. Survivors(W) \subseteq standing
  BY <1>2, <1>4 DEF Survivors
<1>9. QED
  BY <1>1, <1>2, <1>4, <1>6, <1>7, <1>8

LEMMA ResolveTiebreakKeeps ==
    ASSUME R1Inv, ResolveTiebreak
    PROVE  R1Inv' /\ StepsOn
<1>1. /\ Running /\ InTiebreak /\ attempt.no > 0 /\ attempt.phase # "revealed"
      /\ attempt' = [attempt EXCEPT !.phase = "revealed"]
      /\ standing' = Survivors(Winners(attempt))
      /\ UNCHANGED <<nominee, question, points, maco, drawn, verdicts>>
      /\ OnlyActive(question', attempt')
  BY DEF ResolveTiebreak, judgeVars
<1>2. /\ attempt' \in SheetRecords(DOMAIN attempt.answers, TiebreakMs)
      /\ attempt'.answers = attempt.answers /\ attempt'.window = attempt.window
      /\ attempt'.kind = attempt.kind /\ attempt'.no = attempt.no
      /\ attempt'.challenge = attempt.challenge /\ attempt'.phase = "revealed"
  BY <1>1, SheetsAreSheets DEF SheetRecords, SheetPhases
<1>3. /\ FlowGoesOn /\ (Paused' <=> Paused) /\ members' = members
      /\ active' = WaitsFor(question', attempt')
      /\ UNCHANGED <<challenge, settlements, started, roundIndex>>
  BY <1>1, OnlyActiveGoesOn DEF OnlyActive, flowVars
<1>4. Later(attempt, attempt')
  BY <1>1, <1>2 DEF Later, R1Inv, SheetsInv
<1>5. SheetsGoOn
  <2>1. drawn \in drawn..MaxTiebreaks
    BY R1Constants DEF R1Inv, SheetsInv
  <2>2. QED
    BY <1>1, <1>2, <1>4, <2>1, SheetsAreSheets DEF SheetsGoOn, Proceeds
<1>6. MacoGoesOn
  BY <1>1, MacoStands
<1>7. SheetsInv' /\ ScoredAsRuled' /\ StepsOn
  <2>1. nominee' \in [Teams -> [Difficulties -> Players \cup {None}]] /\ maco' \in MacoRecords
    BY <1>1, <1>6 DEF R1Inv, SheetsInv, MacoGoesOn
  <2>2. QED
    BY <1>3, <1>5, <2>1, SheetsGoOnSoundly
<1>8. PeekIsSound'
  BY <1>1, <1>5, <1>6, PeekGoesOn
<1>9. OwedAnswersAwaited'
  <2>1. DOMAIN question'.answers = Teams
    BY <1>1, SheetsAreSheets DEF SheetRecords
  <2>2. QED
    BY <1>1, <1>3, <2>1, OwedOnceTold
<1>10. WindowsFollowPause'
  <2>1. HeldBy(question, Paused) /\ HeldBy(attempt, Paused) /\ FollowsPause(maco.window, Paused)
    BY HeldTogether DEF R1Inv
  <2>2. /\ HeldBy(question', Paused') /\ HeldBy(attempt', Paused')
        /\ FollowsPause(maco'.window, Paused')
    BY <1>1, <1>2, <1>3, <2>1 DEF HeldBy, FollowsPause
  <2>3. QED
    BY <2>2, HeldTogetherNext
<1>11. StageInv'
  <2>1. /\ r1Phase = "tiebreak" /\ r1Phase # "off" /\ started /\ roundIndex > 0
        /\ question.phase = "revealed"
    BY <1>1 DEF InTiebreak, R1Inv, StageInv
  <2>2. PICK W : W = Winners(attempt)
    OBVIOUS
  <2>3. /\ W \subseteq standing /\ standing \subseteq Teams /\ Survivors(W) \subseteq standing
        /\ Cardinality(W) # 1 => Cardinality(Survivors(W)) > 1
        /\ Cardinality(W) = 1 => \E t \in standing : W = {t} /\ Survivors(W) = {t}
        /\ r1Winner = None
    BY <1>1, <2>2, SurvivorsFacts
  <2>4. CASE Cardinality(W) = 1
    <3>1. r1Phase' = "complete" /\ r1Winner' = CHOOSE t \in W : TRUE
      BY <2>2, <2>4 DEF ResolveTiebreak
    <3>2. r1Winner' \in Teams /\ None \notin Teams
      BY <2>3, <2>4, <3>1, R1Constants
    <3>3. QED
      BY <1>1, <1>2, <1>3, <2>1, <2>2, <2>3, <3>1, <3>2 DEF StageInv
  <2>5. CASE Cardinality(W) # 1
    <3>1. r1Phase' = r1Phase /\ r1Winner' = r1Winner
      BY <2>2, <2>5 DEF ResolveTiebreak
    <3>2. QED
      BY <1>1, <1>2, <1>3, <2>1, <2>2, <2>3, <2>5, <3>1 DEF StageInv
  <2>6. QED
    BY <2>4, <2>5
<1>12. QED
  BY <1>3, <1>7, <1>8, <1>9, <1>10, <1>11 DEF R1Inv, FlowGoesOn, GoesOn

-----------------------------------------------------------------------------
(* The invariant of the round. *)

LEMMA R1Starts == R1Init => R1Inv
<1> SUFFICES ASSUME R1Init PROVE R1Inv
  OBVIOUS
<1>1. FlowInv
  BY InitFlow DEF R1Init
<1>2. FreshAnswer \in AnswerRecords /\ FreshAnswer.retry = NoWindow
  BY R1Constants, WindowKinds1 DEF FreshAnswer, AnswerRecords, NoAnswer, Unruled
<1>3. ASSUME NEW k \in {"question", "tiebreak"}, NEW S, NEW e \in Nat, NEW s,
             Asked(s, k, 0, 0, 0, S)
      PROVE  /\ s \in SheetRecords(S, e) /\ DOMAIN s.answers = S /\ s.kind = k
             /\ s.no = 0 /\ s.challenge = 0 /\ s.phase = "pending" /\ \A b : HeldBy(s, b)
  <2>1. PICK as : as = [t \in S |-> FreshAnswer]
    OBVIOUS
  <2>2. as \in [S -> AnswerRecords] /\ (\A t \in S : as[t].retry = NoWindow) /\ DOMAIN as = S
    BY <1>2, <2>1
  <2>3. s = [kind |-> k, no |-> 0, phase |-> "pending", challenge |-> 0, window |-> NoWindow,
             answers |-> as]
    BY <1>3, <2>1 DEF Asked, Sheet
  <2>4. NoWindow \in WindowsUpTo(e) /\ \A b : FollowsPause(NoWindow, b)
    BY WindowKinds1
  <2>5. /\ s \in SheetRecords(S, e) /\ s.answers = as /\ s.kind = k /\ s.window = NoWindow
        /\ s.no = 0 /\ s.challenge = 0 /\ s.phase = "pending"
    BY <2>2, <2>3, <2>4 DEF SheetRecords, SheetPhases
  <2>6. QED
    BY <2>2, <2>4, <2>5 DEF HeldBy
<1>4. /\ Asked(question, "question", 0, 0, 0, Teams) /\ Asked(attempt, "tiebreak", 0, 0, 0, {})
      /\ maco = NoMaco /\ verdicts = {} /\ drawn = 0 /\ standing = {} /\ r1Winner = None
      /\ r1Phase = "off" /\ points = [t \in Teams |-> 0]
      /\ nominee = [t \in Teams |-> [d \in Difficulties |-> None]]
  BY DEF R1Init, Asked
<1>5. /\ question \in SheetRecords(Teams, QuestionMs) /\ DOMAIN question.answers = Teams
      /\ question.kind = "question" /\ question.no = 0 /\ question.challenge = 0
      /\ question.phase = "pending" /\ \A b : HeldBy(question, b)
  BY <1>3, <1>4, R1Constants
<1>6. /\ attempt \in SheetRecords({}, TiebreakMs) /\ DOMAIN attempt.answers = {}
      /\ attempt.kind = "tiebreak" /\ attempt.no = 0
      /\ attempt.phase = "pending" /\ \A b : HeldBy(attempt, b)
  BY <1>3, <1>4, R1Constants
<1>7. NoMaco \in MacoRecords /\ NoMaco.target = None /\ \A b : FollowsPause(NoMaco.window, b)
  BY R1Constants, WindowKinds1 DEF NoMaco, MacoRecords
<1>8. SheetsInv
  <2>1. challenge.id = 0
    BY DEF R1Init, Init
  <2>2. points \in [Teams -> Nat]
        /\ nominee \in [Teams -> [Difficulties -> Players \cup {None}]]
    BY <1>4
  <2>3. attempt \in SheetRecords(DOMAIN attempt.answers, TiebreakMs)
    BY <1>6
  <2>4. QED
    BY <1>4, <1>5, <1>6, <1>7, <2>1, <2>2, <2>3, R1Constants DEF SheetsInv
<1>9. WindowsFollowPause
  BY <1>4, <1>5, <1>6, <1>7, HeldTogether
<1>10. OwedAnswersAwaited /\ ScoredAsRuled /\ PeekIsSound
  BY <1>4, <1>5, <1>7 DEF OwedAnswersAwaited, ScoredAsRuled, PeekIsSound
<1>11. StageInv
  BY <1>4, <1>5, <1>6 DEF StageInv
<1>12. QED
  BY <1>1, <1>8, <1>9, <1>10, <1>11 DEF R1Inv

LEMMA R1StepKeeps == R1Inv /\ [R1Next]_allR1Vars => R1Inv' /\ StepsOn
<1> SUFFICES ASSUME R1Inv, [R1Next]_allR1Vars PROVE R1Inv' /\ StepsOn
  OBVIOUS
<1>1. CASE StartGameInRoom
  BY <1>1, StartGameKeeps
<1>2. CASE \/ BeginRound1
           \/ \E t \in Teams, d \in Difficulties, p \in Players : NominateAnswerer(t, d, p)
           \/ StartQuestions
  BY <1>2, NominatingKeeps
<1>3. CASE NextQuestion
  BY <1>3, NextQuestionKeeps
<1>4. CASE NextQuestionRefused \/ RevealRefused
  BY <1>4, RefusedKeep
<1>5. CASE \E t \in Teams, p \in Players, a \in Typed : SubmitAnswer(t, p, a)
  BY <1>5, SubmitKeeps
<1>6. CASE \E t \in Teams, p \in Players, a \in Typed : SubmitTiebreakAnswer(t, p, a)
  BY <1>6, SubmitTiebreakKeeps
<1>7. CASE \E t, u \in Teams, p \in Players : ViewMaco(t, p, u)
  BY <1>7, ViewMacoKeeps
<1>8. CASE CloseQuestion
  BY <1>8, CloseKeeps
<1>9. CASE \E t \in Teams, r \in BOOLEAN, v \in {"CORRECT", "INCORRECT"} : RuleAnswer(t, r, v)
  BY <1>9, RuleKeeps
<1>10. CASE \E t \in Teams : OpenRetry(t)
  BY <1>10, OpenRetryKeeps
<1>11. CASE \E doubled \in SUBSET Teams : RevealAnswer(doubled)
  BY <1>11, RevealKeeps
<1>12. CASE StartTiebreak \/ ResolveTiebreak
  BY <1>12, StartTiebreakKeeps, ResolveTiebreakKeeps
<1>13. CASE \E k \in judging, v \in Verdicts : JudgeAnswers(k, v)
  BY <1>13, JudgeKeeps
<1>14. CASE Tick
  BY <1>14, TickKeeps
<1>15. CASE PauseRound1 \/ ResumeRound1 \/ TimePasses
  BY <1>15, OverlayKeeps
<1>16. CASE HostMoves /\ UNCHANGED r1Vars
  BY <1>16, HostMovesKeep
<1>17. CASE UNCHANGED allR1Vars
  <2>1. UNCHANGED vars /\ UNCHANGED r1Vars
    BY <1>17 DEF allR1Vars
  <2>2. /\ UNCHANGED <<question, attempt, maco, verdicts>>
        /\ UNCHANGED <<r1Phase, nominee, points, standing, r1Winner, drawn>>
    BY <2>1 DEF r1Vars, sheetVars, judgeVars
  <2>3. QED
    BY <2>1, <2>2, SheetsAreSheets, SheetsProceed
<1>18. QED
  BY <1>1, <1>2, <1>3, <1>4, <1>5, <1>6, <1>7, <1>8, <1>9, <1>10, <1>11, <1>12, <1>13, <1>14,
     <1>15, <1>16, <1>17 DEF R1Next

LEMMA R1Invariant == R1Spec => []R1Inv
<1>1. R1Init => R1Inv
  BY R1Starts
<1>2. R1Inv /\ [R1Next]_allR1Vars => R1Inv'
  BY R1StepKeeps
<1>3. QED
  BY <1>1, <1>2, PTL DEF R1Spec

-----------------------------------------------------------------------------
(* What the invariant gives. *)

\* A question is well-formed, its windows are tied to the pause and whoever may
\* still answer is awaited: whatever was open when a pause came, and whoever answers,
\* is ruled or is given a retry in between.
THEOREM QuestionIsSoundAlways == R1Spec => []QuestionIsSound
<1>1. R1Inv => R1TypeOK
  <2> SUFFICES ASSUME R1Inv PROVE R1TypeOK
    OBVIOUS
  <2>1. ASSUME NEW S, NEW d \in Nat, NEW s \in SheetRecords(S, d)
        PROVE  AnswersOk(s) /\ s.no \in Nat /\ s.phase \in SheetPhases /\ s.challenge \in Nat
               /\ s.window \in WindowsUpTo(d)
    <3>1. DOMAIN s.answers = S /\ \A t \in S : s.answers[t] \in AnswerRecords
      BY DEF SheetRecords
    <3>2. ASSUME NEW a \in AnswerRecords
          PROVE  /\ {a.sub, a.retrySub} \subseteq Typed \cup {NoAnswer}
                 /\ {a.ruling, a.retryRuling} \subseteq Verdicts \cup {Unruled}
                 /\ a.retryOpen \in BOOLEAN /\ a.awarded \in Nat
                 /\ a.retry \in WindowsUpTo(RetryMs)
      BY DEF AnswerRecords
    <3>3. AnswersOk(s)
      BY <3>1, <3>2 DEF AnswersOk
    <3>4. QED
      BY <3>3 DEF SheetRecords
  <2>2. /\ AnswersOk(question) /\ question.no \in Nat /\ question.phase \in SheetPhases
        /\ question.challenge \in Nat /\ question.window \in WindowsUpTo(QuestionMs)
        /\ AnswersOk(attempt) /\ attempt.no \in Nat /\ attempt.phase \in SheetPhases
        /\ attempt.window \in WindowsUpTo(TiebreakMs)
    BY <2>1, SheetsAreSheets
  <2>3. challenge.id \in Nat
    BY GameFlowAssumption DEF GameFlowAssumption, R1Inv, FlowInv, TypeOK
  <2>4. /\ question.no \in 0..Questions /\ question.challenge \in 0..challenge.id
        /\ attempt.no \in 0..drawn
    BY <2>2, <2>3, R1Constants DEF R1Inv, SheetsInv
  <2>5. maco.window \in WindowsUpTo(MacoMs)
    BY DEF R1Inv, SheetsInv, MacoRecords
  <2>6. QED
    BY <2>2, <2>4, <2>5 DEF R1TypeOK, R1Inv, SheetsInv, StageInv
<1>2. R1Inv => QuestionIsSound
  BY <1>1 DEF QuestionIsSound, R1Inv
<1>3. QED
  BY <1>2, R1Invariant, PTL

\* What an answer has earned is what it was ruled, for ever: no verdict that comes
\* after the reveal parts the two, and the question was paid for.
THEOREM ScoredAsRuledAlways == R1Spec => []ScoredAsRuled
<1>1. R1Inv => ScoredAsRuled
  BY DEF R1Inv
<1>2. QED
  BY <1>1, R1Invariant, PTL

\* The game the round is played in stays sound.
THEOREM Round1StaysSound == R1Spec => [](GameIsSound /\ TimerIsSound)
<1>1. R1Inv => GameIsSound /\ TimerIsSound
  BY FlowInvGives DEF R1Inv
<1>2. QED
  BY <1>1, R1Invariant, PTL

-----------------------------------------------------------------------------
(* Nobody answers knowing. *)

\* A sheet that goes on takes no answer from whoever was shown what is in it.
LEMMA LaterIsUnknowing ==
    ASSUME NEW s, NEW r, s.no \in Nat, LaterOrNew(s, r)
    PROVE  Unknowing(s, r)
<1> SUFFICES ASSUME r.no = s.no PROVE Unknowing(s, r)
  BY DEF Unknowing
<1>1. Later(s, r)
  BY DEF LaterOrNew
<1>2. s.phase = "revealed" => r.phase = "revealed"
  BY <1>1 DEF Later
<1>3. ASSUME NEW t \in DOMAIN s.answers, LastText(r.answers[t]) # LastText(s.answers[t]),
             NEW p, NEW u \in DOMAIN s.answers \ {t}
      PROVE  ~SolutionShown(s) /\ (WordsShown(s, u, t, p) # NoAnswer => Peeking(s, u, p))
  <2>1. s.phase # "revealed"
    BY <1>1, <1>3 DEF Later, SameEnd, LastText
  <2>2. QED
    BY <2>1 DEF SolutionShown, WordsShown, MaySeeText
<1>4. ASSUME NEW t \in DOMAIN s.answers, LastText(r.answers[t]) # LastText(s.answers[t])
      PROVE  ~SolutionShown(s)
  BY <1>1, <1>4 DEF Later, SameEnd, LastText, SolutionShown
<1>5. QED
  BY <1>2, <1>3, <1>4 DEF Unknowing, SolutionShown

\* A peek is what the phone of its viewer shows, and of nobody else.
LEMMA PeekIsItsViewers ==
    ASSUME R1Inv
    PROVE  PeekIsForThisQuestion
<1> SUFFICES ASSUME maco.target # None PROVE PeekIsForThisQuestion
  BY DEF PeekIsForThisQuestion
<1>1. /\ maco.question = question.no /\ question.phase \in {"open", "grading", "retry"}
      /\ question.answers[maco.target].sub # NoAnswer
      /\ \E t \in Teams \ {maco.target} : nominee[t][LevelOf(question)] = maco.viewer
  BY DEF R1Inv, PeekIsSound
<1>2. maco.target \in Teams /\ question.kind = "question"
  BY DEF R1Inv, SheetsInv, MacoRecords
<1>3. ASSUME NEW p \in Players
      PROVE  PeekShown(p) # NoAnswer <=> (p = maco.viewer /\ ~Due(maco.window))
  <2>1. (\E t \in Teams : Peeking(question, t, p)) <=> (p = maco.viewer /\ ~Due(maco.window))
    BY <1>1, <1>2 DEF Peeking
  <2>2. QED
    BY <1>1, <2>1 DEF PeekShown
<1>4. QED
  BY <1>1, <1>3 DEF PeekIsForThisQuestion

\* Answers stay hidden: from the room's first question to its last tiebreak item
\* nobody sends one who was shown the solution or, but for a peek, another team's
\* words.
THEOREM AnswersStayHiddenAlways == R1Spec => AnswersStayHidden
<1>1. R1Inv => PeekIsForThisQuestion
  BY PeekIsItsViewers
<1>2. R1Inv /\ [R1Next]_allR1Vars =>
          [Unknowing(question, question') /\ Unknowing(attempt, attempt')]_allR1Vars
  <2> SUFFICES ASSUME R1Inv, [R1Next]_allR1Vars
               PROVE  Unknowing(question, question') /\ Unknowing(attempt, attempt')
    OBVIOUS
  <2>1. LaterOrNew(question, question') /\ LaterOrNew(attempt, attempt')
    BY R1StepKeeps DEF StepsOn
  <2>2. question.no \in Nat /\ attempt.no \in Nat
    BY SheetsAreSheets DEF SheetRecords
  <2>3. QED
    BY <2>1, <2>2, LaterIsUnknowing
<1>3. QED
  BY <1>1, <1>2, R1Invariant, PTL DEF R1Spec, AnswersStayHidden, NobodyAnswersKnowing

-----------------------------------------------------------------------------
(* What the judge is asked. *)

\* The words an answer stands with, and that their text decides nothing.
LeftOpen(a, retry) ==
    LET words == IF retry THEN a.retrySub ELSE a.sub IN
    words # NoAnswer /\ Deterministic[words] = Unruled

\* Of a question asked before nothing is claimed, of one to come nothing is asked.
OpenIn(q, k) ==
    k.kind = "question" =>
        /\ k.no \in Nat /\ k.no <= q.no
        /\ k.no = q.no => k.team \in DOMAIN q.answers /\ LeftOpen(q.answers[k.team], k.retry)

OnlyOpenAsked == \A k \in judging : OpenIn(question, k)

\* What the room asks about of a sheet.
LEMMA QuestionableFacts ==
    ASSUME NEW S, NEW d \in Nat, NEW s \in SheetRecords(S, d), NEW k \in Questionable(s)
    PROVE  k.kind = s.kind /\ OpenIn(s, k)
<1>1. DOMAIN s.answers = S /\ \A t \in S : s.answers[t] \in AnswerRecords
  BY DEF SheetRecords
<1>2. PICK t \in S, retry \in BOOLEAN :
          /\ k = Key(s, t, retry)
          /\ LeftOpen(s.answers[t], retry)
  <2>1. CASE \E t \in PendingFirst(s) : /\ Deterministic[s.answers[t].sub] = Unruled
                                        /\ k = Key(s, t, FALSE)
    <3>1. PICK t \in PendingFirst(s) : /\ Deterministic[s.answers[t].sub] = Unruled
                                       /\ k = Key(s, t, FALSE)
      BY <2>1
    <3>2. t \in S /\ s.answers[t].sub # NoAnswer
      BY <1>1 DEF PendingFirst
    <3>3. LeftOpen(s.answers[t], FALSE)
      BY <3>1, <3>2 DEF LeftOpen
    <3>4. QED
      BY <3>1, <3>2, <3>3
  <2>2. CASE \E t \in PendingRetry(s) : /\ Deterministic[s.answers[t].retrySub] = Unruled
                                        /\ k = Key(s, t, TRUE)
    <3>1. PICK t \in PendingRetry(s) : /\ Deterministic[s.answers[t].retrySub] = Unruled
                                       /\ k = Key(s, t, TRUE)
      BY <2>2
    <3>2. t \in S /\ s.answers[t].retrySub # NoAnswer
      BY <1>1 DEF PendingRetry
    <3>3. LeftOpen(s.answers[t], TRUE)
      BY <3>1, <3>2 DEF LeftOpen
    <3>4. QED
      BY <3>1, <3>2, <3>3
  <2>3. QED
    BY <2>1, <2>2 DEF Questionable
<1>3. k.kind = s.kind /\ k.no = s.no /\ k.team = t /\ k.retry = retry
  BY <1>2 DEF Key
<1>4. s.no \in Nat
  BY DEF SheetRecords
<1>5. QED
  BY <1>1, <1>2, <1>3, <1>4 DEF OpenIn

\* What was left open of a sheet still is as the sheet goes on.
LEMMA OpenStays ==
    ASSUME NEW s, NEW r, NEW k, s.no \in Nat, r.no \in Nat, LaterOrNew(s, r), OpenIn(s, k)
    PROVE  OpenIn(r, k)
<1> SUFFICES ASSUME k.kind = "question" PROVE OpenIn(r, k)
  BY DEF OpenIn
<1>1. k.no \in Nat /\ k.no <= s.no
  BY DEF OpenIn
<1>2. CASE r.no > s.no
  BY <1>1, <1>2 DEF OpenIn
<1>3. CASE Later(s, r)
  <2>1. r.no = s.no /\ DOMAIN r.answers = DOMAIN s.answers
    BY <1>3 DEF Later
  <2>2. ASSUME NEW t \in DOMAIN s.answers, LeftOpen(s.answers[t], k.retry)
        PROVE  LeftOpen(r.answers[t], k.retry)
    <3>1. /\ s.answers[t].sub # NoAnswer => r.answers[t].sub = s.answers[t].sub
          /\ s.answers[t].retrySub # NoAnswer => r.answers[t].retrySub = s.answers[t].retrySub
      BY <1>3 DEF Later
    <3>2. CASE k.retry
      BY <2>2, <3>1, <3>2 DEF LeftOpen
    <3>3. CASE ~k.retry
      BY <2>2, <3>1, <3>3 DEF LeftOpen
    <3>4. QED
      BY <3>2, <3>3
  <2>3. QED
    BY <1>1, <2>1, <2>2 DEF OpenIn
<1>4. QED
  BY <1>2, <1>3 DEF LaterOrNew

\* Rulings leave the words alone.
LEMMA RulingsLeaveWords ==
    ASSUME NEW s, NEW r, OnlyRules(s, r)
    PROVE  /\ r.no = s.no /\ DOMAIN r.answers = DOMAIN s.answers
           /\ \A t \in DOMAIN s.answers : /\ r.answers[t].sub = s.answers[t].sub
                                         /\ r.answers[t].retrySub = s.answers[t].retrySub
BY DEF OnlyRules

\* What the room asks about of a sheet whose answers are those the question will
\* have, or of a tiebreak's, is open in the question.
LEMMA AskedIsOpen ==
    ASSUME NEW S, NEW d \in Nat, NEW s \in SheetRecords(S, d), NEW r, NEW k \in Questionable(s),
           s.kind = "question" => OnlyRules(s, r)
    PROVE  OpenIn(r, k)
<1> SUFFICES ASSUME k.kind = "question" PROVE OpenIn(r, k)
  BY DEF OpenIn
<1>1. s.kind = "question" /\ OpenIn(s, k)
  BY QuestionableFacts
<1>2. OnlyRules(s, r)
  BY <1>1
<1>3. r.no = s.no /\ DOMAIN r.answers = DOMAIN s.answers
  BY <1>2, RulingsLeaveWords
<1>4. ASSUME NEW t \in DOMAIN s.answers, LeftOpen(s.answers[t], k.retry)
      PROVE  LeftOpen(r.answers[t], k.retry)
  <2>1. PICK a, b : a = s.answers[t] /\ b = r.answers[t]
    OBVIOUS
  <2>2. b.sub = a.sub /\ b.retrySub = a.retrySub /\ LeftOpen(a, k.retry)
    BY <1>2, <1>4, <2>1, RulingsLeaveWords
  <2>3. LeftOpen(b, k.retry)
    BY <2>2 DEF LeftOpen
  <2>4. QED
    BY <2>1, <2>3
<1>5. QED
  BY <1>1, <1>3, <1>4 DEF OpenIn

\* The room asks in two places: as it closes a question, and in the tick.
LEMMA AskedAbout ==
    ASSUME R1Inv, [R1Next]_allR1Vars
    PROVE  \A k \in judging' \ judging : OpenIn(question', k)
<1>1. CASE CloseQuestion
  <2>1. PICK c : c = Closed(question)
    OBVIOUS
  <2>2. c \in SheetRecords(Teams, QuestionMs)
    BY <1>1, <2>1, SheetsAreSheets, ClosedProceeds DEF CloseQuestion
  <2>3. PICK r : r = question'
    OBVIOUS
  <2>4. OnlyRules(c, r)
    BY <1>1, <2>1, <2>2, <2>3, GradedRules, R1Constants DEF CloseQuestion
  <2>5. \A k \in judging' \ judging : k \in Questionable(c)
    BY <1>1, <2>1 DEF CloseQuestion, AskJudge
  <2>6. QED
    BY <2>2, <2>3, <2>4, <2>5, AskedIsOpen, R1Constants
<1>2. CASE Tick
  <2>1. PICK q, a, graded :
            /\ q = AfterWindows(question)
            /\ a = IF SheetDue(attempt) THEN Closed(attempt) ELSE attempt
            /\ graded = Graded(IF InTiebreak THEN a ELSE q)
            /\ question' = IF InTiebreak THEN q ELSE Judged(graded)
            /\ AskJudge(graded)
    BY <1>2 DEF Tick
  <2>2. \A k \in judging' \ judging : k \in Questionable(graded)
    BY <2>1 DEF AskJudge
  <2>3. q \in SheetRecords(Teams, QuestionMs)
    BY <2>1, SheetsAreSheets, AfterWindowsProceeds
  <2>4. a \in SheetRecords(DOMAIN attempt.answers, TiebreakMs) /\ a.kind = "tiebreak"
    <3>1. Proceeds(attempt, a) /\ a \in SheetRecords(DOMAIN attempt.answers, TiebreakMs)
      BY <2>1, SheetsAreSheets, ClosedProceeds DEF SheetDue
    <3>2. QED
      BY <3>1 DEF Proceeds, Later, R1Inv, SheetsInv
  <2>5. PICK r : r = question'
    OBVIOUS
  <2>6. CASE InTiebreak
    <3>1. /\ graded \in SheetRecords(DOMAIN attempt.answers, TiebreakMs)
          /\ graded.kind = "tiebreak"
      BY <2>1, <2>4, <2>6, GradedRules, R1Constants DEF OnlyRules
    <3>2. QED
      BY <2>2, <2>5, <3>1, AskedIsOpen, R1Constants
  <2>7. CASE ~InTiebreak
    <3>1. graded \in SheetRecords(Teams, QuestionMs)
      BY <2>1, <2>3, <2>7, GradedRules, R1Constants
    <3>2. OnlyRules(graded, r)
      BY <2>1, <2>5, <2>7, <3>1, SheetsAreSheets, JudgedRules
    <3>3. QED
      BY <2>2, <2>5, <3>1, <3>2, AskedIsOpen, R1Constants
  <2>8. QED
    BY <2>6, <2>7
<1>3. CASE \E k \in judging, v \in Verdicts : JudgeAnswers(k, v)
  BY <1>3 DEF JudgeAnswers
<1>4. CASE judging' = judging
  BY <1>4
<1>5. QED
  BY <1>1, <1>2, <1>3, <1>4
     DEF R1Next, StartGameInRoom, BeginRound1, NominateAnswerer, StartQuestions, NextQuestion,
         NextQuestionRefused, SubmitAnswer, SubmitTiebreakAnswer, ViewMaco, RuleAnswer, OpenRetry,
         RevealAnswer, RevealRefused, StartTiebreak, ResolveTiebreak, PauseRound1, ResumeRound1,
         TimePasses, EveryWindow, allR1Vars, r1Vars, judgeVars

\* The judge is only ever asked about an answer whose text decides nothing, however
\* late it answers and whatever has become of the answer: words once sent are not
\* taken back, so a key names the same words as long as its question is asked.
THEOREM OnlyOpenAskedAlways == R1Spec => []OnlyOpenAsked
<1>1. R1Init => OnlyOpenAsked
  BY DEF R1Init, OnlyOpenAsked
<1>2. R1Inv /\ OnlyOpenAsked /\ [R1Next]_allR1Vars => OnlyOpenAsked'
  <2> SUFFICES ASSUME R1Inv, OnlyOpenAsked, [R1Next]_allR1Vars, NEW k \in judging'
               PROVE  OpenIn(question', k)
    BY DEF OnlyOpenAsked
  <2>1. CASE k \notin judging
    BY <2>1, AskedAbout
  <2>2. CASE k \in judging
    <3>1. R1Inv' /\ LaterOrNew(question, question')
      BY R1StepKeeps DEF StepsOn
    <3>2. PICK r : r = question'
      OBVIOUS
    <3>3. question.no \in Nat /\ r.no \in Nat
      BY <3>1, <3>2, SheetsAreSheets DEF SheetRecords, R1Inv, SheetsInv
    <3>4. OpenIn(question, k)
      BY <2>2 DEF OnlyOpenAsked
    <3>5. OpenIn(r, k)
      BY <3>1, <3>2, <3>3, <3>4, OpenStays
    <3>6. QED
      BY <3>2, <3>5
  <2>3. QED
    BY <2>1, <2>2
<1>3. QED
  BY <1>1, <1>2, R1Invariant, PTL DEF R1Spec

\* What an answer earns is what it was ruled, and no slip of the finger is asked
\* about; that a slip's text decides, and that slips are what the distance counts,
\* are facts of the texts, which TLC computes.
THEOREM RuledAsGradedAlways ==
    ASSUME SlipsAreDecided, SlipsAreCounted
    PROVE  R1Spec => []RuledAsGraded
<1>1. R1Inv /\ OnlyOpenAsked => RuledAsGraded
  <2> SUFFICES ASSUME R1Inv, OnlyOpenAsked PROVE RuledAsGraded
    OBVIOUS
  <2>1. ASSUME NEW t \in DOMAIN question.answers, NEW retry \in BOOLEAN,
               Key(question, t, retry) \in judging
        PROVE  LeftOpen(question.answers[t], retry)
    <3>1. PICK k \in judging : k = Key(question, t, retry)
      BY <2>1
    <3>2. k.kind = "question" /\ k.no = question.no /\ k.team = t /\ k.retry = retry
      BY <3>1 DEF Key, R1Inv, SheetsInv
    <3>3. QED
      BY <3>2 DEF OnlyOpenAsked, OpenIn
  <2>2. ASSUME NEW a \in AnswerRecords, NEW retry \in BOOLEAN, LeftOpen(a, retry)
        PROVE  (IF retry THEN a.retrySub ELSE a.sub) \notin NearlyRight
    BY <2>2 DEF LeftOpen, SlipsAreDecided
  <2>3. \A t \in DOMAIN question.answers : question.answers[t] \in AnswerRecords
    BY SheetsAreSheets DEF SheetRecords
  <2>4. ASSUME NEW t \in DOMAIN question.answers
        PROVE  /\ Key(question, t, FALSE) \in judging => question.answers[t].sub \notin NearlyRight
               /\ Key(question, t, TRUE) \in judging =>
                      question.answers[t].retrySub \notin NearlyRight
    BY <2>1, <2>2, <2>3
  <2>5. TyposAreForgiven
    BY <2>4 DEF TyposAreForgiven
  <2>6. QED
    BY <2>5 DEF RuledAsGraded, R1Inv
<1>2. QED
  BY <1>1, R1Invariant, OnlyOpenAskedAlways, PTL

-----------------------------------------------------------------------------
(* The tiebreak implements Elimination.                                    *)

\* The abstract knockout counts as the round does.
LEMMA KnockoutCounts == \A S : Knockout!Cardinality(S) = Cardinality(S)
  BY DEF Knockout!Cardinality, Cardinality

\* What the tiebreak shows of itself changes in three ways: the last reveal ties
\* the leaders, a resolved item sends some out, a resolved item leaves one.
LEMMA StepIsKnockoutStep ==
    ASSUME R1Inv, [R1Next]_allR1Vars
    PROVE  [Knockout!Begin \/ Knockout!KnockOut \/ Knockout!Crown]_(Knockout!KVars)
<1>1. ASSUME NEW doubled \in SUBSET Teams, RevealAnswer(doubled)
      PROVE  Knockout!Begin \/ UNCHANGED Knockout!KVars
  <2>1. CASE UNCHANGED <<standing, r1Winner>>
    BY <2>1 DEF Knockout!KVars
  <2>2. CASE ~UNCHANGED <<standing, r1Winner>>
    <3>1. /\ question.no > 0 /\ question.phase # "revealed" /\ RevealAndScore(question, doubled)
          /\ r1Phase \notin {"tiebreak", "off"}
      BY <1>1, <2>2 DEF RevealAnswer, InTiebreak
    <3>2. DecideWinner(points')
      BY <2>2, <3>1 DEF RevealAndScore
    <3>3. standing = {} /\ r1Winner = None
      BY <3>1 DEF R1Inv, StageInv
    <3>4. PICK pts \in [Teams -> Nat] : pts = points'
      BY <1>1, R1StepKeeps DEF R1Inv, SheetsInv
    <3>5. \/ /\ r1Phase' = "complete" /\ r1Winner' \in Teams /\ standing' = standing
          \/ /\ r1Phase' = "tiebreak" /\ r1Winner' = r1Winner
             /\ standing' \subseteq Teams /\ Cardinality(standing') > 1
      BY <3>2, <3>3, <3>4, DecidesStage
    <3>6. CASE standing' = standing
      BY <3>3, <3>6 DEF Knockout!KVars
    <3>7. CASE standing' # standing
      <4>1. standing' \in SUBSET Teams /\ Cardinality(standing') > 1 /\ r1Winner' = None
        BY <3>3, <3>5, <3>7
      <4>2. QED
        BY <3>3, <4>1, KnockoutCounts DEF Knockout!Begin
    <3>8. QED
      BY <3>6, <3>7
  <2>3. QED
    BY <2>1, <2>2
<1>2. ASSUME ResolveTiebreak
      PROVE  Knockout!KnockOut \/ Knockout!Crown \/ UNCHANGED Knockout!KVars
  <2>1. PICK W : W = Winners(attempt)
    OBVIOUS
  <2>2. /\ W \subseteq standing /\ Survivors(W) \subseteq standing
        /\ Cardinality(W) # 1 => Cardinality(Survivors(W)) > 1
        /\ Cardinality(W) = 1 => \E t \in standing : W = {t} /\ Survivors(W) = {t}
        /\ r1Winner = None /\ standing' = Survivors(W)
    BY <1>2, <2>1, SurvivorsFacts DEF ResolveTiebreak
  <2>3. CASE Cardinality(W) = 1
    <3>1. r1Winner' = CHOOSE t \in W : TRUE
      BY <1>2, <2>1, <2>3 DEF ResolveTiebreak
    <3>2. r1Winner' \in standing /\ standing' = {r1Winner'}
      BY <2>2, <2>3, <3>1
    <3>3. QED
      BY <2>2, <3>2 DEF Knockout!Crown
  <2>4. CASE Cardinality(W) # 1
    <3>1. r1Winner' = None
      BY <1>2, <2>1, <2>2, <2>4 DEF ResolveTiebreak
    <3>2. standing' \subseteq standing /\ Cardinality(standing') > 1
      BY <2>2, <2>4
    <3>3. QED
      BY <2>2, <3>1, <3>2, KnockoutCounts DEF Knockout!KnockOut, Knockout!KVars
  <2>5. QED
    BY <2>3, <2>4
<1>3. CASE UNCHANGED <<standing, r1Winner>>
  BY <1>3 DEF Knockout!KVars
<1>4. QED
  BY <1>1, <1>2, <1>3
     DEF R1Next, StartGameInRoom, BeginRound1, NominateAnswerer, StartQuestions, NextQuestion,
         NextQuestionRefused, SubmitAnswer, SubmitTiebreakAnswer, ViewMaco, CloseQuestion,
         RuleAnswer, OpenRetry, RevealRefused, StartTiebreak, JudgeAnswers, Tick, PauseRound1,
         ResumeRound1, TimePasses, EveryWindow, allR1Vars, r1Vars

\* The tiebreak is a knockout of the leaders: whoever is out stays out, nobody being
\* right puts nobody out, and the one left is the winner.
THEOREM Round1ImplementsElimination == R1Spec => ImplementsElimination
<1>1. R1Init => Knockout!KInit
  BY DEF R1Init, Knockout!KInit
<1>2. QED
  BY <1>1, StepIsKnockoutStep, R1Invariant, PTL DEF R1Spec, ImplementsElimination, Knockout!KSpec

=============================================================================

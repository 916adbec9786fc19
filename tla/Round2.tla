------------------------------- MODULE Round2 -------------------------------
(***************************************************************************)
(* Round 2, "Shake Up Yuhself!" (game-rules/round2.ts), and the engine     *)
(* methods that drive it.  The round is a cursor over its contests; the    *)
(* challenge container, the phase and the ledger stay the engine's, and    *)
(* the Host can still send every intent of GameFlow meanwhile: the generic *)
(* prepare, resolve and review among them.                                 *)
(*                                                                         *)
(* The reward is left out: settlements counts that the ledger was told.    *)
(***************************************************************************)
EXTENDS DevSkip, Sequences, FiniteSets

CONSTANTS Slots,        \* ROUND2_CHALLENGE_COUNT
          Round2Index   \* ROUND2_ROUND_INDEX

ASSUME Round2Assumption == Slots \in Nat /\ Round2Index \in Nat

VARIABLES
    r2Active,   \* GameEngine.#round2 is set and begun
    slots,      \* Round2.#slots
    picked      \* Round2.#pendingWinnerTeamId

r2Vars == <<r2Active, slots, picked>>
allR2Vars == <<vars, r2Vars>>

Progress == {"not_started", "in_progress", "resolved"}

R2TypeOK ==
    /\ r2Active \in BOOLEAN
    /\ slots \in [1..Slots -> [progress : Progress, challenge : 0..MaxChallenges,
                               winner : Teams \cup {None}]]
    /\ picked \in Teams \cup {None}
    /\ \A s \in 1..Slots : slots[s].progress = "resolved" <=> slots[s].winner # None

R2Init ==
    /\ Init
    /\ r2Active = FALSE
    /\ slots = [s \in 1..Slots |-> [progress |-> "not_started", challenge |-> 0,
                                    winner |-> None]]
    /\ picked = None

-----------------------------------------------------------------------------
\* A slip the checks must catch: any contest that is not over will do.
AnyUnresolved(s) == slots[s].progress # "resolved"

\* #currentSlot: the first contest that has not resolved.
IsCurrent(s) ==
    /\ slots[s].progress # "resolved"
    /\ \A r \in 1..s - 1 : slots[r].progress = "resolved"

BeginRound2 ==
    /\ Running
    /\ roundIndex = Round2Index
    /\ ~r2Active
    /\ r2Active' = TRUE
    /\ UNCHANGED <<vars, slots, picked>>

\* The development control walks to the round first; what it walked stays even
\* if it does not get there.
DevEnterRound2 ==
    /\ MayEnter(Round2Index, r2Active)
    /\ WalksTo(Round2Index)
    /\ r2Active' = Arrives(Round2Index)
    /\ UNCHANGED <<slots, picked>>

DevStartRound2 == DevTools /\ DevEnterRound2

PreparedId == challenge.id + 1

\* A slip the checks must catch: the selection survives.
KeepSelection == UNCHANGED picked

ClearSelection == picked' = None

\* The generic prepare, and the round's slot bound to what it made.
PrepareRound2Challenge ==
    /\ r2Active
    /\ \E s \in 1..Slots :
          /\ IsCurrent(s)
          /\ slots[s].progress = "not_started"
          /\ slots' = [slots EXCEPT ![s] = [progress |-> "in_progress",
                                            challenge |-> PreparedId, winner |-> None]]
    /\ PrepareChallenge
    /\ ClearSelection
    /\ UNCHANGED r2Active

SelectRound2Winner(t) ==
    /\ Running
    /\ r2Active
    /\ \E s \in 1..Slots : IsCurrent(s) /\ slots[s].progress = "in_progress"
    /\ picked' = t
    /\ UNCHANGED <<vars, r2Active, slots>>

\* A confirmation may name the winner, or confirm the one selected.
WinnerOf(t) == IF t # None THEN t ELSE picked

WinnerKnown(t) == WinnerOf(t) # None

\* A slip the checks must catch: the round records a result nobody paid.
RecordOnly == UNCHANGED vars

\* The engine's CURRENT challenge is the one resolved and paid.
PayResult == ResolveChallenge

ConfirmRound2Result(t) ==
    /\ Running
    /\ r2Active
    /\ WinnerKnown(t)
    /\ \E s \in 1..Slots :
          /\ IsCurrent(s)
          /\ slots[s].progress = "in_progress"
          /\ slots' = [slots EXCEPT ![s] = [progress |-> "resolved",
                                            challenge |-> slots[s].challenge,
                                            winner |-> WinnerOf(t)]]
    /\ PayResult
    /\ ClearSelection
    /\ UNCHANGED r2Active

R2Next ==
    \/ BeginRound2
    \/ DevStartRound2
    \/ PrepareRound2Challenge
    \/ \E t \in Teams : SelectRound2Winner(t)
    \/ \E t \in Teams \cup {None} : ConfirmRound2Result(t)
    \/ Next /\ UNCHANGED r2Vars

R2Spec == R2Init /\ [][R2Next]_allR2Vars

FairR2Spec == R2Spec /\ WF_allR2Vars(PollTimerExpiry /\ UNCHANGED r2Vars)

-----------------------------------------------------------------------------
(* Properties. *)

\* Every contest under way or over is bound to a challenge the engine made,
\* later contests to later challenges: no two share one (markPrepared).
SlotsBindChallenges ==
    \A s \in 1..Slots :
        /\ slots[s].progress # "not_started" => slots[s].challenge \in 1..challenge.id
        /\ \A r \in 1..s - 1 : slots[s].challenge # 0 => slots[r].challenge < slots[s].challenge

\* A contest with a recorded winner was paid, whatever the Host's generic
\* intents did to its challenge meanwhile (confirmRound2Result).
ResultsArePaid ==
    \A s \in 1..Slots :
        slots[s].progress = "resolved" => settlements[slots[s].challenge] > 0

\* round2.ts:92: "a selection can never leak from one game into the next".
SelectionStaysInItsContest ==
    picked # None => \E s \in 1..Slots : IsCurrent(s) /\ slots[s].progress = "in_progress"

Won == {s \in 1..Slots : slots[s].progress = "resolved"}

Round == INSTANCE OrderedRound
             WITH winners <- [i \in 1..Cardinality(Won) |-> slots[i].winner],
                  open    <- \E s \in 1..Slots : slots[s].progress = "in_progress"

\* Contests are opened one at a time, in order, and a confirmed winner is final.
ImplementsOrderedRound == Round!OSpec

\* What holds of the round between any two steps: well-formed, each contest with
\* a challenge of its own, and a selection only in the contest it was made in.
OrderIsSound == R2TypeOK /\ SlotsBindChallenges /\ SelectionStaysInItsContest

=============================================================================

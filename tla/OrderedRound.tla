---------------------------- MODULE OrderedRound ----------------------------
(***************************************************************************)
(* What Round 2 promises (round2.ts, GAME_RULES_LOCKED.md section 12): a   *)
(* fixed number of contests, opened one at a time in order, each closed by *)
(* naming one winner, which is then final.                                 *)
(***************************************************************************)
EXTENDS Naturals, Sequences

CONSTANTS Teams,    \* who can win
          Slots     \* how many contests the round holds

VARIABLES winners,  \* who won the contests closed so far, in order
          open      \* a contest is open

ovars == <<winners, open>>

OInit == winners = <<>> /\ open = FALSE

Open == ~open /\ Len(winners) < Slots /\ open' = TRUE /\ UNCHANGED winners

Close(t) == open /\ open' = FALSE /\ winners' = Append(winners, t)

ONext == Open \/ \E t \in Teams : Close(t)

OSpec == OInit /\ [][ONext]_ovars

=============================================================================

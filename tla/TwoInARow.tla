----------------------------- MODULE TwoInARow ------------------------------
(***************************************************************************)
(* What Sudden Death promises (GAME_RULES_LOCKED.md section 21, D-034): a  *)
(* sequence of face-offs, won one at a time, that is over the first time   *)
(* one team wins two in a row.  A face-off without a decision changes      *)
(* nothing, and a champion is never taken back.                            *)
(***************************************************************************)
CONSTANTS Teams, None

VARIABLES lastWinner,  \* who won the last decided face-off
          champion     \* who won the whole contest

tvars == <<lastWinner, champion>>

TInit == lastWinner = None /\ champion = None

Win(t) ==
    /\ champion = None
    /\ lastWinner' = t
    /\ champion' = IF lastWinner = t THEN t ELSE None

TNext == \E t \in Teams : Win(t)

TSpec == TInit /\ [][TNext]_tvars

=============================================================================

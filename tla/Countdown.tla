----------------------------- MODULE Countdown ------------------------------
(***************************************************************************)
(* What a server timer promises (docs/STATE_MACHINE.md, the class comment  *)
(* of timer-service.ts): a countdown that only runs down while it runs,    *)
(* keeps what is left while it is frozen, can be given more time only      *)
(* before it has run out, and rings at most once per arming.               *)
(*                                                                         *)
(* This is the abstract specification GameFlow is shown to implement; it   *)
(* knows nothing of clock readings, start times or banked pauses.          *)
(***************************************************************************)
EXTENDS Integers

CONSTANTS Durations,    \* the lengths a timer can be armed with
          Extension     \* what one Extra Time adds

VARIABLES left,   \* time left; 0 when idle
          mode,   \* "idle", "running" or "frozen"
          rung    \* the expiry of this arming has been reported

cvars == <<left, mode, rung>>

CTypeOK == /\ left \in Nat
           /\ mode \in {"idle", "running", "frozen"}
           /\ rung \in BOOLEAN

CInit == left = 0 /\ mode = "idle" /\ rung = FALSE

Arm == /\ left' \in Durations
       /\ mode' = "running"
       /\ rung' = FALSE

Disarm == left' = 0 /\ mode' = "idle" /\ rung' = FALSE

Freeze == mode = "running" /\ mode' = "frozen" /\ UNCHANGED <<left, rung>>

Thaw == mode = "frozen" /\ mode' = "running" /\ UNCHANGED <<left, rung>>

Extend == /\ mode # "idle"
          /\ left > 0
          /\ left' = left + Extension
          /\ UNCHANGED <<mode, rung>>

Elapse == /\ mode = "running"
          /\ left > 0
          /\ left' = left - 1
          /\ UNCHANGED <<mode, rung>>

Ring == /\ mode # "idle"
        /\ left = 0
        /\ ~rung
        /\ rung' = TRUE
        /\ UNCHANGED <<left, mode>>

CNext == Arm \/ Disarm \/ Freeze \/ Thaw \/ Extend \/ Elapse \/ Ring

CSpec == CInit /\ [][CNext]_cvars

=============================================================================

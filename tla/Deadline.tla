------------------------------ MODULE Deadline ------------------------------
(***************************************************************************)
(* The pausable deadline of packages/game-rules/src/deadline.ts: a         *)
(* countdown that stores when it started, how long it lasts, when it was   *)
(* paused and how much time earlier pauses took.  Nothing counts down; the *)
(* remaining time is computed from the clock on demand, so every operator  *)
(* here takes the clock reading n the code takes from clock.now().         *)
(***************************************************************************)
EXTENDS Integers

\* pausedAt of a deadline that is running (null in the code).
NotPaused == -1

Deadlines == [durationMs         : Nat,
              startedAt          : Nat,
              pausedAt           : Nat \cup {NotPaused},
              accumulatedPauseMs : Nat]

StartDeadline(n, d) == [durationMs         |-> d,
                        startedAt          |-> n,
                        pausedAt           |-> NotPaused,
                        accumulatedPauseMs |-> 0]

IsPaused(dl) == dl.pausedAt # NotPaused

\* Pausing a paused deadline changes nothing.
PauseDeadline(n, dl) == IF IsPaused(dl) THEN dl ELSE [dl EXCEPT !.pausedAt = n]

\* Resuming banks the pause that ends; resuming a running deadline changes nothing.
ResumeDeadline(n, dl) ==
    IF IsPaused(dl)
    THEN [durationMs         |-> dl.durationMs,
          startedAt          |-> dl.startedAt,
          pausedAt           |-> NotPaused,
          accumulatedPauseMs |-> dl.accumulatedPauseMs + (n - dl.pausedAt)]
    ELSE dl

AtLeastZero(x) == IF x > 0 THEN x ELSE 0

\* While paused, time is measured to the moment of pausing.
ElapsedMs(n, dl) ==
    AtLeastZero((IF IsPaused(dl) THEN dl.pausedAt ELSE n)
                - dl.startedAt - dl.accumulatedPauseMs)

RemainingMs(n, dl) == AtLeastZero(dl.durationMs - ElapsedMs(n, dl))

HasExpired(n, dl) == RemainingMs(n, dl) = 0

ExtendDeadline(dl, ms) == [dl EXCEPT !.durationMs = @ + ms]

(***************************************************************************)
(* A deadline the program can hold at clock reading n: started and paused  *)
(* in the past, and never paused for longer than it has existed.           *)
(***************************************************************************)
WellFormed(n, dl) ==
    /\ dl.startedAt <= n
    /\ IsPaused(dl) => dl.pausedAt <= n
    /\ dl.startedAt + dl.accumulatedPauseMs <= (IF IsPaused(dl) THEN dl.pausedAt ELSE n)

=============================================================================

------------------------------- MODULE Windows -------------------------------
(***************************************************************************)
(* The answer windows of the rounds, with the clock taken out.  The code   *)
(* keeps a deadline for each; all its callers ask of one is whether it has *)
(* run out, and all they do to it is start, pause, resume and forget it.   *)
(* So a window is the time it has left and whether a pause holds it, and   *)
(* GameFlowProofs shows that a deadline is exactly that.                   *)
(***************************************************************************)
EXTENDS Integers

NoWindow == [left |-> 0, state |-> "none"]

\* Every window no longer than d.
WindowsUpTo(d) == {NoWindow} \cup [left : 0..d, state : {"running", "frozen"}]

OpenWindow(d) == [left |-> d, state |-> "running"]

Exists(w) == w.state # "none"

\* hasExpired: a frozen window that has run out has run out.
Due(w) == Exists(w) /\ w.left = 0

FreezeWindow(w) == IF w.state = "running" THEN [w EXCEPT !.state = "frozen"] ELSE w

ThawWindow(w) == IF w.state = "frozen" THEN [w EXCEPT !.state = "running"] ELSE w

ElapseWindow(w) ==
    IF w.state = "running" /\ w.left > 0 THEN [w EXCEPT !.left = @ - 1] ELSE w

\* What a pause, a resume and the clock make of a window.
WindowAfter(event, w) ==
    CASE event = "pause" -> FreezeWindow(w)
      [] event = "resume" -> ThawWindow(w)
      [] event = "tick" -> ElapseWindow(w)

\* A window stands still exactly while the game is paused.
FollowsPause(w, paused) == Exists(w) => (w.state = "frozen" <=> paused)

=============================================================================

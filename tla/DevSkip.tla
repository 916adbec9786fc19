-------------------------------- MODULE DevSkip --------------------------------
(***************************************************************************)
(* The development controls that walk a game on to a later round: the      *)
(* loop of GameEngine.devEnterRound2, devEnterRound3 and devEnterRound4.   *)
(*                                                                         *)
(* The walk takes the legal transitions one after the other, with a        *)
(* placeholder challenge for every round it skips.  Where one of them is   *)
(* refused the control is refused, and what was walked before it stays.    *)
(***************************************************************************)
EXTENDS GameFlow

CONSTANT DevTools   \* options.devTools

ASSUME DevToolsAssumption == DevTools \in BOOLEAN

\* What the walk moves.
Here == [phase |-> phase, round |-> roundIndex, challenge |-> challenge,
         settlements |-> settlements, refused |-> FALSE]

\* The placeholder, prepared, started and resolved for nobody.
PlaceholderPlayed(g) ==
    CASE g.phase # "ROUND_INTRO" -> g
      [] g.phase = "ROUND_INTRO" /\ g.challenge.status \notin {"none", "resolved"} ->
            [g EXCEPT !.phase = "CHALLENGE_INTRO", !.refused = TRUE]
      [] OTHER ->
            [g EXCEPT !.phase = "RESULT",
                      !.challenge = [id |-> g.challenge.id + 1, status |-> "resolved"],
                      !.settlements = [c \in DOMAIN @ |->
                                          IF c = g.challenge.id + 1 THEN @[c] + 1 ELSE @[c]]]

\* Out of the round, which only its result allows, and into the next.
NextIntro(g) ==
    CASE g.refused -> g
      [] ~g.refused /\ g.phase \in {"RESULT", "ROUND_COMPLETE"} ->
            [g EXCEPT !.phase = "ROUND_INTRO", !.round = @ + 1]
      [] OTHER -> [g EXCEPT !.refused = TRUE]

\* The walk until the round is the one, or it is refused.
Walked(round) ==
    LET after[n \in 0..round] ==
            IF n = 0 THEN Here
            ELSE LET g == after[n - 1] IN
                 IF g.refused \/ g.round >= round THEN g
                 ELSE NextIntro(PlaceholderPlayed(g))
    IN  after[round]

\* Every placeholder leaves the turn, the active players and the timer empty.
WalksTo(round) ==
    \E g \in {Walked(round)} :
        /\ g.round <= MaxRound /\ g.challenge.id <= MaxChallenges
        /\ phase' = g.phase
        /\ resumePhase' = NoPhase
        /\ roundIndex' = g.round
        /\ challenge' = g.challenge
        /\ settlements' = g.settlements
        /\ IF g.challenge # challenge
           THEN ClearPlay /\ CancelTheTimer
           ELSE UNCHANGED <<turn, active, timerVars>>
        /\ UNCHANGED <<now, started, members, pausedBy>>

MayEnter(round, begun) ==
    /\ Running
    /\ DevTools
    /\ ~begun
    /\ roundIndex <= round

Arrives(round) == ~Walked(round).refused

=============================================================================

------------------------------ MODULE FamilyFeud ------------------------------
(***************************************************************************)
(* What a survey promises, whatever is answered: a face-off gives the      *)
(* board to one team, that team keeps it, its strikes and only its strikes *)
(* hand the other team the steal, and the survey is won once, by the team  *)
(* on the board if nothing was struck out, else by it or the thief.        *)
(***************************************************************************)
EXTENDS Integers

CONSTANTS Sides, Nobody, Outs

VARIABLES survey, stage, holder, thief, strikes, victor

FVars == <<survey, stage, holder, thief, strikes, victor>>

FInit ==
    /\ survey = 0 /\ stage = "over" /\ strikes = 0
    /\ holder = Nobody /\ thief = Nobody /\ victor = Nobody

NextSurvey ==
    /\ stage = "over"
    /\ survey' > survey
    /\ stage' = "faceoff" /\ strikes' = 0
    /\ holder' = Nobody /\ thief' = Nobody /\ victor' = Nobody

TakeTheBoard ==
    /\ stage = "faceoff" /\ stage' = "board"
    /\ holder' \in Sides
    /\ UNCHANGED <<survey, thief, strikes, victor>>

\* A strike, or the Host's correction of their number.
CountStrikes ==
    /\ stage = "board"
    /\ strikes' \in 0..Outs - 1
    /\ UNCHANGED <<survey, stage, holder, thief, victor>>

StrikeOut ==
    /\ stage = "board" /\ stage' = "steal"
    /\ strikes' >= Outs
    /\ thief' \in Sides \ {holder}
    /\ UNCHANGED <<survey, holder, victor>>

Win ==
    /\ stage \in {"board", "steal"} /\ stage' = "over"
    /\ victor' \in IF stage = "board" THEN {holder} ELSE {holder, thief}
    /\ UNCHANGED <<survey, holder, thief, strikes>>

FSpec == FInit /\ [][NextSurvey \/ TakeTheBoard \/ CountStrikes \/ StrikeOut \/ Win]_FVars

=============================================================================

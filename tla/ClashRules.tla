----------------------------- MODULE ClashRules -----------------------------
(***************************************************************************)
(* The pure rules of Bacchanal Cards: categories, eligibility and targets  *)
(* (protocol/cards.ts), and how a Clash is decided from the cards played   *)
(* into it (resolveClashEntries of game-rules/clash.ts).                   *)
(*                                                                         *)
(* A play is a record with a field category; the outcome names the play    *)
(* that survives, or none.                                                 *)
(***************************************************************************)
Categories == {"DISRUPTION", "POWER", "RECOVERY"}

CategoryOf == [STEUPS         |-> "DISRUPTION",
               GIMME_DAT      |-> "DISRUPTION",
               MACO           |-> "DISRUPTION",
               DOUBLE_IT      |-> "POWER",
               DOH_KNOW       |-> "POWER",
               FORGIVE_MEH    |-> "RECOVERY",
               ALLYUH_HELP_ME |-> "RECOVERY"]

CardTypes == DOMAIN CategoryOf

Beats == [DISRUPTION |-> "POWER", POWER |-> "RECOVERY", RECOVERY |-> "DISRUPTION"]

CategoryBeats(attacker, defender) == Beats[attacker] = defender

\* CARD_ELIGIBILITY: which cards each kind of challenge takes.
Eligible == [ROUND1_TRIVIA          |-> {"MACO", "DOUBLE_IT", "ALLYUH_HELP_ME", "FORGIVE_MEH"},
             ROUND2_PHYSICAL        |-> {"DOUBLE_IT"},
             THINK_FAST             |-> {"STEUPS", "DOUBLE_IT", "FORGIVE_MEH"},
             GUESS_THE_LOGO         |-> {"DOUBLE_IT"},
             ALL_ANSWERS_BEGIN_WITH |-> {"DOUBLE_IT", "FORGIVE_MEH"},
             SING_A_SONG            |-> {"DOUBLE_IT"},
             FAMILY_FEUD_Q1_Q3      |-> {"STEUPS", "DOUBLE_IT", "FORGIVE_MEH"},
             FAMILY_FEUD_Q4_Q5      |-> {"STEUPS", "FORGIVE_MEH"},
             SUDDEN_DEATH           |-> {}]

ChallengeKinds == DOMAIN Eligible

RequiresTarget == {"GIMME_DAT", "DOH_KNOW", "ALLYUH_HELP_ME", "STEUPS", "MACO"}

-----------------------------------------------------------------------------
CategoriesOf(plays) == {p.category : p \in plays}

\* With two categories in play one beats the other, and only its cards survive.
Survivors(plays) ==
    {p \in plays : \E c \in CategoriesOf(plays) : CategoryBeats(p.category, c)}

\* A slip the checks must catch: any card that beats another wins.
WinnersAnyBeaten(plays) ==
    IF \E p \in plays : plays = {p} THEN plays ELSE Survivors(plays)

\* resolveClashEntries.  The play that takes effect, as a set of one, or {}
\* for Part Dat Fight: all cards of one category, all three categories, or a
\* pair that survives together.  A card nobody countered wins.
Winners(plays) ==
    IF \E p \in plays : plays = {p}
    THEN plays
    ELSE IF CategoriesOf(plays) = Categories
    THEN {}
    ELSE IF \E p \in plays : Survivors(plays) = {p} THEN Survivors(plays) ELSE {}

(***************************************************************************)
(* GAME_RULES_LOCKED.md section 5, said once: a card takes effect when it  *)
(* beats every other card played.                                          *)
(***************************************************************************)
Dominates(p, plays) == \A q \in plays \ {p} : CategoryBeats(p.category, q.category)

=============================================================================

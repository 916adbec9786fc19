------------------------------- MODULE MCDeals -------------------------------
(***************************************************************************)
(* Bounded instances of Deals for TLC: the real terms, two rounds' deals,  *)
(* three wagers, and results that can leave a team with nothing.           *)
(***************************************************************************)
EXTENDS Deals, TLC

CONSTANTS p1, p2, t1, t2

MCPlayers == {p1, p2}
MCTeams   == {t1, t2}
MCTerms ==
    [KEEP_OR_RISK |->
        [decline |-> 500, cost |-> 0, opponent |-> 0, bet |-> FALSE, win |-> 0],
     DOUBLE_OR_NOTHING_ISH |->
        [decline |-> 500, cost |-> 0, opponent |-> 0, bet |-> TRUE, win |-> 1000],
     MYSTERY_DEAL |->
        [decline |-> 0, cost |-> 300, opponent |-> 0, bet |-> FALSE, win |-> 0],
     OPPONENTS_DEAL |->
        [decline |-> 500, cost |-> 0, opponent |-> 250, bet |-> FALSE, win |-> 0]]
MCStakes == {400}
MCDeltas == {0, -900}
MCPots   == {300}

\* One challenge, opened and played in either round; a pause comes before any
\* deal or wager.
PlainGame ==
    /\ members = [t \in Teams |-> IF t = t1 THEN {p1} ELSE {p2}]
    /\ phase \notin {"SUDDEN_DEATH", "GAME_OVER", "MARKET", "LOBBY"}
    /\ Paused => deal[1] = NoDeal /\ resumePhase = "ACTIVE_PLAY" /\ wagers = <<>>

\* The first deal is the first team's, an opponent is named where one is needed,
\* a second
\* wager comes where there is no deal, and a steal where the second round has none.
FewStakes ==
    /\ deal[1].team \in {t1, None}
    /\ \A r \in 1..MaxRound : deal[r].opponent # None => TermsOf(r).opponent > 0
    /\ Len(wagers) > 1 => \A r \in 1..MaxRound : deal[r] = NoDeal
    /\ steal.thief \in {t1, None}
    /\ steal.thief # None => deal[2] = NoDeal

\* The Host takes BB from the first team, where the game goes no further;
\* elsewhere only results move it.
FewAdjustments ==
    challenge.status # "resolved" =>
        /\ results[t2] = 0
        /\ results[t1] # 0 => challenge.status = "none" /\ phase = "ROUND_INTRO"

AdjustedEarly == results' # results => challenge' # challenge \/ challenge.status = "none"

=============================================================================

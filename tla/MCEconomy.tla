----------------------------- MODULE MCEconomy ------------------------------
(***************************************************************************)
(* Bounded instances of Economy for TLC: one item that can be bought in    *)
(* two Markets and drawn from the deck, and a deck with a card of each     *)
(* kind that moves something.  Amounts are small, their order is the real  *)
(* one.                                                                    *)
(***************************************************************************)
EXTENDS Economy, TLC

CONSTANTS p1, p2, t1, t2

MCPlayers == {p1, p2}
MCTeams   == {t1, t2}
MCItems   == {"DOUBLE_BB"}
MCPrice   == [i \in MCItems |-> [r \in MarketRounds |-> 1]]
MCResults == {0, -2}
MCDeltas  == [o \in MoneyOutcomes |-> IF o = "CUSTOMS_SEIZE_YUH_MONEY" THEN -2 ELSE 1]

MCDeck == [o \in {"DOUBLE_POINTS", "CANCEL_MARKET_PURCHASE", "PRICE_GONE_UP"} |-> 1]

\* Bound: the economy begins in round 2 and ends as round 3 begins, around one
\* challenge that is played where the rules put it, without pause or review.
PhaseOf ==
    [none     |-> {"ROUND_INTRO", "CHALLENGE_INTRO"},
     pending  |-> {"CHALLENGE_INTRO"},
     active   |-> {"ACTIVE_PLAY"},
     resolved |-> {"RESULT", "ROUND_COMPLETE"}]

RoundTwo ==
    /\ roundIndex < 2 => /\ phase \in {"TEAM_LOCK", "ROUND_INTRO", "MARKET"}
                         /\ market.round = 0
                         /\ deck["pile"] = Composition
    /\ roundIndex = 2 => /\ challenge.status \in DOMAIN PhaseOf
                         /\ phase \in PhaseOf[challenge.status]
    /\ roundIndex = 3 => phase = "ROUND_INTRO"

Symmetry == Permutations(MCPlayers) \cup Permutations(MCTeams)

=============================================================================

CONSTANTS
    p1 = p1
    p2 = p2
    t1 = t1
    t2 = t2
    Players <- MCPlayers
    Teams <- MCTeams
    None = None
    Durations = {}
    Extension = 1
    MaxNow = 0
    MaxRound = 2
    MaxChallenges = 1
    MaxSettlements = 1
    MaxDuration = 1
    Terms <- MCTerms
    StartingBb = 1000
    Stakes <- MCStakes
    Deltas <- MCDeltas
    Pots <- MCPots
    MaxWagers = 2
    DevTools = TRUE
SPECIFICATION DSpec
CONSTRAINTS
    PlainGame
    FewStakes
    FewAdjustments
ACTION_CONSTRAINT AdjustedEarly
INVARIANTS
    BalancesAddUp
    AcceptedInFull
PROPERTIES
    StakesSettleOnce
CHECK_DEADLOCK FALSE

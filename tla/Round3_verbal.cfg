CONSTANTS
    p1 = p1
    p2 = p2
    p3 = p3
    t1 = t1
    t2 = t2
    t3 = t3
    Players <- ThreePlayers
    Teams <- ThreeTeams
    None = None
    Durations = {}
    Extension = 1
    MaxNow = 0
    MaxRound = 1
    MaxChallenges = 4
    MaxSettlements = 1
    MaxDuration = 1
    Round3Index = 1
    DevTools = TRUE
    Contests <- MCContests
    Items <- MCItems
    MaxScore = 1
    MaxTurns = 4
SPECIFICATION FairR3Spec
CONSTRAINTS
    OneEach
    AsRanked
    ShortGame
    FirstContest
    SecondContest
    ElsewherePlain
INVARIANTS
    VerbalIsSound
PROPERTIES
    ImplementsOrderedRound
    TiebreakIsFair
    NothingStaysOverdue
CHECK_DEADLOCK FALSE

\* Every interleaving of Host intents, disconnects and ticks, the tick fair and nobody else.
CONSTANTS
    p1 = p1
    p2 = p2
    t1 = t1
    t2 = t2
    Players <- MCPlayers
    Teams <- MCTeams
    None = None
    Durations = {2}
    Extension = 1
    MaxNow = 3
    MaxRound = 1
    MaxChallenges = 2
    MaxSettlements = 1
    MaxDuration = 3
SPECIFICATION FairSpec
INVARIANTS
    GameIsSound
    TimerIsSound
PROPERTIES
    PauseStopsTheGame
    ImplementsCountdown
    OverdueReachesHost

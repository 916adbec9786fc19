\* Face-offs, pauses, disconnects and timeouts, with the rest of the game going on.
CONSTANTS
    p1 = p1
    p2 = p2
    t1 = t1
    t2 = t2
    Players <- MCPlayers
    Teams <- MCTeams
    None = None
    Durations = {}
    Extension = 1
    MaxNow = 2
    MaxRound = 1
    MaxChallenges = 0
    MaxSettlements = 0
    MaxDuration = 1
    AnswerMs = 1
SPECIFICATION FairSDSpec
INVARIANTS
    ContestIsSound
PROPERTIES
    ImplementsTwoInARow
    SilenceIsRuled

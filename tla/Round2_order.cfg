\* Round 2 with the Host's generic intents around it.
CONSTANTS
    p1 = p1
    p2 = p2
    t1 = t1
    t2 = t2
    Players <- MCPlayers
    Teams <- MCTeams
    None = None
    Durations = {}
    Extension = 1
    MaxNow = 0
    MaxRound = 2
    MaxChallenges = 3
    MaxSettlements = 1
    MaxDuration = 1
    Slots = 2
    Round2Index = 2
    DevTools = TRUE
SPECIFICATION R2Spec
SYMMETRY Symmetry
INVARIANTS
    OrderIsSound
    ResultsArePaid
PROPERTIES
    ImplementsOrderedRound

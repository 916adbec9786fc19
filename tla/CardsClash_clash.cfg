\* Three teams: card windows, plays, pauses and challenges ending in every order,
\* all three categories, and pairs that survive together; the tick is fair.
\* A game that is over, with every bound used up, really has nothing left to do.
CONSTANTS
    p1 = p1
    p2 = p2
    t1 = t1
    t2 = t2
    p3 = p3
    t3 = t3
    Players <- ThreePlayers
    Teams <- ThreeTeams
    None = None
    Durations = {}
    Extension = 1
    MaxNow = 1
    MaxRound = 1
    MaxChallenges = 1
    MaxSettlements = 1
    MaxDuration = 1
    Hands <- MCHands
    Kinds = {"THINK_FAST"}
    ClashMs = 1
SPECIFICATION FairCSpec
CONSTRAINTS
    IdleTargets
    ShortGame
    PlaysInOrder
INVARIANTS
    ClashIsSound
PROPERTIES
    OnePlayAChallenge
    ClashIsRevealed
    RevealIsFair
CHECK_DEADLOCK FALSE

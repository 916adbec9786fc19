\* Markets, purchases, withdrawals, Maco Mail and uses over two rounds.
\* A game that is over, with every bound used up, really has nothing left to do.
CONSTANTS
    p1 = p1
    p2 = p2
    t1 = t1
    t2 = t2
    Players <- MCPlayers
    Teams <- MCTeams
    None = None
    Durations = {}
    Extension = 1
    MaxNow = 0
    MaxRound = 3
    MaxChallenges = 1
    MaxSettlements = 1
    MaxDuration = 1
    Items <- MCItems
    MarketRounds = {2}
    Price <- MCPrice
    Surcharge = 1
    StartingBb = 2
    Deltas <- MCResults
    Composition <- MCDeck
    MoneyDelta <- MCDeltas
    SorryAmount = 2
    MaxBb = 2
SPECIFICATION ESpec
CONSTRAINT RoundTwo
SYMMETRY Symmetry
INVARIANTS
    ReceiptsAreTrue
    DeckIsWhole
PROPERTIES
    OneOfAKindPerChallenge
CHECK_DEADLOCK FALSE

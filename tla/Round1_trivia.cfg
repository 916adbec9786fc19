\* One question and its tiebreak, with the judge, the Host, the tick and pauses in every order.
\* A round that is over, with every bound used up, really has nothing left to do.
CONSTANTS
    p1 = p1
    p2 = p2
    p3 = p3
    t1 = t1
    t2 = t2
    t3 = t3
    Players <- ThreePlayers
    Teams <- ThreeTeams
    None = None
    Durations = {}
    Extension = 1
    MaxNow = 0
    MaxRound = 1
    MaxChallenges = 1
    MaxSettlements = 1
    MaxDuration = 1
    Questions = 1
    Difficulties <- MCDifficulties
    DifficultyOf <- MCDifficultyOf
    TiebreakLevel = "EASY"
    Value <- MCValue
    Accepted <- MCAccepted
    Typed = {"Hnery Ford", "fort"}
    QuestionMs = 1
    RetryMs = 1
    MacoMs = 1
    TiebreakMs = 1
    MaxTiebreaks = 2
SPECIFICATION FairR1Spec
CONSTRAINTS
    OneEach
    OneTeamDoesItAll
    RetriesInOrder
    ShortGame
    PlainTie
INVARIANTS
    QuestionIsSound
    RuledAsGraded
PROPERTIES
    AnswersStayHidden
    ImplementsElimination
    QuestionIsSettled
CHECK_DEADLOCK FALSE

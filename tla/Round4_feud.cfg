CONSTANTS
    p1 = p1
    p2 = p2
    p3 = p3
    t1 = t1
    t2 = t2
    t3 = t3
    Players <- ThreePlayers
    Teams <- ThreeTeams
    None = None
    Durations = {}
    Extension = 1
    MaxNow = 0
    MaxRound = 1
    MaxChallenges = 3
    MaxSettlements = 1
    MaxDuration = 1
    Round4Index = 1
    DevTools = TRUE
    Surveys = 3
    Ranks <- MCRanks
    Value <- MCValue
    Forms <- MCForms
    Texts <- MCTexts
    Doubled <- MCDoubled
    MaxStrikes = 2
    AnswerMs = 1
    TurnMs = 1
    ConferMs = 1
SPECIFICATION FairR4Spec
CONSTRAINTS
    OneEach
    AsRanked
    ShortGame
    FirstSurveyBounds
    LaterSurveysArePlain
INVARIANTS
    BoardIsSound
PROPERTIES
    PotIsWhole
    ImplementsFeud
    SilenceIsRuled
CHECK_DEADLOCK FALSE

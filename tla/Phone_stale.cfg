CONSTANTS
    w1 = w1
    w2 = w2
    c1 = c1
    c2 = c2
    c3 = c3
    Windows <- MCWindows
    Conns <- MCConns
    None = None
    MaxSeats = 1
    MaxVersion = 2
    MaxIntents = 1
    MaxUnderWay = 2
SPECIFICATION PSpec
CONSTRAINT FewUnderWay
ACTION_CONSTRAINT MCSteps
INVARIANT ViewIsTheGame
CHECK_DEADLOCK FALSE

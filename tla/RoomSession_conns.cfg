\* Sockets, roles, the lobby and the start of the game in every order.
\* Once every socket is closed nobody can open another: MCConns is the bound.
CONSTANTS
    p1 = p1
    p2 = p2
    ta = ta
    tb = tb
    TeamC = TeamC
    c1 = c1
    c2 = c2
    c3 = c3
    Players <- MCPlayers
    Teams <- MCTeams
    Conns <- MCConns
    None = None
    Anonymous = Anonymous
    Host = Host
    Capacity = 2
    Durations = {}
    Extension = 1
    MaxNow = 0
    MaxRound = 1
    MaxChallenges = 0
    MaxSettlements = 0
    MaxDuration = 1
SPECIFICATION RSpec
SYMMETRY Symmetry
CONSTRAINT FirstPhase
INVARIANTS
    RoomIsSound
PROPERTIES
    NoTeamStartsEmpty
    DropIsNoticed
CHECK_DEADLOCK FALSE

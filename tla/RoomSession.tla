---------------------------- MODULE RoomSession -----------------------------
(***************************************************************************)
(* One room: the sockets of rooms/server.ts and transport/websocket.ts,    *)
(* who each of them speaks for, the lobby of game-rules/room.ts, and the   *)
(* game of GameFlow the room gives its teams to.                           *)
(*                                                                         *)
(* A socket the server closes goes on speaking until its close event: the  *)
(* transport only forgets where to send.  A message is handled before the  *)
(* next one is read, so an intent and a close event are atomic; a refused  *)
(* intent still binds its socket to the room.                              *)
(*                                                                         *)
(* A player is the record the room minted, which is also what presents its *)
(* reconnect token: any socket may present any token the room minted.      *)
(* Names, tokens, the event log and the registry of intent ids are data.   *)
(***************************************************************************)
EXTENDS GameFlow, FiniteSets

CONSTANTS
    Conns,      \* bound: sockets ever opened; an id is never used twice
    TeamC,      \* the team of three-team mode
    Anonymous,  \* the role of a socket that proved nothing
    Host,       \* the role of the socket that holds the Host credential
    Capacity    \* options.capacity

ASSUME RoomAssumption ==
    /\ TeamC \in Teams
    /\ None \notin Conns
    /\ {Anonymous, Host} \cap (Players \cup {None}) = {} /\ Anonymous # Host
    /\ Capacity \in Nat

VARIABLES
    sock,         \* connection id -> its socket's state
    bound,        \* the keys of connectionRooms
    role,         \* #connectionRoles, Anonymous where there is no entry
    hostConn,     \* #hostConnectionId
    lobby,        \* #players: is "unborn" before its join and "gone" once deleted
    status,       \* #status
    teamsLocked,  \* #teamsLocked
    teamMode      \* #teamMode

connVars == <<sock, bound, role, hostConn>>
roomVars == <<status, teamsLocked, teamMode>>
rvars == <<vars, connVars, lobby, roomVars>>

Absent(is) == [is |-> is, team |-> None, conn |-> None]

Here          == {p \in Players : lobby[p].is = "here"}
TeamOf(t)     == {p \in Here : lobby[p].team = t}
TeamsForMode  == IF teamMode = 2 THEN Teams \ {TeamC} ELSE Teams
EveryTeamHasAPlayer == \A t \in TeamsForMode : TeamOf(t) # {}

\* The sockets whose messages still reach the server.
Live(c) == sock[c] \in {"open", "closing"}

RTypeOK ==
    /\ sock \in [Conns -> {"unused", "open", "closing", "closed"}]
    /\ bound \subseteq Conns
    /\ role \in [Conns -> Players \cup {Anonymous, Host}]
    /\ hostConn \in Conns \cup {None}
    /\ lobby \in [Players -> [is : {"unborn", "here", "gone"},
                              team : Teams \cup {None}, conn : Conns \cup {None}]]
    /\ \A p \in Players : p \notin Here => lobby[p] \in {Absent("unborn"), Absent("gone")}
    /\ status \in {"OPEN", "LOCKED", "CLOSED"}
    /\ teamsLocked \in BOOLEAN
    /\ teamMode \in {2, 3}

\* createRoom: the socket that asked for the room is its Host.  The engine of
\* an unstarted game has no teams.
RInit ==
    /\ now = 0 /\ started = FALSE /\ phase = "TEAM_LOCK" /\ resumePhase = NoPhase
    /\ roundIndex = 0
    /\ members = [t \in Teams |-> {}]
    /\ challenge = [id |-> 0, status |-> "none"]
    /\ settlements = [c \in 1..MaxChallenges |-> 0]
    /\ turn = NoTurn /\ active = {}
    /\ pausedBy = None
    /\ timer = NoTimer /\ timerChallenge = 0 /\ expiryReported = FALSE
    /\ \E h \in Conns :
           /\ sock = [c \in Conns |-> IF c = h THEN "open" ELSE "unused"]
           /\ bound = {h}
           /\ role = [c \in Conns |-> IF c = h THEN Host ELSE Anonymous]
           /\ hostConn = h
    /\ lobby = [p \in Players |-> Absent("unborn")]
    /\ status = "OPEN" /\ teamsLocked = FALSE /\ teamMode = 2

-----------------------------------------------------------------------------
(* Sockets. *)

Connect(c) ==
    /\ sock[c] = "unused"
    /\ sock' = [sock EXCEPT ![c] = "open"]
    /\ UNCHANGED <<vars, bound, role, hostConn, lobby, roomVars>>

\* handleIntent binds the socket before it asks the room, whatever the answer.
FirstContact(c) ==
    /\ Live(c)
    /\ c \notin bound
    /\ bound' = bound \cup {c}
    /\ UNCHANGED <<vars, sock, role, hostConn, lobby, roomVars>>

\* A slip the checks must catch: the socket a newer one replaced keeps its role.
SpeakOnly(c, who, old) == role' = [role EXCEPT ![c] = who]

\* Socket c now speaks for who; the socket that did until now, if there was
\* another, speaks for nobody.
SpeakInstead(c, who, old) ==
    role' = [d \in Conns |-> IF d = c THEN who ELSE IF d = old THEN Anonymous ELSE role[d]]

\* closeConnections: of the sockets in told, the server unbinds those in cs and
\* starts closing them.
Close(cs, told) ==
    /\ bound' = told \ cs
    /\ sock' = [d \in Conns |-> IF d \in cs /\ sock[d] = "open" THEN "closing" ELSE sock[d]]

Join(c, p) ==
    /\ Live(c)
    /\ status = "OPEN" /\ ~teamsLocked
    /\ Cardinality(Here) < Capacity
    /\ lobby[p].is = "unborn"
    /\ lobby' = [lobby EXCEPT ![p] = [is |-> "here", team |-> None, conn |-> c]]
    /\ role' = [role EXCEPT ![c] = p]
    /\ bound' = bound \cup {c}
    /\ UNCHANGED <<vars, sock, hostConn, roomVars>>

ReconnectPlayer(c, p) ==
    /\ Live(c)
    /\ status # "CLOSED"
    /\ p \in Here
    /\ SpeakInstead(c, p, lobby[p].conn)
    /\ Close({lobby[p].conn} \ {None, c}, bound \cup {c})
    /\ lobby' = [lobby EXCEPT ![p].conn = c]
    /\ UNCHANGED <<vars, hostConn, roomVars>>

ReconnectHost(c) ==
    /\ Live(c)
    /\ status # "CLOSED"
    /\ SpeakInstead(c, Host, hostConn)
    /\ Close({hostConn} \ {None, c}, bound \cup {c})
    /\ hostConn' = c
    /\ UNCHANGED <<vars, lobby, roomVars>>

\* The record goes, and with it the credential, the team and the connection.
Departed(p) == Absent("gone")

\* The engine is not told: its roster, active players and turn stay.
Leave(c) ==
    /\ Live(c)
    /\ role[c] \in Here
    /\ lobby' = [lobby EXCEPT ![role[c]] = Departed(role[c])]
    /\ role' = [role EXCEPT ![c] = Anonymous]
    /\ UNCHANGED <<vars, sock, bound, hostConn, roomVars>>

-----------------------------------------------------------------------------
(* The Host's lobby.  #requireHost reads the role of the socket that asks. *)

HostAsks == \E c \in Conns : Live(c) /\ role[c] = Host

SetTeamMode(mode) ==
    /\ HostAsks
    /\ ~teamsLocked
    /\ mode = 2 => TeamOf(TeamC) = {}
    /\ teamMode' = mode
    /\ UNCHANGED <<vars, connVars, lobby, status, teamsLocked>>

AssignTeam(p, t) ==
    /\ HostAsks
    /\ ~teamsLocked
    /\ p \in Here
    /\ t \in TeamsForMode
    /\ lobby' = [lobby EXCEPT ![p].team = t]
    /\ UNCHANGED <<vars, connVars, roomVars>>

Unassign(p) ==
    /\ HostAsks
    /\ ~teamsLocked
    /\ p \in Here
    /\ lobby' = [lobby EXCEPT ![p].team = None]
    /\ UNCHANGED <<vars, connVars, roomVars>>

\* The player's socket loses its role, whoever it speaks for by now, and the
\* engine drops the member.
RemovePlayer(p) ==
    /\ HostAsks
    /\ p \in Here
    /\ lobby' = [lobby EXCEPT ![p] = Departed(p)]
    /\ role' = [d \in Conns |-> IF d = lobby[p].conn THEN Anonymous ELSE role[d]]
    /\ Close({lobby[p].conn} \ {None}, bound)
    /\ IF \E t \in Teams : p \in members[t] THEN RemoveMember(p) ELSE UNCHANGED vars
    /\ UNCHANGED <<hostConn, roomVars>>

LockTeams ==
    /\ HostAsks
    /\ ~teamsLocked
    /\ EveryTeamHasAPlayer
    /\ teamsLocked' = TRUE
    /\ status' = "LOCKED"
    /\ UNCHANGED <<vars, connVars, lobby, teamMode>>

UnlockTeams ==
    /\ HostAsks
    /\ teamsLocked
    /\ teamsLocked' = FALSE
    /\ status' = "OPEN"
    /\ UNCHANGED <<vars, connVars, lobby, teamMode>>

CloseRoom ==
    /\ HostAsks
    /\ status # "CLOSED"
    /\ status' = "CLOSED"
    /\ UNCHANGED <<vars, connVars, lobby, teamsLocked, teamMode>>

-----------------------------------------------------------------------------
(* The game. *)

\* The engine takes the room's teams as they are now.
GiveTeamsToTheGame ==
    /\ started' = TRUE
    /\ members' = [t \in Teams |-> IF t \in TeamsForMode THEN TeamOf(t) ELSE {}]
    /\ roundIndex' = 1
    /\ TryMoveTo("ROUND_INTRO")
    /\ UNCHANGED <<now, challenge, settlements, turn, active, pausedBy, timerVars>>

MayStart == status # "CLOSED" /\ teamsLocked /\ ~started

\* A slip the checks must catch: locked teams are taken to have players still.
StartLockedGame ==
    /\ HostAsks
    /\ MayStart
    /\ GiveTeamsToTheGame
    /\ UNCHANGED <<connVars, lobby, roomVars>>

StartTheGame ==
    /\ HostAsks
    /\ MayStart
    /\ EveryTeamHasAPlayer
    /\ GiveTeamsToTheGame
    /\ UNCHANGED <<connVars, lobby, roomVars>>

\* The rest of the game leaves the room alone: the Host's other intents go to
\* the engine, teams spend advantages, and the server's tick polls the timer.
GameGoesOn ==
    /\ \/ /\ HostAsks
          /\ \/ \E to \in Phases : AdvancePhase(to)
             \/ PrepareChallenge
             \/ StartChallenge
             \/ RequestReview
             \/ ResolveChallenge
             \/ \E t \in Teams \cup {None}, p \in Players \cup {None} : SetTurn(t, p)
             \/ \E ps \in SUBSET Players : SetActivePlayers(ps)
             \/ \E d \in Durations : StartTimer(d)
             \/ CancelTimer
             \/ HostPause
             \/ Resume
       \/ UseExtraTime
       \/ PollTimerExpiry
       \/ ClockTick
    /\ UNCHANGED <<connVars, lobby, roomVars>>

-----------------------------------------------------------------------------
(* A socket's close event: server.ts's handler, then Room.onDisconnect.    *)

CanPause == started /\ phase \notin {"PAUSED", "GAME_OVER"}

\* The record, the team and the credential stay; an active player's drop
\* pauses the game.
PlayerDrops(p) ==
    /\ lobby' = [lobby EXCEPT ![p].conn = None]
    /\ IF p \in active /\ CanPause THEN ActivePlayerDisconnect(p) ELSE UNCHANGED vars

\* The room is told of the sockets known, and forgets what they spoke for.
RoomIsTold(c, known) ==
    /\ role' = IF c \in known THEN [role EXCEPT ![c] = Anonymous] ELSE role
    /\ hostConn' = IF c \in known /\ role[c] = Host /\ hostConn = c THEN None ELSE hostConn
    /\ IF c \in known /\ role[c] \in Here /\ lobby[role[c]].conn = c
       THEN PlayerDrops(role[c])
       ELSE UNCHANGED <<lobby, vars>>

\* A slip the checks must catch: the socket is forgotten before it is looked up.
DisconnectForgetsFirst(c) ==
    /\ Live(c)
    /\ sock' = [sock EXCEPT ![c] = "closed"]
    /\ bound' = bound \ {c}
    /\ RoomIsTold(c, bound \ {c})
    /\ UNCHANGED roomVars

Disconnect(c) ==
    /\ Live(c)
    /\ sock' = [sock EXCEPT ![c] = "closed"]
    /\ bound' = bound \ {c}
    /\ RoomIsTold(c, bound)
    /\ UNCHANGED roomVars

-----------------------------------------------------------------------------
RNext ==
    \/ \E c \in Conns : Connect(c) \/ FirstContact(c) \/ ReconnectHost(c) \/ Leave(c)
                        \/ Disconnect(c)
    \/ \E c \in Conns, p \in Players : Join(c, p) \/ ReconnectPlayer(c, p)
    \/ \E mode \in {2, 3} : SetTeamMode(mode)
    \/ \E p \in Players, t \in Teams : AssignTeam(p, t)
    \/ \E p \in Players : Unassign(p) \/ RemovePlayer(p)
    \/ LockTeams \/ UnlockTeams \/ CloseRoom
    \/ StartTheGame
    \/ GameGoesOn

RSpec == RInit /\ [][RNext]_rvars

-----------------------------------------------------------------------------
(* Properties. *)

\* At most one socket speaks for a player, and at most one for the Host: a
\* role is held only by the socket the player's record, or the room, names, by
\* one that is still read from and still bound.  So a superseded or closed
\* socket acts for nobody, in whatever order its last messages, its close
\* event and the newcomer's arrive (reconnectPlayer, reconnectHost,
\* removePlayer, onDisconnect).
RoleHasItsSocket ==
    \A c \in Conns :
        /\ role[c] = Host => hostConn = c
        /\ role[c] \in Players => role[c] \in Here /\ lobby[role[c]].conn = c
        /\ role[c] # Anonymous => Live(c) /\ c \in bound

\* Two-team mode never leaves anyone on Team C, where no roster, no lock and
\* no start would see them (setTeamMode).
NobodyStranded == teamMode = 2 => TeamOf(TeamC) = {}

\* No game starts with a team of nobody, although players leave and are
\* removed after the lock that looked (startGame checks again).
NoTeamStartsEmpty ==
    [][~started /\ started' => \A t \in TeamsForMode : members'[t] # {}]_rvars

\* D-011: when the socket that speaks for a player closes the room knows it in
\* the same step, and the game is paused where it was if the player was active
\* in it (server.ts onDisconnect, Room.onDisconnect).
DropIsNoticed ==
    [][\A c \in Conns : Live(c) /\ sock'[c] = "closed" /\ role[c] \in Players =>
           /\ lobby'[role[c]] = [lobby[role[c]] EXCEPT !.conn = None]
           /\ role[c] \in active /\ CanPause =>
                  phase' = "PAUSED" /\ resumePhase' = phase /\ pausedBy' = role[c]]_rvars

\* What holds of the room between any two steps: well-formed, one socket a role,
\* and everyone on a team of the mode.
RoomIsSound == RTypeOK /\ RoleHasItsSocket /\ NobodyStranded

=============================================================================

------------------------- MODULE RoomSessionProofs --------------------------
(***************************************************************************)
(* RoleHasItsSocket for any number of sockets, players and teams.  With    *)
(* the type invariant it is inductive as it stands: an intent that gives a *)
(* role takes it, in the same step, from the socket the record named       *)
(* before, and every step that unbinds or closes a socket takes its role.  *)
(* Nothing of the game is needed.                                          *)
(***************************************************************************)
EXTENDS RoomSession, TLAPS

RInv == RTypeOK /\ RoleHasItsSocket

\* The variables the invariant reads.
roomOnly == <<connVars, lobby, roomVars>>

\* A step that leaves the room alone keeps the invariant.
LEMMA RoomUnchanged == RInv /\ UNCHANGED roomOnly => RInv'
  BY DEF RInv, roomOnly, connVars, roomVars, RTypeOK, RoleHasItsSocket, Here, Live

\* The room as createRoom leaves it.
LEMMA RInitially == RInit => RInv
  <1> SUFFICES ASSUME RInit PROVE RInv
    OBVIOUS
  <1>1. PICK h \in Conns :
           /\ sock = [c \in Conns |-> IF c = h THEN "open" ELSE "unused"]
           /\ bound = {h}
           /\ role = [c \in Conns |-> IF c = h THEN Host ELSE Anonymous]
           /\ hostConn = h
    BY DEF RInit
  <1>2. /\ lobby = [p \in Players |-> Absent("unborn")]
        /\ status = "OPEN" /\ teamsLocked = FALSE /\ teamMode = 2
    BY DEF RInit
  <1>3. RTypeOK
    BY <1>1, <1>2 DEF RTypeOK, Here, Absent
  <1>4. RoleHasItsSocket
    BY <1>1, <1>2, RoomAssumption DEF RoleHasItsSocket, Live
  <1>q. QED BY <1>3, <1>4 DEF RInv

USE DEF RInv, RTypeOK, RoleHasItsSocket, Here, Live, Absent

LEMMA ConnectKeeps == ASSUME RInv, NEW c \in Conns, Connect(c) PROVE RInv'
  BY DEF Connect, roomVars

LEMMA FirstContactKeeps == ASSUME RInv, NEW c \in Conns, FirstContact(c) PROVE RInv'
  BY DEF FirstContact, roomVars

LEMMA JoinKeeps ==
  ASSUME RInv, NEW c \in Conns, NEW p \in Players, Join(c, p) PROVE RInv'
  <1>1. RTypeOK'
    BY RoomAssumption DEF Join, roomVars
  <1>2. RoleHasItsSocket'
    BY RoomAssumption DEF Join, roomVars
  <1>q. QED BY <1>1, <1>2

LEMMA ReconnectPlayerKeeps ==
  ASSUME RInv, NEW c \in Conns, NEW p \in Players, ReconnectPlayer(c, p) PROVE RInv'
  <1>1. RTypeOK'
    BY RoomAssumption DEF ReconnectPlayer, SpeakInstead, Close, roomVars
  <1>2. RoleHasItsSocket'
    BY RoomAssumption DEF ReconnectPlayer, SpeakInstead, Close, roomVars
  <1>q. QED BY <1>1, <1>2

LEMMA ReconnectHostKeeps ==
  ASSUME RInv, NEW c \in Conns, ReconnectHost(c) PROVE RInv'
  <1>1. RTypeOK'
    BY RoomAssumption DEF ReconnectHost, SpeakInstead, Close, roomVars
  <1>2. RoleHasItsSocket'
    BY RoomAssumption DEF ReconnectHost, SpeakInstead, Close, roomVars
  <1>q. QED BY <1>1, <1>2

LEMMA LeaveKeeps ==
  ASSUME RInv, NEW c \in Conns, Leave(c) PROVE RInv'
  <1>1. RTypeOK'
    BY RoomAssumption DEF Leave, Departed, roomVars
  <1>2. RoleHasItsSocket'
    BY RoomAssumption DEF Leave, Departed, roomVars
  <1>q. QED BY <1>1, <1>2

LEMMA RemovePlayerKeeps ==
  ASSUME RInv, NEW p \in Players, RemovePlayer(p) PROVE RInv'
  <1>1. RTypeOK'
    BY RoomAssumption DEF RemovePlayer, Departed, Close, roomVars
  <1>2. RoleHasItsSocket'
    BY RoomAssumption DEF RemovePlayer, Departed, Close, roomVars
  <1>q. QED BY <1>1, <1>2

LEMMA DisconnectKeeps ==
  ASSUME RInv, NEW c \in Conns, Disconnect(c) PROVE RInv'
  <1>1. CASE c \in bound /\ role[c] \in Here /\ lobby[role[c]].conn = c
    <2>1. lobby' = [lobby EXCEPT ![role[c]].conn = None]
      BY <1>1 DEF Disconnect, RoomIsTold, PlayerDrops
    <2>2. RTypeOK'
      BY <1>1, <2>1, RoomAssumption DEF Disconnect, RoomIsTold, roomVars
    <2>3. RoleHasItsSocket'
      BY <1>1, <2>1, RoomAssumption DEF Disconnect, RoomIsTold, roomVars
    <2>q. QED BY <2>2, <2>3
  <1>2. CASE ~(c \in bound /\ role[c] \in Here /\ lobby[role[c]].conn = c)
    <2>1. UNCHANGED lobby
      BY <1>2 DEF Disconnect, RoomIsTold
    <2>2. RTypeOK'
      BY <1>2, <2>1, RoomAssumption DEF Disconnect, RoomIsTold, roomVars
    <2>3. RoleHasItsSocket'
      BY <1>2, <2>1, RoomAssumption DEF Disconnect, RoomIsTold, roomVars
    <2>q. QED BY <2>2, <2>3
  <1>q. QED BY <1>1, <1>2

\* The Host's lobby intents move players between teams, and the room between
\* its states; no socket is involved.
LEMMA LobbyKeeps ==
  ASSUME RInv,
         \/ \E mode \in {2, 3} : SetTeamMode(mode)
         \/ \E p \in Players, t \in Teams : AssignTeam(p, t)
         \/ \E p \in Players : Unassign(p)
         \/ LockTeams \/ UnlockTeams \/ CloseRoom
  PROVE RInv'
  <1>1. ASSUME NEW mode \in {2, 3}, SetTeamMode(mode) PROVE RInv'
    BY <1>1 DEF SetTeamMode, connVars
  <1>2. ASSUME NEW p \in Players, NEW t \in Teams, AssignTeam(p, t) PROVE RInv'
    BY <1>2 DEF AssignTeam, connVars, roomVars
  <1>3. ASSUME NEW p \in Players, Unassign(p) PROVE RInv'
    BY <1>3 DEF Unassign, connVars, roomVars
  <1>4. CASE LockTeams
    BY <1>4 DEF LockTeams, connVars
  <1>5. CASE UnlockTeams
    BY <1>5 DEF UnlockTeams, connVars
  <1>6. CASE CloseRoom
    BY <1>6 DEF CloseRoom, connVars
  <1>q. QED BY <1>1, <1>2, <1>3, <1>4, <1>5, <1>6

LEMMA RStep == RInv /\ [RNext]_rvars => RInv'
  <1> SUFFICES ASSUME RInv, [RNext]_rvars PROVE RInv'
    OBVIOUS
  <1> USE DEF RNext
  <1>1. ASSUME NEW c \in Conns,
               Connect(c) \/ FirstContact(c) \/ ReconnectHost(c) \/ Leave(c) \/ Disconnect(c)
        PROVE RInv'
    BY <1>1, ConnectKeeps, FirstContactKeeps, ReconnectHostKeeps, LeaveKeeps, DisconnectKeeps
  <1>2. ASSUME NEW c \in Conns, NEW p \in Players, Join(c, p) \/ ReconnectPlayer(c, p)
        PROVE RInv'
    BY <1>2, JoinKeeps, ReconnectPlayerKeeps
  <1>3. ASSUME NEW p \in Players, RemovePlayer(p) PROVE RInv'
    BY <1>3, RemovePlayerKeeps
  <1>4. CASE StartTheGame \/ GameGoesOn
    BY <1>4, RoomUnchanged DEF StartTheGame, GameGoesOn, roomOnly
  <1>5. CASE UNCHANGED rvars
    BY <1>5, RoomUnchanged DEF rvars, roomOnly
  <1>q. QED BY <1>1, <1>2, <1>3, <1>4, <1>5, LobbyKeeps

\* The type invariant of the room.
THEOREM RoomTypeCorrect == RSpec => []RTypeOK
  <1>1. RInv => RTypeOK
    OBVIOUS
  <1>q. QED BY <1>1, RInitially, RStep, PTL DEF RSpec

\* At most one socket speaks for a player and at most one for the Host, for
\* any number of sockets, players and teams.
THEOREM RoleHasItsSocketAlways == RSpec => []RoleHasItsSocket
  <1>1. RInv => RoleHasItsSocket
    OBVIOUS
  <1>q. QED BY <1>1, RInitially, RStep, PTL DEF RSpec

-----------------------------------------------------------------------------
(* Team C is empty in two-team mode.  Only a reassignment, a join or the   *)
(* mode itself can disturb it.                                             *)

SInv == RTypeOK /\ NobodyStranded

USE DEF NobodyStranded, TeamOf, TeamsForMode

LEMMA StrandedStep == SInv /\ RTypeOK' /\ [RNext]_rvars => SInv'
  <1> SUFFICES ASSUME SInv, RTypeOK', [RNext]_rvars PROVE NobodyStranded'
    BY DEF SInv
  <1> USE DEF SInv
  <1>1. ASSUME NEW c \in Conns,
               Connect(c) \/ FirstContact(c) \/ ReconnectHost(c) \/ Leave(c) \/ Disconnect(c)
        PROVE NobodyStranded'
    <2>1. CASE Connect(c) \/ FirstContact(c) \/ ReconnectHost(c)
      BY <2>1 DEF Connect, FirstContact, ReconnectHost, roomVars
    <2>2. CASE Leave(c)
      BY <2>2 DEF Leave, Departed, roomVars
    <2>3. CASE Disconnect(c)
      BY <2>3 DEF Disconnect, RoomIsTold, PlayerDrops, roomVars
    <2>q. QED BY <1>1, <2>1, <2>2, <2>3
  <1>2. ASSUME NEW c \in Conns, NEW p \in Players, Join(c, p) \/ ReconnectPlayer(c, p)
        PROVE NobodyStranded'
    <2>1. CASE Join(c, p)
      BY <2>1, GameFlowAssumption, RoomAssumption DEF Join, roomVars
    <2>2. CASE ReconnectPlayer(c, p)
      BY <2>2 DEF ReconnectPlayer, roomVars
    <2>q. QED BY <1>2, <2>1, <2>2
  <1>3. ASSUME NEW mode \in {2, 3}, SetTeamMode(mode) PROVE NobodyStranded'
    BY <1>3 DEF SetTeamMode
  <1>4. ASSUME NEW p \in Players, NEW t \in Teams, AssignTeam(p, t) PROVE NobodyStranded'
    BY <1>4 DEF AssignTeam, roomVars
  <1>5. ASSUME NEW p \in Players, Unassign(p) \/ RemovePlayer(p) PROVE NobodyStranded'
    BY <1>5, GameFlowAssumption, RoomAssumption DEF Unassign, RemovePlayer, Departed, roomVars
  <1>6. CASE LockTeams \/ UnlockTeams \/ CloseRoom \/ StartTheGame \/ GameGoesOn
    BY <1>6 DEF LockTeams, UnlockTeams, CloseRoom, StartTheGame, GameGoesOn, roomVars
  <1>7. CASE UNCHANGED rvars
    BY <1>7 DEF rvars, roomVars
  <1>q. QED BY <1>1, <1>2, <1>3, <1>4, <1>5, <1>6, <1>7 DEF RNext

\* Two-team mode never leaves anyone on Team C.
THEOREM NobodyStrandedAlways == RSpec => []NobodyStranded
  <1>1. RInit /\ RTypeOK => SInv
    BY RoomAssumption, GameFlowAssumption DEF RInit, SInv
  <1>2. SInv => NobodyStranded
    BY DEF SInv
  <1>q. QED BY <1>1, <1>2, StrandedStep, RoomTypeCorrect, PTL DEF RSpec

\* Well-formed, one socket a role, nobody stranded: what the runs check of
\* every state of the room.
THEOREM RoomIsSoundAlways == RSpec => []RoomIsSound
  <1>1. RTypeOK /\ RoleHasItsSocket /\ NobodyStranded => RoomIsSound
    BY DEF RoomIsSound
  <1>q. QED BY <1>1, RoomTypeCorrect, RoleHasItsSocketAlways, NobodyStrandedAlways, PTL

-----------------------------------------------------------------------------
(* What a step may never do. *)

\* Only startGame starts a game, and it looks at every team.
LEMMA StartChecksTeams ==
  ASSUME [RNext]_rvars, ~started, started' PROVE StartTheGame
  <1>1. ASSUME NEW p \in Players PROVE ~RemovePlayer(p)
    BY DEF RemovePlayer, RemoveMember, vars, flowVars
  <1>2. ASSUME NEW c \in Conns PROVE ~Disconnect(c)
    BY DEF Disconnect, RoomIsTold, PlayerDrops, ActivePlayerDisconnect, Pause, vars, flowVars
  <1>3. ASSUME NEW c \in Conns
        PROVE ~(Connect(c) \/ FirstContact(c) \/ ReconnectHost(c) \/ Leave(c))
    BY DEF Connect, FirstContact, ReconnectHost, Leave, vars, flowVars
  <1>4. ASSUME NEW c \in Conns, NEW p \in Players PROVE ~(Join(c, p) \/ ReconnectPlayer(c, p))
    BY DEF Join, ReconnectPlayer, vars, flowVars
  <1>5. ASSUME NEW p \in Players
        PROVE /\ ~Unassign(p)
              /\ \A t \in Teams : ~AssignTeam(p, t)
    BY DEF Unassign, AssignTeam, vars, flowVars
  <1>6. ~(LockTeams \/ UnlockTeams \/ CloseRoom \/ \E mode \in {2, 3} : SetTeamMode(mode))
    BY DEF LockTeams, UnlockTeams, CloseRoom, SetTeamMode, vars, flowVars
  <1>7. ~GameGoesOn
    BY DEF GameGoesOn, Running, UseExtraTime, PollTimerExpiry, ClockTick, AdvancePhase,
           PrepareChallenge, StartChallenge, RequestReview, ResolveChallenge, SetTurn,
           SetActivePlayers, StartTimer, CancelTimer, HostPause, Pause, Resume, flowVars
  <1>8. ~UNCHANGED rvars
    BY DEF rvars, vars, flowVars
  <1>q. QED BY <1>1, <1>2, <1>3, <1>4, <1>5, <1>6, <1>7, <1>8 DEF RNext

\* No game starts with a team of nobody.
THEOREM NoTeamStartsEmptyAlways == RSpec => NoTeamStartsEmpty
  <1>1. ASSUME [RNext]_rvars, ~started, started'
        PROVE \A t \in TeamsForMode : members'[t] # {}
    <2>1. StartTheGame
      BY <1>1, StartChecksTeams
    <2>2. /\ members' = [t \in Teams |-> IF t \in TeamsForMode THEN TeamOf(t) ELSE {}]
          /\ \A t \in TeamsForMode : TeamOf(t) # {}
      BY <2>1 DEF StartTheGame, GiveTeamsToTheGame, EveryTeamHasAPlayer
    <2>q. QED BY <2>2
  <1>2. [RNext]_rvars => [~started /\ started' =>
            \A t \in TeamsForMode : members'[t] # {}]_rvars
    BY <1>1
  <1>q. QED BY <1>2, PTL DEF RSpec, NoTeamStartsEmpty

\* A player's drop is noticed in the step of the close event, and pauses the
\* game the player was active in.
THEOREM DropIsNoticedAlways == RSpec => DropIsNoticed
  <1> DEFINE Noticed(c) ==
        /\ lobby'[role[c]] = [lobby[role[c]] EXCEPT !.conn = None]
        /\ role[c] \in active /\ CanPause =>
               phase' = "PAUSED" /\ resumePhase' = phase /\ pausedBy' = role[c]
  <1>1. ASSUME RInv, [RNext]_rvars, NEW c \in Conns, Live(c), sock'[c] = "closed",
               role[c] \in Players
        PROVE Noticed(c)
    <2>1. Disconnect(c)
      <3>1. ASSUME NEW d \in Conns, Disconnect(d) PROVE d = c
        BY <1>1, <3>1 DEF Disconnect
      <3>2. ASSUME NEW d \in Conns,
                   Connect(d) \/ FirstContact(d) \/ ReconnectHost(d) \/ Leave(d)
            PROVE FALSE
        BY <1>1, <3>2 DEF Connect, FirstContact, ReconnectHost, Leave, Close
      <3>3. ASSUME NEW d \in Conns, NEW p \in Players, Join(d, p) \/ ReconnectPlayer(d, p)
            PROVE FALSE
        BY <1>1, <3>3 DEF Join, ReconnectPlayer, Close
      <3>4. ASSUME NEW p \in Players, RemovePlayer(p) PROVE FALSE
        BY <1>1, <3>4 DEF RemovePlayer, Close
      <3>5. CASE UNCHANGED sock
        BY <1>1, <3>5
      <3>6. ASSUME \/ \E mode \in {2, 3} : SetTeamMode(mode)
                   \/ \E p \in Players : Unassign(p) \/ \E t \in Teams : AssignTeam(p, t)
                   \/ LockTeams \/ UnlockTeams \/ CloseRoom \/ StartTheGame \/ GameGoesOn
                   \/ UNCHANGED rvars
            PROVE UNCHANGED sock
        BY <3>6 DEF SetTeamMode, Unassign, AssignTeam, LockTeams, UnlockTeams, CloseRoom,
                    StartTheGame, GameGoesOn, connVars, rvars
      <3>q. QED BY <1>1, <3>1, <3>2, <3>3, <3>4, <3>5, <3>6 DEF RNext
    <2>2. c \in bound /\ role[c] \in Here /\ lobby[role[c]].conn = c
      BY <1>1, RoomAssumption
    <2>3. PlayerDrops(role[c])
      BY <2>1, <2>2 DEF Disconnect, RoomIsTold
    <2>q. QED BY <1>1, <2>2, <2>3 DEF PlayerDrops, ActivePlayerDisconnect, Pause
  <1>2. RInv /\ [RNext]_rvars =>
            [\A c \in Conns : Live(c) /\ sock'[c] = "closed" /\ role[c] \in Players =>
                Noticed(c)]_rvars
    BY <1>1
  <1>3. RSpec => []RInv
    BY RInitially, RStep, PTL DEF RSpec
  <1>q. QED BY <1>2, <1>3, PTL DEF RSpec, DropIsNoticed

=============================================================================

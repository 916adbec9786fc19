-------------------------------- MODULE Phone ---------------------------------
(***************************************************************************)
(* The phone's end of a room: the browser windows of one player, each a    *)
(* page (web/src/app/join/[code]/page.tsx) with its BrowserRoomClient      *)
(* (web/src/rooms/client.ts), over sockets that break, against the room's  *)
(* sessions, registry of intents and event log.                            *)
(*                                                                         *)
(* A seat is a player record of the room and the credential given out with *)
(* it; the windows share one browser storage.  A version counts what the   *)
(* room has published, and a snapshot is the version it was taken at.  A   *)
(* socket delivers in order in each direction and every request is acked,  *)
(* so a window's requests are kept in the order sent and an ack is of the  *)
(* first; one given up on keeps its place.  Left out: the lobby snapshot,  *)
(* names, the closing of the room, and what the game makes of an intent.   *)
(***************************************************************************)
EXTENDS Naturals, FiniteSets, Sequences, Functions

CONSTANTS
    Windows,     \* the player's browser windows
    Conns,       \* bound: sockets ever opened; an id is never used twice
    None,        \* null: no socket
    MaxSeats,    \* bound: joins accepted
    MaxVersion,  \* bound: events published
    MaxIntents   \* bound: intent ids minted

ASSUME PhoneAssumption ==
    /\ None \notin Conns
    /\ {MaxSeats, MaxVersion, MaxIntents} \subseteq Nat

VARIABLES
    win,       \* window -> its page and its client
    stored,    \* localStorage: the seat saved for the room, 0 for none
    up, down,  \* socket -> what is under way to the server, to the phone
    served,    \* socket -> the server's side of it
    bound,     \* the keys of connectionRooms
    speaks,    \* #connectionRoles: socket -> seat, 0 for none
    seats,     \* #players: seat -> connectionId
    minted,    \* seats ever given out
    version,   \* the log's latest sequence number
    announced, \* that of the last event the page listens to
    seen,      \* IntentRegistry
    applied,   \* intent id -> times it was accepted
    intents,   \* intent ids minted
    lost       \* the server restarted, without this room

netVars  == <<up, down, served>>
seatVars == <<bound, speaks, seats, minted>>
logVars  == <<version, announced, seen, applied>>
pvars == <<win, stored, netVars, seatVars, logVars, intents, lost>>

\* identity 0 is null; asked is #pending in the order sent; gaveUp says that a
\* snapshot went unanswered on this socket; told, that the server sent the
\* window away.
NewWindow ==
    [page |-> "closed", socket |-> None, open |-> FALSE, first |-> FALSE, retrying |-> FALSE,
     byUs |-> FALSE, told |-> FALSE, identity |-> 0, asked |-> <<>>, view |-> 0, gaveUp |-> FALSE]

PInit ==
    /\ win = [w \in Windows |-> NewWindow]
    /\ stored = 0
    /\ up = [c \in Conns |-> <<>>] /\ down = [c \in Conns |-> <<>>]
    /\ served = [c \in Conns |-> "unused"]
    /\ bound = {} /\ speaks = [c \in Conns |-> 0]
    /\ seats = <<>> /\ minted = 0
    /\ version = 0 /\ announced = 0
    /\ seen = {} /\ applied = [i \in 1..MaxIntents |-> 0]
    /\ intents = 0
    /\ lost = FALSE

-----------------------------------------------------------------------------
(* What a window does with its own state. *)

\* submit: the request goes out and its place is kept.
Asked(x, kind) == [x EXCEPT !.asked = Append(@, [kind |-> kind, wanted |-> TRUE])]

Sends(w, x, kind, arg) ==
    /\ win' = [win EXCEPT ![w] = Asked(x, kind)]
    /\ up' = [up EXCEPT ![x.socket] = Append(@, [kind |-> kind, arg |-> arg])]

SendsNothing(w, x) == win' = [win EXCEPT ![w] = x] /\ UNCHANGED up

\* A refused resume: the saved credential is taken to be dead.
Forgotten(x) == [x EXCEPT !.identity = 0]

Evicted(x) == [x EXCEPT !.page = "evicted"]

Kinds == {"resume", "join", "read", "act", "leave"}

WantedOf(x) == {x.asked[i].kind : i \in {j \in DOMAIN x.asked : x.asked[j].wanted}}

-----------------------------------------------------------------------------
(* Connecting. *)

Unused(c) == served[c] = "unused" /\ \A w \in Windows : win[w].socket # c

\* The page is opened, or opened again: whatever its script knew is gone.
Load(w, c) ==
    /\ Unused(c)
    /\ win' = [win EXCEPT ![w] = [NewWindow EXCEPT !.page = "shown", !.socket = c,
                                                   !.first = TRUE]]
    /\ UNCHANGED <<stored, netVars, seatVars, logVars, intents, lost>>

\* On its own first connection the page resumes what is stored; on a later one
\* the client resumes who it is.
ToResume(x) == IF x.first THEN stored ELSE x.identity

Connected(w) ==
    /\ win[w].socket # None /\ ~win[w].open
    /\ LET n == ToResume(win[w])
           x == [win[w] EXCEPT !.open = TRUE, !.first = FALSE, !.gaveUp = FALSE, !.identity = n]
       IN  IF n = 0 THEN SendsNothing(w, x) ELSE Sends(w, x, "resume", n)
    /\ served' = [served EXCEPT ![win[w].socket] = "open"]
    /\ UNCHANGED <<stored, down, seatVars, logVars, intents, lost>>

\* scheduleReconnect, unless the client was told to stay away.
WillRetry(x) == ~x.byUs

SocketGone(x) ==
    [x EXCEPT !.socket = None, !.open = FALSE, !.first = FALSE, !.asked = <<>>,
              !.retrying = WillRetry(x)]

ConnectFails(w) ==
    /\ win[w].socket # None /\ ~win[w].open
    /\ SendsNothing(w, SocketGone(win[w]))
    /\ UNCHANGED <<stored, down, served, seatVars, logVars, intents, lost>>

\* onclose: every pending request has failed.
Drops(w) ==
    /\ win[w].open
    /\ LET x == SocketGone(win[w])
           y == IF "resume" \in WantedOf(win[w]) THEN Forgotten(x) ELSE x
       IN  SendsNothing(w, IF "leave" \in WantedOf(win[w]) THEN Evicted(y) ELSE y)
    /\ stored' = IF {"resume", "leave"} \cap WantedOf(win[w]) # {} THEN 0 ELSE stored
    /\ down' = [down EXCEPT ![win[w].socket] = <<>>]
    /\ UNCHANGED <<served, seatVars, logVars, intents, lost>>

Retry(w, c) ==
    /\ win[w].retrying
    /\ Unused(c)
    /\ SendsNothing(w, [win[w] EXCEPT !.retrying = FALSE, !.byUs = FALSE, !.socket = c])
    /\ UNCHANGED <<stored, down, served, seatVars, logVars, intents, lost>>

-----------------------------------------------------------------------------
(* The player. *)

AtRest(x) == x.page = "shown" /\ x.open

\* The form is shown once the stored player was tried, and is busy meanwhile.
Join(w) ==
    /\ AtRest(win[w])
    /\ win[w].identity = 0 /\ {"resume", "join"} \cap WantedOf(win[w]) = {}
    /\ Sends(w, win[w], "join", 0)
    /\ UNCHANGED <<stored, down, served, seatVars, logVars, intents, lost>>

\* Each tap is an intent of its own.
Tap(w) ==
    /\ AtRest(win[w])
    /\ win[w].identity # 0
    /\ intents < MaxIntents
    /\ intents' = intents + 1
    /\ Sends(w, win[w], "act", intents')
    /\ UNCHANGED <<stored, down, served, seatVars, logVars, lost>>

\* submit takes an intent id, so that a client may send the same again.
SendAgain(w, i) ==
    /\ AtRest(win[w])
    /\ win[w].identity # 0
    /\ i <= intents
    /\ "act" \notin WantedOf(win[w])
    /\ Sends(w, win[w], "act", i)
    /\ UNCHANGED <<stored, down, served, seatVars, logVars, intents, lost>>

\* Without a connection the request fails at once, and the page forgets.
Leave(w) ==
    /\ win[w].page = "shown"
    /\ win[w].identity # 0
    /\ "leave" \notin WantedOf(win[w])
    /\ IF win[w].open
       THEN Sends(w, win[w], "leave", 0) /\ UNCHANGED stored
       ELSE SendsNothing(w, Evicted(win[w])) /\ stored' = 0
    /\ UNCHANGED <<down, served, seatVars, logVars, intents, lost>>

-----------------------------------------------------------------------------
(* The server.  A socket it is closing is still read from. *)

Live(c) == served[c] \in {"open", "closing"}

Delivers(to, event) ==
    [c \in Conns |-> IF c \in to /\ served[c] = "open" THEN Append(down[c], event) ELSE down[c]]

Event(is) == [is |-> is, kind |-> "none", ok |-> TRUE, arg |-> 0]

Ack(kind, ok, arg) == [is |-> "ack", kind |-> kind, ok |-> ok, arg |-> arg]

\* The ack of a socket being closed is not sent.
Answer(box, c, ack) == IF served[c] = "open" THEN [box EXCEPT ![c] = Append(@, ack)] ELSE box

Families == {"GAME", "SUDDEN_DEATH"}

\* GAME_EVENT_PREFIXES: every family of the game's events but this one.
ListenedTo(family) == family # "SUDDEN_DEATH"

\* One event more in the log.
Publishes(family) ==
    /\ version < MaxVersion
    /\ version' = version + 1
    /\ announced' = IF ListenedTo(family) THEN version' ELSE announced

Refuses(c, r) ==
    /\ down' = Answer(down, c, Ack(r.kind, FALSE, 0))
    /\ UNCHANGED <<served, speaks, seats, minted, logVars>>

Resumes(c, n) ==
    LET old == {seats[n]} \ {None, c} IN
    /\ seats' = [seats EXCEPT ![n] = c]
    /\ speaks' = [d \in Conns |-> IF d = c THEN n ELSE IF d \in old THEN 0 ELSE speaks[d]]
    /\ bound' = (bound \cup {c}) \ old
    /\ served' = [d \in Conns |-> IF d \in old /\ served[d] = "open" THEN "closing" ELSE served[d]]
    /\ down' = Answer(Delivers(old, Event("superseded")), c, Ack("resume", TRUE, n))
    /\ UNCHANGED <<minted, logVars>>

Joins(c) ==
    /\ minted < MaxSeats
    /\ minted' = minted + 1
    /\ seats' = [n \in DOMAIN seats \cup {minted'} |-> IF n = minted' THEN c ELSE seats[n]]
    /\ speaks' = [speaks EXCEPT ![c] = minted']
    /\ down' = Answer(down, c, Ack("join", TRUE, minted'))
    /\ UNCHANGED <<served, logVars>>

Reads(c) ==
    /\ down' = Answer(down, c, Ack("read", TRUE, version))
    /\ UNCHANGED <<served, speaks, seats, minted, logVars>>

\* A slip the checks must catch: nobody looks the intent up.
NeverSeen(i) == TRUE

NotSeen(i) == i \notin seen

\* Only what was accepted is remembered.
Acts(c, i) ==
    /\ speaks[c] # 0
    /\ NotSeen(i)
    /\ \E family \in Families :
          /\ Publishes(family)
          /\ down' = Answer(Delivers(bound \cup {c}, Event(family)), c, Ack("act", TRUE, 0))
    /\ seen' = seen \cup {i}
    /\ applied' = [applied EXCEPT ![i] = @ + 1]
    /\ UNCHANGED <<served, speaks, seats, minted>>

Without(n) == Restrict(seats, DOMAIN seats \ {n})

Leaves(c) ==
    /\ speaks[c] # 0
    /\ seats' = Without(speaks[c])
    /\ speaks' = [speaks EXCEPT ![c] = 0]
    /\ down' = Answer(down, c, Ack("leave", TRUE, 0))
    /\ UNCHANGED <<served, minted, logVars>>

\* The room or the game may refuse a join or an act for reasons of its own.
Serve(c) ==
    /\ Live(c) /\ up[c] # <<>>
    /\ up' = [up EXCEPT ![c] = Tail(@)]
    /\ LET r == Head(up[c]) IN
       \/ ~lost /\ r.kind = "resume" /\ r.arg \in DOMAIN seats /\ Resumes(c, r.arg)
       \/ /\ bound' = IF lost THEN bound ELSE bound \cup {c}
          /\ \/ ~lost /\ r.kind = "join" /\ Joins(c)
             \/ ~lost /\ r.kind = "read" /\ Reads(c)
             \/ ~lost /\ r.kind = "act" /\ Acts(c, r.arg)
             \/ ~lost /\ r.kind = "leave" /\ Leaves(c)
             \/ /\ \/ lost \/ r.kind \in {"join", "act"}
                   \/ r.kind = "resume" /\ r.arg \notin DOMAIN seats
                   \/ r.kind = "leave" /\ speaks[c] = 0
                /\ Refuses(c, r)
    /\ UNCHANGED <<win, stored, intents, lost>>

\* Whatever else the Host, a team or the tick does to the game.
GameMoves ==
    /\ ~lost
    /\ \E family \in Families :
          /\ Publishes(family)
          /\ down' = Delivers(bound, Event(family))
    /\ UNCHANGED <<win, stored, up, served, seatVars, seen, applied, intents, lost>>

HostRemoves(n) ==
    /\ ~lost
    /\ n \in DOMAIN seats
    /\ LET old == {seats[n]} \ {None} IN
       /\ seats' = Without(n)
       /\ speaks' = [d \in Conns |-> IF d \in old THEN 0 ELSE speaks[d]]
       /\ bound' = bound \ old
       /\ down' = Delivers(old, Event("removed"))
       /\ served' = [d \in Conns |-> IF d \in old /\ served[d] = "open" THEN "closing"
                                     ELSE served[d]]
    /\ UNCHANGED <<win, stored, up, minted, logVars, intents, lost>>

\* The server's close event, at whatever time it comes: the seat stays.
ServerNotices(c) ==
    /\ Live(c)
    /\ served' = [served EXCEPT ![c] = "closed"]
    /\ up' = [up EXCEPT ![c] = <<>>]
    /\ bound' = bound \ {c}
    /\ speaks' = [speaks EXCEPT ![c] = 0]
    /\ seats' = [n \in DOMAIN seats |-> IF seats[n] = c /\ speaks[c] = n THEN None ELSE seats[n]]
    /\ UNCHANGED <<win, stored, down, minted, logVars, intents, lost>>

\* Rooms live in memory.
ServerRestarts ==
    /\ ~lost
    /\ lost' = TRUE
    /\ served' = [c \in Conns |-> IF Live(c) THEN "closed" ELSE served[c]]
    /\ up' = [c \in Conns |-> <<>>]
    /\ bound' = {} /\ speaks' = [c \in Conns |-> 0] /\ seats' = <<>>
    /\ UNCHANGED <<win, stored, down, minted, logVars, intents>>

-----------------------------------------------------------------------------
(* What comes back to the phone. *)

\* A slip the checks must catch: the lobby is all a returning phone reads.
ResumedOnly(w, x) == SendsNothing(w, x)

\* The game is read as well: the phone may have missed anything.
Resumed(w, x) == Sends(w, x, "read", 0)

\* refreshGameSnapshot follows every intent of the page, accepted or not.
Answered(w, x, ack) ==
    CASE ack.kind = "resume" /\ ack.ok -> Resumed(w, x) /\ UNCHANGED stored
      [] ack.kind = "resume" /\ ~ack.ok -> SendsNothing(w, Forgotten(x)) /\ stored' = 0
      [] ack.kind = "join" /\ ack.ok ->
             Sends(w, [x EXCEPT !.identity = ack.arg], "read", 0) /\ stored' = ack.arg
      [] ack.kind = "join" /\ ~ack.ok -> SendsNothing(w, x) /\ UNCHANGED stored
      [] ack.kind = "act" -> Sends(w, x, "read", 0) /\ UNCHANGED stored
      [] ack.kind = "read" ->
             /\ SendsNothing(w, IF ack.ok THEN [x EXCEPT !.view = ack.arg]
                                          ELSE [x EXCEPT !.gaveUp = TRUE])
             /\ UNCHANGED stored
      [] ack.kind = "leave" ->
             /\ SendsNothing(w, Evicted(IF ack.ok THEN Forgotten(x) ELSE x))
             /\ stored' = 0

\* A slip the checks must catch: the window is told and takes it for a dropped
\* connection.
ToldToGo(x) == Evicted([x EXCEPT !.told = TRUE])

SentAway(x) == Evicted([x EXCEPT !.told = TRUE, !.byUs = TRUE])

Receive(w) ==
    /\ win[w].open
    /\ down[win[w].socket] # <<>>
    /\ LET c == win[w].socket
           m == Head(down[c])
           x == win[w]
       IN  /\ down' = [down EXCEPT ![c] = Tail(@)]
           /\ \/ /\ m.is = "ack"
                 /\ LET y == [x EXCEPT !.asked = Tail(@)] IN
                    IF Head(x.asked).wanted
                    THEN Answered(w, y, m)
                    ELSE SendsNothing(w, y) /\ UNCHANGED stored
              \/ /\ m.is \in Families
                 /\ IF ListenedTo(m.is) THEN Sends(w, x, "read", 0) ELSE SendsNothing(w, x)
                 /\ UNCHANGED stored
              \/ /\ m.is = "superseded"
                 /\ SendsNothing(w, SentAway(x))
                 /\ UNCHANGED stored
              \/ /\ m.is = "removed"
                 /\ SendsNothing(w, SentAway(x))
                 /\ stored' = IF x.identity # 0 THEN 0 ELSE stored
    /\ UNCHANGED <<served, seatVars, logVars, intents, lost>>

\* Eight seconds without an answer: the request has failed, whatever comes.
GivesUp(w) ==
    /\ win[w].open
    /\ \E i \in DOMAIN win[w].asked :
          /\ win[w].asked[i].wanted
          /\ Answered(w, [win[w] EXCEPT !.asked[i].wanted = FALSE],
                      Ack(win[w].asked[i].kind, FALSE, 0))
    /\ UNCHANGED <<down, served, seatVars, logVars, intents, lost>>

PNext ==
    \/ \E w \in Windows, c \in Conns : Load(w, c) \/ Retry(w, c)
    \/ \E w \in Windows : Connected(w) \/ ConnectFails(w) \/ Drops(w) \/ Receive(w) \/ GivesUp(w)
    \/ \E w \in Windows : Join(w) \/ Tap(w) \/ Leave(w)
    \/ \E w \in Windows, i \in 1..MaxIntents : SendAgain(w, i)
    \/ \E c \in Conns : Serve(c) \/ ServerNotices(c)
    \/ GameMoves
    \/ \E n \in 1..MaxSeats : HostRemoves(n)
    \/ ServerRestarts

PSpec == PInit /\ [][PNext]_pvars

-----------------------------------------------------------------------------
(* Properties. *)

PTypeOK ==
    /\ \A w \in Windows :
           /\ win[w].page \in {"closed", "shown", "evicted"}
           /\ win[w].socket \in Conns \cup {None}
           /\ {win[w].open, win[w].first, win[w].retrying, win[w].byUs} \subseteq BOOLEAN
           /\ win[w].open => win[w].socket # None
           /\ win[w].identity \in 0..minted /\ win[w].view \in 0..version
           /\ \A i \in DOMAIN win[w].asked : win[w].asked[i].kind \in Kinds
    /\ stored \in 0..minted
    /\ bound \subseteq Conns /\ speaks \in [Conns -> 0..minted]
    /\ DOMAIN seats \subseteq 1..minted /\ \A n \in DOMAIN seats : seats[n] \in Conns \cup {None}
    /\ announced \in 0..version /\ seen \subseteq 1..intents

\* A window nobody sent away always has a socket or the next try ahead of it, so
\* that a phone that lost its connection comes back by itself (client.ts).
NeverGivesUp ==
    \A w \in Windows :
        win[w].page # "closed" /\ ~win[w].byUs => win[w].socket # None \/ win[w].retrying

\* A window the server sent away, because the player plays elsewhere or was
\* removed, does not take the player from whoever has it now: it neither tries
\* again nor has a resume under way, and if it still knows who it was its
\* socket speaks for nobody.
SentAwayStaysAway ==
    \A w \in Windows :
        win[w].told =>
            /\ ~win[w].retrying
            /\ win[w].socket # None =>
                   /\ \A i \in DOMAIN up[win[w].socket] : up[win[w].socket][i].kind # "resume"
                   /\ win[w].identity # 0 => speaks[win[w].socket] = 0

\* The window plays its seat, and neither asked nor was told anything more.
Quiet(w) ==
    LET x == win[w] IN
    /\ x.page = "shown" /\ x.open /\ x.asked = <<>> /\ ~x.gaveUp
    /\ x.identity # 0 /\ served[x.socket] = "open" /\ speaks[x.socket] = x.identity
    /\ down[x.socket] = <<>>

\* Events are only a reason to read again, and no drop, resume, timeout or
\* takeover loses one: a phone at rest shows the game as it was last announced.
ViewIsCurrent == \A w \in Windows : Quiet(w) => win[w].view >= announced

\* However often, and over whichever sockets, an intent is sent: it is accepted
\* at most once (IntentRegistry).
AcceptedOnce == \A i \in 1..MaxIntents : applied[i] <= 1

\* Windows that lost their connection come back and those sent away do not.
OnlyTheLostComeBack == NeverGivesUp /\ SentAwayStaysAway

\* However it is sent, an intent is applied once, by a seat that exists.
IntentsApplyOnce == PTypeOK /\ AcceptedOnce

-----------------------------------------------------------------------------
(* A statement of the repository the code does not keep. *)

\* page.tsx:25: matched by prefix, "so a Phase 6 event does not silently fail to
\* refresh a phone": what a phone at rest shows is the game as it is.
ViewIsTheGame == \A w \in Windows : Quiet(w) => win[w].view = version

=============================================================================

---------------------------- MODULE PhoneProofs -----------------------------
(***************************************************************************)
(* The phone's end of a room for any windows, sockets, seats, events and   *)
(* intents.                                                                *)
(*                                                                         *)
(* None of the three invariants is inductive.  What a phone at rest shows  *)
(* depends on the answer that showed it, the answer on the request before  *)
(* it on the same socket, and both on what was sent, answered or given up  *)
(* earlier; so the invariant says of every window how what it asked lines  *)
(* up with the answers coming down its socket and the requests still going *)
(* up, which requests may follow which, and where, when it does not show   *)
(* the game as last announced, the reason to read again is under way.      *)
(***************************************************************************)
EXTENDS Phone, TLAPS

-----------------------------------------------------------------------------
(* Types. *)

Request == [kind : Kinds, arg : Nat]
Message == [is : {"ack", "superseded", "removed"} \cup Families, kind : Kinds \cup {"none"},
            ok : BOOLEAN, arg : Nat]
Pending == [kind : Kinds, wanted : BOOLEAN]
Window  == [page : {"closed", "shown", "evicted"}, socket : Conns \cup {None}, open : BOOLEAN,
            first : BOOLEAN, retrying : BOOLEAN, byUs : BOOLEAN, told : BOOLEAN, identity : Nat,
            asked : Seq(Pending), view : Nat, gaveUp : BOOLEAN]

\* A request names a seat given out, or an intent minted.
RequestOk(r, m, n) == /\ r.kind = "resume" => r.arg \in 0..m
                      /\ r.kind = "act" => r.arg \in 1..n

\* An answer names a seat given out, or a version published.
MessageOk(e, m, v) ==
    e.is = "ack" => /\ e.kind \in Kinds
                    /\ e.kind \in {"resume", "join"} /\ e.ok => e.arg \in 0..m
                    /\ e.kind = "read" /\ e.ok => e.arg \in 0..v

WinType ==
    /\ win \in [Windows -> Window]
    /\ stored \in 0..minted
    /\ \A w \in Windows : win[w].identity \in 0..minted /\ win[w].view \in 0..version

NetType ==
    /\ up \in [Conns -> Seq(Request)] /\ down \in [Conns -> Seq(Message)]
    /\ \A c \in Conns : \A i \in DOMAIN up[c] : RequestOk(up[c][i], minted, intents)
    /\ \A c \in Conns : \A i \in DOMAIN down[c] : MessageOk(down[c][i], minted, version)
    /\ served \in [Conns -> {"unused", "open", "closing", "closed"}]

SeatType ==
    /\ bound \subseteq Conns /\ speaks \in [Conns -> 0..minted]
    /\ seats \in [DOMAIN seats -> Conns \cup {None}] /\ DOMAIN seats \subseteq 1..minted
    /\ minted \in 0..MaxSeats

\* An intent is remembered exactly when it was accepted, once.
LogType ==
    /\ version \in 0..MaxVersion /\ announced \in 0..version
    /\ intents \in 0..MaxIntents /\ seen \subseteq 1..intents
    /\ applied = [i \in 1..MaxIntents |-> IF i \in seen THEN 1 ELSE 0]
    /\ lost \in BOOLEAN

TypeInv == WinType /\ NetType /\ SeatType /\ LogType

-----------------------------------------------------------------------------
(* Sockets and windows. *)

\* A socket nobody has opened yet carries nothing and stands for nothing; one
\* that speaks for a seat is bound; a room that is lost speaks to nobody.
SocketInv ==
    /\ \A c \in Conns : served[c] = "unused" =>
           /\ up[c] = <<>> /\ down[c] = <<>> /\ speaks[c] = 0
           /\ \A n \in DOMAIN seats : seats[n] # c
    /\ \A c \in Conns : speaks[c] # 0 => c \in bound
    /\ lost => speaks = [c \in Conns |-> 0]

\* No two windows share a socket, and what a window knows of its own is true.
WindowInv ==
    /\ \A v, w \in Windows : v # w => win[v].socket # win[w].socket \/ win[v].socket = None
    /\ \A w \in Windows :
           LET x == win[w] IN
           /\ x.open => x.socket # None /\ served[x.socket] # "unused"
           /\ x.socket # None /\ ~x.open => served[x.socket] = "unused"
           /\ ~x.open => x.asked = <<>>
           /\ x.socket # None => ~x.retrying
           /\ x.told => x.byUs /\ ~x.retrying
           /\ x.told /\ x.socket # None => x.open

-----------------------------------------------------------------------------
(* One window and its socket: the window x, what is under way up and down, *)
(* how the server stands to the socket, whom it speaks for, whether a seat *)
(* names it, and the last version announced.                               *)

\* p counts the answers among the first messages coming down.
Counted(p, d) ==
    /\ p \in [0..Len(d) -> Nat] /\ p[0] = 0
    /\ \A k \in 1..Len(d) : p[k] = IF d[k].is = "ack" THEN p[k - 1] + 1 ELSE p[k - 1]
    /\ \A j, k \in 0..Len(d) : j <= k => p[j] <= p[k]

\* The window waits for the answers coming down, for some that never will, and,
\* after the first n, for what it has sent up, in this order.
Lined(a, d, u, p, n) ==
    /\ Counted(p, d) /\ n \in Nat /\ p[Len(d)] <= n
    /\ Len(a) = n + Len(u)
    /\ \A k \in 1..Len(d) : d[k].is = "ack" => a[p[k]].kind = d[k].kind
    /\ \A j \in 1..Len(u) : a[n + j].kind = u[j].kind

SentOff(x, d) == x.told \/ \E k \in DOMAIN d : d[k].is \in {"superseded", "removed"}

Wants(x, i, kind) == x.asked[i].kind = kind /\ x.asked[i].wanted

\* Only a socket that is no longer open leaves requests without an answer, and
\* an answer that would make a window sent away somebody again was given before
\* its socket lost the seat.
LineHolds(x, d, u, s, sp, p, n) ==
    /\ Lined(x.asked, d, u, p, n)
    /\ s = "open" => p[Len(d)] >= n
    /\ SentOff(x, d) /\ sp # 0 => \A i \in 1..p[Len(d)] : ~Wants(x, i, "join")

InLine(x, d, u, s, sp) == \E p, n : LineHolds(x, d, u, s, sp, p, n)

\* A resume is asked first and once, and given up by forgetting; somebody is
\* asking for no seat, and nobody for more than one that he still waits for; a
\* window that has given up no answer to a read has given up no read.
Disciplined(x) ==
    /\ \A i \in DOMAIN x.asked : x.asked[i].kind = "resume" =>
           i = 1 /\ (~x.asked[i].wanted => x.identity = 0)
    /\ x.identity # 0 => \A i \in DOMAIN x.asked : x.asked[i].kind # "join"
    /\ \A i, j \in DOMAIN x.asked : Wants(x, i, "join") /\ i < j => x.asked[j].kind # "join"
    /\ ~x.gaveUp => \A i \in DOMAIN x.asked : x.asked[i].kind = "read" => x.asked[i].wanted

Shows(e) == e.is = "ack" /\ e.kind = "read" /\ e.ok

\* What is read is never older than what was read before.
InSequence(x, d) ==
    /\ \A k \in DOMAIN d : Shows(d[k]) => x.view <= d[k].arg
    /\ \A j, k \in DOMAIN d : Shows(d[j]) /\ Shows(d[k]) /\ j < k => d[j].arg <= d[k].arg

\* A window sent away is on a socket being closed, and if it knows who it was
\* the socket speaks for nobody; a socket whose resume is still to be served has
\* no seat and nobody was sent away on it.
SentOffFor(x, d, u, s, sp, held) ==
    /\ SentOff(x, d) => s # "open" /\ (x.identity # 0 => sp = 0)
    /\ (\E j \in DOMAIN u : u[j].kind = "resume") => held = {} /\ ~SentOff(x, d)

\* What makes the window read again.
ReasonToRead(d, u, ann) ==
    \/ \E k \in DOMAIN d : \/ d[k].is = "GAME"
                           \/ Shows(d[k]) /\ d[k].arg >= ann
                           \/ d[k].is = "ack" /\ d[k].kind = "resume" /\ d[k].ok
    \/ \E j \in DOMAIN u : u[j].kind = "read"

\* A window that plays its seat shows the game as announced, or will read again.
UpToDate(x, d, u, s, sp, ann) ==
    x.page = "shown" /\ s = "open" /\ sp # 0 /\ x.identity # 0 /\ ~x.gaveUp =>
        x.view >= ann \/ ReasonToRead(d, u, ann)

HeldBy(c) == {n \in DOMAIN seats : seats[n] = c}

Steady(x, d, u, s, sp, held) ==
    /\ InLine(x, d, u, s, sp)
    /\ Disciplined(x)
    /\ InSequence(x, d)
    /\ SentOffFor(x, d, u, s, sp, held)

WindowOk(x, d, u, s, sp, held, ann) ==
    Steady(x, d, u, s, sp, held) /\ UpToDate(x, d, u, s, sp, ann)

Ok(w) == LET c == win[w].socket
         IN  WindowOk(win[w], down[c], up[c], served[c], speaks[c], HeldBy(c), announced)

OpenInv == \A w \in Windows : win[w].open => Ok(w)

PhInv == TypeInv /\ SocketInv /\ WindowInv /\ OpenInv /\ NeverGivesUp

-----------------------------------------------------------------------------
(* Sequences. *)

\* What a sequence is with one element more.
LEMMA Appended ==
  ASSUME NEW S, NEW s \in Seq(S), NEW e \in S
  PROVE  /\ Append(s, e) \in Seq(S) /\ Len(s) \in Nat
         /\ Len(Append(s, e)) = Len(s) + 1 /\ Append(s, e)[Len(s) + 1] = e
         /\ \A i \in 1..Len(s) : Append(s, e)[i] = s[i]
         /\ DOMAIN s = 1..Len(s) /\ DOMAIN Append(s, e) = 1..(Len(s) + 1)
  OBVIOUS

\* What is left of a sequence without its first element.
LEMMA Popped ==
  ASSUME NEW S, NEW s \in Seq(S), s # <<>>
  PROVE  /\ Tail(s) \in Seq(S) /\ Head(s) \in S /\ Head(s) = s[1]
         /\ Len(s) \in Nat /\ Len(s) >= 1 /\ Len(Tail(s)) = Len(s) - 1
         /\ \A i \in 1..(Len(s) - 1) : Tail(s)[i] = s[i + 1]
         /\ DOMAIN s = 1..Len(s) /\ DOMAIN Tail(s) = 1..(Len(s) - 1)
  OBVIOUS

\* What the count says of a message, whichever it is.
LEMMA CountFacts ==
  ASSUME NEW d \in Seq(Message), NEW p, Counted(p, d)
  PROVE  /\ Len(d) \in Nat /\ p[0] = 0 /\ p[Len(d)] \in Nat
         /\ \A k \in 0..Len(d) : p[k] \in Nat /\ p[k] <= p[Len(d)]
         /\ \A k \in 1..Len(d) : d[k].is = "ack" => p[k] >= 1
  <1>1. Len(d) \in Nat
    OBVIOUS
  <1>2. Len(d) \in 0..Len(d) /\ 0 \in 0..Len(d)
    BY <1>1
  <1>3. \A k \in 0..Len(d) : p[k] \in Nat /\ p[k] <= p[Len(d)]
    BY <1>1, <1>2 DEF Counted
  <1>4. ASSUME NEW k \in 1..Len(d), d[k].is = "ack" PROVE p[k] >= 1
    <2>1. k - 1 \in 0..Len(d)
      BY <1>1
    <2>2. p[k - 1] \in Nat
      BY <1>3, <2>1
    <2>3. p[k] = p[k - 1] + 1
      BY <1>4 DEF Counted
    <2>q. QED BY <2>2, <2>3
  <1>q. QED BY <1>1, <1>2, <1>3, <1>4 DEF Counted

-----------------------------------------------------------------------------
(* The line of requests and answers, through each thing that can happen to *)
(* it.                                                                     *)

\* A fresh socket has no line.
LEMMA LineStarts == Lined(<<>>, <<>>, <<>>, [k \in 0..0 |-> 0], 0)
  BY DEF Lined, Counted

\* What the line says of the places in it.
LEMMA LinePlaces ==
  ASSUME NEW a \in Seq(Pending), NEW d \in Seq(Message), NEW u \in Seq(Request), NEW p, NEW n,
         Lined(a, d, u, p, n)
  PROVE  /\ Len(a) \in Nat /\ Len(d) \in Nat /\ Len(u) \in Nat /\ n \in Nat
         /\ p[Len(d)] \in Nat /\ p[Len(d)] <= n /\ Len(a) = n + Len(u)
         /\ \A k \in 1..Len(d) : d[k].is = "ack" =>
                p[k] \in 1..n /\ p[k] \in 1..Len(a) /\ a[p[k]].kind = d[k].kind
         /\ \A j \in 1..Len(u) : n + j \in 1..Len(a) /\ a[n + j].kind = u[j].kind
  <1>1. /\ Len(a) \in Nat /\ Len(d) \in Nat /\ Len(u) \in Nat /\ n \in Nat
        /\ p[Len(d)] \in Nat /\ p[Len(d)] <= n /\ Len(a) = n + Len(u)
    BY CountFacts DEF Lined
  <1>2. ASSUME NEW k \in 1..Len(d), d[k].is = "ack"
        PROVE  p[k] \in 1..n /\ p[k] \in 1..Len(a) /\ a[p[k]].kind = d[k].kind
    <2>1. k \in 0..Len(d)
      BY <1>1
    <2>2. p[k] \in Nat /\ p[k] >= 1 /\ p[k] <= p[Len(d)]
      <3>1. Counted(p, d)
        BY DEF Lined
      <3>2. \A i \in 0..Len(d) : p[i] \in Nat /\ p[i] <= p[Len(d)]
        BY <3>1, CountFacts
      <3>3. \A i \in 1..Len(d) : d[i].is = "ack" => p[i] >= 1
        BY <3>1, CountFacts
      <3>q. QED BY <1>2, <2>1, <3>2, <3>3
    <2>3. a[p[k]].kind = d[k].kind
      BY <1>2 DEF Lined
    <2>q. QED BY <1>1, <2>2, <2>3
  <1>3. ASSUME NEW j \in 1..Len(u)
        PROVE  n + j \in 1..Len(a) /\ a[n + j].kind = u[j].kind
    BY <1>1 DEF Lined
  <1>q. QED BY <1>1, <1>2, <1>3

\* A request joins the line and goes up.
LEMMA LineAsk ==
  ASSUME NEW a \in Seq(Pending), NEW d \in Seq(Message), NEW u \in Seq(Request), NEW p, NEW n,
         Lined(a, d, u, p, n), NEW q \in Pending, NEW r \in Request, q.kind = r.kind
  PROVE  Lined(Append(a, q), d, Append(u, r), p, n)
  <1> DEFINE b == Append(a, q)
             v == Append(u, r)
  <1>1. /\ Len(b) = Len(a) + 1 /\ b[Len(a) + 1] = q
        /\ \A i \in 1..Len(a) : b[i] = a[i]
    BY Appended
  <1>2. /\ Len(v) = Len(u) + 1 /\ v[Len(u) + 1] = r
        /\ \A i \in 1..Len(u) : v[i] = u[i]
    BY Appended
  <1>3. /\ Len(a) \in Nat /\ Len(d) \in Nat /\ Len(u) \in Nat /\ n \in Nat
        /\ Len(a) = n + Len(u)
        /\ \A k \in 1..Len(d) : d[k].is = "ack" =>
               p[k] \in 1..Len(a) /\ a[p[k]].kind = d[k].kind
        /\ \A j \in 1..Len(u) : n + j \in 1..Len(a) /\ a[n + j].kind = u[j].kind
    BY LinePlaces
  <1> HIDE DEF b, v
  <1>5. \A k \in 1..Len(d) : d[k].is = "ack" => b[p[k]].kind = d[k].kind
    BY <1>1, <1>3
  <1>6. \A j \in 1..Len(v) : b[n + j].kind = v[j].kind
    <2> TAKE j \in 1..Len(v)
    <2>1. CASE j = Len(u) + 1
      <3>1. n + j = Len(a) + 1
        BY <1>3, <2>1
      <3>q. QED BY <1>1, <1>2, <2>1, <3>1
    <2>2. CASE j # Len(u) + 1
      <3>1. j \in 1..Len(u)
        BY <1>2, <1>3, <2>2
      <3>q. QED BY <1>1, <1>2, <1>3, <3>1
    <2>q. QED BY <2>1, <2>2
  <1>7. Len(b) = n + Len(v)
    BY <1>1, <1>2, <1>3
  <1>q. QED BY <1>5, <1>6, <1>7 DEF Lined, b, v

\* Giving one up keeps its place.
LEMMA LineKeeps ==
  ASSUME NEW a \in Seq(Pending), NEW b \in Seq(Pending), NEW d \in Seq(Message),
         NEW u \in Seq(Request), NEW p, NEW n, Lined(a, d, u, p, n),
         Len(b) = Len(a), \A i \in 1..Len(a) : b[i].kind = a[i].kind
  PROVE  Lined(b, d, u, p, n)
  <1>1. /\ \A k \in 1..Len(d) : d[k].is = "ack" =>
               p[k] \in 1..Len(a) /\ a[p[k]].kind = d[k].kind
        /\ \A j \in 1..Len(u) : n + j \in 1..Len(a) /\ a[n + j].kind = u[j].kind
    BY LinePlaces
  <1>q. QED BY <1>1 DEF Lined

\* The count of the answers, with a message more.
CountOn(p, d, e) ==
    [k \in 0..(Len(d) + 1) |-> IF k <= Len(d) THEN p[k]
                               ELSE IF e.is = "ack" THEN p[Len(d)] + 1 ELSE p[Len(d)]]

\* The count goes on through one message more.
LEMMA CountsOn ==
  ASSUME NEW d \in Seq(Message), NEW e \in Message, NEW p, Counted(p, d)
  PROVE  /\ Counted(CountOn(p, d, e), Append(d, e))
         /\ \A k \in 0..Len(d) : CountOn(p, d, e)[k] = p[k]
         /\ CountOn(p, d, e)[Len(d) + 1] = IF e.is = "ack" THEN p[Len(d)] + 1 ELSE p[Len(d)]
  <1> DEFINE q == CountOn(p, d, e)
             f == Append(d, e)
  <1>1. /\ Len(f) = Len(d) + 1 /\ f[Len(d) + 1] = e /\ Len(d) \in Nat
        /\ \A i \in 1..Len(d) : f[i] = d[i]
    BY Appended
  <1>2. /\ p[0] = 0 /\ p[Len(d)] \in Nat
        /\ \A k \in 1..Len(d) : p[k] = IF d[k].is = "ack" THEN p[k - 1] + 1 ELSE p[k - 1]
        /\ \A j, k \in 0..Len(d) : j <= k => p[j] <= p[k]
        /\ \A k \in 0..Len(d) : p[k] \in Nat /\ p[k] <= p[Len(d)]
    BY CountFacts DEF Counted
  <1>a. /\ \A k \in 0..(Len(d) + 1) :
              q[k] = IF k <= Len(d) THEN p[k]
                     ELSE IF e.is = "ack" THEN p[Len(d)] + 1 ELSE p[Len(d)]
        /\ q = [k \in 0..(Len(d) + 1) |-> q[k]]
    BY DEF CountOn
  <1> HIDE DEF q, f
  <1>b. \A k \in 0..Len(d) : q[k] = p[k]
    BY <1>1, <1>a
  <1>c. /\ q[Len(d) + 1] = (IF e.is = "ack" THEN p[Len(d)] + 1 ELSE p[Len(d)])
        /\ q[Len(d) + 1] \in Nat /\ q[Len(d) + 1] >= p[Len(d)]
    BY <1>1, <1>2, <1>a
  <1>d. \A k \in 0..(Len(d) + 1) : k \in 0..Len(d) \/ k = Len(d) + 1
    BY <1>1
  <1>e. \A k \in 0..(Len(d) + 1) : q[k] \in Nat
    BY <1>2, <1>b, <1>c, <1>d
  <1>3. q \in [0..Len(f) -> Nat]
    BY <1>1, <1>a, <1>e
  <1>4. q[0] = 0
    BY <1>1, <1>2, <1>b
  <1>5. ASSUME NEW k \in 1..Len(f)
        PROVE  q[k] = IF f[k].is = "ack" THEN q[k - 1] + 1 ELSE q[k - 1]
    <2>1. CASE k = Len(d) + 1
      <3>1. k - 1 = Len(d) /\ Len(d) \in 0..Len(d)
        BY <1>1, <2>1
      <3>2. q[k - 1] = p[Len(d)]
        BY <1>b, <3>1
      <3>q. QED BY <1>1, <1>c, <2>1, <3>2
    <2>2. CASE k # Len(d) + 1
      <3>1. k \in 1..Len(d) /\ k - 1 \in 0..Len(d) /\ k \in 0..Len(d)
        BY <1>1, <2>2
      <3>2. q[k] = p[k] /\ q[k - 1] = p[k - 1] /\ f[k] = d[k]
        BY <1>1, <1>b, <3>1
      <3>q. QED BY <1>2, <3>1, <3>2
    <2>q. QED BY <2>1, <2>2
  <1>6. ASSUME NEW j \in 0..Len(f), NEW k \in 0..Len(f), j <= k
        PROVE  q[j] <= q[k]
    <2>1. CASE k = Len(d) + 1
      <3>1. CASE j = Len(d) + 1
        BY <1>c, <2>1, <3>1
      <3>2. CASE j # Len(d) + 1
        <4>1. j \in 0..Len(d)
          BY <1>1, <3>2
        <4>2. q[j] = p[j] /\ p[j] \in Nat /\ p[j] <= p[Len(d)]
          BY <1>2, <1>b, <4>1
        <4>q. QED BY <1>2, <1>c, <2>1, <4>2
      <3>q. QED BY <3>1, <3>2
    <2>2. CASE k # Len(d) + 1
      <3>1. k \in 0..Len(d) /\ j \in 0..Len(d)
        BY <1>1, <1>6, <2>2
      <3>2. q[k] = p[k] /\ q[j] = p[j]
        BY <1>b, <3>1
      <3>q. QED BY <1>2, <1>6, <3>1, <3>2
    <2>q. QED BY <2>1, <2>2
  <1>7. Counted(q, f)
    BY <1>3, <1>4, <1>5, <1>6 DEF Counted
  <1>q. QED BY <1>7, <1>b, <1>c DEF q, f

\* A message more: what is no answer changes nothing of the line.
LEMMA LineTold ==
  ASSUME NEW a \in Seq(Pending), NEW d \in Seq(Message), NEW u \in Seq(Request), NEW p, NEW n,
         Lined(a, d, u, p, n), NEW e \in Message, e.is # "ack"
  PROVE  /\ Lined(a, Append(d, e), u, CountOn(p, d, e), n)
         /\ CountOn(p, d, e)[Len(Append(d, e))] = p[Len(d)]
  <1> DEFINE q == CountOn(p, d, e)
             f == Append(d, e)
  <1>1. /\ Len(f) = Len(d) + 1 /\ f[Len(d) + 1] = e /\ Len(d) \in Nat
        /\ \A i \in 1..Len(d) : f[i] = d[i]
    BY Appended
  <1>2. Counted(q, f) /\ q[Len(f)] = p[Len(d)] /\ \A k \in 0..Len(d) : q[k] = p[k]
    BY CountsOn, <1>1 DEF Lined
  <1> HIDE DEF q, f
  <1>3. ASSUME NEW k \in 1..Len(f), f[k].is = "ack" PROVE a[q[k]].kind = f[k].kind
    <2>1. k # Len(d) + 1
      BY <1>1, <1>3
    <2>2. k \in 1..Len(d) /\ k \in 0..Len(d)
      BY <1>1, <2>1
    <2>3. q[k] = p[k] /\ f[k] = d[k]
      BY <1>1, <1>2, <2>2
    <2>q. QED BY <1>3, <2>2, <2>3 DEF Lined
  <1>q. QED BY <1>2, <1>3 DEF Lined, q, f

\* An answer takes the place of the first request still going up.
LEMMA LineAnswer ==
  ASSUME NEW a \in Seq(Pending), NEW d \in Seq(Message), NEW u \in Seq(Request), NEW p, NEW n,
         Lined(a, d, u, p, n), p[Len(d)] >= n,
         u # <<>>, NEW e \in Message, e.is = "ack", e.kind = Head(u).kind
  PROVE  /\ Lined(a, Append(d, e), Tail(u), CountOn(p, d, e), n + 1)
         /\ CountOn(p, d, e)[Len(Append(d, e))] >= n + 1
  <1> DEFINE q == CountOn(p, d, e)
             f == Append(d, e)
             v == Tail(u)
  <1>1. /\ Len(f) = Len(d) + 1 /\ f[Len(d) + 1] = e /\ Len(d) \in Nat
        /\ \A i \in 1..Len(d) : f[i] = d[i]
    BY Appended
  <1>2. Counted(q, f) /\ q[Len(f)] = n + 1 /\ \A k \in 0..Len(d) : q[k] = p[k]
    <2>1. Counted(q, f) /\ q[Len(f)] = p[Len(d)] + 1 /\ \A k \in 0..Len(d) : q[k] = p[k]
      BY CountsOn, <1>1 DEF Lined
    <2>2. p[Len(d)] \in Nat /\ n \in Nat /\ p[Len(d)] <= n
      BY LinePlaces
    <2>q. QED BY <2>1, <2>2
  <1>3. /\ Len(v) = Len(u) - 1 /\ Len(u) \in Nat /\ Len(u) >= 1 /\ Head(u) = u[1]
        /\ \A i \in 1..(Len(u) - 1) : v[i] = u[i + 1]
    BY Popped
  <1>4. /\ n \in Nat /\ Len(a) = n + Len(u)
        /\ \A k \in 1..Len(d) : d[k].is = "ack" => a[p[k]].kind = d[k].kind
        /\ \A j \in 1..Len(u) : a[n + j].kind = u[j].kind
    BY LinePlaces
  <1> HIDE DEF q, f, v
  <1>a. n \in Nat /\ Len(u) \in Nat /\ Len(v) = Len(u) - 1
    BY <1>3, <1>4
  <1>5. a[n + 1].kind = e.kind
    BY <1>3, <1>4
  <1>6. ASSUME NEW k \in 1..Len(f), f[k].is = "ack" PROVE a[q[k]].kind = f[k].kind
    <2>1. CASE k = Len(d) + 1
      BY <1>1, <1>2, <1>5, <2>1
    <2>2. CASE k # Len(d) + 1
      <3>1. k \in 1..Len(d) /\ k \in 0..Len(d)
        BY <1>1, <2>2
      <3>2. q[k] = p[k] /\ f[k] = d[k]
        BY <1>1, <1>2, <3>1
      <3>q. QED BY <1>4, <1>6, <3>1, <3>2
    <2>q. QED BY <2>1, <2>2
  <1>7. ASSUME NEW j \in 1..Len(v) PROVE a[(n + 1) + j].kind = v[j].kind
    <2>0. j \in Nat /\ j >= 1 /\ j <= Len(u) - 1
      BY <1>a
    <2>1. j \in 1..(Len(u) - 1) /\ j + 1 \in 1..Len(u) /\ (n + 1) + j = n + (j + 1)
      BY <1>a, <2>0
    <2>2. v[j] = u[j + 1]
      BY <1>3, <2>1
    <2>q. QED BY <1>4, <2>1, <2>2
  <1>8. Len(a) = (n + 1) + Len(v) /\ n + 1 \in Nat
    BY <1>3, <1>4
  <1>9. q[Len(f)] <= n + 1
    BY <1>2, <1>8
  <1>10. Lined(a, f, v, q, n + 1)
    BY <1>2, <1>6, <1>7, <1>8, <1>9 DEF Lined
  <1>11. q[Len(f)] >= n + 1
    BY <1>2, <1>8
  <1>q. QED BY <1>10, <1>11 DEF q, f, v

\* A request that will have no answer, and all of them.
LEMMA LineSkip ==
  ASSUME NEW a \in Seq(Pending), NEW d \in Seq(Message), NEW u \in Seq(Request), NEW p, NEW n,
         Lined(a, d, u, p, n)
  PROVE  /\ u # <<>> => Lined(a, d, Tail(u), p, n + 1)
         /\ Lined(a, d, <<>>, p, n + Len(u))
  <1>1. /\ Len(u) \in Nat /\ n \in Nat /\ p[Len(d)] \in Nat /\ p[Len(d)] <= n
        /\ Len(a) = n + Len(u)
        /\ \A j \in 1..Len(u) : a[n + j].kind = u[j].kind
    BY LinePlaces
  <1>2. ASSUME u # <<>> PROVE Lined(a, d, Tail(u), p, n + 1)
    <2> DEFINE v == Tail(u)
    <2>1. /\ Len(v) = Len(u) - 1 /\ Len(u) >= 1
          /\ \A i \in 1..(Len(u) - 1) : v[i] = u[i + 1]
      BY <1>2, Popped
    <2> HIDE DEF v
    <2>2. ASSUME NEW j \in 1..Len(v) PROVE a[(n + 1) + j].kind = v[j].kind
      <3>1. j \in 1..(Len(u) - 1) /\ j + 1 \in 1..Len(u) /\ (n + 1) + j = n + (j + 1)
        BY <1>1, <2>1
      <3>2. v[j] = u[j + 1]
        BY <2>1, <3>1
      <3>q. QED BY <1>1, <3>1, <3>2
    <2>3. Len(a) = (n + 1) + Len(v) /\ n + 1 \in Nat
      BY <1>1, <2>1
    <2>4. p[Len(d)] <= n + 1
      BY <1>1
    <2>q. QED BY <2>2, <2>3, <2>4 DEF Lined, v
  <1>3. Lined(a, d, <<>>, p, n + Len(u))
    <2>1. Len(a) = (n + Len(u)) + Len(<<>>) /\ n + Len(u) \in Nat
      BY <1>1
    <2>2. p[Len(d)] <= n + Len(u)
      BY <1>1
    <2>3. \A j \in 1..Len(<<>>) : a[(n + Len(u)) + j].kind = (<<>>)[j].kind
      OBVIOUS
    <2>q. QED BY <2>1, <2>2, <2>3 DEF Lined
  <1>q. QED BY <1>2, <1>3

\* The count of the answers, without the first message.
CountOff(p, d) ==
    [k \in 0..(Len(d) - 1) |-> IF d[1].is = "ack" THEN p[k + 1] - 1 ELSE p[k + 1]]

\* The count without the first message is the same, less that message.
LEMMA CountsOff ==
  ASSUME NEW d \in Seq(Message), NEW p, Counted(p, d), d # <<>>,
         NEW m, m = IF d[1].is = "ack" THEN 1 ELSE 0
  PROVE  /\ Counted(CountOff(p, d), Tail(d))
         /\ p[1] = m /\ p[Len(d)] >= m
         /\ CountOff(p, d)[Len(Tail(d))] = p[Len(d)] - m
         /\ \A k \in 0..(Len(d) - 1) :
                k + 1 \in 1..Len(d) /\ CountOff(p, d)[k] = p[k + 1] - m /\ p[k + 1] \in Nat
  <1> DEFINE q == CountOff(p, d)
             f == Tail(d)
  <1>1. /\ Len(f) = Len(d) - 1 /\ Len(d) \in Nat /\ Len(d) >= 1
        /\ \A i \in 1..(Len(d) - 1) : f[i] = d[i + 1]
    BY Popped
  <1>2. /\ p[0] = 0 /\ p[Len(d)] \in Nat
        /\ \A k \in 1..Len(d) : p[k] = IF d[k].is = "ack" THEN p[k - 1] + 1 ELSE p[k - 1]
        /\ \A j, k \in 0..Len(d) : j <= k => p[j] <= p[k]
        /\ \A k \in 0..Len(d) : p[k] \in Nat /\ p[k] <= p[Len(d)]
    BY CountFacts DEF Counted
  <1>3. p[1] = m /\ m \in {0, 1}
    <2>1. 1 \in 1..Len(d) /\ 1 - 1 = 0
      BY <1>1
    <2>2. p[1] = IF d[1].is = "ack" THEN p[0] + 1 ELSE p[0]
      BY <1>2, <2>1
    <2>q. QED BY <1>2, <2>2
  <1>4. ASSUME NEW k \in 1..Len(d) PROVE p[k] \in Nat /\ p[k] >= m
    <2>1. k \in 0..Len(d) /\ 1 \in 0..Len(d) /\ 1 <= k
      BY <1>1
    <2>2. p[1] <= p[k] /\ p[k] \in Nat
      BY <1>2, <2>1
    <2>q. QED BY <1>3, <2>2
  <1>5. ASSUME NEW k \in 0..(Len(d) - 1)
        PROVE  k + 1 \in 1..Len(d) /\ q[k] = p[k + 1] - m /\ p[k + 1] \in Nat /\ q[k] \in Nat
    <2>1. k + 1 \in 1..Len(d)
      BY <1>1
    <2>2. p[k + 1] \in Nat /\ p[k + 1] >= m
      BY <1>4, <2>1
    <2>3. q[k] = IF d[1].is = "ack" THEN p[k + 1] - 1 ELSE p[k + 1]
      BY DEF CountOff
    <2>4. PICK x \in Nat : x = p[k + 1]
      BY <2>2
    <2>5. q[k] = x - m
      BY <1>3, <2>3, <2>4
    <2>q. QED BY <1>3, <2>1, <2>2, <2>4, <2>5
  <1>6. q = [k \in 0..(Len(d) - 1) |-> q[k]]
    BY DEF CountOff
  <1> HIDE DEF q, f
  <1>7. q \in [0..Len(f) -> Nat]
    BY <1>1, <1>5, <1>6
  <1>8. q[0] = 0 /\ q[Len(f)] = p[Len(d)] - m
    <2>1. 0 \in 0..(Len(d) - 1) /\ Len(f) \in 0..(Len(d) - 1) /\ Len(f) + 1 = Len(d) /\ 0 + 1 = 1
      BY <1>1
    <2>2. q[0] = p[0 + 1] - m /\ q[Len(f)] = p[Len(f) + 1] - m
      BY <1>5, <2>1
    <2>q. QED BY <1>3, <2>1, <2>2
  <1>9. ASSUME NEW k \in 1..Len(f)
        PROVE  q[k] = IF f[k].is = "ack" THEN q[k - 1] + 1 ELSE q[k - 1]
    <2>1. /\ k + 1 \in 1..Len(d) /\ k \in 0..(Len(d) - 1) /\ k - 1 \in 0..(Len(d) - 1)
          /\ (k + 1) - 1 = k /\ (k - 1) + 1 = k /\ k \in 1..(Len(d) - 1)
      BY <1>1
    <2>2. p[k + 1] = IF d[k + 1].is = "ack" THEN p[k] + 1 ELSE p[k]
      BY <1>2, <2>1
    <2>3. f[k] = d[k + 1]
      BY <1>1, <2>1
    <2>4. q[k] = p[k + 1] - m
      BY <1>5, <2>1
    <2>5. q[k - 1] = p[k] - m /\ p[k] \in Nat
      BY <1>5, <2>1
    <2>6. PICK x \in Nat : x = p[k]
      BY <2>5
    <2>q. QED BY <1>3, <2>2, <2>3, <2>4, <2>5, <2>6
  <1>10. ASSUME NEW j \in 0..Len(f), NEW k \in 0..Len(f), j <= k
         PROVE  q[j] <= q[k]
    <2>1. /\ j \in 0..(Len(d) - 1) /\ k \in 0..(Len(d) - 1)
          /\ j + 1 \in 0..Len(d) /\ k + 1 \in 0..Len(d) /\ j + 1 <= k + 1
      BY <1>1, <1>10
    <2>2. p[j + 1] <= p[k + 1]
      BY <1>2, <2>1
    <2>3. q[j] = p[j + 1] - m /\ q[k] = p[k + 1] - m /\ p[j + 1] \in Nat /\ p[k + 1] \in Nat
      BY <1>5, <2>1
    <2>q. QED BY <1>3, <2>2, <2>3
  <1>11. Counted(q, f)
    BY <1>7, <1>8, <1>9, <1>10 DEF Counted
  <1>12. p[Len(d)] >= m
    BY <1>1, <1>4
  <1>q. QED BY <1>3, <1>5, <1>8, <1>11, <1>12 DEF q, f

\* The first message taken: an answer is to the first request of the line.
LEMMA LineTake ==
  ASSUME NEW a \in Seq(Pending), NEW d \in Seq(Message), NEW u \in Seq(Request), NEW p, NEW n,
         Lined(a, d, u, p, n), d # <<>>
  PROVE  /\ d[1].is = "ack" =>
                /\ a # <<>> /\ a[1].kind = d[1].kind /\ p[Len(d)] >= 1
                /\ Lined(Tail(a), Tail(d), u, CountOff(p, d), n - 1)
                /\ CountOff(p, d)[Len(Tail(d))] = p[Len(d)] - 1
         /\ d[1].is # "ack" =>
                /\ Lined(a, Tail(d), u, CountOff(p, d), n)
                /\ CountOff(p, d)[Len(Tail(d))] = p[Len(d)]
  <1>1. PICK m : m = IF d[1].is = "ack" THEN 1 ELSE 0
    OBVIOUS
  <1>2. PICK f : f = Tail(d)
    OBVIOUS
  <1>3. PICK q : q = CountOff(p, d)
    OBVIOUS
  <1>4. /\ Len(f) = Len(d) - 1 /\ Len(d) \in Nat /\ Len(d) >= 1
        /\ \A i \in 1..(Len(d) - 1) : f[i] = d[i + 1]
    BY <1>2, Popped
  <1>5. /\ Counted(q, f) /\ p[1] = m /\ p[Len(d)] >= m /\ q[Len(f)] = p[Len(d)] - m
        /\ \A k \in 0..(Len(d) - 1) :
               k + 1 \in 1..Len(d) /\ q[k] = p[k + 1] - m /\ p[k + 1] \in Nat
    <2>1. Counted(p, d)
      BY DEF Lined
    <2>2. /\ Counted(CountOff(p, d), Tail(d)) /\ p[1] = m /\ p[Len(d)] >= m
          /\ CountOff(p, d)[Len(Tail(d))] = p[Len(d)] - m
          /\ \A k \in 0..(Len(d) - 1) :
                 k + 1 \in 1..Len(d) /\ CountOff(p, d)[k] = p[k + 1] - m /\ p[k + 1] \in Nat
      BY <1>1, <2>1, CountsOff
    <2>q. QED BY <1>2, <1>3, <2>2
  <1>6. /\ Len(a) \in Nat /\ Len(u) \in Nat /\ n \in Nat
        /\ p[Len(d)] \in Nat /\ p[Len(d)] <= n /\ Len(a) = n + Len(u)
        /\ \A k \in 1..Len(d) : d[k].is = "ack" =>
               p[k] \in 1..n /\ p[k] \in 1..Len(a) /\ a[p[k]].kind = d[k].kind
        /\ \A j \in 1..Len(u) : n + j \in 1..Len(a) /\ a[n + j].kind = u[j].kind
    BY LinePlaces
  <1>7. ASSUME NEW k \in 1..Len(f), f[k].is = "ack"
        PROVE  /\ q[k] = p[k + 1] - m /\ p[k + 1] \in 1..Len(a) /\ q[k] \in Nat /\ q[k] >= 1
               /\ a[p[k + 1]].kind = f[k].kind
    <2>1. /\ k \in 0..(Len(d) - 1) /\ k \in 1..(Len(d) - 1) /\ k + 1 \in 1..Len(d)
      BY <1>4
    <2>2. f[k] = d[k + 1]
      BY <1>4, <2>1
    <2>3. p[k + 1] \in 1..Len(a) /\ a[p[k + 1]].kind = f[k].kind
      BY <1>6, <1>7, <2>1, <2>2
    <2>4. q[k] \in Nat /\ q[k] >= 1
      <3>1. f \in Seq(Message)
        BY <1>2, Popped
      <3>2. k \in 0..Len(f)
        BY <1>4
      <3>3. Counted(q, f)
        BY <1>5
      <3>4. \A i \in 0..Len(f) : q[i] \in Nat
        BY <3>1, <3>3, CountFacts
      <3>5. \A i \in 1..Len(f) : f[i].is = "ack" => q[i] >= 1
        BY <3>1, <3>3, CountFacts
      <3>q. QED BY <1>7, <3>2, <3>4, <3>5
    <2>q. QED BY <1>5, <2>1, <2>3, <2>4
  <1>8. CASE d[1].is = "ack"
    <2>1. m = 1 /\ 1 \in 1..Len(d)
      BY <1>1, <1>4, <1>8
    <2>2. p[Len(d)] >= 1 /\ a[1].kind = d[1].kind /\ Len(a) >= 1
      BY <1>5, <1>6, <1>8, <2>1
    <2>3. a # <<>>
      BY <2>2
    <2>4. PICK b : b = Tail(a)
      OBVIOUS
    <2>5. Len(b) = Len(a) - 1 /\ \A i \in 1..(Len(a) - 1) : b[i] = a[i + 1]
      BY <2>3, <2>4, Popped
    <2>6. ASSUME NEW k \in 1..Len(f), f[k].is = "ack" PROVE b[q[k]].kind = f[k].kind
      <3>1. q[k] \in 1..(Len(a) - 1) /\ q[k] + 1 = p[k + 1]
        BY <1>6, <1>7, <2>1, <2>6
      <3>2. b[q[k]] = a[p[k + 1]]
        BY <2>5, <3>1
      <3>q. QED BY <1>7, <2>6, <3>2
    <2>7. ASSUME NEW j \in 1..Len(u) PROVE b[(n - 1) + j].kind = u[j].kind
      <3>1. (n - 1) + j \in 1..(Len(a) - 1) /\ ((n - 1) + j) + 1 = n + j
        BY <1>6, <2>2
      <3>2. b[(n - 1) + j] = a[n + j]
        BY <2>5, <3>1
      <3>q. QED BY <1>6, <3>2
    <2>8. /\ Len(b) = (n - 1) + Len(u) /\ n - 1 \in Nat
          /\ q[Len(f)] = p[Len(d)] - 1 /\ q[Len(f)] <= n - 1
      BY <1>5, <1>6, <2>1, <2>2, <2>5
    <2>9. Lined(b, f, u, q, n - 1)
      BY <1>5, <2>6, <2>7, <2>8 DEF Lined
    <2>q. QED BY <1>2, <1>3, <1>8, <2>2, <2>3, <2>4, <2>8, <2>9
  <1>9. CASE d[1].is # "ack"
    <2>1. m = 0 /\ q[Len(f)] = p[Len(d)]
      BY <1>1, <1>5, <1>6, <1>9
    <2>2. ASSUME NEW k \in 1..Len(f), f[k].is = "ack" PROVE a[q[k]].kind = f[k].kind
      <3>1. q[k] = p[k + 1]
        BY <1>7, <2>1, <2>2
      <3>q. QED BY <1>7, <2>2, <3>1
    <2>3. Lined(a, f, u, q, n)
      BY <1>5, <1>6, <2>1, <2>2 DEF Lined
    <2>q. QED BY <1>2, <1>3, <1>9, <2>1, <2>3
  <1>q. QED BY <1>8, <1>9

-----------------------------------------------------------------------------
(* What a window becomes. *)

\* Everything of a window but what it asked.
Alike(x, y) ==
    /\ y.page = x.page /\ y.socket = x.socket /\ y.open = x.open /\ y.first = x.first
    /\ y.retrying = x.retrying /\ y.byUs = x.byUs /\ y.told = x.told
    /\ y.identity = x.identity /\ y.view = x.view /\ y.gaveUp = x.gaveUp

\* A window that asked for something more: its place is kept, at the end.
LEMMA AskedIs ==
  ASSUME NEW x \in Window, NEW kind \in Kinds
  PROVE  /\ Asked(x, kind) \in Window /\ Alike(x, Asked(x, kind))
         /\ Asked(x, kind).asked = Append(x.asked, [kind |-> kind, wanted |-> TRUE])
         /\ [kind |-> kind, wanted |-> TRUE] \in Pending
  <1>1. x.asked \in Seq(Pending)
    BY DEF Window
  <1>2. [kind |-> kind, wanted |-> TRUE] \in Pending
    BY DEF Pending
  <1>3. Append(x.asked, [kind |-> kind, wanted |-> TRUE]) \in Seq(Pending)
    BY <1>1, <1>2
  <1> DEFINE a == Append(x.asked, [kind |-> kind, wanted |-> TRUE])
  <1>4. Asked(x, kind) = [x EXCEPT !.asked = a]
    BY DEF Asked
  <1> HIDE DEF a
  <1>5. [x EXCEPT !.asked = a] \in Window /\ Alike(x, [x EXCEPT !.asked = a])
        /\ [x EXCEPT !.asked = a].asked = a
    BY <1>3 DEF Window, Alike, a
  <1>q. QED BY <1>2, <1>4, <1>5 DEF a

\* The other things a window becomes, in the order of the actions.
Loaded(c) == [NewWindow EXCEPT !.page = "shown", !.socket = c, !.first = TRUE]

Opened(x, n) == [x EXCEPT !.open = TRUE, !.first = FALSE, !.gaveUp = FALSE, !.identity = n]

Retried(x, c) == [x EXCEPT !.retrying = FALSE, !.byUs = FALSE, !.socket = c]

Rest(x) == [x EXCEPT !.asked = Tail(@)]

KnownAs(x, n) == [x EXCEPT !.identity = n]

Showing(x, v) == [x EXCEPT !.view = v]

Unanswered(x) == [x EXCEPT !.gaveUp = TRUE]

TooLate(x, i) == [x EXCEPT !.asked[i].wanted = FALSE]

\* The page, opened or opened again.
LEMMA LoadedIs ==
  ASSUME NEW c \in Conns
  PROVE  /\ Loaded(c) \in Window /\ Loaded(c).page = "shown" /\ Loaded(c).socket = c
         /\ Loaded(c).open = FALSE /\ Loaded(c).retrying = FALSE
         /\ Loaded(c).byUs = FALSE /\ Loaded(c).told = FALSE /\ Loaded(c).identity = 0
         /\ Loaded(c).asked = <<>> /\ Loaded(c).view = 0
  <1>0. <<>> \in Seq(Pending)
    OBVIOUS
  <1>1. PICK e \in Seq(Pending) : e = <<>>
    BY <1>0
  <1>2. Loaded(c) = [NewWindow EXCEPT !.page = "shown", !.socket = c, !.first = TRUE]
    BY DEF Loaded
  <1>3. NewWindow = [page |-> "closed", socket |-> None, open |-> FALSE, first |-> FALSE,
                     retrying |-> FALSE, byUs |-> FALSE, told |-> FALSE, identity |-> 0,
                     asked |-> e, view |-> 0, gaveUp |-> FALSE]
    BY <1>1 DEF NewWindow
  <1>4. Loaded(c) = [page |-> "shown", socket |-> c, open |-> FALSE, first |-> TRUE,
                     retrying |-> FALSE, byUs |-> FALSE, told |-> FALSE, identity |-> 0,
                     asked |-> e, view |-> 0, gaveUp |-> FALSE]
    BY <1>2, <1>3
  <1>q. QED BY <1>1, <1>4 DEF Window

\* A window whose connection was made.
LEMMA OpenedIs ==
  ASSUME NEW x \in Window, NEW n \in Nat
  PROVE  /\ Opened(x, n) \in Window /\ Opened(x, n).page = x.page
         /\ Opened(x, n).socket = x.socket /\ Opened(x, n).open = TRUE
         /\ Opened(x, n).retrying = x.retrying /\ Opened(x, n).byUs = x.byUs
         /\ Opened(x, n).told = x.told /\ Opened(x, n).identity = n
         /\ Opened(x, n).asked = x.asked /\ Opened(x, n).view = x.view
         /\ Opened(x, n).gaveUp = FALSE
  BY DEF Opened, Window

\* A window that tries again.
LEMMA RetriedIs ==
  ASSUME NEW x \in Window, NEW c \in Conns
  PROVE  /\ Retried(x, c) \in Window /\ Retried(x, c).page = x.page
         /\ Retried(x, c).socket = c /\ Retried(x, c).open = x.open
         /\ Retried(x, c).retrying = FALSE /\ Retried(x, c).byUs = FALSE
         /\ Retried(x, c).told = x.told /\ Retried(x, c).identity = x.identity
         /\ Retried(x, c).asked = x.asked /\ Retried(x, c).view = x.view
  BY DEF Retried, Window

\* A window whose socket is gone.
LEMMA GoneIs ==
  ASSUME NEW x \in Window
  PROVE  /\ SocketGone(x) \in Window /\ SocketGone(x).page = x.page
         /\ SocketGone(x).socket = None /\ SocketGone(x).open = FALSE
         /\ SocketGone(x).retrying = ~x.byUs /\ SocketGone(x).byUs = x.byUs
         /\ SocketGone(x).told = x.told /\ SocketGone(x).identity = x.identity
         /\ SocketGone(x).asked = <<>> /\ SocketGone(x).view = x.view
  <1>0. <<>> \in Seq(Pending)
    OBVIOUS
  <1>1. PICK e \in Seq(Pending) : e = <<>>
    BY <1>0
  <1>2. PICK r : r = ~x.byUs
    OBVIOUS
  <1>3. r \in BOOLEAN
    BY <1>2
  <1>4. SocketGone(x) = [x EXCEPT !.socket = None, !.open = FALSE, !.first = FALSE, !.asked = e,
                                  !.retrying = r]
    BY <1>1, <1>2 DEF SocketGone, WillRetry
  <1>5. /\ SocketGone(x) \in Window /\ SocketGone(x).page = x.page
        /\ SocketGone(x).socket = None /\ SocketGone(x).open = FALSE
        /\ SocketGone(x).retrying = r /\ SocketGone(x).byUs = x.byUs
        /\ SocketGone(x).told = x.told /\ SocketGone(x).identity = x.identity
        /\ SocketGone(x).asked = e /\ SocketGone(x).view = x.view
    BY <1>3, <1>4 DEF Window
  <1>q. QED BY <1>1, <1>2, <1>5

\* A window whose first request was answered.
LEMMA RestIs ==
  ASSUME NEW x \in Window, x.asked # <<>>
  PROVE  Rest(x) \in Window /\ Alike(x, Rest(x)) /\ Rest(x).asked = Tail(x.asked)
  <1>1. Tail(x.asked) \in Seq(Pending)
    BY DEF Window
  <1>2. PICK a \in Seq(Pending) : a = Tail(x.asked)
    BY <1>1
  <1>3. Rest(x) = [x EXCEPT !.asked = a]
    BY <1>2 DEF Rest
  <1>4. /\ [x EXCEPT !.asked = a] \in Window /\ Alike(x, [x EXCEPT !.asked = a])
        /\ [x EXCEPT !.asked = a].asked = a
    BY DEF Window, Alike
  <1>q. QED BY <1>2, <1>3, <1>4

\* Who it is, what it shows and whether it is shown, apart from what it asked.
SameSocket(x, y) ==
    /\ y.socket = x.socket /\ y.open = x.open /\ y.retrying = x.retrying
    /\ y.asked = x.asked

\* A window that was told who it is.
LEMMA KnownAsIs ==
  ASSUME NEW x \in Window, NEW n \in Nat
  PROVE  /\ KnownAs(x, n) \in Window /\ SameSocket(x, KnownAs(x, n))
         /\ KnownAs(x, n).byUs = x.byUs /\ KnownAs(x, n).told = x.told
         /\ KnownAs(x, n).page = x.page /\ KnownAs(x, n).view = x.view
         /\ KnownAs(x, n).gaveUp = x.gaveUp /\ KnownAs(x, n).identity = n
  BY DEF KnownAs, SameSocket, Window

\* A window that forgot is nobody.
LEMMA ForgottenIs ==
  ASSUME NEW x \in Window
  PROVE  Forgotten(x) = KnownAs(x, 0)
  BY DEF Forgotten, KnownAs

\* A window that shows the page for those sent away.
LEMMA EvictedIs ==
  ASSUME NEW x \in Window
  PROVE  /\ Evicted(x) \in Window /\ SameSocket(x, Evicted(x))
         /\ Evicted(x).byUs = x.byUs /\ Evicted(x).told = x.told
         /\ Evicted(x).page = "evicted" /\ Evicted(x).view = x.view
         /\ Evicted(x).gaveUp = x.gaveUp /\ Evicted(x).identity = x.identity
  BY DEF Evicted, SameSocket, Window

\* A window that was told to go.
LEMMA SentAwayIs ==
  ASSUME NEW x \in Window
  PROVE  /\ SentAway(x) \in Window /\ SameSocket(x, SentAway(x))
         /\ SentAway(x).byUs = TRUE /\ SentAway(x).told = TRUE
         /\ SentAway(x).page = "evicted" /\ SentAway(x).view = x.view
         /\ SentAway(x).gaveUp = x.gaveUp /\ SentAway(x).identity = x.identity
  <1>1. SentAway(x) = [[x EXCEPT !.told = TRUE, !.byUs = TRUE] EXCEPT !.page = "evicted"]
    BY DEF SentAway, Evicted
  <1>q. QED BY <1>1 DEF SameSocket, Window

\* A window that shows what was read.
LEMMA ShowingIs ==
  ASSUME NEW x \in Window, NEW v \in Nat
  PROVE  /\ Showing(x, v) \in Window /\ SameSocket(x, Showing(x, v))
         /\ Showing(x, v).byUs = x.byUs /\ Showing(x, v).told = x.told
         /\ Showing(x, v).page = x.page /\ Showing(x, v).view = v
         /\ Showing(x, v).gaveUp = x.gaveUp /\ Showing(x, v).identity = x.identity
  BY DEF Showing, SameSocket, Window

\* A window that was not told what it asked to read.
LEMMA UnansweredIs ==
  ASSUME NEW x \in Window
  PROVE  /\ Unanswered(x) \in Window /\ SameSocket(x, Unanswered(x))
         /\ Unanswered(x).byUs = x.byUs /\ Unanswered(x).told = x.told
         /\ Unanswered(x).page = x.page /\ Unanswered(x).view = x.view
         /\ Unanswered(x).gaveUp = TRUE /\ Unanswered(x).identity = x.identity
  BY DEF Unanswered, SameSocket, Window

\* A window that waits for one of its requests no more.
LEMMA TooLateIs ==
  ASSUME NEW x \in Window, NEW i \in DOMAIN x.asked
  PROVE  /\ TooLate(x, i) \in Window /\ Alike(x, TooLate(x, i))
         /\ Len(TooLate(x, i).asked) = Len(x.asked) /\ DOMAIN TooLate(x, i).asked = DOMAIN x.asked
         /\ \A j \in DOMAIN x.asked :
                /\ TooLate(x, i).asked[j].kind = x.asked[j].kind
                /\ TooLate(x, i).asked[j].wanted = (x.asked[j].wanted /\ j # i)
  <1>1. x.asked \in Seq(Pending) /\ i \in 1..Len(x.asked) /\ DOMAIN x.asked = 1..Len(x.asked)
        /\ x.asked[i] \in Pending /\ Len(x.asked) \in Nat
    BY DEF Window
  <1>2. PICK q : q = [x.asked[i] EXCEPT !.wanted = FALSE]
    OBVIOUS
  <1>3. q \in Pending /\ q.kind = x.asked[i].kind /\ q.wanted = FALSE
    BY <1>1, <1>2 DEF Pending
  <1>4. PICK a : a = [x.asked EXCEPT ![i] = q]
    OBVIOUS
  <1>5. a \in Seq(Pending) /\ Len(a) = Len(x.asked) /\ DOMAIN a = DOMAIN x.asked
    BY <1>1, <1>3, <1>4
  <1>6. \A j \in DOMAIN x.asked : a[j] = IF j = i THEN q ELSE x.asked[j]
    BY <1>1, <1>4
  <1>7. TooLate(x, i) = [x EXCEPT !.asked = a]
    BY <1>2, <1>4 DEF TooLate
  <1>8. /\ [x EXCEPT !.asked = a] \in Window /\ Alike(x, [x EXCEPT !.asked = a])
        /\ [x EXCEPT !.asked = a].asked = a
    BY <1>5 DEF Window, Alike
  <1>9. \A j \in DOMAIN x.asked : x.asked[j].wanted \in BOOLEAN
    <2> TAKE j \in DOMAIN x.asked
    <2>1. x.asked[j] \in Pending
      BY <1>1
    <2>q. QED BY <2>1 DEF Pending
  <1>10. \A j \in DOMAIN x.asked :
             a[j].kind = x.asked[j].kind /\ a[j].wanted = (x.asked[j].wanted /\ j # i)
    <2> TAKE j \in DOMAIN x.asked
    <2>1. CASE j = i
      BY <1>3, <1>6, <2>1
    <2>2. CASE j # i
      BY <1>6, <1>9, <2>2
    <2>q. QED BY <2>1, <2>2
  <1>q. QED BY <1>5, <1>7, <1>8, <1>10

-----------------------------------------------------------------------------
(* What a window does, and the types. *)

\* The windows and what goes up are of their types, with n intents minted.
WinUp(n) ==
    /\ win \in [Windows -> Window]
    /\ \A w \in Windows : win[w].identity \in 0..minted /\ win[w].view \in 0..version
    /\ up \in [Conns -> Seq(Request)]
    /\ \A c \in Conns : \A i \in DOMAIN up[c] : RequestOk(up[c][i], minted, n)

\* A window changes and sends nothing.
LEMMA SendsNothingKeepsTypes ==
  ASSUME NEW n, WinUp(n), NEW w \in Windows, NEW x \in Window,
         x.identity \in 0..minted, x.view \in 0..version, SendsNothing(w, x),
         minted' = minted, version' = version
  PROVE  WinUp(n)'
  <1>1. win' = [win EXCEPT ![w] = x] /\ up' = up
    BY DEF SendsNothing
  <1>2. win' \in [Windows -> Window]
    BY <1>1 DEF WinUp
  <1>3. ASSUME NEW v \in Windows PROVE win'[v].identity \in 0..minted /\ win'[v].view \in 0..version
    <2>1. CASE v = w
      BY <1>1, <2>1 DEF WinUp
    <2>2. CASE v # w
      BY <1>1, <2>2 DEF WinUp
    <2>q. QED BY <2>1, <2>2
  <1>q. QED BY <1>1, <1>2, <1>3 DEF WinUp

\* A window that sends, and whatever that was.
LEMMA SendsKeepsTypes ==
  ASSUME NEW n, WinUp(n), NEW w \in Windows, NEW x \in Window,
         x.identity \in 0..minted, x.view \in 0..version, x.socket \in Conns,
         NEW kind \in Kinds, NEW arg \in Nat, Sends(w, x, kind, arg),
         minted' = minted, version' = version,
         RequestOk([kind |-> kind, arg |-> arg], minted, n)
  PROVE  WinUp(n)'
  <1>1. PICK y : y = Asked(x, kind)
    OBVIOUS
  <1>2. PICK r : r = [kind |-> kind, arg |-> arg]
    OBVIOUS
  <1>3. PICK c : c = x.socket
    OBVIOUS
  <1>4. y \in Window /\ y.identity = x.identity /\ y.view = x.view
    BY <1>1, AskedIs DEF Alike
  <1>5. r \in Request /\ RequestOk(r, minted, n) /\ c \in Conns
    BY <1>2, <1>3 DEF Request
  <1>6. win' = [win EXCEPT ![w] = y] /\ up' = [up EXCEPT ![c] = Append(@, r)]
    BY <1>1, <1>2, <1>3 DEF Sends
  <1>7. win' \in [Windows -> Window]
    BY <1>4, <1>6 DEF WinUp
  <1>8. ASSUME NEW v \in Windows PROVE win'[v].identity \in 0..minted /\ win'[v].view \in 0..version
    <2>1. CASE v = w
      BY <1>4, <1>6, <2>1 DEF WinUp
    <2>2. CASE v # w
      BY <1>6, <2>2 DEF WinUp
    <2>q. QED BY <2>1, <2>2
  <1>9. up[c] \in Seq(Request) /\ up \in [Conns -> Seq(Request)]
    BY <1>5 DEF WinUp
  <1>10. PICK q : q = Append(up[c], r)
    OBVIOUS
  <1>11. /\ q \in Seq(Request) /\ Len(q) = Len(up[c]) + 1 /\ q[Len(up[c]) + 1] = r
         /\ \A i \in 1..Len(up[c]) : q[i] = up[c][i]
         /\ DOMAIN up[c] = 1..Len(up[c]) /\ DOMAIN q = 1..(Len(up[c]) + 1) /\ Len(up[c]) \in Nat
    BY <1>5, <1>9, <1>10, Appended
  <1>12. up' = [up EXCEPT ![c] = q]
    BY <1>6, <1>10
  <1>13. up' \in [Conns -> Seq(Request)]
    BY <1>5, <1>9, <1>11, <1>12
  <1>14. ASSUME NEW b \in Conns, NEW i \in DOMAIN up'[b] PROVE RequestOk(up'[b][i], minted, n)
    <2>1. CASE b # c
      <3>1. up'[b] = up[b]
        BY <1>9, <1>12, <2>1
      <3>q. QED BY <1>14, <3>1 DEF WinUp
    <2>2. CASE b = c
      <3>1. up'[b] = q
        BY <1>9, <1>12, <2>2
      <3>2. CASE i = Len(up[c]) + 1
        BY <1>5, <1>11, <3>1, <3>2
      <3>3. CASE i # Len(up[c]) + 1
        <4>1. i \in DOMAIN up[c] /\ q[i] = up[c][i]
          BY <1>11, <1>14, <3>1, <3>3
        <4>q. QED BY <1>5, <3>1, <4>1 DEF WinUp
      <3>q. QED BY <3>2, <3>3
    <2>q. QED BY <2>1, <2>2
  <1>q. QED BY <1>7, <1>8, <1>13, <1>14 DEF WinUp

\* An answer that names a seat given out, or a version published.
AckOk(e) == /\ e.kind \in Kinds /\ e.ok \in BOOLEAN
            /\ e.kind \in {"resume", "join"} /\ e.ok => e.arg \in 0..minted
            /\ e.kind = "read" /\ e.ok => e.arg \in 0..version

\* What the window makes of an answer: it becomes y, and reads or does not; if it
\* did not want the answer, nothing else happens.
AnswerTo(w, x, e, y, reads) ==
    \/ /\ e.kind = "resume" /\ e.ok /\ y = x /\ reads
    \/ /\ e.kind = "resume" /\ ~e.ok /\ y = KnownAs(x, 0) /\ ~reads
    \/ /\ e.kind = "join" /\ e.ok /\ y = KnownAs(x, e.arg) /\ reads
    \/ /\ e.kind = "join" /\ ~e.ok /\ y = x /\ ~reads
    \/ /\ e.kind = "act" /\ y = x /\ reads
    \/ /\ e.kind = "read" /\ e.ok /\ y = Showing(x, e.arg) /\ ~reads
    \/ /\ e.kind = "read" /\ ~e.ok /\ y = Unanswered(x) /\ ~reads
    \/ /\ e.kind = "leave" /\ e.ok /\ y = Evicted(KnownAs(x, 0)) /\ ~reads
    \/ /\ e.kind = "leave" /\ ~e.ok /\ y = Evicted(x) /\ ~reads

\* It becomes that, in the next state.
Becomes(w, x, e, y, reads) ==
    /\ AnswerTo(w, x, e, y, reads)
    /\ y \in Window /\ SameSocket(x, y)
    /\ y.identity \in 0..minted /\ y.view \in 0..version
    /\ IF reads THEN Sends(w, y, "read", 0) ELSE SendsNothing(w, y)

\* Whatever the answer, a window becomes a window that may read again.
LEMMA AnsweredAs ==
  ASSUME minted \in Nat, version \in Nat, NEW w \in Windows, NEW x \in Window,
         x.identity \in 0..minted, x.view \in 0..version,
         NEW e, AckOk(e), Answered(w, x, e)
  PROVE  /\ \E y : \E reads \in BOOLEAN : Becomes(w, x, e, y, reads)
         /\ stored' \in {stored, 0} \/ (stored' = e.arg /\ e.kind = "join" /\ e.ok)
  <1>0. SameSocket(x, x)
    BY DEF SameSocket
  <1>1. CASE e.kind = "resume" /\ e.ok
    <2>1. Sends(w, x, "read", 0) /\ stored' = stored
      BY <1>1 DEF Answered, Resumed
    <2>2. Becomes(w, x, e, x, TRUE)
      BY <1>0, <1>1, <2>1 DEF AnswerTo, Becomes
    <2>q. QED BY <2>1, <2>2
  <1>2. CASE e.kind = "resume" /\ ~e.ok
    <2>1. SendsNothing(w, KnownAs(x, 0)) /\ stored' = 0
      BY <1>2, ForgottenIs DEF Answered
    <2>2. Becomes(w, x, e, KnownAs(x, 0), FALSE)
      <3>1. /\ KnownAs(x, 0) \in Window /\ SameSocket(x, KnownAs(x, 0))
            /\ KnownAs(x, 0).view = x.view /\ KnownAs(x, 0).identity = 0
        BY KnownAsIs
      <3>q. QED BY <1>2, <2>1, <3>1 DEF AnswerTo, Becomes
    <2>q. QED BY <2>1, <2>2
  <1>3. CASE e.kind = "join" /\ e.ok
    <2>1. Sends(w, KnownAs(x, e.arg), "read", 0) /\ stored' = e.arg
      BY <1>3 DEF Answered, KnownAs
    <2>2. e.arg \in 0..minted /\ e.arg \in Nat
      BY <1>3 DEF AckOk
    <2>3. /\ KnownAs(x, e.arg) \in Window /\ SameSocket(x, KnownAs(x, e.arg))
          /\ KnownAs(x, e.arg).view = x.view /\ KnownAs(x, e.arg).identity = e.arg
      BY <2>2, KnownAsIs
    <2>4. Becomes(w, x, e, KnownAs(x, e.arg), TRUE)
      BY <1>3, <2>1, <2>2, <2>3 DEF AnswerTo, Becomes
    <2>q. QED BY <1>3, <2>1, <2>4
  <1>4. CASE e.kind = "join" /\ ~e.ok
    <2>1. SendsNothing(w, x) /\ stored' = stored
      BY <1>4 DEF Answered
    <2>2. Becomes(w, x, e, x, FALSE)
      BY <1>0, <1>4, <2>1 DEF AnswerTo, Becomes
    <2>q. QED BY <2>1, <2>2
  <1>5. CASE e.kind = "act"
    <2>1. Sends(w, x, "read", 0) /\ stored' = stored
      BY <1>5 DEF Answered
    <2>2. Becomes(w, x, e, x, TRUE)
      BY <1>0, <1>5, <2>1 DEF AnswerTo, Becomes
    <2>q. QED BY <2>1, <2>2
  <1>6. CASE e.kind = "read" /\ e.ok
    <2>1. SendsNothing(w, Showing(x, e.arg)) /\ stored' = stored
      BY <1>6 DEF Answered, Showing
    <2>2. e.arg \in 0..version /\ e.arg \in Nat
      BY <1>6 DEF AckOk
    <2>3. /\ Showing(x, e.arg) \in Window /\ SameSocket(x, Showing(x, e.arg))
          /\ Showing(x, e.arg).view = e.arg /\ Showing(x, e.arg).identity = x.identity
      BY <2>2, ShowingIs
    <2>4. Becomes(w, x, e, Showing(x, e.arg), FALSE)
      BY <1>6, <2>1, <2>2, <2>3 DEF AnswerTo, Becomes
    <2>q. QED BY <2>1, <2>4
  <1>7. CASE e.kind = "read" /\ ~e.ok
    <2>1. SendsNothing(w, Unanswered(x)) /\ stored' = stored
      BY <1>7 DEF Answered, Unanswered
    <2>2. Becomes(w, x, e, Unanswered(x), FALSE)
      BY <1>7, <2>1, UnansweredIs DEF AnswerTo, Becomes
    <2>q. QED BY <2>1, <2>2
  <1>8. CASE e.kind = "leave" /\ e.ok
    <2>1. SendsNothing(w, Evicted(KnownAs(x, 0))) /\ stored' = 0
      BY <1>8, ForgottenIs DEF Answered
    <2>2. PICK z : z = KnownAs(x, 0)
      OBVIOUS
    <2>3. z \in Window /\ SameSocket(x, z) /\ z.identity = 0 /\ z.view = x.view
      BY <2>2, KnownAsIs
    <2>4. /\ Evicted(z) \in Window /\ SameSocket(z, Evicted(z))
          /\ Evicted(z).identity = 0 /\ Evicted(z).view = x.view
      BY <2>3, EvictedIs
    <2>5. SameSocket(x, Evicted(z))
      BY <2>3, <2>4 DEF SameSocket
    <2>6. Becomes(w, x, e, Evicted(z), FALSE)
      BY <1>8, <2>1, <2>2, <2>4, <2>5 DEF AnswerTo, Becomes
    <2>q. QED BY <2>1, <2>6
  <1>9. CASE e.kind = "leave" /\ ~e.ok
    <2>1. SendsNothing(w, Evicted(x)) /\ stored' = 0
      BY <1>9 DEF Answered
    <2>2. Becomes(w, x, e, Evicted(x), FALSE)
      BY <1>9, <2>1, EvictedIs DEF AnswerTo, Becomes
    <2>q. QED BY <2>1, <2>2
  <1>q. QED BY <1>1, <1>2, <1>3, <1>4, <1>5, <1>6, <1>7, <1>8, <1>9 DEF AckOk, Kinds

-----------------------------------------------------------------------------
(* What the server sends, and the types. *)

\* What comes down is of its type, with m seats given out and v versions.
DownOk(box, m, v) ==
    /\ box \in [Conns -> Seq(Message)]
    /\ \A c \in Conns : \A i \in DOMAIN box[c] : MessageOk(box[c][i], m, v)

\* An event is a message of its name.
LEMMA EventIs ==
  ASSUME NEW is \in {"superseded", "removed"} \cup Families
  PROVE  Event(is) \in Message /\ Event(is).is = is /\ \A m, v : MessageOk(Event(is), m, v)
  BY DEF Event, Message, MessageOk, Families

\* An answer is a message of the kind it answers.
LEMMA AckIs ==
  ASSUME NEW kind \in Kinds, NEW ok \in BOOLEAN, NEW arg \in Nat
  PROVE  /\ Ack(kind, ok, arg) \in Message /\ Ack(kind, ok, arg).is = "ack"
         /\ Ack(kind, ok, arg).kind = kind /\ Ack(kind, ok, arg).ok = ok
         /\ Ack(kind, ok, arg).arg = arg
  BY DEF Ack, Message

\* What is delivered stays in bounds with one message more.
LEMMA AppendedOk ==
  ASSUME NEW q \in Seq(Message), NEW e \in Message, NEW m, NEW v, MessageOk(e, m, v),
         \A i \in DOMAIN q : MessageOk(q[i], m, v)
  PROVE  /\ Append(q, e) \in Seq(Message)
         /\ \A i \in DOMAIN Append(q, e) : MessageOk(Append(q, e)[i], m, v)
  <1>1. PICK r : r = Append(q, e)
    OBVIOUS
  <1>2. /\ r \in Seq(Message) /\ r[Len(q) + 1] = e /\ \A i \in 1..Len(q) : r[i] = q[i]
        /\ DOMAIN q = 1..Len(q) /\ DOMAIN r = 1..(Len(q) + 1) /\ Len(q) \in Nat
    BY <1>1, Appended
  <1>3. ASSUME NEW i \in DOMAIN r PROVE MessageOk(r[i], m, v)
    <2>1. CASE i = Len(q) + 1
      BY <1>2, <2>1
    <2>2. CASE i # Len(q) + 1
      <3>1. i \in DOMAIN q /\ r[i] = q[i]
        BY <1>2, <1>3, <2>2
      <3>q. QED BY <3>1
    <2>q. QED BY <2>1, <2>2
  <1>q. QED BY <1>1, <1>2, <1>3

\* What was in bounds stays in bounds as the counts grow.
LEMMA MoreIsOk ==
  ASSUME NEW box, NEW m \in Nat, NEW v \in Nat, NEW m2 \in Nat, NEW v2 \in Nat,
         DownOk(box, m, v), m <= m2, v <= v2
  PROVE  DownOk(box, m2, v2)
  <1>1. \A e : MessageOk(e, m, v) => MessageOk(e, m2, v2)
    BY DEF MessageOk
  <1>q. QED BY <1>1 DEF DownOk

\* Events keep what is delivered in bounds.
LEMMA DeliversOk ==
  ASSUME NEW to, NEW is \in {"superseded", "removed"} \cup Families,
         NEW m, NEW v, DownOk(down, m, v)
  PROVE  DownOk(Delivers(to, Event(is)), m, v)
  <1>1. PICK e : e = Event(is)
    OBVIOUS
  <1>2. e \in Message /\ MessageOk(e, m, v)
    BY <1>1, EventIs
  <1>3. \A c \in Conns : /\ Append(down[c], e) \in Seq(Message)
                         /\ \A i \in DOMAIN Append(down[c], e) :
                                 MessageOk(Append(down[c], e)[i], m, v)
    BY <1>2, AppendedOk DEF DownOk
  <1>4. PICK box : box = Delivers(to, e)
    OBVIOUS
  <1>5. \A c \in Conns : box[c] = Append(down[c], e) \/ box[c] = down[c]
    BY <1>4 DEF Delivers
  <1>6. box = [c \in Conns |-> box[c]]
    BY <1>4 DEF Delivers
  <1>7. \A c \in Conns : /\ box[c] \in Seq(Message)
                         /\ \A i \in DOMAIN box[c] : MessageOk(box[c][i], m, v)
    <2> TAKE c \in Conns
    <2>1. CASE box[c] = Append(down[c], e)
      BY <1>3, <2>1
    <2>2. CASE box[c] = down[c]
      BY <2>2 DEF DownOk
    <2>q. QED BY <1>5, <2>1, <2>2
  <1>q. QED BY <1>1, <1>4, <1>6, <1>7 DEF DownOk

\* So does an answer.
LEMMA AnswerOk ==
  ASSUME NEW box, NEW c \in Conns, NEW e \in Message, NEW m, NEW v,
         DownOk(box, m, v), MessageOk(e, m, v)
  PROVE  DownOk(Answer(box, c, e), m, v)
  <1>1. /\ Append(box[c], e) \in Seq(Message)
        /\ \A i \in DOMAIN Append(box[c], e) : MessageOk(Append(box[c], e)[i], m, v)
    BY AppendedOk DEF DownOk
  <1>2. CASE served[c] # "open"
    BY <1>2 DEF Answer
  <1>3. CASE served[c] = "open"
    <2>1. PICK q : q = Append(box[c], e)
      OBVIOUS
    <2>2. PICK b : b = [box EXCEPT ![c] = q]
      OBVIOUS
    <2>3. Answer(box, c, e) = b
      BY <1>3, <2>1, <2>2 DEF Answer
    <2>4. b \in [Conns -> Seq(Message)]
      BY <1>1, <2>1, <2>2 DEF DownOk
    <2>5. ASSUME NEW d \in Conns, NEW i \in DOMAIN b[d] PROVE MessageOk(b[d][i], m, v)
      <3>1. b[d] = IF d = c THEN q ELSE box[d]
        BY <2>2 DEF DownOk
      <3>2. CASE d = c
        BY <1>1, <2>1, <2>5, <3>1, <3>2
      <3>3. CASE d # c
        BY <2>5, <3>1, <3>3 DEF DownOk
      <3>q. QED BY <3>2, <3>3
    <2>q. QED BY <2>3, <2>4, <2>5 DEF DownOk
  <1>q. QED BY <1>2, <1>3

\* The first request is of its type, and so is what is left without it.
LEMMA ServedUp ==
  ASSUME NEW n, NEW m, NEW c \in Conns, up \in [Conns -> Seq(Request)], up[c] # <<>>,
         \A b \in Conns : \A i \in DOMAIN up[b] : RequestOk(up[b][i], m, n),
         up' = [up EXCEPT ![c] = Tail(@)]
  PROVE  /\ Head(up[c]) \in Request /\ RequestOk(Head(up[c]), m, n)
         /\ up' \in [Conns -> Seq(Request)]
         /\ \A b \in Conns : \A i \in DOMAIN up'[b] : RequestOk(up'[b][i], m, n)
  <1>1. PICK q : q = Tail(up[c])
    OBVIOUS
  <1>2. /\ q \in Seq(Request) /\ Head(up[c]) \in Request /\ Head(up[c]) = up[c][1]
        /\ Len(up[c]) \in Nat /\ Len(up[c]) >= 1
        /\ \A i \in 1..(Len(up[c]) - 1) : q[i] = up[c][i + 1]
        /\ DOMAIN up[c] = 1..Len(up[c]) /\ DOMAIN q = 1..(Len(up[c]) - 1)
    BY <1>1, Popped
  <1>3. RequestOk(Head(up[c]), m, n)
    <2>1. 1 \in DOMAIN up[c]
      BY <1>2
    <2>q. QED BY <1>2, <2>1
  <1>4. up' = [up EXCEPT ![c] = q] /\ up' \in [Conns -> Seq(Request)]
    BY <1>1, <1>2
  <1>5. ASSUME NEW b \in Conns, NEW i \in DOMAIN up'[b] PROVE RequestOk(up'[b][i], m, n)
    <2>1. CASE b = c
      <3>1. up'[b] = q
        BY <1>4, <2>1
      <3>2. i + 1 \in DOMAIN up[c] /\ q[i] = up[c][i + 1]
        BY <1>2, <1>5, <3>1
      <3>q. QED BY <3>1, <3>2
    <2>2. CASE b # c
      BY <1>4, <1>5, <2>2
    <2>q. QED BY <2>1, <2>2
  <1>q. QED BY <1>2, <1>3, <1>4, <1>5

-----------------------------------------------------------------------------
(* Every step keeps the types. *)

\* The bounds of the model are numbers.
LEMMA BoundsAreNaturals == MaxSeats \in Nat /\ MaxVersion \in Nat /\ MaxIntents \in Nat
  BY PhoneAssumption

\* So are the counts the invariant bounds, and its parts can be cited.
LEMMA CountsAreNaturals ==
  ASSUME TypeInv
  PROVE  /\ minted \in Nat /\ version \in Nat /\ intents \in Nat /\ announced \in Nat
         /\ stored \in 0..minted /\ stored \in Nat
         /\ DownOk(down, minted, version) /\ WinUp(intents)
         /\ served \in [Conns -> {"unused", "open", "closing", "closed"}]
         /\ win \in [Windows -> Window] /\ SeatType /\ LogType
  BY BoundsAreNaturals DEF TypeInv, WinType, NetType, SeatType, LogType, WinUp, DownOk

\* Where the server's counts stand still, and it is a window that moves.
LEMMA WindowMovedTypes ==
  ASSUME TypeInv, NEW n, WinUp(n)', intents' = n, intents' \in 0..MaxIntents, intents <= n,
         stored' \in 0..minted, DownOk(down', minted, version),
         served' \in [Conns -> {"unused", "open", "closing", "closed"}],
         seatVars' = seatVars, logVars' = logVars, lost' = lost
  PROVE  TypeInv'
  <1>1. WinUp(intents)'
    BY DEF WinUp
  <1>2. SeatType' /\ minted' = minted /\ version' = version
    BY CountsAreNaturals DEF SeatType, seatVars, logVars
  <1>3. LogType'
    <2>1. /\ version' = version /\ announced' = announced /\ seen' = seen /\ applied' = applied
      BY DEF logVars
    <2>2. LogType /\ intents \in Nat /\ n \in Nat
      BY CountsAreNaturals, BoundsAreNaturals
    <2>3. seen \subseteq 1..intents'
      <3>1. \A i \in 1..intents : i \in 1..n
        BY <2>2
      <3>q. QED BY <2>2, <3>1 DEF LogType
    <2>q. QED BY <2>1, <2>2, <2>3 DEF LogType
  <1>4. DownOk(down, minted, version)'
    BY <1>2 DEF DownOk
  <1>q. QED BY <1>1, <1>2, <1>3, <1>4 DEF TypeInv, WinType, NetType, WinUp, DownOk

\* What the invariant says of one window.
LEMMA WindowFacts ==
  ASSUME PhInv, NEW w \in Windows
  PROVE  /\ win[w] \in Window /\ win[w].identity \in 0..minted /\ win[w].view \in 0..version
         /\ win[w].asked \in Seq(Pending) /\ win[w].socket \in Conns \cup {None}
         /\ win[w].open => win[w].socket \in Conns /\ Ok(w)
         /\ None \notin Conns /\ minted \in Nat /\ version \in Nat /\ intents \in 0..MaxIntents
         /\ intents \in Nat /\ TypeInv /\ WinUp(intents) /\ win \in [Windows -> Window]
  <1>1. /\ TypeInv /\ WinUp(intents) /\ minted \in Nat /\ version \in Nat /\ intents \in Nat
        /\ win \in [Windows -> Window]
    BY CountsAreNaturals DEF PhInv
  <1>2. win[w] \in Window /\ win[w].identity \in 0..minted /\ win[w].view \in 0..version
    BY <1>1 DEF WinUp
  <1>3. win[w].asked \in Seq(Pending) /\ win[w].socket \in Conns \cup {None}
    BY <1>2 DEF Window
  <1>4. win[w].open => win[w].socket # None /\ Ok(w)
    BY DEF PhInv, WindowInv, OpenInv
  <1>5. None \notin Conns
    BY PhoneAssumption
  <1>6. intents \in 0..MaxIntents
    BY <1>1 DEF TypeInv, LogType
  <1>q. QED BY <1>1, <1>2, <1>3, <1>4, <1>5, <1>6

\* Types: opening the page.
LEMMA LoadTypes ==
  ASSUME PhInv, NEW w \in Windows, NEW c \in Conns, Load(w, c)
  PROVE  TypeInv'
  <1>1. PICK n : n = intents
    OBVIOUS
  <1>2. PICK x : x = Loaded(c)
    OBVIOUS
  <1>3. /\ win' = [win EXCEPT ![w] = x] /\ up' = up
        /\ stored' = stored /\ down' = down /\ served' = served /\ seatVars' = seatVars
        /\ logVars' = logVars /\ intents' = intents /\ lost' = lost
        /\ minted' = minted /\ version' = version
    BY <1>2 DEF Load, Loaded, netVars, seatVars, logVars
  <1>4. x \in Window /\ x.identity = 0 /\ x.view = 0
    BY <1>2, LoadedIs
  <1>5. WinUp(n)'
    <2>1. SendsNothing(w, x)
      BY <1>3 DEF SendsNothing
    <2>q. QED BY <1>1, <1>3, <1>4, <2>1, WindowFacts, SendsNothingKeepsTypes
  <1>q. QED BY <1>1, <1>3, <1>5, WindowFacts, WindowMovedTypes, CountsAreNaturals

\* Types: trying again.
LEMMA RetryTypes ==
  ASSUME PhInv, NEW w \in Windows, NEW c \in Conns, Retry(w, c)
  PROVE  TypeInv'
  <1>1. PICK n : n = intents
    OBVIOUS
  <1>2. PICK x : x = Retried(win[w], c)
    OBVIOUS
  <1>3. /\ SendsNothing(w, x)
        /\ stored' = stored /\ down' = down /\ served' = served /\ seatVars' = seatVars
        /\ logVars' = logVars /\ intents' = intents /\ lost' = lost
        /\ minted' = minted /\ version' = version
    BY <1>2 DEF Retry, Retried, seatVars, logVars
  <1>4. x \in Window /\ x.identity = win[w].identity /\ x.view = win[w].view
    BY <1>2, RetriedIs, WindowFacts
  <1>5. WinUp(n)'
    BY <1>1, <1>3, <1>4, WindowFacts, SendsNothingKeepsTypes
  <1>q. QED BY <1>1, <1>3, <1>5, WindowFacts, WindowMovedTypes, CountsAreNaturals

\* Types: a connection made.
LEMMA ConnectedTypes ==
  ASSUME PhInv, NEW w \in Windows, Connected(w)
  PROVE  TypeInv'
  <1>1. PICK n : n = intents
    OBVIOUS
  <1>2. PICK m : m = ToResume(win[w])
    OBVIOUS
  <1>3. PICK x : x = Opened(win[w], m)
    OBVIOUS
  <1>4. PICK c : c = win[w].socket
    OBVIOUS
  <1>5. /\ IF m = 0 THEN SendsNothing(w, x) ELSE Sends(w, x, "resume", m)
        /\ served' = [served EXCEPT ![c] = "open"]
        /\ stored' = stored /\ down' = down /\ seatVars' = seatVars
        /\ logVars' = logVars /\ intents' = intents /\ lost' = lost
        /\ minted' = minted /\ version' = version
    BY <1>2, <1>3, <1>4 DEF Connected, Opened, seatVars, logVars
  <1>6. m \in 0..minted /\ m \in Nat
    BY <1>2, WindowFacts, CountsAreNaturals DEF ToResume
  <1>7. /\ x \in Window /\ x.identity = m /\ x.view = win[w].view /\ x.socket = c
    BY <1>3, <1>4, <1>6, OpenedIs, WindowFacts
  <1>8. c \in Conns
    BY <1>4, WindowFacts DEF Connected
  <1>9. WinUp(n)'
    <2>1. CASE m = 0
      BY <1>1, <1>5, <1>6, <1>7, <2>1, WindowFacts, SendsNothingKeepsTypes
    <2>2. CASE m # 0
      <3>1. RequestOk([kind |-> "resume", arg |-> m], minted, n)
        BY <1>6 DEF RequestOk
      <3>2. Sends(w, x, "resume", m) /\ "resume" \in Kinds
        BY <1>5, <2>2 DEF Kinds
      <3>3. x.view \in 0..version /\ x.identity \in 0..minted /\ x.socket \in Conns /\ WinUp(n)
        BY <1>1, <1>6, <1>7, <1>8, WindowFacts
      <3>q. QED BY <1>5, <1>6, <1>7, <3>1, <3>2, <3>3, SendsKeepsTypes
    <2>q. QED BY <2>1, <2>2
  <1>10. served' \in [Conns -> {"unused", "open", "closing", "closed"}]
    BY <1>5, <1>8, WindowFacts, CountsAreNaturals
  <1>q. QED BY <1>1, <1>5, <1>9, <1>10, WindowFacts, WindowMovedTypes, CountsAreNaturals

\* Types: a connection refused.
LEMMA ConnectFailsTypes ==
  ASSUME PhInv, NEW w \in Windows, ConnectFails(w)
  PROVE  TypeInv'
  <1>1. PICK n : n = intents
    OBVIOUS
  <1>2. PICK x : x = SocketGone(win[w])
    OBVIOUS
  <1>3. /\ SendsNothing(w, x)
        /\ stored' = stored /\ down' = down /\ served' = served /\ seatVars' = seatVars
        /\ logVars' = logVars /\ intents' = intents /\ lost' = lost
        /\ minted' = minted /\ version' = version
    BY <1>2 DEF ConnectFails, seatVars, logVars
  <1>4. x \in Window /\ x.identity = win[w].identity /\ x.view = win[w].view
    BY <1>2, GoneIs, WindowFacts
  <1>5. WinUp(n)'
    BY <1>1, <1>3, <1>4, WindowFacts, SendsNothingKeepsTypes
  <1>q. QED BY <1>1, <1>3, <1>5, WindowFacts, WindowMovedTypes, CountsAreNaturals

\* What a window is once its socket broke: it may have forgotten who it was, and
\* be done with the page.
Broken(x, y) ==
    /\ y \in Window /\ y.socket = None /\ y.open = FALSE /\ y.asked = <<>>
    /\ y.retrying = ~x.byUs /\ y.byUs = x.byUs /\ y.told = x.told
    /\ y.page \in {x.page, "evicted"} /\ y.identity \in {x.identity, 0} /\ y.view = x.view

\* Whatever was asked on it, a connection that drops leaves a broken window.
LEMMA DropsAs ==
  ASSUME NEW w \in Windows, win[w] \in Window, Drops(w)
  PROVE  /\ \E y : Broken(win[w], y) /\ SendsNothing(w, y)
         /\ stored' \in {stored, 0}
         /\ down' = [down EXCEPT ![win[w].socket] = <<>>]
         /\ served' = served /\ seatVars' = seatVars
         /\ logVars' = logVars /\ intents' = intents /\ lost' = lost
         /\ minted' = minted /\ version' = version
  <1>1. PICK x : x = SocketGone(win[w])
    OBVIOUS
  <1>2. Broken(win[w], x) /\ x \in Window
    BY <1>1, GoneIs DEF Broken
  <1>3. PICK y : y = IF "resume" \in WantedOf(win[w]) THEN Forgotten(x) ELSE x
    OBVIOUS
  <1>4. Broken(win[w], y) /\ y \in Window
    <2>1. /\ KnownAs(x, 0) \in Window /\ SameSocket(x, KnownAs(x, 0))
          /\ KnownAs(x, 0).byUs = x.byUs /\ KnownAs(x, 0).told = x.told
          /\ KnownAs(x, 0).page = x.page /\ KnownAs(x, 0).view = x.view
          /\ KnownAs(x, 0).identity = 0
      BY <1>2, KnownAsIs
    <2>2. Broken(win[w], KnownAs(x, 0))
      BY <1>2, <2>1 DEF Broken, SameSocket
    <2>3. y = x \/ y = KnownAs(x, 0)
      BY <1>2, <1>3, ForgottenIs
    <2>q. QED BY <1>2, <2>1, <2>2, <2>3
  <1>5. PICK z : z = IF "leave" \in WantedOf(win[w]) THEN Evicted(y) ELSE y
    OBVIOUS
  <1>6. Broken(win[w], z)
    <2>1. /\ Evicted(y) \in Window /\ SameSocket(y, Evicted(y))
          /\ Evicted(y).byUs = y.byUs /\ Evicted(y).told = y.told
          /\ Evicted(y).page = "evicted" /\ Evicted(y).view = y.view
          /\ Evicted(y).identity = y.identity
      BY <1>4, EvictedIs
    <2>2. Broken(win[w], Evicted(y))
      BY <1>4, <2>1 DEF Broken, SameSocket
    <2>3. z = y \/ z = Evicted(y)
      BY <1>5
    <2>q. QED BY <1>4, <2>2, <2>3
  <1>7. SendsNothing(w, z)
    BY <1>1, <1>3, <1>5 DEF Drops
  <1>8. /\ stored' \in {stored, 0}
        /\ down' = [down EXCEPT ![win[w].socket] = <<>>]
        /\ served' = served /\ seatVars' = seatVars
        /\ logVars' = logVars /\ intents' = intents /\ lost' = lost
        /\ minted' = minted /\ version' = version
    BY DEF Drops, seatVars, logVars
  <1>q. QED BY <1>6, <1>7, <1>8

\* Types: a connection dropped.
LEMMA DropsTypes ==
  ASSUME PhInv, NEW w \in Windows, Drops(w)
  PROVE  TypeInv'
  <1>1. PICK n : n = intents
    OBVIOUS
  <1>2. /\ \E y : Broken(win[w], y) /\ SendsNothing(w, y)
        /\ stored' \in {stored, 0}
        /\ down' = [down EXCEPT ![win[w].socket] = <<>>]
        /\ served' = served /\ seatVars' = seatVars
        /\ logVars' = logVars /\ intents' = intents /\ lost' = lost
        /\ minted' = minted /\ version' = version
    BY WindowFacts, DropsAs
  <1>3. PICK y : Broken(win[w], y) /\ SendsNothing(w, y)
    BY <1>2
  <1>4. y \in Window /\ y.identity \in 0..minted /\ y.view \in 0..version
    BY <1>3, WindowFacts DEF Broken
  <1>5. WinUp(n)'
    BY <1>1, <1>2, <1>3, <1>4, WindowFacts, SendsNothingKeepsTypes
  <1>6. DownOk(down', minted, version)
    <2>1. down \in [Conns -> Seq(Message)] /\ DownOk(down, minted, version)
      BY WindowFacts, CountsAreNaturals DEF DownOk
    <2>2. <<>> \in Seq(Message) /\ DOMAIN <<>> = {}
      OBVIOUS
    <2>3. PICK e : e = <<>>
      OBVIOUS
    <2>4. e \in Seq(Message) /\ DOMAIN e = {}
      BY <2>2, <2>3
    <2>5. down' = [down EXCEPT ![win[w].socket] = e]
      BY <1>2, <2>3
    <2>q. QED BY <2>1, <2>4, <2>5 DEF DownOk
  <1>7. stored' \in 0..minted
    BY <1>2, WindowFacts, CountsAreNaturals
  <1>8. /\ served' \in [Conns -> {"unused", "open", "closing", "closed"}]
        /\ seatVars' = seatVars /\ logVars' = logVars /\ lost' = lost
        /\ intents' = n /\ intents' \in 0..MaxIntents /\ intents <= n /\ TypeInv
    BY <1>1, <1>2, WindowFacts, CountsAreNaturals
  <1>q. QED BY <1>5, <1>6, <1>7, <1>8, WindowMovedTypes

\* A request of the player's: the window is open and the request goes out.
LEMMA SendTypes ==
  ASSUME PhInv, NEW w \in Windows, win[w].open, NEW n, intents' = n, intents <= n,
         n \in 0..MaxIntents, NEW kind \in Kinds, NEW arg \in Nat, Sends(w, win[w], kind, arg),
         RequestOk([kind |-> kind, arg |-> arg], minted, n), stored' = stored, down' = down,
         served' = served, seatVars' = seatVars, logVars' = logVars, lost' = lost
  PROVE  TypeInv'
  <1>1. minted' = minted /\ version' = version
    BY DEF seatVars, logVars
  <1>2. WinUp(n)
    <2>1. \A r : RequestOk(r, minted, intents) => RequestOk(r, minted, n)
      BY WindowFacts DEF RequestOk
    <2>q. QED BY <2>1, WindowFacts DEF WinUp
  <1>3. WinUp(n)'
    BY <1>1, <1>2, WindowFacts, SendsKeepsTypes
  <1>q. QED BY <1>1, <1>3, WindowFacts, WindowMovedTypes, CountsAreNaturals

\* Types: asking for a seat.
LEMMA JoinTypes ==
  ASSUME PhInv, NEW w \in Windows, Join(w)
  PROVE  TypeInv'
  <1>1. PICK n : n = intents
    OBVIOUS
  <1>2. /\ win[w].open /\ Sends(w, win[w], "join", 0) /\ intents' = n
        /\ stored' = stored /\ down' = down /\ served' = served /\ seatVars' = seatVars
        /\ logVars' = logVars /\ lost' = lost
    BY <1>1 DEF Join, AtRest
  <1>3. RequestOk([kind |-> "join", arg |-> 0], minted, n) /\ "join" \in Kinds
    BY DEF RequestOk, Kinds
  <1>4. n \in 0..MaxIntents /\ intents <= n
    BY <1>1, WindowFacts
  <1>q. QED BY <1>2, <1>3, <1>4, SendTypes

\* Types: a tap.
LEMMA TapTypes ==
  ASSUME PhInv, NEW w \in Windows, Tap(w)
  PROVE  TypeInv'
  <1>1. PICK n : n = intents + 1
    OBVIOUS
  <1>2. /\ win[w].open /\ Sends(w, win[w], "act", n) /\ intents' = n /\ intents < MaxIntents
        /\ stored' = stored /\ down' = down /\ served' = served /\ seatVars' = seatVars
        /\ logVars' = logVars /\ lost' = lost
    BY <1>1 DEF Tap, AtRest
  <1>4. n \in 0..MaxIntents /\ intents <= n /\ n \in Nat /\ n \in 1..n
    BY <1>1, <1>2, WindowFacts, BoundsAreNaturals
  <1>3. RequestOk([kind |-> "act", arg |-> n], minted, n) /\ "act" \in Kinds
    BY <1>4 DEF RequestOk, Kinds
  <1>q. QED BY <1>2, <1>3, <1>4, SendTypes

\* Types: an intent sent again.
LEMMA SendAgainTypes ==
  ASSUME PhInv, NEW w \in Windows, NEW i \in 1..MaxIntents, SendAgain(w, i)
  PROVE  TypeInv'
  <1>1. PICK n : n = intents
    OBVIOUS
  <1>2. /\ win[w].open /\ Sends(w, win[w], "act", i) /\ intents' = n /\ i <= n
        /\ stored' = stored /\ down' = down /\ served' = served /\ seatVars' = seatVars
        /\ logVars' = logVars /\ lost' = lost
    BY <1>1 DEF SendAgain, AtRest
  <1>4. n \in 0..MaxIntents /\ intents <= n /\ i \in Nat /\ i \in 1..n
    BY <1>1, <1>2, WindowFacts, BoundsAreNaturals
  <1>3. RequestOk([kind |-> "act", arg |-> i], minted, n) /\ "act" \in Kinds
    BY <1>4 DEF RequestOk, Kinds
  <1>q. QED BY <1>2, <1>3, <1>4, SendTypes

\* Types: leaving.
LEMMA LeaveTypes ==
  ASSUME PhInv, NEW w \in Windows, Leave(w)
  PROVE  TypeInv'
  <1>1. PICK n : n = intents
    OBVIOUS
  <1>2. /\ intents' = n
        /\ down' = down /\ served' = served /\ seatVars' = seatVars
        /\ logVars' = logVars /\ lost' = lost /\ minted' = minted /\ version' = version
    BY <1>1 DEF Leave, seatVars, logVars
  <1>3. n \in 0..MaxIntents /\ intents <= n
    BY <1>1, WindowFacts
  <1>4. CASE win[w].open
    <2>1. Sends(w, win[w], "leave", 0) /\ stored' = stored
      BY <1>4 DEF Leave
    <2>2. RequestOk([kind |-> "leave", arg |-> 0], minted, n) /\ "leave" \in Kinds
      BY DEF RequestOk, Kinds
    <2>q. QED BY <1>2, <1>3, <1>4, <2>1, <2>2, SendTypes
  <1>5. CASE ~win[w].open
    <2>1. PICK x : x = Evicted(win[w])
      OBVIOUS
    <2>2. SendsNothing(w, x) /\ stored' = 0
      BY <1>5, <2>1 DEF Leave
    <2>3. x \in Window /\ x.identity = win[w].identity /\ x.view = win[w].view
      BY <2>1, EvictedIs, WindowFacts
    <2>4. WinUp(n)'
      BY <1>1, <1>2, <2>2, <2>3, WindowFacts, SendsNothingKeepsTypes
    <2>5. stored' \in 0..minted
      BY <2>2, WindowFacts
    <2>q. QED BY <1>2, <1>3, <2>4, <2>5, WindowFacts, WindowMovedTypes, CountsAreNaturals
  <1>q. QED BY <1>4, <1>5

\* An answer, or the want of one, to a window x that is on a socket.
LEMMA AnsweredTypes ==
  ASSUME PhInv, NEW w \in Windows, NEW x \in Window, x.socket \in Conns,
         x.identity \in 0..minted, x.view \in 0..version, NEW e, AckOk(e), Answered(w, x, e),
         NEW n, n = intents, intents' = intents, minted' = minted, version' = version
  PROVE  WinUp(n)' /\ stored' \in 0..minted
  <1>1. /\ \E y : \E reads \in BOOLEAN : Becomes(w, x, e, y, reads)
        /\ stored' \in {stored, 0} \/ (stored' = e.arg /\ e.kind = "join" /\ e.ok)
    BY WindowFacts, AnsweredAs
  <1>2. PICK y, reads : reads \in BOOLEAN /\ Becomes(w, x, e, y, reads)
    BY <1>1
  <1>3. /\ y \in Window /\ y.socket \in Conns
        /\ y.identity \in 0..minted /\ y.view \in 0..version
    BY <1>2 DEF Becomes, SameSocket
  <1>4. CASE reads
    <2>1. Sends(w, y, "read", 0)
      BY <1>2, <1>4 DEF Becomes
    <2>2. RequestOk([kind |-> "read", arg |-> 0], minted, n) /\ "read" \in Kinds
      BY DEF RequestOk, Kinds
    <2>3. WinUp(n)
      BY WindowFacts
    <2>4. WinUp(n)'
      BY <1>3, <2>1, <2>2, <2>3, SendsKeepsTypes
    <2>q. QED BY <1>1, <2>4, WindowFacts, CountsAreNaturals DEF AckOk
  <1>5. CASE ~reads
    <2>1. SendsNothing(w, y)
      BY <1>2, <1>5 DEF Becomes
    <2>2. WinUp(n)
      BY WindowFacts
    <2>3. WinUp(n)'
      BY <1>3, <2>1, <2>2, SendsNothingKeepsTypes
    <2>q. QED BY <1>1, <2>3, WindowFacts, CountsAreNaturals DEF AckOk
  <1>q. QED BY <1>4, <1>5

\* Types: giving up on an answer.
LEMMA GivesUpTypes ==
  ASSUME PhInv, NEW w \in Windows, GivesUp(w)
  PROVE  TypeInv'
  <1>1. PICK n : n = intents
    OBVIOUS
  <1>2. PICK i \in DOMAIN win[w].asked :
          Answered(w, TooLate(win[w], i), Ack(win[w].asked[i].kind, FALSE, 0))
    BY DEF GivesUp, TooLate
  <1>3. PICK x : x = TooLate(win[w], i)
    OBVIOUS
  <1>4. PICK e : e = Ack(win[w].asked[i].kind, FALSE, 0)
    OBVIOUS
  <1>5. /\ x \in Window /\ x.socket \in Conns /\ x.identity \in 0..minted
        /\ x.view \in 0..version
    BY <1>3, TooLateIs, WindowFacts DEF Alike, GivesUp
  <1>6. AckOk(e)
    <2>1. win[w].asked[i] \in Pending
      BY WindowFacts
    <2>2. win[w].asked[i].kind \in Kinds
      BY <2>1 DEF Pending
    <2>3. e.kind \in Kinds /\ e.ok = FALSE
      BY <1>4, <2>2 DEF Ack
    <2>q. QED BY <2>3 DEF AckOk
  <1>7. /\ intents' = intents
        /\ down' = down /\ served' = served /\ seatVars' = seatVars
        /\ logVars' = logVars /\ lost' = lost /\ minted' = minted /\ version' = version
    BY DEF GivesUp, seatVars, logVars
  <1>8. WinUp(n)' /\ stored' \in 0..minted
    BY <1>1, <1>2, <1>3, <1>4, <1>5, <1>6, <1>7, AnsweredTypes
  <1>q. QED BY <1>1, <1>7, <1>8, WindowFacts, WindowMovedTypes, CountsAreNaturals

\* The first message coming down to an open window, and what is left without it.
LEMMA MessageFacts ==
  ASSUME PhInv, NEW w \in Windows, win[w].open, NEW c, c = win[w].socket, down[c] # <<>>,
         down' = [down EXCEPT ![c] = Tail(@)]
  PROVE  /\ c \in Conns /\ down[c] \in Seq(Message) /\ Head(down[c]) = down[c][1]
         /\ Head(down[c]) \in Message /\ MessageOk(Head(down[c]), minted, version)
         /\ Head(down[c]).is = "ack" => AckOk(Head(down[c]))
         /\ Head(down[c]).is = "ack" => win[w].asked # <<>>
         /\ DownOk(down', minted, version)
  <1>1. c \in Conns /\ Ok(w)
    BY WindowFacts
  <1>2. DownOk(down, minted, version) /\ up \in [Conns -> Seq(Request)]
    BY WindowFacts, CountsAreNaturals DEF WinUp
  <1>3. down[c] \in Seq(Message) /\ up[c] \in Seq(Request)
    BY <1>1, <1>2 DEF DownOk
  <1>4. PICK q : q = Tail(down[c])
    OBVIOUS
  <1>5. /\ q \in Seq(Message) /\ Head(down[c]) \in Message /\ Head(down[c]) = down[c][1]
        /\ Len(down[c]) \in Nat /\ Len(down[c]) >= 1
        /\ \A i \in 1..(Len(down[c]) - 1) : q[i] = down[c][i + 1]
        /\ DOMAIN down[c] = 1..Len(down[c]) /\ DOMAIN q = 1..(Len(down[c]) - 1)
    BY <1>3, <1>4, Popped
  <1>6. MessageOk(Head(down[c]), minted, version)
    <2>1. 1 \in DOMAIN down[c]
      BY <1>5
    <2>q. QED BY <1>1, <1>2, <1>5, <2>1 DEF DownOk
  <1>7. Head(down[c]).is = "ack" => AckOk(Head(down[c]))
    BY <1>5, <1>6 DEF MessageOk, AckOk, Message
  <1>8. Head(down[c]).is = "ack" => win[w].asked # <<>>
    <2>1. PICK p, n : Lined(win[w].asked, down[c], up[c], p, n)
      BY <1>1 DEF Ok, WindowOk, Steady, InLine, LineHolds
    <2>q. QED BY <1>3, <1>5, <2>1, WindowFacts, LineTake
  <1>9. down' = [down EXCEPT ![c] = q] /\ down' \in [Conns -> Seq(Message)]
    BY <1>2, <1>4, <1>5 DEF DownOk
  <1>10. ASSUME NEW b \in Conns, NEW i \in DOMAIN down'[b]
         PROVE  MessageOk(down'[b][i], minted, version)
    <2>1. CASE b = c
      <3>1. down'[b] = q
        BY <1>2, <1>9, <2>1 DEF DownOk
      <3>2. i + 1 \in DOMAIN down[c] /\ q[i] = down[c][i + 1]
        BY <1>5, <1>10, <3>1
      <3>q. QED BY <1>1, <1>2, <3>1, <3>2 DEF DownOk
    <2>2. CASE b # c
      BY <1>2, <1>9, <1>10, <2>2 DEF DownOk
    <2>q. QED BY <2>1, <2>2
  <1>11. DownOk(down', minted, version)
    BY <1>9, <1>10 DEF DownOk
  <1>q. QED BY <1>1, <1>3, <1>5, <1>6, <1>7, <1>8, <1>11

\* Types: a message received.
LEMMA ReceiveTypes ==
  ASSUME PhInv, NEW w \in Windows, Receive(w)
  PROVE  TypeInv'
  <1>1. PICK n : n = intents
    OBVIOUS
  <1>2. PICK c : c = win[w].socket
    OBVIOUS
  <1>3. PICK m : m = Head(down[c])
    OBVIOUS
  <1>4. PICK x : x = win[w]
    OBVIOUS
  <1>5. /\ x.open /\ down[c] # <<>> /\ down' = [down EXCEPT ![c] = Tail(@)]
        /\ intents' = intents /\ served' = served /\ seatVars' = seatVars
        /\ logVars' = logVars /\ lost' = lost /\ minted' = minted /\ version' = version
    BY <1>2, <1>4 DEF Receive, seatVars, logVars
  <1>6. /\ c \in Conns /\ m \in Message
        /\ m.is = "ack" => AckOk(m) /\ x.asked # <<>>
        /\ DownOk(down', minted, version)
    BY <1>2, <1>3, <1>4, <1>5, MessageFacts
  <1>7. /\ x \in Window /\ x.identity \in 0..minted /\ x.view \in 0..version /\ WinUp(n)
        /\ x.socket = c
    BY <1>1, <1>2, <1>4, WindowFacts
  <1>8. \/ /\ m.is = "ack"
           /\ IF Head(x.asked).wanted THEN Answered(w, Rest(x), m)
              ELSE SendsNothing(w, Rest(x)) /\ stored' = stored
        \/ /\ m.is \in Families
           /\ IF ListenedTo(m.is) THEN Sends(w, x, "read", 0) ELSE SendsNothing(w, x)
           /\ stored' = stored
        \/ /\ m.is \in {"superseded", "removed"}
           /\ SendsNothing(w, SentAway(x)) /\ stored' \in {stored, 0}
    BY <1>2, <1>3, <1>4 DEF Receive, Rest
  <1>9. WinUp(n)' /\ stored' \in 0..minted
    <2>0. stored \in 0..minted
      BY WindowFacts, CountsAreNaturals
    <2>1. CASE m.is = "ack" /\ Head(x.asked).wanted
      <3>1. Answered(w, Rest(x), m) /\ AckOk(m)
        BY <1>6, <1>8, <2>1 DEF Families
      <3>2. /\ Rest(x) \in Window /\ Rest(x).socket \in Conns
            /\ Rest(x).identity \in 0..minted /\ Rest(x).view \in 0..version
        BY <1>6, <1>7, <2>1, RestIs DEF Alike
      <3>q. QED BY <1>1, <1>5, <3>1, <3>2, AnsweredTypes
    <2>2. CASE m.is = "ack" /\ ~Head(x.asked).wanted
      <3>1. SendsNothing(w, Rest(x)) /\ stored' = stored
        BY <1>8, <2>2 DEF Families
      <3>2. /\ Rest(x) \in Window
            /\ Rest(x).identity \in 0..minted /\ Rest(x).view \in 0..version
        BY <1>6, <1>7, <2>2, RestIs DEF Alike
      <3>q. QED BY <1>5, <1>7, <2>0, <3>1, <3>2, SendsNothingKeepsTypes
    <2>3. CASE m.is \in Families
      <3>1. /\ IF ListenedTo(m.is) THEN Sends(w, x, "read", 0) ELSE SendsNothing(w, x)
            /\ stored' = stored
        BY <1>8, <2>3 DEF Families
      <3>2. CASE ListenedTo(m.is)
        <4>1. RequestOk([kind |-> "read", arg |-> 0], minted, n) /\ "read" \in Kinds
          BY DEF RequestOk, Kinds
        <4>2. Sends(w, x, "read", 0) /\ x.socket \in Conns
          BY <1>6, <1>7, <3>1, <3>2
        <4>q. QED BY <1>5, <1>7, <2>0, <3>1, <4>1, <4>2, SendsKeepsTypes
      <3>3. CASE ~ListenedTo(m.is)
        BY <1>5, <1>7, <2>0, <3>1, <3>3, SendsNothingKeepsTypes
      <3>q. QED BY <3>2, <3>3
    <2>4. CASE m.is \in {"superseded", "removed"}
      <3>1. SendsNothing(w, SentAway(x)) /\ stored' \in {stored, 0}
        BY <1>8, <2>4 DEF Families
      <3>2. /\ SentAway(x) \in Window /\ SentAway(x).identity = x.identity
            /\ SentAway(x).view = x.view
        BY <1>7, SentAwayIs
      <3>3. WinUp(n)'
        BY <1>5, <1>7, <3>1, <3>2, SendsNothingKeepsTypes
      <3>q. QED BY <2>0, <3>1, <3>3, WindowFacts
    <2>q. QED BY <1>8, <2>1, <2>2, <2>3, <2>4
  <1>10. /\ served' \in [Conns -> {"unused", "open", "closing", "closed"}]
         /\ seatVars' = seatVars /\ logVars' = logVars /\ lost' = lost
         /\ intents' = n /\ intents' \in 0..MaxIntents /\ intents <= n /\ TypeInv
         /\ DownOk(down', minted, version)
    BY <1>1, <1>5, <1>6, WindowFacts, CountsAreNaturals
  <1>q. QED BY <1>9, <1>10, WindowMovedTypes

\* Where it is the server that moves.
LEMMA ServerMovedTypes ==
  ASSUME TypeInv, win' = win, stored' = stored, intents' = intents,
         up' \in [Conns -> Seq(Request)],
         \A c \in Conns : \A i \in DOMAIN up'[c] : RequestOk(up'[c][i], minted, intents),
         minted' \in Nat, minted <= minted', version' \in Nat, version <= version',
         DownOk(down', minted', version'),
         served' \in [Conns -> {"unused", "open", "closing", "closed"}], SeatType', LogType'
  PROVE  TypeInv'
  <1>1. \A r : RequestOk(r, minted, intents) => RequestOk(r, minted', intents')
    BY CountsAreNaturals DEF RequestOk
  <1>2. WinType'
    BY CountsAreNaturals DEF TypeInv, WinType
  <1>3. NetType'
    BY <1>1 DEF NetType, DownOk
  <1>q. QED BY <1>2, <1>3 DEF TypeInv

\* What the types say of the seats.
LEMMA SeatFacts ==
  ASSUME TypeInv
  PROVE  /\ bound \subseteq Conns /\ speaks \in [Conns -> 0..minted]
         /\ seats \in [DOMAIN seats -> Conns \cup {None}] /\ DOMAIN seats \subseteq 1..minted
         /\ minted \in 0..MaxSeats /\ minted \in Nat
         /\ \A n \in DOMAIN seats : n \in 1..minted /\ n \in Nat /\ n # 0
  BY BoundsAreNaturals DEF TypeInv, SeatType

\* The log keeps its types where it stands still.
LEMMA LogUnchanged ==
  ASSUME TypeInv, logVars' = logVars, intents' = intents, lost' = lost
  PROVE  LogType' /\ version' = version
  BY DEF TypeInv, LogType, logVars

\* One event more, of whichever family.
LEMMA PublishedTypes ==
  ASSUME TypeInv, NEW family \in Families, Publishes(family)
  PROVE  /\ version' = version + 1 /\ version' \in 0..MaxVersion /\ version' \in Nat
         /\ version <= version' /\ announced' \in 0..version'
         /\ announced' = IF family = "GAME" THEN version' ELSE announced
  BY BoundsAreNaturals DEF TypeInv, LogType, Publishes, ListenedTo, Families

\* Types: a request refused.
LEMMA RefusesTypes ==
  ASSUME TypeInv, NEW c \in Conns, NEW r \in Request, Refuses(c, r),
         bound' \in {bound, bound \cup {c}}, intents' = intents, lost' = lost
  PROVE  /\ SeatType' /\ LogType' /\ minted' = minted /\ version' = version
         /\ DownOk(down', minted, version)
  <1>1. LogType' /\ version' = version
    BY LogUnchanged DEF Refuses
  <1>2. SeatType' /\ minted' = minted
    BY SeatFacts DEF SeatType, Refuses
  <1>3. PICK e : e = Ack(r.kind, FALSE, 0)
    OBVIOUS
  <1>4. r.kind \in Kinds
    BY DEF Request
  <1>5. e \in Message /\ e.is = "ack" /\ e.kind = r.kind /\ e.ok = FALSE
    <2>1. FALSE \in BOOLEAN /\ 0 \in Nat
      OBVIOUS
    <2>q. QED BY <1>3, <1>4, <2>1 DEF Ack, Message
  <1>6. MessageOk(e, minted, version)
    BY <1>4, <1>5 DEF MessageOk
  <1>7. down' = Answer(down, c, e)
    BY <1>3 DEF Refuses
  <1>q. QED BY <1>1, <1>2, <1>5, <1>6, <1>7, AnswerOk, CountsAreNaturals

\* Types: a snapshot read.
LEMMA ReadsTypes ==
  ASSUME TypeInv, NEW c \in Conns, Reads(c),
         bound' = bound \cup {c}, intents' = intents, lost' = lost
  PROVE  /\ SeatType' /\ LogType' /\ minted' = minted /\ version' = version
         /\ DownOk(down', minted, version)
  <1>1. LogType' /\ version' = version
    BY LogUnchanged DEF Reads
  <1>2. SeatType' /\ minted' = minted
    BY SeatFacts DEF SeatType, Reads
  <1>3. PICK e : e = Ack("read", TRUE, version)
    OBVIOUS
  <1>5. e \in Message /\ e.is = "ack" /\ e.kind = "read" /\ e.arg = version /\ version \in Nat
    <2>1. "read" \in Kinds /\ TRUE \in BOOLEAN /\ version \in Nat
      BY CountsAreNaturals DEF Kinds
    <2>q. QED BY <1>3, <2>1 DEF Ack, Message
  <1>6. MessageOk(e, minted, version)
    BY <1>5 DEF MessageOk, Kinds
  <1>7. down' = Answer(down, c, e)
    BY <1>3 DEF Reads
  <1>q. QED BY <1>1, <1>2, <1>5, <1>6, <1>7, AnswerOk, CountsAreNaturals

\* Types: a seat given out.
LEMMA JoinsTypes ==
  ASSUME TypeInv, NEW c \in Conns, Joins(c),
         bound' = bound \cup {c}, intents' = intents, lost' = lost
  PROVE  /\ SeatType' /\ LogType' /\ minted' = minted + 1 /\ version' = version
         /\ DownOk(down', minted', version)
  <1>1. LogType' /\ version' = version
    BY LogUnchanged DEF Joins
  <1>2. /\ minted' = minted + 1 /\ minted < MaxSeats
        /\ seats' = [n \in DOMAIN seats \cup {minted'} |-> IF n = minted' THEN c ELSE seats[n]]
        /\ speaks' = [speaks EXCEPT ![c] = minted']
    BY DEF Joins
  <1>3. minted' \in 0..MaxSeats /\ minted' \in Nat /\ minted' \in 1..minted' /\ minted <= minted'
    BY <1>2, SeatFacts, BoundsAreNaturals
  <1>4. SeatType'
    <2>1. speaks' \in [Conns -> 0..minted']
      <3>1. \A d \in Conns : speaks[d] \in 0..minted'
        BY <1>2, <1>3, SeatFacts
      <3>q. QED BY <1>2, <1>3, <3>1, SeatFacts
    <2>2. DOMAIN seats' \subseteq 1..minted'
      BY <1>2, <1>3, SeatFacts
    <2>3. seats' \in [DOMAIN seats' -> Conns \cup {None}]
      BY <1>2, SeatFacts
    <2>q. QED BY <1>3, <2>1, <2>2, <2>3, SeatFacts DEF SeatType
  <1>5. PICK m : m = minted'
    OBVIOUS
  <1>6. PICK e : e = Ack("join", TRUE, m)
    OBVIOUS
  <1>7. e \in Message /\ e.is = "ack" /\ e.kind = "join" /\ e.arg = m
    <2>1. "join" \in Kinds /\ TRUE \in BOOLEAN /\ m \in Nat
      BY <1>3, <1>5 DEF Kinds
    <2>q. QED BY <1>6, <2>1 DEF Ack, Message
  <1>8. MessageOk(e, m, version)
    BY <1>3, <1>5, <1>7 DEF MessageOk, Kinds
  <1>9. down' = Answer(down, c, e)
    BY <1>5, <1>6 DEF Joins
  <1>10. DownOk(down, m, version)
    BY <1>3, <1>5, SeatFacts, CountsAreNaturals, MoreIsOk
  <1>q. QED BY <1>1, <1>2, <1>4, <1>5, <1>7, <1>8, <1>9, <1>10, AnswerOk

\* Types: a seat given up.
LEMMA LeavesTypes ==
  ASSUME TypeInv, NEW c \in Conns, Leaves(c),
         bound' = bound \cup {c}, intents' = intents, lost' = lost
  PROVE  /\ SeatType' /\ LogType' /\ minted' = minted /\ version' = version
         /\ DownOk(down', minted, version)
  <1>1. LogType' /\ version' = version
    BY LogUnchanged DEF Leaves
  <1>2. /\ minted' = minted /\ speaks' = [speaks EXCEPT ![c] = 0]
        /\ seats' = Restrict(seats, DOMAIN seats \ {speaks[c]})
    BY DEF Leaves, Without
  <1>3. SeatType'
    <2>1. seats' = [n \in DOMAIN seats \ {speaks[c]} |-> seats[n]]
      BY <1>2 DEF Restrict
    <2>2. speaks' \in [Conns -> 0..minted']
      BY <1>2, SeatFacts
    <2>q. QED BY <1>2, <2>1, <2>2, SeatFacts DEF SeatType
  <1>4. PICK e : e = Ack("leave", TRUE, 0)
    OBVIOUS
  <1>5. e \in Message /\ e.is = "ack" /\ e.kind = "leave"
    BY <1>4, AckIs DEF Kinds
  <1>6. MessageOk(e, minted, version)
    BY <1>5 DEF MessageOk, Kinds
  <1>7. down' = Answer(down, c, e)
    BY <1>4 DEF Leaves
  <1>q. QED BY <1>1, <1>2, <1>3, <1>5, <1>6, <1>7, AnswerOk, CountsAreNaturals

\* Types: an intent accepted.
LEMMA ActsTypes ==
  ASSUME TypeInv, NEW c \in Conns, NEW i \in 1..intents, Acts(c, i),
         bound' = bound \cup {c}, intents' = intents, lost' = lost
  PROVE  /\ SeatType' /\ LogType' /\ minted' = minted
         /\ version' \in Nat /\ version <= version' /\ DownOk(down', minted, version')
  <1>1. SeatType' /\ minted' = minted
    BY SeatFacts DEF SeatType, Acts
  <1>2. PICK family \in Families :
           /\ Publishes(family)
           /\ down' = Answer(Delivers(bound \cup {c}, Event(family)), c, Ack("act", TRUE, 0))
    BY DEF Acts
  <1>3. /\ version' \in 0..MaxVersion /\ version' \in Nat
        /\ version <= version' /\ announced' \in 0..version'
    BY <1>2, PublishedTypes
  <1>4. LogType'
    <2>1. /\ i \in 1..MaxIntents /\ seen \subseteq 1..intents
          /\ applied = [j \in 1..MaxIntents |-> IF j \in seen THEN 1 ELSE 0]
      BY BoundsAreNaturals DEF TypeInv, LogType
    <2>2. seen' = seen \cup {i} /\ applied' = [applied EXCEPT ![i] = @ + 1] /\ i \notin seen
      BY DEF Acts, NotSeen
    <2>3. applied' = [j \in 1..MaxIntents |-> IF j \in seen' THEN 1 ELSE 0]
      <3>1. applied[i] = 0 /\ applied'[i] = 1
        BY <2>1, <2>2
      <3>2. \A j \in 1..MaxIntents : applied'[j] = IF j \in seen' THEN 1 ELSE 0
        BY <2>1, <2>2, <3>1
      <3>3. DOMAIN applied' = 1..MaxIntents /\ applied' = [j \in DOMAIN applied' |-> applied'[j]]
        BY <2>1, <2>2
      <3>q. QED BY <3>2, <3>3
    <2>4. seen' \subseteq 1..intents'
      BY <2>1, <2>2
    <2>q. QED BY <1>3, <2>3, <2>4 DEF TypeInv, LogType
  <1>5. PICK v : v = version'
    OBVIOUS
  <1>6. DownOk(down, minted, v)
    BY <1>3, <1>5, CountsAreNaturals, MoreIsOk
  <1>7. PICK box : box = Delivers(bound \cup {c}, Event(family))
    OBVIOUS
  <1>8. DownOk(box, minted, v)
    BY <1>6, <1>7, DeliversOk
  <1>9. PICK e : e = Ack("act", TRUE, 0)
    OBVIOUS
  <1>10. e \in Message /\ e.is = "ack" /\ e.kind = "act"
    BY <1>9, AckIs DEF Kinds
  <1>11. MessageOk(e, minted, v)
    BY <1>10 DEF MessageOk, Kinds
  <1>q. QED BY <1>1, <1>2, <1>3, <1>4, <1>5, <1>7, <1>8, <1>9, <1>10, <1>11, AnswerOk

\* Types: a seat taken over.
LEMMA ResumesTypes ==
  ASSUME TypeInv, NEW c \in Conns, NEW n \in DOMAIN seats, Resumes(c, n),
         intents' = intents, lost' = lost
  PROVE  /\ SeatType' /\ LogType' /\ minted' = minted /\ version' = version
         /\ DownOk(down', minted, version)
         /\ served' \in [Conns -> {"unused", "open", "closing", "closed"}]
  <1>1. PICK old : old = {seats[n]} \ {None, c}
    OBVIOUS
  <1>2. /\ seats' = [seats EXCEPT ![n] = c]
        /\ speaks' = [d \in Conns |-> IF d = c THEN n ELSE IF d \in old THEN 0 ELSE speaks[d]]
        /\ bound' = (bound \cup {c}) \ old
        /\ served' = [d \in Conns |-> IF d \in old /\ served[d] = "open" THEN "closing"
                                      ELSE served[d]]
        /\ down' = Answer(Delivers(old, Event("superseded")), c, Ack("resume", TRUE, n))
        /\ minted' = minted /\ logVars' = logVars
    BY <1>1 DEF Resumes, logVars
  <1>3. LogType' /\ version' = version
    BY <1>2, LogUnchanged
  <1>4. n \in 1..minted /\ n \in 0..minted /\ n \in Nat /\ 0 \in 0..minted
    BY SeatFacts
  <1>5. SeatType'
    <2>1. speaks' \in [Conns -> 0..minted]
      BY <1>2, <1>4, SeatFacts
    <2>2. DOMAIN seats' = DOMAIN seats /\ seats' \in [DOMAIN seats -> Conns \cup {None}]
      BY <1>2, SeatFacts
    <2>q. QED BY <1>2, <2>1, <2>2, SeatFacts DEF SeatType
  <1>6. served' \in [Conns -> {"unused", "open", "closing", "closed"}]
    BY <1>2, CountsAreNaturals
  <1>7. PICK box : box = Delivers(old, Event("superseded"))
    OBVIOUS
  <1>8. DownOk(box, minted, version)
    BY <1>7, CountsAreNaturals, DeliversOk
  <1>9. PICK e : e = Ack("resume", TRUE, n)
    OBVIOUS
  <1>10. e \in Message /\ e.is = "ack" /\ e.kind = "resume" /\ e.arg = n
    <2>1. "resume" \in Kinds /\ TRUE \in BOOLEAN
      BY DEF Kinds
    <2>q. QED BY <1>4, <1>9, <2>1 DEF Ack, Message
  <1>11. MessageOk(e, minted, version)
    BY <1>4, <1>10 DEF MessageOk, Kinds
  <1>12. DownOk(down', minted, version)
    BY <1>2, <1>7, <1>8, <1>9, <1>10, <1>11, AnswerOk
  <1>q. QED BY <1>2, <1>3, <1>5, <1>6, <1>12

-----------------------------------------------------------------------------
(* One window and its socket, through each thing that can happen to them.  *)

\* The line of a window, with its places.
LEMMA SteadyLine ==
  ASSUME NEW x \in Window, NEW d \in Seq(Message), NEW u \in Seq(Request), NEW s, NEW sp,
         NEW held, Steady(x, d, u, s, sp, held)
  PROVE  \E p, n :
             /\ LineHolds(x, d, u, s, sp, p, n) /\ Lined(x.asked, d, u, p, n)
             /\ s = "open" => p[Len(d)] >= n
             /\ Len(x.asked) \in Nat /\ Len(d) \in Nat /\ Len(u) \in Nat /\ n \in Nat
             /\ p[Len(d)] \in Nat /\ p[Len(d)] <= n /\ Len(x.asked) = n + Len(u)
             /\ \A k \in 1..Len(d) : d[k].is = "ack" =>
                    p[k] \in 1..n /\ p[k] \in 1..Len(x.asked) /\ x.asked[p[k]].kind = d[k].kind
             /\ \A j \in 1..Len(u) : n + j \in 1..Len(x.asked) /\ x.asked[n + j].kind = u[j].kind
             /\ x.asked \in Seq(Pending) /\ DOMAIN x.asked = 1..Len(x.asked)
  <1>1. x.asked \in Seq(Pending)
    BY DEF Window
  <1>2. PICK p, n : LineHolds(x, d, u, s, sp, p, n)
    BY DEF Steady, InLine
  <1>3. Lined(x.asked, d, u, p, n) /\ (s = "open" => p[Len(d)] >= n)
    BY <1>2 DEF LineHolds
  <1>4. PICK a : a = x.asked
    OBVIOUS
  <1>5. /\ Len(a) \in Nat /\ Len(d) \in Nat /\ Len(u) \in Nat /\ n \in Nat
        /\ p[Len(d)] \in Nat /\ p[Len(d)] <= n /\ Len(a) = n + Len(u)
        /\ \A k \in 1..Len(d) : d[k].is = "ack" =>
               p[k] \in 1..n /\ p[k] \in 1..Len(a) /\ a[p[k]].kind = d[k].kind
        /\ \A j \in 1..Len(u) : n + j \in 1..Len(a) /\ a[n + j].kind = u[j].kind
    <2>1. a \in Seq(Pending) /\ Lined(a, d, u, p, n)
      BY <1>1, <1>3, <1>4
    <2>q. QED BY <2>1, LinePlaces
  <1>6. DOMAIN a = 1..Len(a)
    BY <1>1, <1>4
  <1>q. QED BY <1>1, <1>2, <1>3, <1>4, <1>5, <1>6

\* A request is asked.
LEMMA SteadyAsks ==
  ASSUME NEW x \in Window, NEW y \in Window, NEW d \in Seq(Message), NEW u \in Seq(Request),
         NEW s, NEW sp, NEW held, Steady(x, d, u, s, sp, held), Alike(x, y),
         NEW q \in Pending, NEW r \in Request, q.kind = r.kind, q.wanted,
         y.asked = Append(x.asked, q), r.kind # "resume",
         r.kind = "join" => x.identity = 0 /\ \A i \in DOMAIN x.asked : ~Wants(x, i, "join")
  PROVE  Steady(y, d, Append(u, r), s, sp, held)
  <1>1. PICK p, n :
           /\ LineHolds(x, d, u, s, sp, p, n) /\ Lined(x.asked, d, u, p, n)
           /\ Len(x.asked) \in Nat /\ n \in Nat /\ p[Len(d)] \in Nat /\ p[Len(d)] <= n
           /\ Len(u) \in Nat /\ Len(x.asked) = n + Len(u) /\ x.asked \in Seq(Pending)
    BY SteadyLine
  <1>2. PICK a, b : a = x.asked /\ b = y.asked
    OBVIOUS
  <1>3. /\ b = Append(a, q) /\ Len(a) \in Nat /\ b[Len(a) + 1] = q
        /\ \A i \in 1..Len(a) : b[i] = a[i]
        /\ DOMAIN a = 1..Len(a) /\ DOMAIN b = 1..(Len(a) + 1)
    BY <1>1, <1>2, Appended
  <1>4. PICK v : v = Append(u, r)
    OBVIOUS
  <1>5. /\ Len(u) \in Nat /\ v[Len(u) + 1] = r /\ \A i \in 1..Len(u) : v[i] = u[i]
        /\ DOMAIN u = 1..Len(u) /\ DOMAIN v = 1..(Len(u) + 1)
    BY <1>4, Appended
  <1>6. /\ SentOff(y, d) = SentOff(x, d) /\ y.identity = x.identity
        /\ y.gaveUp = x.gaveUp /\ y.view = x.view
    BY DEF Alike, SentOff
  <1>7. \A i \in 1..Len(a) : \A kind : Wants(y, i, kind) = Wants(x, i, kind)
    BY <1>2, <1>3 DEF Wants
  <1>8. InLine(y, d, v, s, sp)
    <2>1. Lined(b, d, v, p, n)
      BY <1>1, <1>2, <1>3, <1>4, LineAsk
    <2>2. \A i \in 1..p[Len(d)] : i \in 1..Len(a)
      BY <1>1, <1>2
    <2>q. QED BY <1>1, <1>2, <1>6, <1>7, <2>1, <2>2 DEF InLine, LineHolds
  <1>9. Disciplined(y)
    <2>1. \A i \in DOMAIN b : i \in DOMAIN a \/ (i = Len(a) + 1 /\ b[i] = q)
      BY <1>3
    <2>2. \A i \in DOMAIN b : b[i].kind = "resume" => i = 1 /\ (~b[i].wanted => y.identity = 0)
      BY <1>2, <1>3, <1>6, <2>1 DEF Disciplined, Steady
    <2>3. y.identity # 0 => \A i \in DOMAIN b : b[i].kind # "join"
      BY <1>2, <1>3, <1>6, <2>1 DEF Disciplined, Steady
    <2>4. \A i, j \in DOMAIN b : Wants(y, i, "join") /\ i < j => b[j].kind # "join"
      <3> SUFFICES ASSUME NEW i \in DOMAIN b, NEW j \in DOMAIN b, Wants(y, i, "join"), i < j,
                          b[j].kind = "join"
                   PROVE  FALSE
        OBVIOUS
      <3>1. i \in DOMAIN a /\ i \in 1..Len(a)
        BY <1>3
      <3>2. Wants(x, i, "join")
        BY <1>7, <3>1
      <3>3. CASE j \in DOMAIN a
        BY <1>2, <1>3, <3>1, <3>2, <3>3 DEF Disciplined, Steady
      <3>4. CASE b[j] = q
        BY <1>2, <3>1, <3>2, <3>4
      <3>q. QED BY <2>1, <3>3, <3>4
    <2>5. ~y.gaveUp => \A i \in DOMAIN b : b[i].kind = "read" => b[i].wanted
      BY <1>2, <1>3, <1>6, <2>1 DEF Disciplined, Steady
    <2>q. QED BY <1>2, <2>2, <2>3, <2>4, <2>5 DEF Disciplined
  <1>10. InSequence(y, d)
    BY <1>6 DEF InSequence, Steady
  <1>11. SentOffFor(y, d, v, s, sp, held)
    <2>1. (\E j \in DOMAIN v : v[j].kind = "resume") => \E j \in DOMAIN u : u[j].kind = "resume"
      BY <1>5
    <2>q. QED BY <1>6, <2>1 DEF SentOffFor, Steady
  <1>q. QED BY <1>4, <1>8, <1>9, <1>10, <1>11 DEF Steady

\* What is asked to be read will be.
LEMMA ReadingIsUpToDate ==
  ASSUME NEW d, NEW u \in Seq(Request), NEW r \in Request, NEW x, NEW s, NEW sp, NEW ann
  PROVE  /\ r.kind = "read" => UpToDate(x, d, Append(u, r), s, sp, ann)
         /\ ReasonToRead(d, u, ann) => ReasonToRead(d, Append(u, r), ann)
  <1>1. PICK v : v = Append(u, r)
    OBVIOUS
  <1>2. /\ Len(u) \in Nat /\ v[Len(u) + 1] = r /\ \A i \in 1..Len(u) : v[i] = u[i]
        /\ DOMAIN u = 1..Len(u) /\ DOMAIN v = 1..(Len(u) + 1)
    BY <1>1, Appended
  <1>3. Len(u) + 1 \in DOMAIN v
    BY <1>2
  <1>4. r.kind = "read" => UpToDate(x, d, v, s, sp, ann)
    BY <1>2, <1>3 DEF UpToDate, ReasonToRead
  <1>5. ASSUME ReasonToRead(d, u, ann) PROVE ReasonToRead(d, v, ann)
    <2>1. CASE \E j \in DOMAIN u : u[j].kind = "read"
      <3>1. PICK j \in DOMAIN u : u[j].kind = "read"
        BY <2>1
      <3>2. j \in DOMAIN v /\ v[j].kind = "read"
        BY <1>2, <3>1
      <3>q. QED BY <3>2 DEF ReasonToRead
    <2>q. QED BY <1>5, <2>1 DEF ReasonToRead
  <1>q. QED BY <1>1, <1>4, <1>5

\* An open window that asks stays as it should be.
LEMMA AskingIsOk ==
  ASSUME NEW x \in Window, NEW y \in Window, NEW d \in Seq(Message), NEW u \in Seq(Request),
         NEW s, NEW sp, NEW held, NEW ann, WindowOk(x, d, u, s, sp, held, ann), Alike(x, y),
         NEW q \in Pending, NEW r \in Request, q.kind = r.kind, q.wanted,
         y.asked = Append(x.asked, q), r.kind # "resume",
         r.kind = "join" => x.identity = 0 /\ \A i \in DOMAIN x.asked : ~Wants(x, i, "join")
  PROVE  WindowOk(y, d, Append(u, r), s, sp, held, ann)
  <1>1. Steady(y, d, Append(u, r), s, sp, held)
    BY SteadyAsks DEF WindowOk
  <1>2. UpToDate(y, d, Append(u, r), s, sp, ann)
    BY ReadingIsUpToDate DEF WindowOk, UpToDate, Alike
  <1>q. QED BY <1>1, <1>2 DEF WindowOk

\* A window on a fresh socket, which has at most a resume under way.
LEMMA OpeningIsOk ==
  ASSUME NEW y \in Window, NEW u \in Seq(Request), ~y.told, NEW ann,
         Len(u) \in {0, 1}, Len(y.asked) = Len(u),
         \A j \in 1..Len(u) :
             u[j].kind = "resume" /\ y.asked[j].kind = "resume" /\ y.asked[j].wanted,
         NEW d, d = <<>>, NEW s, NEW sp, sp = 0, NEW held, held = {}
  PROVE  WindowOk(y, d, u, s, sp, held, ann)
  <1>1. PICK a, p : a = y.asked /\ p = [k \in 0..0 |-> 0]
    OBVIOUS
  <1>2. /\ a \in Seq(Pending) /\ Len(a) = Len(u) /\ DOMAIN a = 1..Len(a) /\ DOMAIN u = 1..Len(u)
        /\ Len(d) = 0 /\ DOMAIN d = {}
    BY <1>1 DEF Window
  <1>3. Counted(p, d) /\ p[Len(d)] = 0
    BY <1>1, <1>2, LineStarts DEF Lined
  <1>4. \A i \in DOMAIN a : i = 1 /\ a[i].kind = "resume" /\ a[i].wanted
    BY <1>1, <1>2 DEF Wants
  <1>5. InLine(y, d, u, s, sp)
    <2>1. Lined(a, d, u, p, 0)
      <3>1. \A j \in 1..Len(u) : a[0 + j].kind = u[j].kind
        BY <1>2, <1>4
      <3>q. QED BY <1>2, <1>3, <3>1 DEF Lined
    <2>q. QED BY <1>1, <1>3, <2>1 DEF InLine, LineHolds
  <1>6. Disciplined(y)
    BY <1>1, <1>4 DEF Disciplined, Wants
  <1>7. InSequence(y, d)
    BY <1>2 DEF InSequence
  <1>8. SentOffFor(y, d, u, s, sp, held)
    BY <1>2 DEF SentOffFor, SentOff
  <1>9. UpToDate(y, d, u, s, sp, ann)
    BY DEF UpToDate
  <1>q. QED BY <1>1, <1>5, <1>6, <1>7, <1>8, <1>9 DEF WindowOk, Steady

\* Another seat naming the socket no longer is no matter; nor is an event that
\* reaches no window that would show it.
LEMMA StayingIsOk ==
  ASSUME NEW x, NEW d, NEW u, NEW s, NEW sp, NEW held, NEW ann,
         WindowOk(x, d, u, s, sp, held, ann), NEW held2, held2 \subseteq held,
         NEW ann2, ann2 = ann \/ s # "open" \/ sp = 0
  PROVE  WindowOk(x, d, u, s, sp, held2, ann2)
  BY DEF WindowOk, Steady, SentOffFor, UpToDate

\* What is seen of a message that is the last.
LEMMA OneMore ==
  ASSUME NEW d \in Seq(Message), NEW e \in Message
  PROVE  /\ Len(d) \in Nat /\ DOMAIN d = 1..Len(d)
         /\ \A k \in DOMAIN Append(d, e) : (k \in DOMAIN d /\ Append(d, e)[k] = d[k])
                                        \/ (k = Len(d) + 1 /\ Append(d, e)[k] = e)
         /\ \A k \in DOMAIN d : k \in DOMAIN Append(d, e) /\ Append(d, e)[k] = d[k]
         /\ Len(d) + 1 \in DOMAIN Append(d, e) /\ Append(d, e)[Len(d) + 1] = e
         /\ Append(d, e) \in Seq(Message)
  <1>1. PICK v : v = Append(d, e)
    OBVIOUS
  <1>2. /\ v \in Seq(Message) /\ Len(d) \in Nat /\ v[Len(d) + 1] = e
        /\ \A i \in 1..Len(d) : v[i] = d[i]
        /\ DOMAIN d = 1..Len(d) /\ DOMAIN v = 1..(Len(d) + 1)
    BY <1>1, Appended
  <1>3. \A k \in DOMAIN v : (k \in DOMAIN d /\ v[k] = d[k]) \/ (k = Len(d) + 1 /\ v[k] = e)
    BY <1>2
  <1>4. \A k \in DOMAIN d : k \in DOMAIN v /\ v[k] = d[k]
    BY <1>2
  <1>5. Len(d) + 1 \in DOMAIN v
    BY <1>2
  <1>q. QED BY <1>1, <1>2, <1>3, <1>4, <1>5

\* A reason stays a reason.
LEMMA ReasonsStay ==
  ASSUME NEW d \in Seq(Message), NEW e \in Message, NEW u, NEW ann
  PROVE  /\ ReasonToRead(d, u, ann) => ReasonToRead(Append(d, e), u, ann)
         /\ e.is = "GAME" => ReasonToRead(Append(d, e), u, ann)
         /\ Shows(e) /\ e.arg >= ann => ReasonToRead(Append(d, e), u, ann)
         /\ e.is = "ack" /\ e.kind = "resume" /\ e.ok => ReasonToRead(Append(d, e), u, ann)
  <1>1. PICK v : v = Append(d, e)
    OBVIOUS
  <1>2. /\ Len(d) + 1 \in DOMAIN v /\ v[Len(d) + 1] = e
        /\ \A k \in DOMAIN d : k \in DOMAIN v /\ v[k] = d[k]
    BY <1>1, OneMore
  <1>3. PICK k : k \in DOMAIN v /\ v[k] = e
    BY <1>2
  <1>4. ReasonToRead(d, u, ann) => ReasonToRead(v, u, ann)
    <2> SUFFICES ASSUME NEW j \in DOMAIN d,
                        \/ d[j].is = "GAME" \/ (Shows(d[j]) /\ d[j].arg >= ann)
                        \/ (d[j].is = "ack" /\ d[j].kind = "resume" /\ d[j].ok)
                 PROVE  ReasonToRead(v, u, ann)
      BY DEF ReasonToRead
    <2>1. j \in DOMAIN v /\ v[j] = d[j]
      BY <1>2
    <2>q. QED BY <2>1 DEF ReasonToRead
  <1>5. (e.is = "GAME") \/ (Shows(e) /\ e.arg >= ann) \/ (e.is = "ack" /\ e.kind = "resume" /\ e.ok)
            => ReasonToRead(v, u, ann)
    BY <1>3 DEF ReasonToRead
  <1>q. QED BY <1>1, <1>4, <1>5

\* An event comes down to a socket that is open.
LEMMA ToldIsOk ==
  ASSUME NEW x \in Window, NEW d \in Seq(Message), NEW u \in Seq(Request),
         NEW s, s = "open", NEW sp, NEW held, NEW ann, WindowOk(x, d, u, s, sp, held, ann),
         NEW e \in Message, e.is \in Families, NEW ann2, ann2 = ann \/ e.is = "GAME"
  PROVE  WindowOk(x, Append(d, e), u, s, sp, held, ann2)
  <1>1. PICK p, n : /\ LineHolds(x, d, u, s, sp, p, n) /\ Lined(x.asked, d, u, p, n)
                    /\ p[Len(d)] >= n /\ x.asked \in Seq(Pending)
    BY SteadyLine DEF WindowOk
  <1>2. e.is # "ack" /\ e.is \notin {"superseded", "removed"} /\ ~Shows(e)
    BY DEF Families, Shows
  <1>3. PICK v : v = Append(d, e)
    OBVIOUS
  <1>4. /\ \A k \in DOMAIN v : (k \in DOMAIN d /\ v[k] = d[k]) \/ (k = Len(d) + 1 /\ v[k] = e)
        /\ \A k \in DOMAIN d : k \in DOMAIN v /\ v[k] = d[k]
        /\ DOMAIN d = 1..Len(d) /\ Len(d) \in Nat
    BY <1>3, OneMore
  <1>5. SentOff(x, v) => SentOff(x, d)
    BY <1>2, <1>4 DEF SentOff
  <1>6. InLine(x, v, u, s, sp)
    <2>1. PICK o : o = CountOn(p, d, e)
      OBVIOUS
    <2>2. Lined(x.asked, v, u, o, n) /\ o[Len(v)] = p[Len(d)]
      BY <1>1, <1>2, <1>3, <2>1, LineTold
    <2>3. SentOff(x, v) /\ sp # 0 => \A i \in 1..o[Len(v)] : ~Wants(x, i, "join")
      BY <1>1, <1>5, <2>2 DEF LineHolds
    <2>q. QED BY <1>1, <2>2, <2>3 DEF InLine, LineHolds
  <1>7. InSequence(x, v)
    <2>1. \A k \in DOMAIN v : Shows(v[k]) => k \in DOMAIN d /\ v[k] = d[k]
      BY <1>2, <1>4
    <2>q. QED BY <2>1 DEF InSequence, WindowOk, Steady
  <1>8. SentOffFor(x, v, u, s, sp, held)
    BY <1>5 DEF SentOffFor, WindowOk, Steady
  <1>9. UpToDate(x, v, u, s, sp, ann2)
    <2>1. CASE e.is = "GAME"
      <3>1. ReasonToRead(v, u, ann2)
        BY <1>3, <2>1, ReasonsStay
      <3>q. QED BY <3>1 DEF UpToDate
    <2>2. CASE ann2 = ann
      <3>1. ReasonToRead(d, u, ann) => ReasonToRead(v, u, ann)
        BY <1>3, ReasonsStay
      <3>q. QED BY <2>2, <3>1 DEF UpToDate, WindowOk
    <2>q. QED BY <2>1, <2>2
  <1>q. QED BY <1>3, <1>6, <1>7, <1>8, <1>9 DEF WindowOk, Steady

\* A socket that speaks for nobody any more and is not open shows nothing new.
LEMMA MuteIsOk ==
  ASSUME NEW x, NEW d, NEW u, NEW s, NEW sp, NEW held, NEW ann,
         WindowOk(x, d, u, s, sp, held, ann), s # "open",
         NEW held2, held2 \subseteq held, NEW ann2
  PROVE  WindowOk(x, d, u, s, 0, held2, ann2)
  <1>1. InLine(x, d, u, s, 0)
    BY DEF InLine, LineHolds, WindowOk, Steady
  <1>q. QED BY <1>1 DEF WindowOk, Steady, SentOffFor, UpToDate

\* A socket is displaced: its window is told, and it is being closed.
LEMMA DisplacedIsOk ==
  ASSUME NEW x \in Window, NEW d \in Seq(Message), NEW u \in Seq(Request),
         NEW s, s = "open", NEW sp, NEW held, NEW ann, WindowOk(x, d, u, s, sp, held, ann),
         held # {}, NEW t, t = "closing",
         NEW e \in Message, e.is \in {"superseded", "removed"}, NEW held2, NEW ann2
  PROVE  WindowOk(x, Append(d, e), u, t, 0, held2, ann2)
  <1>1. PICK p, n : Lined(x.asked, d, u, p, n) /\ x.asked \in Seq(Pending)
    BY SteadyLine DEF WindowOk
  <1>2. e.is # "ack" /\ ~Shows(e)
    BY DEF Shows
  <1>3. PICK v : v = Append(d, e)
    OBVIOUS
  <1>4. /\ \A k \in DOMAIN v : (k \in DOMAIN d /\ v[k] = d[k]) \/ (k = Len(d) + 1 /\ v[k] = e)
        /\ \A k \in DOMAIN d : k \in DOMAIN v /\ v[k] = d[k]
    BY <1>3, OneMore
  <1>5. InLine(x, v, u, t, 0)
    <2>1. PICK o : o = CountOn(p, d, e)
      OBVIOUS
    <2>2. Lined(x.asked, v, u, o, n)
      BY <1>1, <1>2, <1>3, <2>1, LineTold
    <2>q. QED BY <2>2 DEF InLine, LineHolds
  <1>6. InSequence(x, v)
    <2>1. \A k \in DOMAIN v : Shows(v[k]) => k \in DOMAIN d /\ v[k] = d[k]
      BY <1>2, <1>4
    <2>q. QED BY <2>1 DEF InSequence, WindowOk, Steady
  <1>7. SentOffFor(x, v, u, t, 0, held2)
    BY DEF SentOffFor, WindowOk, Steady
  <1>8. UpToDate(x, v, u, t, 0, ann2)
    BY DEF UpToDate
  <1>q. QED BY <1>3, <1>5, <1>6, <1>7, <1>8 DEF WindowOk, Steady

\* The socket is closed, and what was going up is lost.
LEMMA ClosedIsOk ==
  ASSUME NEW x \in Window, NEW d \in Seq(Message), NEW u \in Seq(Request),
         NEW s, NEW sp, NEW held, NEW ann, WindowOk(x, d, u, s, sp, held, ann),
         NEW o, o = <<>>, NEW t, t = "closed", NEW held2, NEW ann2
  PROVE  WindowOk(x, d, o, t, 0, held2, ann2)
  <1>1. PICK p, n : Lined(x.asked, d, u, p, n) /\ x.asked \in Seq(Pending)
    BY SteadyLine DEF WindowOk
  <1>3. Lined(x.asked, d, o, p, n + Len(u))
    BY <1>1, LineSkip
  <1>4. InLine(x, d, o, t, 0)
    BY <1>3 DEF InLine, LineHolds
  <1>5. SentOffFor(x, d, o, t, 0, held2)
    <2>1. DOMAIN o = {}
      OBVIOUS
    <2>q. QED BY <2>1 DEF SentOffFor
  <1>6. UpToDate(x, d, o, t, 0, ann2)
    BY DEF UpToDate
  <1>q. QED BY <1>4, <1>5, <1>6 DEF WindowOk, Steady

\* The request the server serves, and those after it: a resume is the first a
\* window asks, and one that joins is nobody and wants no other join.
LEMMA FirstUp ==
  ASSUME NEW x \in Window, NEW d \in Seq(Message), NEW u \in Seq(Request), NEW s, NEW sp,
         NEW held, Steady(x, d, u, s, sp, held), u # <<>>, NEW p, NEW n,
         LineHolds(x, d, u, s, sp, p, n)
  PROVE  /\ Tail(u) \in Seq(Request) /\ Head(u) = u[1] /\ 1 \in DOMAIN u
         /\ \A j \in DOMAIN Tail(u) : j + 1 \in DOMAIN u /\ Tail(u)[j] = u[j + 1]
                                      /\ Tail(u)[j].kind # "resume"
         /\ \A j \in DOMAIN u : j = 1 \/ (j - 1 \in DOMAIN Tail(u) /\ Tail(u)[j - 1] = u[j])
         /\ Head(u).kind = "join" =>
                x.identity = 0 /\ \A i \in 1..p[Len(d)] : ~Wants(x, i, "join")
  <1>1. PICK v : v = Tail(u)
    OBVIOUS
  <1>2. /\ v \in Seq(Request) /\ Head(u) = u[1] /\ Len(u) \in Nat /\ Len(u) >= 1
        /\ \A i \in 1..(Len(u) - 1) : v[i] = u[i + 1]
        /\ DOMAIN u = 1..Len(u) /\ DOMAIN v = 1..(Len(u) - 1)
    BY <1>1, Popped
  <1>3. PICK a : a = x.asked
    OBVIOUS
  <1>4. Lined(a, d, u, p, n) /\ a \in Seq(Pending)
    BY <1>3 DEF LineHolds, Window
  <1>5. /\ Len(a) \in Nat /\ n \in Nat /\ p[Len(d)] \in Nat /\ p[Len(d)] <= n /\ Len(a) = n + Len(u)
        /\ \A j \in 1..Len(u) : n + j \in 1..Len(a) /\ a[n + j].kind = u[j].kind
    BY <1>4, LinePlaces
  <1>6. DOMAIN a = 1..Len(a)
    BY <1>4
  <1>7. ASSUME NEW j \in DOMAIN v
        PROVE  j + 1 \in DOMAIN u /\ v[j] = u[j + 1] /\ v[j].kind # "resume"
    <2>1. j + 1 \in 1..Len(u) /\ v[j] = u[j + 1] /\ j + 1 \in DOMAIN u /\ j \in Nat /\ j >= 1
      BY <1>2, <1>7
    <2>2. n + (j + 1) \in DOMAIN a /\ a[n + (j + 1)].kind = u[j + 1].kind
      BY <1>5, <1>6, <2>1
    <2>3. n + (j + 1) # 1
      BY <1>5, <2>1
    <2>4. a[n + (j + 1)].kind # "resume"
      BY <1>3, <2>2, <2>3 DEF Steady, Disciplined
    <2>q. QED BY <2>1, <2>2, <2>4
  <1>8. \A j \in DOMAIN u : j = 1 \/ (j - 1 \in DOMAIN v /\ v[j - 1] = u[j])
    BY <1>2
  <1>9. ASSUME u[1].kind = "join"
        PROVE  x.identity = 0 /\ \A i \in 1..p[Len(d)] : ~Wants(x, i, "join")
    <2>1. 1 \in 1..Len(u)
      BY <1>2
    <2>2. n + 1 \in DOMAIN a /\ a[n + 1].kind = "join"
      BY <1>5, <1>6, <1>9, <2>1
    <2>3. \A i \in 1..p[Len(d)] : i \in DOMAIN a /\ i < n + 1
      BY <1>2, <1>5, <1>6
    <2>q. QED BY <1>3, <2>2, <2>3 DEF Steady, Disciplined
  <1>10. 1 \in DOMAIN u
    BY <1>2
  <1>q. QED BY <1>1, <1>2, <1>7, <1>8, <1>9, <1>10

\* A request served on a socket that is being closed has no answer.
LEMMA SkippedIsOk ==
  ASSUME NEW x \in Window, NEW d \in Seq(Message), NEW u \in Seq(Request), NEW s, NEW sp,
         NEW held, NEW ann, WindowOk(x, d, u, s, sp, held, ann), s # "open", u # <<>>,
         NEW sp2, sp2 = 0 \/ sp2 = sp \/ Head(u).kind \in {"join", "resume"},
         NEW held2, NEW ann2
  PROVE  WindowOk(x, d, Tail(u), s, sp2, held2, ann2)
  <1>0. Steady(x, d, u, s, sp, held)
    BY DEF WindowOk
  <1>1. PICK p, n : /\ LineHolds(x, d, u, s, sp, p, n) /\ Lined(x.asked, d, u, p, n)
                    /\ x.asked \in Seq(Pending)
    BY <1>0, SteadyLine
  <1>2. PICK v, r : v = Tail(u) /\ r = Head(u)
    OBVIOUS
  <1>3. /\ v \in Seq(Request) /\ r = u[1] /\ 1 \in DOMAIN u
        /\ \A j \in DOMAIN v : v[j].kind # "resume"
        /\ r.kind = "join" => x.identity = 0 /\ \A i \in 1..p[Len(d)] : ~Wants(x, i, "join")
    BY <1>0, <1>1, <1>2, FirstUp
  <1>4. r.kind = "resume" => ~SentOff(x, d)
    BY <1>0, <1>3 DEF Steady, SentOffFor
  <1>5. InLine(x, d, v, s, sp2)
    <2>1. Lined(x.asked, d, v, p, n + 1)
      BY <1>1, <1>2, LineSkip
    <2>2. SentOff(x, d) /\ sp2 # 0 => \A i \in 1..p[Len(d)] : ~Wants(x, i, "join")
      BY <1>1, <1>2, <1>3, <1>4 DEF LineHolds
    <2>q. QED BY <2>1, <2>2 DEF InLine, LineHolds
  <1>6. SentOffFor(x, d, v, s, sp2, held2)
    BY <1>0, <1>2, <1>3, <1>4 DEF SentOffFor, Steady
  <1>7. UpToDate(x, d, v, s, sp2, ann2)
    BY DEF UpToDate
  <1>q. QED BY <1>0, <1>2, <1>5, <1>6, <1>7 DEF WindowOk, Steady

\* A request served on an open socket is answered.
LEMMA AnswerIsSteady ==
  ASSUME NEW x \in Window, NEW d \in Seq(Message), NEW u \in Seq(Request),
         NEW s, s = "open", NEW sp, NEW held, Steady(x, d, u, s, sp, held), u # <<>>,
         NEW e \in Message, e.is = "ack", e.kind = Head(u).kind,
         Shows(e) => x.view <= e.arg /\ \A k \in DOMAIN d : Shows(d[k]) => d[k].arg <= e.arg,
         NEW sp2, NEW held2
  PROVE  Steady(x, Append(d, e), Tail(u), s, sp2, held2)
  <1>1. PICK p, n : /\ LineHolds(x, d, u, s, sp, p, n) /\ Lined(x.asked, d, u, p, n)
                    /\ p[Len(d)] >= n /\ x.asked \in Seq(Pending)
    BY SteadyLine
  <1>2. PICK v, t : v = Append(d, e) /\ t = Tail(u)
    OBVIOUS
  <1>3. \A j \in DOMAIN t : t[j].kind # "resume"
    BY <1>1, <1>2, FirstUp
  <1>4. /\ \A k \in DOMAIN v : (k \in DOMAIN d /\ v[k] = d[k]) \/ (k = Len(d) + 1 /\ v[k] = e)
        /\ \A k \in DOMAIN d : k \in DOMAIN v /\ v[k] = d[k]
        /\ DOMAIN d = 1..Len(d) /\ Len(d) \in Nat
    BY <1>2, OneMore
  <1>5. ~SentOff(x, d) /\ ~SentOff(x, v)
    <2>1. ~SentOff(x, d)
      BY DEF Steady, SentOffFor
    <2>q. QED BY <1>4, <2>1 DEF SentOff
  <1>6. InLine(x, v, t, s, sp2)
    <2>1. PICK o : o = CountOn(p, d, e)
      OBVIOUS
    <2>2. Lined(x.asked, v, t, o, n + 1) /\ o[Len(v)] >= n + 1
      BY <1>1, <1>2, <2>1, LineAnswer
    <2>q. QED BY <1>5, <2>2 DEF InLine, LineHolds
  <1>7. InSequence(x, v)
    <2>1. \A k \in DOMAIN v : Shows(v[k]) => x.view <= v[k].arg
      BY <1>4 DEF Steady, InSequence
    <2>2. ASSUME NEW j \in DOMAIN v, NEW k \in DOMAIN v, Shows(v[j]), Shows(v[k]), j < k
          PROVE  v[j].arg <= v[k].arg
      <3>1. j \in DOMAIN d /\ v[j] = d[j]
        BY <1>4, <2>2
      <3>2. CASE k \in DOMAIN d /\ v[k] = d[k]
        BY <2>2, <3>1, <3>2 DEF Steady, InSequence
      <3>3. CASE v[k] = e
        BY <2>2, <3>1, <3>3
      <3>q. QED BY <1>4, <3>2, <3>3
    <2>q. QED BY <2>1, <2>2 DEF InSequence
  <1>8. SentOffFor(x, v, t, s, sp2, held2)
    BY <1>3, <1>5 DEF SentOffFor
  <1>q. QED BY <1>2, <1>6, <1>7, <1>8 DEF Steady

\* Whether it was the reason to read again that was served: if so the answer shows
\* the game, and if not the reason stays.
LEMMA AnswerIsUpToDate ==
  ASSUME NEW x \in Window, NEW d \in Seq(Message), NEW u \in Seq(Request),
         NEW s, s = "open", NEW sp, NEW held, NEW ann, WindowOk(x, d, u, s, sp, held, ann),
         u # <<>>,
         NEW e \in Message, NEW sp2, NEW ann2,
         \/ sp2 = 0
         \/ Shows(e) /\ e.arg >= ann2
         \/ e.is = "ack" /\ e.kind = "resume" /\ e.ok
         \/ Head(u).kind = "join"
         \/ sp # 0 /\ ann2 = ann /\ Head(u).kind # "read"
  PROVE  UpToDate(x, Append(d, e), Tail(u), s, sp2, ann2)
  <1>0. Steady(x, d, u, s, sp, held) /\ UpToDate(x, d, u, s, sp, ann)
    BY DEF WindowOk
  <1>1. PICK p, n : LineHolds(x, d, u, s, sp, p, n)
    BY <1>0, SteadyLine
  <1>2. PICK v, t, r : v = Append(d, e) /\ t = Tail(u) /\ r = Head(u)
    OBVIOUS
  <1>3. /\ t \in Seq(Request) /\ r = u[1]
        /\ \A j \in DOMAIN u : j = 1 \/ (j - 1 \in DOMAIN t /\ t[j - 1] = u[j])
        /\ r.kind = "join" => x.identity = 0
    BY <1>0, <1>1, <1>2, FirstUp
  <1>4. CASE sp2 = 0 \/ r.kind = "join"
    BY <1>2, <1>3, <1>4 DEF UpToDate
  <1>5. CASE (Shows(e) /\ e.arg >= ann2) \/ (e.is = "ack" /\ e.kind = "resume" /\ e.ok)
    <2>1. ReasonToRead(v, t, ann2)
      BY <1>2, <1>5, ReasonsStay
    <2>q. QED BY <1>2, <2>1 DEF UpToDate
  <1>6. CASE sp # 0 /\ ann2 = ann /\ r.kind # "read"
    <2>1. ReasonToRead(d, u, ann) => ReasonToRead(d, t, ann)
      <3>1. ASSUME NEW j \in DOMAIN u, u[j].kind = "read" PROVE ReasonToRead(d, t, ann)
        <4>1. j - 1 \in DOMAIN t /\ t[j - 1].kind = "read"
          BY <1>3, <1>6, <3>1
        <4>q. QED BY <4>1 DEF ReasonToRead
      <3>q. QED BY <3>1 DEF ReasonToRead
    <2>2. ReasonToRead(d, t, ann) => ReasonToRead(v, t, ann)
      BY <1>2, ReasonsStay
    <2>q. QED BY <1>0, <1>2, <1>6, <2>1, <2>2 DEF UpToDate
  <1>q. QED BY <1>2, <1>4, <1>5, <1>6

\* What is left without the first message.
LEMMA OneLess ==
  ASSUME NEW S, NEW d \in Seq(S), d # <<>>
  PROVE  /\ Tail(d) \in Seq(S) /\ 1 \in DOMAIN d
         /\ \A k \in DOMAIN Tail(d) :
                k \in Nat /\ k >= 1 /\ k + 1 \in DOMAIN d /\ Tail(d)[k] = d[k + 1]
         /\ \A k \in DOMAIN d : k = 1 \/ (k - 1 \in DOMAIN Tail(d) /\ Tail(d)[k - 1] = d[k])
  <1>1. PICK v : v = Tail(d)
    OBVIOUS
  <1>2. /\ v \in Seq(S) /\ Len(d) \in Nat /\ Len(d) >= 1
        /\ \A i \in 1..(Len(d) - 1) : v[i] = d[i + 1]
        /\ DOMAIN d = 1..Len(d) /\ DOMAIN v = 1..(Len(d) - 1)
    BY <1>1, Popped
  <1>3. \A k \in DOMAIN v : k \in Nat /\ k >= 1 /\ k + 1 \in DOMAIN d /\ v[k] = d[k + 1]
    BY <1>2
  <1>4. \A k \in DOMAIN d : k = 1 \/ (k - 1 \in DOMAIN v /\ v[k - 1] = d[k])
    BY <1>2
  <1>5. 1 \in DOMAIN d
    BY <1>2
  <1>q. QED BY <1>1, <1>2, <1>3, <1>4, <1>5

\* An answer is taken, and the window becomes y.  That it still is, or becomes
\* again, somebody is by its own wish.
LEMMA TakenIsSteady ==
  ASSUME NEW x \in Window, NEW y \in Window, NEW d \in Seq(Message), NEW u \in Seq(Request),
         NEW s, NEW sp, NEW held, Steady(x, d, u, s, sp, held), d # <<>>, NEW e, e = d[1],
         e.is = "ack", y.asked = Tail(x.asked), y.told = x.told,
         y.identity \in {x.identity, 0} \/ (e.kind = "join" /\ x.asked[1].wanted),
         ~y.gaveUp => ~x.gaveUp, y.view = x.view \/ (Shows(e) /\ y.view = e.arg)
  PROVE  Steady(y, Tail(d), u, s, sp, held)
  <1>1. PICK p, n : /\ LineHolds(x, d, u, s, sp, p, n) /\ Lined(x.asked, d, u, p, n)
                    /\ s = "open" => p[Len(d)] >= n
                    /\ x.asked \in Seq(Pending) /\ n \in Nat /\ p[Len(d)] \in Nat
                    /\ p[Len(d)] <= n
    BY SteadyLine
  <1>2. PICK a, b, v, o : a = x.asked /\ b = y.asked /\ v = Tail(d) /\ o = CountOff(p, d)
    OBVIOUS
  <1>3. /\ a # <<>> /\ a[1].kind = e.kind /\ p[Len(d)] >= 1
        /\ Lined(b, v, u, o, n - 1) /\ o[Len(v)] = p[Len(d)] - 1
    BY <1>1, <1>2, LineTake
  <1>4. /\ b \in Seq(Pending) /\ 1 \in DOMAIN a /\ b = Tail(a) /\ a \in Seq(Pending)
        /\ \A k \in DOMAIN b : k \in Nat /\ k >= 1 /\ k + 1 \in DOMAIN a /\ b[k] = a[k + 1]
    BY <1>1, <1>2, <1>3, OneLess
  <1>5. /\ 1 \in DOMAIN d
        /\ \A k \in DOMAIN v : k \in Nat /\ k >= 1 /\ k + 1 \in DOMAIN d /\ v[k] = d[k + 1]
    BY <1>2, OneLess
  <1>6. SentOff(y, v) => SentOff(x, d)
    BY <1>5 DEF SentOff
  <1>7. \A i \in DOMAIN b : \A kind : Wants(y, i, kind) => Wants(x, i + 1, kind)
    BY <1>2, <1>4 DEF Wants
  <1>8. e.kind = "join" /\ x.asked[1].wanted => Wants(x, 1, "join")
    BY <1>2, <1>3 DEF Wants
  <1>9. InLine(y, v, u, s, sp)
    <2>1. s = "open" => o[Len(v)] >= n - 1
      BY <1>1, <1>3
    <2>2. ASSUME SentOff(y, v), sp # 0, NEW i \in 1..o[Len(v)] PROVE ~Wants(y, i, "join")
      <3>1. i + 1 \in 1..p[Len(d)]
        BY <1>1, <1>3
      <3>2. ~Wants(x, i + 1, "join")
        BY <1>1, <1>6, <2>2, <3>1 DEF LineHolds
      <3>3. i \in DOMAIN b
        <4>1. /\ Len(b) \in Nat /\ n - 1 \in Nat /\ Len(u) \in Nat /\ Len(b) = (n - 1) + Len(u)
              /\ o[Len(v)] <= n - 1 /\ DOMAIN b = 1..Len(b)
          <5>1. v \in Seq(Message)
            BY <1>2, OneLess
          <5>2. PICK m : m = n - 1
            OBVIOUS
          <5>3. Lined(b, v, u, o, m) /\ b \in Seq(Pending)
            BY <1>3, <1>4, <5>2
          <5>4. /\ Len(b) \in Nat /\ m \in Nat /\ Len(u) \in Nat /\ Len(b) = m + Len(u)
                /\ o[Len(v)] <= m
            BY <5>1, <5>3, LinePlaces
          <5>5. DOMAIN b = 1..Len(b)
            BY <1>4
          <5>q. QED BY <5>2, <5>4, <5>5
        <4>q. QED BY <1>1, <1>3, <2>2, <4>1
      <3>q. QED BY <1>7, <3>2, <3>3
    <2>q. QED BY <1>2, <1>3, <2>1, <2>2 DEF InLine, LineHolds
  <1>10. Disciplined(y)
    <2>1. \A i \in DOMAIN b : b[i].kind # "resume"
      <3> SUFFICES ASSUME NEW i \in DOMAIN b, b[i].kind = "resume" PROVE FALSE
        OBVIOUS
      <3>1. i + 1 \in DOMAIN a /\ a[i + 1].kind = "resume" /\ i + 1 # 1
        BY <1>4
      <3>q. QED BY <1>2, <3>1 DEF Steady, Disciplined
    <2>2. ASSUME y.identity # 0, NEW i \in DOMAIN b PROVE b[i].kind # "join"
      <3>1. i + 1 \in DOMAIN a /\ b[i] = a[i + 1] /\ 1 < i + 1
        BY <1>4
      <3>2. CASE x.identity # 0
        BY <1>2, <3>1, <3>2 DEF Steady, Disciplined
      <3>3. CASE Wants(x, 1, "join")
        BY <1>2, <1>4, <3>1, <3>3 DEF Steady, Disciplined
      <3>q. QED BY <1>8, <2>2, <3>2, <3>3
    <2>3. \A i, j \in DOMAIN b : Wants(y, i, "join") /\ i < j => b[j].kind # "join"
      <3> SUFFICES ASSUME NEW i \in DOMAIN b, NEW j \in DOMAIN b, Wants(y, i, "join"), i < j
                   PROVE  b[j].kind # "join"
        OBVIOUS
      <3>1. /\ i + 1 \in DOMAIN a /\ j + 1 \in DOMAIN a /\ b[j] = a[j + 1] /\ i + 1 < j + 1
            /\ Wants(x, i + 1, "join")
        BY <1>4, <1>7
      <3>q. QED BY <1>2, <3>1 DEF Steady, Disciplined
    <2>4. ~y.gaveUp => \A i \in DOMAIN b : b[i].kind = "read" => b[i].wanted
      BY <1>2, <1>4 DEF Steady, Disciplined
    <2>q. QED BY <1>2, <2>1, <2>2, <2>3, <2>4 DEF Disciplined
  <1>11. InSequence(y, v)
    <2>1. ASSUME NEW k \in DOMAIN v, Shows(v[k]) PROVE y.view <= v[k].arg
      <3>1. k + 1 \in DOMAIN d /\ v[k] = d[k + 1] /\ 1 < k + 1
        BY <1>5
      <3>q. QED BY <1>5, <2>1, <3>1 DEF Steady, InSequence
    <2>2. ASSUME NEW j \in DOMAIN v, NEW k \in DOMAIN v, Shows(v[j]), Shows(v[k]), j < k
          PROVE  v[j].arg <= v[k].arg
      <3>1. /\ k + 1 \in DOMAIN d /\ v[k] = d[k + 1] /\ j + 1 \in DOMAIN d /\ v[j] = d[j + 1]
            /\ j + 1 < k + 1
        BY <1>5, <2>2
      <3>q. QED BY <2>2, <3>1 DEF Steady, InSequence
    <2>q. QED BY <2>1, <2>2 DEF InSequence
  <1>12. SentOffFor(y, v, u, s, sp, held)
    <2>1. ASSUME SentOff(y, v) PROVE s # "open" /\ (y.identity # 0 => sp = 0)
      <3>1. SentOff(x, d) /\ s # "open" /\ (x.identity # 0 => sp = 0)
        BY <1>6, <2>1 DEF Steady, SentOffFor
      <3>2. CASE Wants(x, 1, "join")
        <4>1. 1 \in 1..p[Len(d)]
          BY <1>1, <1>3
        <4>q. QED BY <1>1, <3>1, <3>2, <4>1 DEF LineHolds
      <3>q. QED BY <1>8, <3>1, <3>2
    <2>q. QED BY <1>6, <2>1 DEF Steady, SentOffFor
  <1>q. QED BY <1>2, <1>9, <1>10, <1>11, <1>12 DEF Steady

\* What it then shows: the answer, or what it showed, unless the answer was the
\* reason to read.
LEMMA TakenIsUpToDate ==
  ASSUME NEW x \in Window, NEW y \in Window, NEW d \in Seq(Message), NEW u \in Seq(Request),
         NEW s, NEW sp, NEW held, NEW ann, ann \in Nat, WindowOk(x, d, u, s, sp, held, ann),
         d # <<>>, NEW e, e = d[1], e.is # "GAME",
         \/ y.identity = 0 \/ y.page # "shown" \/ y.gaveUp
         \/ /\ y.page = x.page /\ y.identity = x.identity /\ y.gaveUp = x.gaveUp
            /\ \/ Shows(e) /\ y.view = e.arg
               \/ ~Shows(e) /\ y.view = x.view
                  /\ ~(e.is = "ack" /\ e.kind = "resume" /\ e.ok)
  PROVE  UpToDate(y, Tail(d), u, s, sp, ann)
  <1>1. PICK v : v = Tail(d)
    OBVIOUS
  <1>2. /\ 1 \in DOMAIN d /\ d[1] \in Message
        /\ \A k \in DOMAIN d : k = 1 \/ (k - 1 \in DOMAIN v /\ v[k - 1] = d[k])
    BY <1>1, OneLess
  <1>3. CASE y.identity = 0 \/ y.page # "shown" \/ y.gaveUp
    BY <1>1, <1>3 DEF UpToDate
  <1>4. CASE /\ y.page = x.page /\ y.identity = x.identity /\ y.gaveUp = x.gaveUp
             /\ \/ Shows(e) /\ y.view = e.arg
                \/ ~Shows(e) /\ y.view = x.view /\ ~(e.is = "ack" /\ e.kind = "resume" /\ e.ok)
    <2> SUFFICES ASSUME x.page = "shown", s = "open", sp # 0, x.identity # 0, ~x.gaveUp
                 PROVE  y.view >= ann \/ ReasonToRead(v, u, ann)
      BY <1>1, <1>4 DEF UpToDate
    <2>1. x.view >= ann \/ ReasonToRead(d, u, ann)
      BY DEF WindowOk, UpToDate
    <2>2. CASE x.view >= ann
      <3>1. x.view \in Nat /\ e.arg \in Nat
        BY <1>2 DEF Window, Message
      <3>2. Shows(e) => x.view <= e.arg
        BY <1>2 DEF WindowOk, Steady, InSequence
      <3>q. QED BY <1>4, <2>2, <3>1, <3>2
    <2>3. CASE \E j \in DOMAIN u : u[j].kind = "read"
      BY <2>3 DEF ReasonToRead
    <2>4. ASSUME NEW k \in DOMAIN d,
                 \/ d[k].is = "GAME" \/ (Shows(d[k]) /\ d[k].arg >= ann)
                 \/ (d[k].is = "ack" /\ d[k].kind = "resume" /\ d[k].ok)
          PROVE  y.view >= ann \/ ReasonToRead(v, u, ann)
      <3>1. CASE k = 1
        <4>1. Shows(e) /\ e.arg >= ann
          BY <1>4, <2>4, <3>1 DEF Shows
        <4>q. QED BY <1>4, <4>1
      <3>2. CASE k - 1 \in DOMAIN v /\ v[k - 1] = d[k]
        BY <2>4, <3>2 DEF ReasonToRead
      <3>q. QED BY <1>2, <3>1, <3>2
    <2>q. QED BY <2>1, <2>2, <2>3, <2>4 DEF ReasonToRead
  <1>q. QED BY <1>3, <1>4

\* An event is taken: a window that is sent away says so from then on.
LEMMA EventTakenIsOk ==
  ASSUME NEW x \in Window, NEW y \in Window, NEW d \in Seq(Message), NEW u \in Seq(Request),
         NEW s, NEW sp, NEW held, NEW ann, WindowOk(x, d, u, s, sp, held, ann), ann \in Nat,
         d # <<>>, NEW e, e = d[1], e.is # "ack",
         y.asked = x.asked, y.identity = x.identity, y.gaveUp = x.gaveUp, y.view = x.view,
         y.told => x.told \/ e.is \in {"superseded", "removed"}
  PROVE  /\ Steady(y, Tail(d), u, s, sp, held)
         /\ y.page # "shown" \/ (y.page = x.page /\ e.is # "GAME")
                => UpToDate(y, Tail(d), u, s, sp, ann)
  <1>0. Steady(x, d, u, s, sp, held)
    BY DEF WindowOk
  <1>1. PICK p, n : /\ LineHolds(x, d, u, s, sp, p, n) /\ Lined(x.asked, d, u, p, n)
                    /\ s = "open" => p[Len(d)] >= n
                    /\ x.asked \in Seq(Pending)
    BY <1>0, SteadyLine
  <1>2. PICK a, v, o : a = x.asked /\ v = Tail(d) /\ o = CountOff(p, d)
    OBVIOUS
  <1>3. Lined(a, v, u, o, n) /\ o[Len(v)] = p[Len(d)]
    BY <1>1, <1>2, LineTake
  <1>4. /\ 1 \in DOMAIN d
        /\ \A k \in DOMAIN v : k \in Nat /\ k >= 1 /\ k + 1 \in DOMAIN d /\ v[k] = d[k + 1]
    BY <1>2, OneLess
  <1>5. SentOff(y, v) => SentOff(x, d)
    BY <1>4 DEF SentOff
  <1>6. InLine(y, v, u, s, sp)
    BY <1>1, <1>2, <1>3, <1>5 DEF InLine, LineHolds, Wants
  <1>7. Disciplined(y)
    BY <1>0 DEF Steady, Disciplined, Wants
  <1>8. InSequence(y, v)
    <2>1. \A k \in DOMAIN v : Shows(v[k]) => y.view <= v[k].arg
      BY <1>0, <1>4 DEF Steady, InSequence
    <2>2. ASSUME NEW j \in DOMAIN v, NEW k \in DOMAIN v, Shows(v[j]), Shows(v[k]), j < k
          PROVE  v[j].arg <= v[k].arg
      <3>1. /\ k + 1 \in DOMAIN d /\ v[k] = d[k + 1] /\ j + 1 \in DOMAIN d /\ v[j] = d[j + 1]
            /\ j + 1 < k + 1
        BY <1>4, <2>2
      <3>q. QED BY <1>0, <2>2, <3>1 DEF Steady, InSequence
    <2>q. QED BY <2>1, <2>2 DEF InSequence
  <1>9. SentOffFor(y, v, u, s, sp, held)
    BY <1>0, <1>5 DEF Steady, SentOffFor
  <1>10. ASSUME y.page # "shown" \/ (y.page = x.page /\ e.is # "GAME")
         PROVE  UpToDate(y, v, u, s, sp, ann)
    <2>1. CASE y.page # "shown"
      BY <2>1 DEF UpToDate
    <2>2. CASE y.page = x.page /\ e.is # "GAME"
      <3>1. ~Shows(e)
        BY DEF Shows
      <3>q. QED BY <1>2, <2>2, <3>1, TakenIsUpToDate
    <2>q. QED BY <1>10, <2>1, <2>2
  <1>q. QED BY <1>2, <1>6, <1>7, <1>8, <1>9, <1>10 DEF Steady

\* An answer is given up: with a resume the window forgets who it was, and with a
\* read it knows it may not show the game.
LEMMA TooLateIsSteady ==
  ASSUME NEW x \in Window, NEW y \in Window, NEW d \in Seq(Message), NEW u \in Seq(Request),
         NEW s, NEW sp, NEW held, Steady(x, d, u, s, sp, held), NEW i \in DOMAIN x.asked,
         Len(y.asked) = Len(x.asked),
         \A j \in DOMAIN x.asked : /\ y.asked[j].kind = x.asked[j].kind
                                   /\ y.asked[j].wanted => x.asked[j].wanted
                                   /\ x.asked[j].wanted /\ j # i => y.asked[j].wanted,
         y.told = x.told, y.view = x.view, y.identity \in {x.identity, 0},
         x.asked[i].kind = "resume" => y.identity = 0,
         x.asked[i].kind = "read" => y.gaveUp, ~y.gaveUp => ~x.gaveUp
  PROVE  Steady(y, d, u, s, sp, held)
  <1>1. PICK p, n : /\ LineHolds(x, d, u, s, sp, p, n) /\ Lined(x.asked, d, u, p, n)
                    /\ x.asked \in Seq(Pending) /\ Len(x.asked) \in Nat /\ n \in Nat
                    /\ Len(u) \in Nat /\ Len(x.asked) = n + Len(u)
                    /\ p[Len(d)] \in Nat /\ p[Len(d)] <= n
    BY SteadyLine
  <1>2. PICK a, b : a = x.asked /\ b = y.asked
    OBVIOUS
  <1>3. /\ a \in Seq(Pending) /\ b \in Seq(Pending) /\ Len(b) = Len(a) /\ i \in DOMAIN a
        /\ DOMAIN a = 1..Len(a) /\ DOMAIN b = 1..Len(a) /\ Len(a) \in Nat
    BY <1>2 DEF Window
  <1>4. \A j \in DOMAIN a : /\ b[j].kind = a[j].kind /\ (b[j].wanted => a[j].wanted)
                            /\ a[j].wanted /\ j # i => b[j].wanted
    BY <1>2
  <1>5. SentOff(y, d) = SentOff(x, d)
    BY DEF SentOff
  <1>6. \A j \in DOMAIN a : \A kind : Wants(y, j, kind) => Wants(x, j, kind)
    BY <1>2, <1>4 DEF Wants
  <1>7. InLine(y, d, u, s, sp)
    <2>1. Lined(b, d, u, p, n)
      <3>1. \A j \in 1..Len(a) : b[j].kind = a[j].kind
        BY <1>3, <1>4
      <3>2. Lined(a, d, u, p, n)
        BY <1>1, <1>2
      <3>q. QED BY <1>3, <3>1, <3>2, LineKeeps
    <2>2. \A j \in 1..p[Len(d)] : j \in DOMAIN a
      BY <1>1, <1>2, <1>3
    <2>q. QED BY <1>1, <1>2, <1>5, <1>6, <2>1, <2>2 DEF InLine, LineHolds
  <1>8. Disciplined(y)
    <2>1. \A j \in DOMAIN b : b[j].kind = "resume" => j = 1 /\ (~b[j].wanted => y.identity = 0)
      <3> SUFFICES ASSUME NEW j \in DOMAIN a, a[j].kind = "resume"
                   PROVE  j = 1 /\ (~b[j].wanted => y.identity = 0)
        BY <1>3, <1>4
      <3>1. j = 1 /\ (~a[j].wanted => x.identity = 0)
        BY <1>2 DEF Steady, Disciplined
      <3>2. CASE j = i
        BY <1>2, <3>1, <3>2
      <3>3. CASE j # i
        BY <1>4, <3>1, <3>3
      <3>q. QED BY <3>2, <3>3
    <2>2. y.identity # 0 => \A j \in DOMAIN b : b[j].kind # "join"
      BY <1>2, <1>3, <1>4 DEF Steady, Disciplined
    <2>3. \A j, k \in DOMAIN b : Wants(y, j, "join") /\ j < k => b[k].kind # "join"
      BY <1>2, <1>3, <1>4, <1>6 DEF Steady, Disciplined
    <2>4. ~y.gaveUp => \A j \in DOMAIN b : b[j].kind = "read" => b[j].wanted
      <3> SUFFICES ASSUME ~y.gaveUp, NEW j \in DOMAIN a, a[j].kind = "read" PROVE b[j].wanted
        BY <1>3, <1>4
      <3>1. a[j].wanted
        BY <1>2 DEF Steady, Disciplined
      <3>2. j # i
        BY <1>2
      <3>q. QED BY <1>4, <3>1, <3>2
    <2>q. QED BY <1>2, <2>1, <2>2, <2>3, <2>4 DEF Disciplined
  <1>9. InSequence(y, d)
    BY DEF Steady, InSequence
  <1>10. SentOffFor(y, d, u, s, sp, held)
    BY <1>5 DEF Steady, SentOffFor
  <1>q. QED BY <1>7, <1>8, <1>9, <1>10 DEF Steady

\* A window that shows no less, or has nothing to show.
LEMMA ShowingNoLess ==
  ASSUME NEW x, NEW y, NEW d, NEW u, NEW s, NEW sp, NEW ann, UpToDate(x, d, u, s, sp, ann),
         \/ y.identity = 0 \/ y.page # "shown" \/ y.gaveUp
         \/ y.page = x.page /\ y.identity = x.identity /\ y.gaveUp = x.gaveUp /\ y.view = x.view
  PROVE  UpToDate(y, d, u, s, sp, ann)
  BY DEF UpToDate

-----------------------------------------------------------------------------
(* One window moves, or the server does, and the rest stands still.        *)

\* What is so of a window that is open, spelled out.
LEMMA OkIs ==
  ASSUME PhInv, NEW w \in Windows, win[w].open, NEW c, c = win[w].socket
  PROVE  /\ WindowOk(win[w], down[c], up[c], served[c], speaks[c], HeldBy(c), announced)
         /\ c \in Conns /\ win[w] \in Window /\ down[c] \in Seq(Message) /\ up[c] \in Seq(Request)
         /\ served[c] \in {"open", "closing", "closed"} /\ announced \in Nat
  <1>1. c \in Conns /\ Ok(w) /\ win[w] \in Window
    BY WindowFacts
  <1>2. served[c] \in {"open", "closing", "closed"}
    BY <1>1, CountsAreNaturals DEF PhInv, WindowInv
  <1>3. down[c] \in Seq(Message) /\ up[c] \in Seq(Request) /\ announced \in Nat
    BY <1>1, CountsAreNaturals DEF PhInv, DownOk, WinUp
  <1>q. QED BY <1>1, <1>2, <1>3 DEF Ok

\* Window w becomes y, and nothing but it and its socket moves.
OnlyMoves(w, c, y) ==
    /\ win' = [win EXCEPT ![w] = y] /\ c = win[w].socket
    /\ \A b \in Conns : b # c => up'[b] = up[b] /\ down'[b] = down[b] /\ served'[b] = served[b]
    /\ \A b \in Conns : served'[b] = "unused" =>
           served[b] = "unused" /\ up'[b] = up[b] /\ down'[b] = down[b]
    /\ seatVars' = seatVars /\ logVars' = logVars /\ lost' = lost

\* What is to be known of the window it becomes, and, if that is open, that all
\* is as it should be between it and its socket.
Stands(c, y) ==
    /\ y \in Window
    /\ y.socket \in {None, c} \/ \A v \in Windows : win[v].socket # y.socket
    /\ y.open => y.socket = c /\ c # None /\ served'[c] # "unused"
    /\ y.socket # None /\ ~y.open => served'[y.socket] = "unused"
    /\ ~y.open => y.asked = <<>>
    /\ y.socket # None => ~y.retrying
    /\ y.told => y.byUs /\ ~y.retrying
    /\ y.told /\ y.socket # None => y.open
    /\ y.page # "closed" /\ ~y.byUs => y.socket # None \/ y.retrying

StaysOk(c, y) ==
    y.open => WindowOk(y, down'[c], up'[c], served'[c], speaks[c], HeldBy(c), announced)

\* If it is one window that moves, and it stays right, the invariant holds.
LEMMA WindowMoved ==
  ASSUME PhInv, NEW w \in Windows, NEW c, NEW y, OnlyMoves(w, c, y), Stands(c, y), StaysOk(c, y)
  PROVE  SocketInv' /\ WindowInv' /\ OpenInv' /\ NeverGivesUp'
  <1>1. /\ \A v \in Windows : win'[v] = IF v = w THEN y ELSE win[v]
        /\ bound' = bound /\ speaks' = speaks /\ seats' = seats /\ announced' = announced
        /\ \A v \in Windows : win[v].socket \in Conns \cup {None}
        /\ None \notin Conns
    <2>1. win \in [Windows -> Window]
      BY WindowFacts
    <2>q. QED BY <2>1, PhoneAssumption DEF OnlyMoves, Window, seatVars, logVars
  <1>2. SocketInv'
    BY <1>1 DEF PhInv, SocketInv, OnlyMoves
  <1>3. \A v \in Windows : v # w /\ win[v].socket # None =>
            win[v].socket \in Conns /\ win[v].socket # c
    BY <1>1 DEF PhInv, WindowInv, OnlyMoves
  <1>4. WindowInv'
    <2>1. ASSUME NEW v \in Windows, NEW t \in Windows, v # t
          PROVE  win'[v].socket # win'[t].socket \/ win'[v].socket = None
      BY <1>1, <2>1 DEF PhInv, WindowInv, OnlyMoves, Stands
    <2>2. ASSUME NEW v \in Windows, v # w
          PROVE  LET x == win'[v] IN
                 /\ x.open => x.socket # None /\ served'[x.socket] # "unused"
                 /\ x.socket # None /\ ~x.open => served'[x.socket] = "unused"
                 /\ ~x.open => x.asked = <<>>
                 /\ x.socket # None => ~x.retrying
                 /\ x.told => x.byUs /\ ~x.retrying
                 /\ x.told /\ x.socket # None => x.open
      BY <1>1, <1>3, <2>2 DEF PhInv, WindowInv, OnlyMoves
    <2>3. LET x == win'[w] IN
                 /\ x.open => x.socket # None /\ served'[x.socket] # "unused"
                 /\ x.socket # None /\ ~x.open => served'[x.socket] = "unused"
                 /\ ~x.open => x.asked = <<>>
                 /\ x.socket # None => ~x.retrying
                 /\ x.told => x.byUs /\ ~x.retrying
                 /\ x.told /\ x.socket # None => x.open
      BY <1>1 DEF Stands
    <2>q. QED BY <2>1, <2>2, <2>3 DEF WindowInv
  <1>5. OpenInv'
    <2> SUFFICES ASSUME NEW v \in Windows, win'[v].open PROVE Ok(v)'
      BY DEF OpenInv
    <2>1. CASE v = w
      <3>1. win'[v] = y /\ y.socket = c
        BY <1>1, <2>1 DEF Stands
      <3>2. HeldBy(c)' = HeldBy(c)
        BY <1>1 DEF HeldBy
      <3>q. QED BY <1>1, <3>1, <3>2 DEF Ok, StaysOk
    <2>2. CASE v # w
      <3>1. PICK b : b = win[v].socket
        OBVIOUS
      <3>2. win'[v] = win[v] /\ win[v].open /\ b # None
        BY <1>1, <2>2, <3>1 DEF PhInv, WindowInv
      <3>3. /\ b \in Conns /\ up'[b] = up[b] /\ down'[b] = down[b] /\ served'[b] = served[b]
        BY <1>3, <2>2, <3>1, <3>2 DEF OnlyMoves
      <3>4. WindowOk(win[v], down[b], up[b], served[b], speaks[b], HeldBy(b), announced)
        BY <3>1, <3>2, OkIs
      <3>5. HeldBy(b)' = HeldBy(b)
        BY <1>1 DEF HeldBy
      <3>q. QED BY <1>1, <3>1, <3>2, <3>3, <3>4, <3>5 DEF Ok
    <2>q. QED BY <2>1, <2>2
  <1>6. NeverGivesUp'
    BY <1>1 DEF PhInv, NeverGivesUp, Stands
  <1>q. QED BY <1>2, <1>4, <1>5, <1>6

\* If the windows stand still, and their sockets stay right, the invariant holds.
LEMMA ServerMoved ==
  ASSUME PhInv, win' = win,
         \A c \in Conns : served[c] = "unused" =>
             /\ served'[c] = "unused" /\ up'[c] = up[c] /\ down'[c] = down[c] /\ speaks'[c] = 0
             /\ \A n \in DOMAIN seats' : seats'[n] # c,
         \A c \in Conns : served[c] # "unused" => served'[c] # "unused",
         \A c \in Conns : speaks'[c] # 0 => c \in bound',
         lost' => speaks' = [c \in Conns |-> 0],
         \A v \in Windows, c \in Conns : win[v].open /\ win[v].socket = c =>
             WindowOk(win[v], down'[c], up'[c], served'[c], speaks'[c], HeldBy(c)', announced')
  PROVE  SocketInv' /\ WindowInv' /\ OpenInv' /\ NeverGivesUp'
  <1>1. \A v \in Windows : win[v].socket \in Conns \cup {None}
    BY WindowFacts
  <1>2. SocketInv'
    <2>1. \A c \in Conns : served'[c] = "unused" => served[c] = "unused"
      OBVIOUS
    <2>q. QED BY <2>1 DEF PhInv, SocketInv
  <1>3. WindowInv'
    <2>1. \A v, w \in Windows : v # w => win[v].socket # win[w].socket \/ win[v].socket = None
      BY DEF PhInv, WindowInv
    <2>2. ASSUME NEW v \in Windows
          PROVE  LET x == win[v] IN
                 /\ x.open => x.socket # None /\ served'[x.socket] # "unused"
                 /\ x.socket # None /\ ~x.open => served'[x.socket] = "unused"
                 /\ ~x.open => x.asked = <<>>
                 /\ x.socket # None => ~x.retrying
                 /\ x.told => x.byUs /\ ~x.retrying
                 /\ x.told /\ x.socket # None => x.open
      BY <1>1 DEF PhInv, WindowInv
    <2>q. QED BY <2>1, <2>2 DEF WindowInv
  <1>4. OpenInv'
    <2> SUFFICES ASSUME NEW v \in Windows, win[v].open PROVE Ok(v)'
      BY DEF OpenInv
    <2>1. PICK c : c = win[v].socket
      OBVIOUS
    <2>2. c \in Conns
      BY <2>1, OkIs
    <2>q. QED BY <2>1, <2>2 DEF Ok
  <1>5. NeverGivesUp'
    BY DEF PhInv, NeverGivesUp
  <1>q. QED BY <1>2, <1>3, <1>4, <1>5

-----------------------------------------------------------------------------
(* Every step of a window keeps the invariant. *)

\* The invariant: opening the page.
LEMMA LoadKeeps ==
  ASSUME PhInv, NEW w \in Windows, NEW c \in Conns, Load(w, c)
  PROVE  PhInv'
  <1>1. PICK y, b : y = Loaded(c) /\ b = win[w].socket
    OBVIOUS
  <1>2. /\ win' = [win EXCEPT ![w] = y] /\ up' = up /\ down' = down /\ served' = served
        /\ seatVars' = seatVars /\ logVars' = logVars /\ lost' = lost
        /\ served[c] = "unused" /\ \A v \in Windows : win[v].socket # c
    BY <1>1 DEF Load, Loaded, Unused, netVars, seatVars, logVars
  <1>3. /\ y \in Window /\ y.socket = c /\ ~y.open /\ ~y.retrying /\ ~y.byUs /\ ~y.told
        /\ y.asked = <<>> /\ c # None
    BY <1>1, LoadedIs, WindowFacts
  <1>4. OnlyMoves(w, b, y)
    BY <1>1, <1>2 DEF OnlyMoves
  <1>5. Stands(b, y) /\ StaysOk(b, y)
    BY <1>2, <1>3 DEF Stands, StaysOk
  <1>6. SocketInv' /\ WindowInv' /\ OpenInv' /\ NeverGivesUp'
    BY <1>4, <1>5, WindowMoved
  <1>q. QED BY <1>6, LoadTypes DEF PhInv

\* The invariant: trying again.
LEMMA RetryKeeps ==
  ASSUME PhInv, NEW w \in Windows, NEW c \in Conns, Retry(w, c)
  PROVE  PhInv'
  <1>1. PICK y, b : y = Retried(win[w], c) /\ b = win[w].socket
    OBVIOUS
  <1>2. /\ win' = [win EXCEPT ![w] = y] /\ up' = up /\ down' = down /\ served' = served
        /\ seatVars' = seatVars /\ logVars' = logVars /\ lost' = lost
        /\ served[c] = "unused" /\ \A v \in Windows : win[v].socket # c
        /\ win[w].retrying
    BY <1>1 DEF Retry, Retried, Unused, SendsNothing, seatVars, logVars
  <1>3. ~win[w].open /\ win[w].asked = <<>> /\ ~win[w].told
    BY <1>2 DEF PhInv, WindowInv
  <1>4. /\ y \in Window /\ y.socket = c /\ ~y.open /\ ~y.retrying /\ ~y.byUs /\ ~y.told
        /\ y.asked = <<>> /\ c # None
    <2>1. win[w] \in Window /\ c # None
      BY WindowFacts
    <2>2. /\ y \in Window /\ y.socket = c /\ y.open = win[w].open /\ ~y.retrying /\ ~y.byUs
          /\ y.told = win[w].told /\ y.asked = win[w].asked
      BY <1>1, <2>1, RetriedIs
    <2>q. QED BY <1>3, <2>1, <2>2
  <1>5. OnlyMoves(w, b, y)
    BY <1>1, <1>2 DEF OnlyMoves
  <1>6. Stands(b, y) /\ StaysOk(b, y)
    BY <1>2, <1>4 DEF Stands, StaysOk
  <1>7. SocketInv' /\ WindowInv' /\ OpenInv' /\ NeverGivesUp'
    BY <1>5, <1>6, WindowMoved
  <1>q. QED BY <1>7, RetryTypes DEF PhInv

\* The invariant: a connection refused.
LEMMA ConnectFailsKeeps ==
  ASSUME PhInv, NEW w \in Windows, ConnectFails(w)
  PROVE  PhInv'
  <1>1. PICK y, b : y = SocketGone(win[w]) /\ b = win[w].socket
    OBVIOUS
  <1>2. /\ win' = [win EXCEPT ![w] = y] /\ up' = up /\ down' = down /\ served' = served
        /\ seatVars' = seatVars /\ logVars' = logVars /\ lost' = lost
        /\ win[w].socket # None /\ ~win[w].open
    BY <1>1 DEF ConnectFails, SendsNothing, seatVars, logVars
  <1>3. ~win[w].told
    BY <1>2 DEF PhInv, WindowInv
  <1>4. /\ y \in Window /\ y.socket = None /\ ~y.open /\ y.retrying = ~y.byUs /\ ~y.told
        /\ y.asked = <<>>
    BY <1>1, <1>3, GoneIs, WindowFacts
  <1>5. OnlyMoves(w, b, y)
    BY <1>1, <1>2 DEF OnlyMoves
  <1>6. Stands(b, y) /\ StaysOk(b, y)
    BY <1>4 DEF Stands, StaysOk
  <1>7. SocketInv' /\ WindowInv' /\ OpenInv' /\ NeverGivesUp'
    BY <1>5, <1>6, WindowMoved
  <1>q. QED BY <1>7, ConnectFailsTypes DEF PhInv

\* The invariant: a connection dropped.
LEMMA DropsKeeps ==
  ASSUME PhInv, NEW w \in Windows, Drops(w)
  PROVE  PhInv'
  <1>1. PICK c : c = win[w].socket
    OBVIOUS
  <1>2. PICK y : Broken(win[w], y) /\ SendsNothing(w, y)
    BY DropsAs, WindowFacts
  <1>3. /\ win' = [win EXCEPT ![w] = y] /\ up' = up /\ served' = served
        /\ down' = [down EXCEPT ![c] = <<>>]
        /\ seatVars' = seatVars /\ logVars' = logVars /\ lost' = lost
    BY <1>1, <1>2, DropsAs, WindowFacts DEF SendsNothing
  <1>4. c \in Conns /\ served[c] # "unused" /\ (win[w].told => win[w].byUs)
        /\ down \in [Conns -> Seq(Message)]
    BY <1>1, WindowFacts, CountsAreNaturals DEF PhInv, WindowInv, Drops, DownOk
  <1>5. /\ y \in Window /\ y.socket = None /\ ~y.open /\ y.retrying = ~y.byUs
        /\ (y.told => y.byUs) /\ y.asked = <<>>
    BY <1>2, <1>4 DEF Broken
  <1>6. OnlyMoves(w, c, y)
    BY <1>1, <1>3, <1>4 DEF OnlyMoves
  <1>7. Stands(c, y) /\ StaysOk(c, y)
    BY <1>5 DEF Stands, StaysOk
  <1>8. SocketInv' /\ WindowInv' /\ OpenInv' /\ NeverGivesUp'
    BY <1>6, <1>7, WindowMoved
  <1>q. QED BY <1>8, DropsTypes DEF PhInv

\* What goes up where a window sends.
LEMMA SentIs ==
  ASSUME PhInv, NEW w \in Windows, NEW x \in Window, NEW c \in Conns, x.socket = c,
         NEW kind \in Kinds, NEW arg \in Nat, Sends(w, x, kind, arg)
  PROVE  /\ win' = [win EXCEPT ![w] = Asked(x, kind)]
         /\ up'[c] = Append(up[c], [kind |-> kind, arg |-> arg])
         /\ [kind |-> kind, arg |-> arg] \in Request
         /\ \A b \in Conns : b # c => up'[b] = up[b]
         /\ up[c] \in Seq(Request)
  <1>1. up \in [Conns -> Seq(Request)]
    BY WindowFacts DEF WinUp
  <1>q. QED BY <1>1 DEF Sends, Request

\* The invariant: a connection made.
LEMMA ConnectedKeeps ==
  ASSUME PhInv, NEW w \in Windows, Connected(w)
  PROVE  PhInv'
  <1>1. PICK m, x, c : m = ToResume(win[w]) /\ x = Opened(win[w], m) /\ c = win[w].socket
    OBVIOUS
  <1>2. /\ IF m = 0 THEN SendsNothing(w, x) ELSE Sends(w, x, "resume", m)
        /\ served' = [served EXCEPT ![c] = "open"]
        /\ down' = down /\ seatVars' = seatVars /\ logVars' = logVars /\ lost' = lost
        /\ c # None /\ ~win[w].open
    BY <1>1 DEF Connected, Opened, seatVars, logVars
  <1>3. m \in Nat /\ c \in Conns /\ served \in [Conns -> {"unused", "open", "closing", "closed"}]
    BY <1>1, <1>2, WindowFacts, CountsAreNaturals DEF ToResume
  <1>4. /\ win[w].asked = <<>> /\ ~win[w].retrying /\ ~win[w].told
        /\ served[c] = "unused"
    BY <1>1, <1>2 DEF PhInv, WindowInv
  <1>5. up[c] = <<>> /\ down[c] = <<>> /\ speaks[c] = 0 /\ HeldBy(c) = {}
    BY <1>3, <1>4 DEF PhInv, SocketInv, HeldBy
  <1>6. /\ x \in Window /\ x.socket = c /\ x.open /\ ~x.retrying /\ ~x.told
        /\ x.asked = <<>>
    <2>1. win[w] \in Window
      BY WindowFacts
    <2>2. /\ x \in Window /\ x.socket = win[w].socket /\ x.open = TRUE
          /\ x.retrying = win[w].retrying /\ x.told = win[w].told /\ x.asked = win[w].asked
      BY <1>1, <1>3, <2>1, OpenedIs
    <2>q. QED BY <1>1, <1>4, <2>1, <2>2
  <1>7. served'[c] = "open" /\ \A b \in Conns : b # c => served'[b] = served[b]
    BY <1>2, <1>3
  <1>8. CASE m = 0
    <2>1. win' = [win EXCEPT ![w] = x] /\ up' = up
      BY <1>2, <1>8 DEF SendsNothing
    <2>2. WindowOk(x, down'[c], up'[c], served'[c], speaks[c], HeldBy(c), announced)
      <3>1. PICK u, d, z, sp, h, ann : /\ u = up'[c] /\ d = down'[c] /\ z = served'[c]
                                       /\ sp = speaks[c] /\ h = HeldBy(c) /\ ann = announced
        OBVIOUS
      <3>2. u = <<>> /\ d = <<>> /\ sp = 0 /\ h = {}
        BY <1>2, <1>5, <2>1, <3>1
      <3>3. Len(u) = 0 /\ u \in Seq(Request)
        BY <3>2
      <3>4. Len(u) \in {0, 1} /\ Len(x.asked) = Len(u) /\ x \in Window /\ ~x.told
        BY <1>6, <3>2, <3>3
      <3>5. \A j \in 1..Len(u) :
                u[j].kind = "resume" /\ x.asked[j].kind = "resume" /\ x.asked[j].wanted
        BY <3>3
      <3>6. d = <<>> /\ sp = 0 /\ h = {} /\ u \in Seq(Request)
        BY <3>2, <3>3
      <3>7. WindowOk(x, d, u, z, sp, h, ann)
        BY <3>4, <3>5, <3>6, OpeningIsOk
      <3>q. QED BY <3>1, <3>7
    <2>3. SocketInv' /\ WindowInv' /\ OpenInv' /\ NeverGivesUp'
      <3>1. OnlyMoves(w, c, x)
        BY <1>1, <1>2, <1>7, <2>1 DEF OnlyMoves
      <3>2. Stands(c, x)
        BY <1>2, <1>6, <1>7 DEF Stands
      <3>3. StaysOk(c, x)
        BY <2>2 DEF StaysOk
      <3>q. QED BY <3>1, <3>2, <3>3, WindowMoved
    <2>q. QED BY <2>3, ConnectedTypes DEF PhInv
  <1>9. CASE m # 0
    <2>1. PICK y, r, q : /\ y = Asked(x, "resume") /\ r = [kind |-> "resume", arg |-> m]
                         /\ q = [kind |-> "resume", wanted |-> TRUE]
      OBVIOUS
    <2>2. "resume" \in Kinds /\ Sends(w, x, "resume", m)
      BY <1>2, <1>9 DEF Kinds
    <2>3. /\ win' = [win EXCEPT ![w] = y] /\ up'[c] = Append(up[c], r) /\ r \in Request
          /\ \A b \in Conns : b # c => up'[b] = up[b]
      BY <1>3, <1>6, <2>1, <2>2, SentIs
    <2>4. y \in Window /\ Alike(x, y) /\ y.asked = Append(x.asked, q) /\ q \in Pending
      BY <1>6, <2>1, <2>2, AskedIs
    <2>5. WindowOk(y, down'[c], up'[c], served'[c], speaks[c], HeldBy(c), announced)
      <3>1. PICK u, a, d, z, sp, h, ann :
               /\ u = up'[c] /\ a = y.asked /\ d = down'[c] /\ z = served'[c]
               /\ sp = speaks[c] /\ h = HeldBy(c) /\ ann = announced
        OBVIOUS
      <3>2. /\ u \in Seq(Request) /\ Len(u) = 1 /\ u[1] = r
            /\ d = <<>> /\ sp = 0 /\ h = {}
        BY <1>2, <1>5, <2>3, <3>1
      <3>3. Len(a) = 1 /\ a[1] = q
        BY <1>6, <2>4, <3>1
      <3>4. r.kind = "resume" /\ q.kind = "resume" /\ q.wanted
        BY <2>1
      <3>5. \A j \in 1..Len(u) :
                u[j].kind = "resume" /\ y.asked[j].kind = "resume" /\ y.asked[j].wanted
        BY <3>1, <3>2, <3>3, <3>4 DEF Wants
      <3>6. Len(u) \in {0, 1} /\ Len(y.asked) = Len(u) /\ y \in Window /\ ~y.told
        BY <1>6, <2>4, <3>1, <3>2, <3>3 DEF Alike
      <3>7. WindowOk(y, d, u, z, sp, h, ann)
        BY <3>2, <3>5, <3>6, OpeningIsOk
      <3>q. QED BY <3>1, <3>7
    <2>6. SocketInv' /\ WindowInv' /\ OpenInv' /\ NeverGivesUp'
      <3>1. OnlyMoves(w, c, y)
        BY <1>1, <1>2, <1>7, <2>3 DEF OnlyMoves
      <3>2. Stands(c, y)
        BY <1>2, <1>6, <1>7, <2>4 DEF Stands, Alike
      <3>3. StaysOk(c, y)
        BY <2>5 DEF StaysOk
      <3>q. QED BY <3>1, <3>2, <3>3, WindowMoved
    <2>q. QED BY <2>6, ConnectedTypes DEF PhInv
  <1>q. QED BY <1>8, <1>9

\* A window whose socket is open goes on with it, having read what came down, and
\* sends a request.
LEMMA SendKeeps ==
  ASSUME PhInv, NEW w \in Windows, win[w].open, NEW c, c = win[w].socket,
         NEW x \in Window, x.socket = c, x.open, ~x.retrying, x.told => x.byUs,
         served' = served, seatVars' = seatVars, logVars' = logVars, lost' = lost,
         NEW d \in Seq(Message), down' = [down EXCEPT ![c] = d],
         Steady(x, d, up[c], served[c], speaks[c], HeldBy(c)),
         NEW kind \in Kinds, kind # "resume", NEW arg \in Nat, Sends(w, x, kind, arg),
         kind = "join" => x.identity = 0 /\ \A i \in DOMAIN x.asked : ~Wants(x, i, "join"),
         kind = "read" \/ UpToDate(x, d, up[c], served[c], speaks[c], announced)
  PROVE  SocketInv' /\ WindowInv' /\ OpenInv' /\ NeverGivesUp'
  <1>1. PICK y, r, q : /\ y = Asked(x, kind) /\ r = [kind |-> kind, arg |-> arg]
                       /\ q = [kind |-> kind, wanted |-> TRUE]
    OBVIOUS
  <1>2. c \in Conns /\ served[c] \in {"open", "closing", "closed"} /\ c # None
    BY OkIs, WindowFacts
  <1>3. /\ win' = [win EXCEPT ![w] = y] /\ up'[c] = Append(up[c], r) /\ r \in Request
        /\ \A b \in Conns : b # c => up'[b] = up[b]
        /\ up[c] \in Seq(Request)
    BY <1>1, <1>2, SentIs
  <1>4. y \in Window /\ Alike(x, y) /\ y.asked = Append(x.asked, q) /\ q \in Pending
    BY <1>1, AskedIs
  <1>5. r.kind = kind /\ q.kind = kind /\ q.wanted
    BY <1>1
  <1>6. down'[c] = d /\ served'[c] = served[c] /\ \A b \in Conns : b # c => down'[b] = down[b]
    <2>1. down \in [Conns -> Seq(Message)]
      BY CountsAreNaturals DEF PhInv, DownOk
    <2>q. QED BY <1>2, <2>1
  <1>7. OnlyMoves(w, c, y)
    BY <1>2, <1>3, <1>6 DEF OnlyMoves
  <1>8. Stands(c, y)
    BY <1>2, <1>4, <1>6 DEF Stands, Alike
  <1>9. StaysOk(c, y)
    <2>1. PICK u, s, sp, h, ann : /\ u = up[c] /\ s = served[c] /\ sp = speaks[c]
                                  /\ h = HeldBy(c) /\ ann = announced
      OBVIOUS
    <2>2. Steady(y, d, Append(u, r), s, sp, h)
      BY <1>3, <1>4, <1>5, <2>1, SteadyAsks
    <2>3. UpToDate(y, d, Append(u, r), s, sp, ann)
      <3>1. kind = "read" => UpToDate(y, d, Append(u, r), s, sp, ann)
        BY <1>3, <1>5, <2>1, ReadingIsUpToDate
      <3>2. ReasonToRead(d, u, ann) => ReasonToRead(d, Append(u, r), ann)
        BY <1>3, <2>1, ReadingIsUpToDate
      <3>3. UpToDate(x, d, u, s, sp, ann) => UpToDate(y, d, Append(u, r), s, sp, ann)
        BY <1>4, <3>2 DEF UpToDate, Alike
      <3>q. QED BY <2>1, <3>1, <3>3
    <2>4. WindowOk(y, d, Append(u, r), s, sp, h, ann)
      BY <2>2, <2>3 DEF WindowOk
    <2>q. QED BY <1>3, <1>6, <2>1, <2>4 DEF StaysOk
  <1>q. QED BY <1>7, <1>8, <1>9, WindowMoved

\* Or sends nothing.
LEMMA RestKeeps ==
  ASSUME PhInv, NEW w \in Windows, win[w].open, NEW c, c = win[w].socket,
         NEW x \in Window, x.socket = c, x.open, ~x.retrying, x.told => x.byUs,
         served' = served, seatVars' = seatVars, logVars' = logVars, lost' = lost,
         NEW d \in Seq(Message), down' = [down EXCEPT ![c] = d],
         WindowOk(x, d, up[c], served[c], speaks[c], HeldBy(c), announced),
         SendsNothing(w, x)
  PROVE  SocketInv' /\ WindowInv' /\ OpenInv' /\ NeverGivesUp'
  <1>1. c \in Conns /\ served[c] \in {"open", "closing", "closed"} /\ c # None
    BY OkIs, WindowFacts
  <1>2. win' = [win EXCEPT ![w] = x] /\ up' = up
    BY DEF SendsNothing
  <1>3. down'[c] = d /\ served'[c] = served[c] /\ \A b \in Conns : b # c => down'[b] = down[b]
    <2>1. down \in [Conns -> Seq(Message)]
      BY CountsAreNaturals DEF PhInv, DownOk
    <2>q. QED BY <1>1, <2>1
  <1>4. OnlyMoves(w, c, x)
    BY <1>1, <1>2, <1>3 DEF OnlyMoves
  <1>5. Stands(c, x) /\ StaysOk(c, x)
    BY <1>1, <1>2, <1>3 DEF Stands, StaysOk
  <1>q. QED BY <1>4, <1>5, WindowMoved

\* What is so of a window whose socket is open, and of one that only sends.
LEMMA OpenFacts ==
  ASSUME PhInv, NEW w \in Windows, win[w].open, NEW c, c = win[w].socket
  PROVE  /\ win[w] \in Window /\ ~win[w].retrying /\ (win[w].told => win[w].byUs)
         /\ c \in Conns /\ down \in [Conns -> Seq(Message)]
         /\ down[c] \in Seq(Message) /\ up[c] \in Seq(Request)
         /\ down = [down EXCEPT ![c] = down[c]]
         /\ Steady(win[w], down[c], up[c], served[c], speaks[c], HeldBy(c))
         /\ UpToDate(win[w], down[c], up[c], served[c], speaks[c], announced)
         /\ WindowOk(win[w], down[c], up[c], served[c], speaks[c], HeldBy(c), announced)
  <1>1. down \in [Conns -> Seq(Message)]
    BY CountsAreNaturals DEF PhInv, DownOk
  <1>2. /\ WindowOk(win[w], down[c], up[c], served[c], speaks[c], HeldBy(c), announced)
        /\ c \in Conns /\ win[w] \in Window /\ up[c] \in Seq(Request)
    BY OkIs
  <1>3. win[w].socket # None /\ ~win[w].retrying /\ (win[w].told => win[w].byUs)
    BY DEF PhInv, WindowInv
  <1>4. /\ Steady(win[w], down[c], up[c], served[c], speaks[c], HeldBy(c))
        /\ UpToDate(win[w], down[c], up[c], served[c], speaks[c], announced)
    BY <1>2 DEF WindowOk
  <1>5. down = [down EXCEPT ![c] = down[c]] /\ down[c] \in Seq(Message)
    BY <1>1, <1>2
  <1>q. QED BY <1>1, <1>2, <1>3, <1>4, <1>5

\* A request of the player's, whatever it asks for.
LEMMA AskKeeps ==
  ASSUME PhInv, NEW w \in Windows, win[w].open,
         UNCHANGED <<down, served, seatVars, logVars, lost>>,
         NEW kind \in Kinds, kind # "resume", NEW arg \in Nat, Sends(w, win[w], kind, arg),
         kind = "join" => win[w].identity = 0
                          /\ \A i \in DOMAIN win[w].asked : ~Wants(win[w], i, "join")
  PROVE  SocketInv' /\ WindowInv' /\ OpenInv' /\ NeverGivesUp'
  <1>1. PICK c, x, d : c = win[w].socket /\ x = win[w] /\ d = down[c]
    OBVIOUS
  <1>2. /\ x \in Window /\ x.socket = c /\ x.open /\ ~x.retrying /\ (x.told => x.byUs)
        /\ d \in Seq(Message) /\ down' = [down EXCEPT ![c] = d]
        /\ Steady(x, d, up[c], served[c], speaks[c], HeldBy(c))
        /\ UpToDate(x, d, up[c], served[c], speaks[c], announced)
    BY <1>1, OpenFacts
  <1>3. served' = served /\ seatVars' = seatVars /\ logVars' = logVars /\ lost' = lost
    OBVIOUS
  <1>4. Sends(w, x, kind, arg)
    BY <1>1
  <1>5. kind = "join" => x.identity = 0 /\ \A i \in DOMAIN x.asked : ~Wants(x, i, "join")
    BY <1>1
  <1>q. QED BY <1>1, <1>2, <1>3, <1>4, <1>5, SendKeeps

\* The invariant: asking for a seat.
LEMMA JoinKeeps ==
  ASSUME PhInv, NEW w \in Windows, Join(w)
  PROVE  PhInv'
  <1>1. PICK kind, arg : kind = "join" /\ arg = 0
    OBVIOUS
  <1>2. /\ kind \in Kinds /\ arg \in Nat /\ Sends(w, win[w], kind, arg) /\ win[w].open
        /\ UNCHANGED <<down, served, seatVars, logVars, lost>>
        /\ win[w].identity = 0 /\ kind \notin WantedOf(win[w])
    BY <1>1 DEF Join, AtRest, Kinds
  <1>3. \A i \in DOMAIN win[w].asked : ~Wants(win[w], i, "join")
    BY <1>1, <1>2 DEF WantedOf, Wants
  <1>4. SocketInv' /\ WindowInv' /\ OpenInv' /\ NeverGivesUp'
    BY <1>1, <1>2, <1>3, AskKeeps
  <1>q. QED BY <1>4, JoinTypes DEF PhInv

\* The invariant: a tap.
LEMMA TapKeeps ==
  ASSUME PhInv, NEW w \in Windows, Tap(w)
  PROVE  PhInv'
  <1>1. PICK kind, arg : kind = "act" /\ arg = intents'
    OBVIOUS
  <1>2. /\ kind \in Kinds /\ arg \in Nat /\ Sends(w, win[w], kind, arg) /\ win[w].open
        /\ UNCHANGED <<down, served, seatVars, logVars, lost>>
    <2>1. intents \in Nat
      BY WindowFacts
    <2>q. QED BY <1>1, <2>1 DEF Tap, AtRest, Kinds
  <1>3. SocketInv' /\ WindowInv' /\ OpenInv' /\ NeverGivesUp'
    BY <1>1, <1>2, AskKeeps
  <1>q. QED BY <1>3, TapTypes DEF PhInv

\* The invariant: an intent sent again.
LEMMA SendAgainKeeps ==
  ASSUME PhInv, NEW w \in Windows, NEW i \in 1..MaxIntents, SendAgain(w, i)
  PROVE  PhInv'
  <1>1. PICK kind : kind = "act"
    OBVIOUS
  <1>2. /\ kind \in Kinds /\ i \in Nat /\ Sends(w, win[w], kind, i) /\ win[w].open
        /\ UNCHANGED <<down, served, seatVars, logVars, lost>>
    BY <1>1 DEF SendAgain, AtRest, Kinds
  <1>3. SocketInv' /\ WindowInv' /\ OpenInv' /\ NeverGivesUp'
    BY <1>1, <1>2, AskKeeps
  <1>q. QED BY <1>3, SendAgainTypes DEF PhInv

\* The invariant: leaving.
LEMMA LeaveKeeps ==
  ASSUME PhInv, NEW w \in Windows, Leave(w)
  PROVE  PhInv'
  <1>1. UNCHANGED <<down, served, seatVars, logVars, lost>>
    BY DEF Leave
  <1>2. CASE win[w].open
    <2>1. PICK kind, arg : kind = "leave" /\ arg = 0
      OBVIOUS
    <2>2. kind \in Kinds /\ arg \in Nat /\ Sends(w, win[w], kind, arg)
      BY <1>2, <2>1 DEF Leave, Kinds
    <2>3. SocketInv' /\ WindowInv' /\ OpenInv' /\ NeverGivesUp'
      BY <1>1, <1>2, <2>1, <2>2, AskKeeps
    <2>q. QED BY <2>3, LeaveTypes DEF PhInv
  <1>3. CASE ~win[w].open
    <2>1. PICK y, x, c : y = Evicted(x) /\ x = win[w] /\ c = win[w].socket
      OBVIOUS
    <2>2. /\ x \in Window /\ x.page # "closed" /\ ~x.open
          /\ win' = [win EXCEPT ![w] = y] /\ up' = up
      BY <1>3, <2>1, WindowFacts DEF Leave, SendsNothing
    <2>3. /\ x.socket # None => served[x.socket] = "unused" /\ ~x.retrying
          /\ x.asked = <<>> /\ (x.told => x.byUs /\ ~x.retrying)
          /\ ~(x.told /\ x.socket # None) /\ x.socket = c
          /\ ~x.byUs => x.socket # None \/ x.retrying
      BY <2>1, <2>2 DEF PhInv, WindowInv, NeverGivesUp
    <2>4. /\ y \in Window /\ SameSocket(x, y) /\ y.byUs = x.byUs /\ y.told = x.told
      BY <2>1, <2>2, EvictedIs
    <2>5. OnlyMoves(w, c, y)
      BY <1>1, <2>1, <2>2 DEF OnlyMoves
    <2>6. Stands(c, y) /\ StaysOk(c, y)
      BY <1>1, <2>2, <2>3, <2>4 DEF Stands, StaysOk, SameSocket
    <2>7. SocketInv' /\ WindowInv' /\ OpenInv' /\ NeverGivesUp'
      BY <2>5, <2>6, WindowMoved
    <2>q. QED BY <2>7, LeaveTypes DEF PhInv
  <1>q. QED BY <1>2, <1>3

\* What an answer, or the want of one, makes of the window z.
Answers(z, e, y, reads) ==
    /\ y \in Window /\ y.asked = z.asked /\ y.socket = z.socket /\ y.open = z.open
    /\ y.retrying = z.retrying /\ y.told = z.told /\ y.byUs = z.byUs
    /\ y.identity \in {z.identity, 0} \/ (e.kind = "join" /\ e.ok)
    /\ ~y.gaveUp => ~z.gaveUp
    /\ y.view = z.view \/ (e.kind = "read" /\ e.ok /\ y.view = e.arg)
    /\ e.kind = "resume" /\ ~e.ok => y.identity = 0
    /\ e.kind = "read" /\ ~e.ok => y.gaveUp
    /\ reads \/ y.identity = 0 \/ y.page # "shown" \/ y.gaveUp
       \/ /\ y.page = z.page /\ y.identity = z.identity /\ y.gaveUp = z.gaveUp
          /\ \/ e.kind = "read" /\ e.ok /\ y.view = e.arg
             \/ e.kind # "read" /\ y.view = z.view /\ ~(e.kind = "resume" /\ e.ok)

\* Whatever the answer, this is what the window becomes.
LEMMA AnswerToIs ==
  ASSUME NEW w, NEW z \in Window, NEW e, e.ok \in BOOLEAN, e.kind \in Kinds,
         e.kind = "join" /\ e.ok => e.arg \in Nat, e.kind = "read" /\ e.ok => e.arg \in Nat,
         NEW y, NEW reads \in BOOLEAN, AnswerTo(w, z, e, y, reads)
  PROVE  Answers(z, e, y, reads)
  <1>1. CASE e.kind = "resume" /\ e.ok /\ y = z /\ reads
    BY <1>1 DEF Answers
  <1>2. CASE e.kind = "resume" /\ ~e.ok /\ y = KnownAs(z, 0)
    <2>1. /\ y \in Window /\ SameSocket(z, y) /\ y.byUs = z.byUs /\ y.told = z.told
          /\ y.view = z.view /\ y.gaveUp = z.gaveUp /\ y.identity = 0
      BY <1>2, KnownAsIs
    <2>q. QED BY <1>2, <2>1 DEF Answers, SameSocket
  <1>3. CASE e.kind = "join" /\ e.ok /\ y = KnownAs(z, e.arg) /\ reads
    <2>1. /\ y \in Window /\ SameSocket(z, y) /\ y.byUs = z.byUs /\ y.told = z.told
          /\ y.view = z.view /\ y.gaveUp = z.gaveUp
      BY <1>3, KnownAsIs
    <2>q. QED BY <1>3, <2>1 DEF Answers, SameSocket
  <1>4. CASE e.kind = "join" /\ ~e.ok /\ y = z
    BY <1>4 DEF Answers
  <1>5. CASE e.kind = "act" /\ y = z /\ reads
    BY <1>5 DEF Answers
  <1>6. CASE e.kind = "read" /\ e.ok /\ y = Showing(z, e.arg)
    <2>1. /\ y \in Window /\ SameSocket(z, y) /\ y.byUs = z.byUs /\ y.told = z.told
          /\ y.page = z.page /\ y.view = e.arg /\ y.gaveUp = z.gaveUp /\ y.identity = z.identity
      BY <1>6, ShowingIs
    <2>q. QED BY <1>6, <2>1 DEF Answers, SameSocket
  <1>7. CASE e.kind = "read" /\ ~e.ok /\ y = Unanswered(z)
    <2>1. /\ y \in Window /\ SameSocket(z, y) /\ y.byUs = z.byUs /\ y.told = z.told
          /\ y.view = z.view /\ y.gaveUp = TRUE /\ y.identity = z.identity
      BY <1>7, UnansweredIs
    <2>q. QED BY <1>7, <2>1 DEF Answers, SameSocket
  <1>8. CASE e.kind = "leave" /\ y \in {Evicted(KnownAs(z, 0)), Evicted(z)}
    <2>1. /\ KnownAs(z, 0) \in Window /\ SameSocket(z, KnownAs(z, 0))
          /\ KnownAs(z, 0).byUs = z.byUs /\ KnownAs(z, 0).told = z.told
          /\ KnownAs(z, 0).view = z.view /\ KnownAs(z, 0).gaveUp = z.gaveUp
          /\ KnownAs(z, 0).identity = 0
      BY KnownAsIs
    <2>2. PICK v : v \in {KnownAs(z, 0), z} /\ y = Evicted(v)
      BY <1>8
    <2>3. /\ v \in Window /\ SameSocket(z, v) /\ v.byUs = z.byUs /\ v.told = z.told
          /\ v.view = z.view /\ v.gaveUp = z.gaveUp /\ v.identity \in {z.identity, 0}
      BY <2>1, <2>2 DEF SameSocket
    <2>4. /\ y \in Window /\ SameSocket(v, y) /\ y.byUs = v.byUs /\ y.told = v.told
          /\ y.page = "evicted" /\ y.view = v.view /\ y.gaveUp = v.gaveUp
          /\ y.identity = v.identity
      BY <2>2, <2>3, EvictedIs
    <2>q. QED BY <1>8, <2>3, <2>4 DEF Answers, SameSocket
  <1>q. QED BY <1>1, <1>2, <1>3, <1>4, <1>5, <1>6, <1>7, <1>8 DEF AnswerTo

\* The window goes on with its socket, and reads or does not.
LEMMA GoingOnKeeps ==
  ASSUME PhInv, NEW w \in Windows, win[w].open, NEW c, c = win[w].socket,
         NEW x \in Window, x.socket = c, x.open, ~x.retrying, x.told => x.byUs,
         served' = served, seatVars' = seatVars, logVars' = logVars, lost' = lost,
         NEW d \in Seq(Message), down' = [down EXCEPT ![c] = d],
         Steady(x, d, up[c], served[c], speaks[c], HeldBy(c)), NEW reads \in BOOLEAN,
         reads \/ UpToDate(x, d, up[c], served[c], speaks[c], announced),
         IF reads THEN Sends(w, x, "read", 0) ELSE SendsNothing(w, x)
  PROVE  SocketInv' /\ WindowInv' /\ OpenInv' /\ NeverGivesUp'
  <1>1. CASE reads
    <2>1. PICK kind, arg : kind = "read" /\ arg = 0
      OBVIOUS
    <2>2. /\ kind \in Kinds /\ kind # "resume" /\ kind # "join" /\ arg \in Nat
          /\ Sends(w, x, kind, arg)
      BY <1>1, <2>1 DEF Kinds
    <2>q. QED BY <2>1, <2>2, SendKeeps
  <1>2. CASE ~reads
    <2>1. WindowOk(x, d, up[c], served[c], speaks[c], HeldBy(c), announced)
      BY <1>2 DEF WindowOk
    <2>2. SendsNothing(w, x)
      BY <1>2
    <2>q. QED BY <2>1, <2>2, RestKeeps
  <1>q. QED BY <1>1, <1>2

\* The invariant: giving up on an answer.
LEMMA GivesUpKeeps ==
  ASSUME PhInv, NEW w \in Windows, GivesUp(w)
  PROVE  PhInv'
  <1>1. PICK c, x, d : c = win[w].socket /\ x = win[w] /\ d = down[c]
    OBVIOUS
  <1>2. PICK i \in DOMAIN x.asked :
          Answered(w, TooLate(x, i), Ack(x.asked[i].kind, FALSE, 0))
    BY <1>1 DEF GivesUp, TooLate
  <1>3. PICK z, e : z = TooLate(x, i) /\ e = Ack(x.asked[i].kind, FALSE, 0)
    OBVIOUS
  <1>4. /\ x \in Window /\ x.open /\ ~x.retrying /\ (x.told => x.byUs) /\ x.socket = c
        /\ d \in Seq(Message) /\ down = [down EXCEPT ![c] = d] /\ up[c] \in Seq(Request)
        /\ Steady(x, d, up[c], served[c], speaks[c], HeldBy(c))
        /\ UpToDate(x, d, up[c], served[c], speaks[c], announced)
        /\ x.identity \in 0..minted /\ x.view \in 0..version
    BY <1>1, OpenFacts, WindowFacts DEF GivesUp
  <1>5. /\ z \in Window /\ Alike(x, z) /\ Len(z.asked) = Len(x.asked)
        /\ \A j \in DOMAIN x.asked :
               /\ z.asked[j].kind = x.asked[j].kind
               /\ z.asked[j].wanted = (x.asked[j].wanted /\ j # i)
    BY <1>2, <1>3, <1>4, TooLateIs
  <1>6. e.kind = x.asked[i].kind /\ e.kind \in Kinds /\ e.ok \in BOOLEAN /\ ~e.ok
    <2>1. x.asked[i] \in Pending
      BY <1>2, <1>4 DEF Window
    <2>q. QED BY <1>3, <2>1 DEF Ack, Pending
  <1>7. PICK y, reads : reads \in BOOLEAN /\ Becomes(w, z, e, y, reads)
    <2>1. minted \in Nat /\ version \in Nat /\ AckOk(e) /\ Answered(w, z, e)
      BY <1>2, <1>3, <1>6, WindowFacts DEF AckOk
    <2>2. z.identity \in 0..minted /\ z.view \in 0..version
      BY <1>4, <1>5 DEF Alike
    <2>q. QED BY <1>5, <2>1, <2>2, AnsweredAs
  <1>8. Answers(z, e, y, reads)
    BY <1>5, <1>6, <1>7, AnswerToIs DEF Becomes
  <1>9. /\ y \in Window /\ y.socket = c /\ y.open /\ ~y.retrying /\ (y.told => y.byUs)
        /\ y.told = x.told /\ y.view = x.view /\ y.identity \in {x.identity, 0}
        /\ x.asked[i].kind = "resume" => y.identity = 0
        /\ x.asked[i].kind = "read" => y.gaveUp
        /\ ~y.gaveUp => ~x.gaveUp
        /\ Len(y.asked) = Len(x.asked)
    BY <1>4, <1>5, <1>6, <1>8 DEF Answers, Alike
  <1>10. \A j \in DOMAIN x.asked : /\ y.asked[j].kind = x.asked[j].kind
                                   /\ y.asked[j].wanted => x.asked[j].wanted
                                   /\ x.asked[j].wanted /\ j # i => y.asked[j].wanted
    BY <1>5, <1>8 DEF Answers
  <1>11. Steady(y, d, up[c], served[c], speaks[c], HeldBy(c))
    BY <1>4, <1>9, <1>10, TooLateIsSteady
  <1>12. reads \/ UpToDate(y, d, up[c], served[c], speaks[c], announced)
    <2>1. \/ reads \/ y.identity = 0 \/ y.page # "shown" \/ y.gaveUp
          \/ y.page = x.page /\ y.identity = x.identity /\ y.gaveUp = x.gaveUp /\ y.view = x.view
      BY <1>5, <1>8, <1>9 DEF Answers, Alike
    <2>q. QED BY <1>4, <2>1, ShowingNoLess
  <1>13. /\ served' = served /\ seatVars' = seatVars /\ logVars' = logVars /\ lost' = lost
         /\ down' = [down EXCEPT ![c] = d] /\ win[w].open
    BY <1>4 DEF GivesUp
  <1>14. IF reads THEN Sends(w, y, "read", 0) ELSE SendsNothing(w, y)
    BY <1>7 DEF Becomes
  <1>15. SocketInv' /\ WindowInv' /\ OpenInv' /\ NeverGivesUp'
    BY <1>1, <1>4, <1>7, <1>9, <1>11, <1>12, <1>13, <1>14, GoingOnKeeps
  <1>q. QED BY <1>15, GivesUpTypes DEF PhInv

\* An answer comes to an open window.
LEMMA AckTakenKeeps ==
  ASSUME PhInv, NEW w \in Windows, Receive(w), NEW c, c = win[w].socket,
         Head(down[c]).is = "ack"
  PROVE  SocketInv' /\ WindowInv' /\ OpenInv' /\ NeverGivesUp'
  <1>1. PICK x, m, d, v : x = win[w] /\ m = Head(down[c]) /\ d = down[c] /\ v = Tail(down[c])
    OBVIOUS
  <1>2. /\ x.open /\ d # <<>> /\ down' = [down EXCEPT ![c] = v]
        /\ served' = served /\ seatVars' = seatVars /\ logVars' = logVars /\ lost' = lost
    BY <1>1 DEF Receive
  <1>3. /\ x \in Window /\ ~x.retrying /\ (x.told => x.byUs) /\ x.socket = c
        /\ d \in Seq(Message) /\ up[c] \in Seq(Request)
        /\ Steady(x, d, up[c], served[c], speaks[c], HeldBy(c))
        /\ WindowOk(x, d, up[c], served[c], speaks[c], HeldBy(c), announced)
        /\ x.identity \in 0..minted /\ x.view \in 0..version /\ announced \in Nat
    BY <1>1, <1>2, OpenFacts, OkIs, WindowFacts
  <1>4. down' = [down EXCEPT ![c] = Tail(@)]
    BY <1>1, <1>2
  <1>5. m = d[1] /\ m \in Message /\ m.is = "ack" /\ AckOk(m) /\ x.asked # <<>>
    BY <1>1, <1>2, <1>4, MessageFacts
  <1>6. v \in Seq(Message)
    BY <1>1, <1>2, <1>3, OneLess
  <1>7. PICK z : z = Rest(x)
    OBVIOUS
  <1>8. z \in Window /\ Alike(x, z) /\ z.asked = Tail(x.asked)
    BY <1>3, <1>5, <1>7, RestIs
  <1>9. Head(x.asked) = x.asked[1] /\ Head(x.asked).wanted \in BOOLEAN
    <2>1. x.asked \in Seq(Pending)
      BY <1>3 DEF Window
    <2>2. Head(x.asked) = x.asked[1] /\ Head(x.asked) \in Pending
      BY <1>5, <2>1, Popped
    <2>q. QED BY <2>2 DEF Pending
  <1>10. IF Head(x.asked).wanted THEN Answered(w, z, m) ELSE SendsNothing(w, z)
    <2>1. m.is \notin Families /\ m.is # "superseded" /\ m.is # "removed"
      BY <1>5 DEF Families
    <2>q. QED BY <1>1, <1>7, <2>1 DEF Receive, Rest
  <1>11. Shows(m) <=> m.kind = "read" /\ m.ok
    BY <1>5 DEF Shows
  <1>12. m.is # "GAME"
    BY <1>5
  <1>13. CASE Head(x.asked).wanted
    <2>1. PICK y, reads : reads \in BOOLEAN /\ Becomes(w, z, m, y, reads)
      <3>1. minted \in Nat /\ version \in Nat /\ Answered(w, z, m)
        BY <1>10, <1>13, WindowFacts
      <3>2. z.identity \in 0..minted /\ z.view \in 0..version
        BY <1>3, <1>8 DEF Alike
      <3>q. QED BY <1>5, <1>8, <3>1, <3>2, AnsweredAs
    <2>2. Answers(z, m, y, reads)
      <3>1. m.ok \in BOOLEAN /\ m.kind \in Kinds /\ m.arg \in Nat
        BY <1>5 DEF AckOk, Message
      <3>q. QED BY <1>8, <2>1, <3>1, AnswerToIs DEF Becomes
    <2>3. /\ y \in Window /\ y.socket = c /\ y.open /\ ~y.retrying /\ (y.told => y.byUs)
          /\ y.told = x.told /\ y.asked = Tail(x.asked)
          /\ y.identity \in {x.identity, 0} \/ m.kind = "join"
          /\ ~y.gaveUp => ~x.gaveUp
          /\ y.view = x.view \/ (m.kind = "read" /\ m.ok /\ y.view = m.arg)
      BY <1>2, <1>3, <1>8, <2>2 DEF Answers, Alike
    <2>4. Steady(y, v, up[c], served[c], speaks[c], HeldBy(c))
      <3>1. /\ y.identity \in {x.identity, 0} \/ (m.kind = "join" /\ x.asked[1].wanted)
            /\ y.view = x.view \/ (Shows(m) /\ y.view = m.arg)
        BY <1>9, <1>11, <1>13, <2>3
      <3>2. Steady(y, Tail(d), up[c], served[c], speaks[c], HeldBy(c))
        BY <1>2, <1>3, <1>5, <2>3, <3>1, TakenIsSteady
      <3>q. QED BY <1>1, <3>2
    <2>5. reads \/ UpToDate(y, v, up[c], served[c], speaks[c], announced)
      <3>1. \/ reads \/ y.identity = 0 \/ y.page # "shown" \/ y.gaveUp
            \/ /\ y.page = x.page /\ y.identity = x.identity /\ y.gaveUp = x.gaveUp
               /\ \/ Shows(m) /\ y.view = m.arg
                  \/ ~Shows(m) /\ y.view = x.view
                     /\ ~(m.is = "ack" /\ m.kind = "resume" /\ m.ok)
        BY <1>8, <1>11, <2>2 DEF Answers, Alike
      <3>2. reads \/ UpToDate(y, Tail(d), up[c], served[c], speaks[c], announced)
        BY <1>2, <1>3, <1>5, <1>12, <2>3, <3>1, TakenIsUpToDate
      <3>q. QED BY <1>1, <3>2
    <2>6. IF reads THEN Sends(w, y, "read", 0) ELSE SendsNothing(w, y)
      BY <2>1 DEF Becomes
    <2>q. QED BY <1>1, <1>2, <1>6, <2>1, <2>3, <2>4, <2>5, <2>6, GoingOnKeeps
  <1>14. CASE ~Head(x.asked).wanted
    <2>1. SendsNothing(w, z)
      BY <1>10, <1>14
    <2>2. /\ z \in Window /\ z.socket = c /\ z.open /\ ~z.retrying /\ (z.told => z.byUs)
          /\ z.told = x.told /\ z.asked = Tail(x.asked) /\ z.identity = x.identity
          /\ z.gaveUp = x.gaveUp /\ z.view = x.view /\ z.page = x.page
      BY <1>2, <1>3, <1>8 DEF Alike
    <2>3. Steady(z, Tail(d), up[c], served[c], speaks[c], HeldBy(c))
      BY <1>2, <1>3, <1>5, <2>2, TakenIsSteady
    <2>4. UpToDate(z, Tail(d), up[c], served[c], speaks[c], announced)
      \* It was no answer to a read, or the window has given up on one; and it was none
      \* to a resume, or the window is nobody.
      <3>1. \/ z.identity = 0 \/ z.gaveUp
            \/ ~Shows(m) /\ ~(m.is = "ack" /\ m.kind = "resume" /\ m.ok)
        <4>1. PICK p, n : /\ LineHolds(x, d, up[c], served[c], speaks[c], p, n)
                          /\ Lined(x.asked, d, up[c], p, n) /\ x.asked \in Seq(Pending)
          BY <1>3, SteadyLine
        <4>2. x.asked[1].kind = m.kind /\ 1 \in DOMAIN x.asked
          BY <1>2, <1>3, <1>5, <4>1, LineTake
        <4>3. Disciplined(x)
          BY <1>3 DEF Steady
        <4>4. ~x.asked[1].wanted
          BY <1>9, <1>14
        <4>5. m.kind = "read" => x.gaveUp
          BY <4>2, <4>3, <4>4 DEF Disciplined
        <4>6. m.kind = "resume" => x.identity = 0
          BY <4>2, <4>3, <4>4 DEF Disciplined
        <4>q. QED BY <1>11, <2>2, <4>5, <4>6
      <3>q. QED BY <1>2, <1>3, <1>5, <1>12, <2>2, <3>1, TakenIsUpToDate
    <2>5. WindowOk(z, v, up[c], served[c], speaks[c], HeldBy(c), announced)
      BY <1>1, <2>3, <2>4 DEF WindowOk
    <2>q. QED BY <1>1, <1>2, <1>6, <2>1, <2>2, <2>5, RestKeeps
  <1>q. QED BY <1>9, <1>13, <1>14

\* An event of the game's, or the window is sent away.
LEMMA EventTakenKeeps ==
  ASSUME PhInv, NEW w \in Windows, Receive(w), NEW c, c = win[w].socket,
         Head(down[c]).is # "ack"
  PROVE  SocketInv' /\ WindowInv' /\ OpenInv' /\ NeverGivesUp'
  <1>1. PICK x, m, d, v : x = win[w] /\ m = Head(down[c]) /\ d = down[c] /\ v = Tail(down[c])
    OBVIOUS
  <1>2. /\ x.open /\ d # <<>> /\ down' = [down EXCEPT ![c] = v]
        /\ served' = served /\ seatVars' = seatVars /\ logVars' = logVars /\ lost' = lost
    BY <1>1 DEF Receive
  <1>3. /\ x \in Window /\ ~x.retrying /\ (x.told => x.byUs) /\ x.socket = c
        /\ d \in Seq(Message) /\ up[c] \in Seq(Request)
        /\ WindowOk(x, d, up[c], served[c], speaks[c], HeldBy(c), announced)
        /\ announced \in Nat
    BY <1>1, <1>2, OpenFacts, OkIs
  <1>4. m = d[1] /\ m.is # "ack" /\ v \in Seq(Message)
    BY <1>1, <1>2, <1>3, OneLess
  <1>5. \/ /\ m.is \in Families
           /\ IF ListenedTo(m.is) THEN Sends(w, x, "read", 0) ELSE SendsNothing(w, x)
        \/ m.is \in {"superseded", "removed"} /\ SendsNothing(w, SentAway(x))
    BY <1>1, <1>4 DEF Receive
  <1>6. CASE m.is \in Families
    <2>1. PICK reads : reads \in BOOLEAN /\ (reads <=> ListenedTo(m.is))
      <3>1. ListenedTo(m.is) \in BOOLEAN
        BY DEF ListenedTo
      <3>q. QED BY <3>1
    <2>2. IF reads THEN Sends(w, x, "read", 0) ELSE SendsNothing(w, x)
      <3>1. m.is \notin {"superseded", "removed"}
        BY <1>6 DEF Families
      <3>q. QED BY <1>5, <2>1, <3>1
    <2>3. Steady(x, v, up[c], served[c], speaks[c], HeldBy(c))
      <3>1. Steady(x, Tail(d), up[c], served[c], speaks[c], HeldBy(c))
        BY <1>2, <1>3, <1>4, EventTakenIsOk
      <3>q. QED BY <1>1, <3>1
    <2>4. reads \/ UpToDate(x, v, up[c], served[c], speaks[c], announced)
      <3>1. ~reads => m.is # "GAME"
        BY <1>6, <2>1 DEF Families, ListenedTo
      <3>2. m.is # "GAME" => UpToDate(x, Tail(d), up[c], served[c], speaks[c], announced)
        BY <1>2, <1>3, <1>4, EventTakenIsOk
      <3>q. QED BY <1>1, <3>1, <3>2
    <2>q. QED BY <1>1, <1>2, <1>3, <1>4, <2>1, <2>2, <2>3, <2>4, GoingOnKeeps
  <1>7. CASE m.is \in {"superseded", "removed"}
    <2>1. PICK y : y = SentAway(x)
      OBVIOUS
    <2>2. /\ y \in Window /\ SameSocket(x, y) /\ y.byUs = TRUE /\ y.told = TRUE
          /\ y.page = "evicted" /\ y.view = x.view /\ y.gaveUp = x.gaveUp /\ y.identity = x.identity
      BY <1>3, <2>1, SentAwayIs
    <2>3. y.socket = c /\ y.open /\ ~y.retrying /\ (y.told => y.byUs) /\ y.asked = x.asked
      BY <1>2, <1>3, <2>2 DEF SameSocket
    <2>4. SendsNothing(w, y)
      BY <1>5, <1>7, <2>1 DEF Families
    <2>5. /\ Steady(y, Tail(d), up[c], served[c], speaks[c], HeldBy(c))
          /\ UpToDate(y, Tail(d), up[c], served[c], speaks[c], announced)
      BY <1>2, <1>3, <1>4, <1>7, <2>2, <2>3, EventTakenIsOk
    <2>6. WindowOk(y, v, up[c], served[c], speaks[c], HeldBy(c), announced)
      BY <1>1, <2>5 DEF WindowOk
    <2>q. QED BY <1>1, <1>2, <1>4, <2>2, <2>3, <2>4, <2>6, RestKeeps
  <1>q. QED BY <1>5, <1>6, <1>7

\* The invariant: a message received.
LEMMA ReceiveKeeps ==
  ASSUME PhInv, NEW w \in Windows, Receive(w)
  PROVE  PhInv'
  <1>1. PICK c : c = win[w].socket
    OBVIOUS
  <1>2. SocketInv' /\ WindowInv' /\ OpenInv' /\ NeverGivesUp'
    BY <1>1, AckTakenKeeps, EventTakenKeeps
  <1>q. QED BY <1>2, ReceiveTypes DEF PhInv

-----------------------------------------------------------------------------
(* Every step of the server keeps the types. *)

\* Types: a request served.
LEMMA ServeTypes ==
  ASSUME PhInv, NEW c \in Conns, Serve(c)
  PROVE  TypeInv'
  <1>1. PICK r : r = Head(up[c])
    OBVIOUS
  <1>2. /\ up[c] # <<>> /\ up' = [up EXCEPT ![c] = Tail(@)]
        /\ win' = win /\ stored' = stored /\ intents' = intents /\ lost' = lost
    BY DEF Serve
  <1>3. TypeInv /\ WinUp(intents) /\ served \in [Conns -> {"unused", "open", "closing", "closed"}]
        /\ minted \in Nat /\ version \in Nat /\ intents \in Nat
    BY CountsAreNaturals DEF PhInv
  <1>4. /\ r \in Request /\ RequestOk(r, minted, intents)
        /\ up' \in [Conns -> Seq(Request)]
        /\ \A b \in Conns : \A i \in DOMAIN up'[b] : RequestOk(up'[b][i], minted, intents)
    BY <1>1, <1>2, <1>3, ServedUp DEF WinUp
  <1>5. \/ r.arg \in DOMAIN seats /\ Resumes(c, r.arg)
        \/ ~lost /\ bound' = bound \cup {c} /\ Joins(c)
        \/ ~lost /\ bound' = bound \cup {c} /\ Reads(c)
        \/ ~lost /\ bound' = bound \cup {c} /\ r.kind = "act" /\ Acts(c, r.arg)
        \/ ~lost /\ bound' = bound \cup {c} /\ Leaves(c)
        \/ bound' \in {bound, bound \cup {c}} /\ Refuses(c, r)
    BY <1>1 DEF Serve
  <1>6. /\ SeatType' /\ LogType' /\ minted' \in Nat /\ minted <= minted'
        /\ version' \in Nat /\ version <= version' /\ DownOk(down', minted', version')
        /\ served' \in [Conns -> {"unused", "open", "closing", "closed"}]
    <2>1. CASE r.arg \in DOMAIN seats /\ Resumes(c, r.arg)
      <3>1. /\ SeatType' /\ LogType' /\ minted' = minted /\ version' = version
            /\ DownOk(down', minted, version)
            /\ served' \in [Conns -> {"unused", "open", "closing", "closed"}]
        BY <1>2, <1>3, <2>1, ResumesTypes
      <3>q. QED BY <1>3, <3>1 DEF DownOk
    <2>2. CASE bound' = bound \cup {c} /\ Joins(c)
      <3>1. /\ SeatType' /\ LogType' /\ minted' = minted + 1 /\ version' = version
            /\ DownOk(down', minted', version)
        BY <1>2, <1>3, <2>2, JoinsTypes
      <3>2. served' = served
        BY <2>2 DEF Joins
      <3>q. QED BY <1>3, <3>1, <3>2 DEF DownOk
    <2>3. CASE bound' = bound \cup {c} /\ Reads(c)
      <3>1. /\ SeatType' /\ LogType' /\ minted' = minted /\ version' = version
            /\ DownOk(down', minted, version)
        BY <1>2, <1>3, <2>3, ReadsTypes
      <3>2. served' = served
        BY <2>3 DEF Reads
      <3>q. QED BY <1>3, <3>1, <3>2 DEF DownOk
    <2>4. CASE bound' = bound \cup {c} /\ r.kind = "act" /\ Acts(c, r.arg)
      <3>1. r.arg \in 1..intents
        BY <1>4, <2>4 DEF RequestOk
      <3>2. /\ SeatType' /\ LogType' /\ minted' = minted
            /\ version' \in Nat /\ version <= version' /\ DownOk(down', minted, version')
        BY <1>2, <1>3, <2>4, <3>1, ActsTypes
      <3>3. served' = served
        BY <2>4 DEF Acts
      <3>q. QED BY <1>3, <3>2, <3>3 DEF DownOk
    <2>5. CASE bound' = bound \cup {c} /\ Leaves(c)
      <3>1. /\ SeatType' /\ LogType' /\ minted' = minted /\ version' = version
            /\ DownOk(down', minted, version)
        BY <1>2, <1>3, <2>5, LeavesTypes
      <3>2. served' = served
        BY <2>5 DEF Leaves
      <3>q. QED BY <1>3, <3>1, <3>2 DEF DownOk
    <2>6. CASE bound' \in {bound, bound \cup {c}} /\ Refuses(c, r)
      <3>1. /\ SeatType' /\ LogType' /\ minted' = minted /\ version' = version
            /\ DownOk(down', minted, version)
        BY <1>2, <1>3, <1>4, <2>6, RefusesTypes
      <3>2. served' = served
        BY <2>6 DEF Refuses
      <3>q. QED BY <1>3, <3>1, <3>2 DEF DownOk
    <2>q. QED BY <1>5, <2>1, <2>2, <2>3, <2>4, <2>5, <2>6
  <1>q. QED BY <1>2, <1>3, <1>4, <1>6, ServerMovedTypes

\* Types: an event of the game.
LEMMA GameMovesTypes ==
  ASSUME PhInv, GameMoves
  PROVE  TypeInv'
  <1>1. PICK family \in Families : Publishes(family) /\ down' = Delivers(bound, Event(family))
    BY DEF GameMoves
  <1>2. /\ win' = win /\ stored' = stored /\ intents' = intents /\ lost' = lost /\ up' = up
        /\ served' = served /\ bound' = bound /\ speaks' = speaks /\ seats' = seats
        /\ minted' = minted /\ seen' = seen /\ applied' = applied
    BY DEF GameMoves, seatVars
  <1>3. TypeInv /\ WinUp(intents) /\ served \in [Conns -> {"unused", "open", "closing", "closed"}]
        /\ minted \in Nat /\ version \in Nat /\ DownOk(down, minted, version)
        /\ SeatType /\ LogType
    BY CountsAreNaturals DEF PhInv
  <1>4. /\ version' \in 0..MaxVersion /\ version' \in Nat
        /\ version <= version' /\ announced' \in 0..version'
    BY <1>1, <1>3, PublishedTypes
  <1>5. SeatType' /\ LogType'
    BY <1>2, <1>3, <1>4 DEF SeatType, LogType
  <1>6. PICK v : v = version'
    OBVIOUS
  <1>7. DownOk(down, minted, v)
    BY <1>3, <1>4, <1>6, MoreIsOk
  <1>8. DownOk(down', minted, v)
    BY <1>1, <1>7, DeliversOk
  <1>9. /\ up' \in [Conns -> Seq(Request)]
        /\ \A c \in Conns : \A i \in DOMAIN up'[c] : RequestOk(up'[c][i], minted, intents)
    BY <1>2, <1>3 DEF WinUp
  <1>q. QED BY <1>2, <1>3, <1>4, <1>5, <1>6, <1>8, <1>9, ServerMovedTypes DEF DownOk

\* Types: a player removed.
LEMMA HostRemovesTypes ==
  ASSUME PhInv, NEW n, HostRemoves(n)
  PROVE  TypeInv'
  <1>1. PICK old : old = {seats[n]} \ {None}
    OBVIOUS
  <1>2. /\ n \in DOMAIN seats /\ seats' = Restrict(seats, DOMAIN seats \ {n})
        /\ speaks' = [d \in Conns |-> IF d \in old THEN 0 ELSE speaks[d]]
        /\ bound' = bound \ old
        /\ down' = Delivers(old, Event("removed"))
        /\ served' = [d \in Conns |-> IF d \in old /\ served[d] = "open" THEN "closing"
                                      ELSE served[d]]
        /\ win' = win /\ stored' = stored /\ intents' = intents /\ lost' = lost /\ up' = up
        /\ minted' = minted /\ logVars' = logVars /\ version' = version
    BY <1>1 DEF HostRemoves, Without, logVars
  <1>3. TypeInv /\ WinUp(intents) /\ served \in [Conns -> {"unused", "open", "closing", "closed"}]
        /\ minted \in Nat /\ version \in Nat /\ DownOk(down, minted, version)
    BY CountsAreNaturals DEF PhInv
  <1>4. LogType'
    BY <1>2, <1>3, LogUnchanged
  <1>5. SeatType'
    <2>1. seats' = [k \in DOMAIN seats \ {n} |-> seats[k]]
      BY <1>2 DEF Restrict
    <2>2. speaks' \in [Conns -> 0..minted]
      BY <1>2, <1>3, SeatFacts
    <2>q. QED BY <1>2, <1>3, <2>1, <2>2, SeatFacts DEF SeatType
  <1>6. served' \in [Conns -> {"unused", "open", "closing", "closed"}]
    BY <1>2, <1>3
  <1>7. DownOk(down', minted, version)
    BY <1>2, <1>3, DeliversOk
  <1>8. /\ up' \in [Conns -> Seq(Request)]
        /\ \A c \in Conns : \A i \in DOMAIN up'[c] : RequestOk(up'[c][i], minted, intents)
    BY <1>2, <1>3 DEF WinUp
  <1>q. QED BY <1>2, <1>3, <1>4, <1>5, <1>6, <1>7, <1>8, ServerMovedTypes DEF DownOk

\* Types: a socket the server sees closed.
LEMMA ServerNoticesTypes ==
  ASSUME PhInv, NEW c \in Conns, ServerNotices(c)
  PROVE  TypeInv'
  <1>1. /\ served' = [served EXCEPT ![c] = "closed"] /\ up' = [up EXCEPT ![c] = <<>>]
        /\ bound' = bound \ {c} /\ speaks' = [speaks EXCEPT ![c] = 0]
        /\ seats' = [n \in DOMAIN seats |-> IF seats[n] = c /\ speaks[c] = n THEN None
                                            ELSE seats[n]]
        /\ win' = win /\ stored' = stored /\ intents' = intents /\ lost' = lost /\ down' = down
        /\ minted' = minted /\ logVars' = logVars /\ version' = version
    BY DEF ServerNotices, logVars
  <1>2. TypeInv /\ WinUp(intents) /\ served \in [Conns -> {"unused", "open", "closing", "closed"}]
        /\ minted \in Nat /\ version \in Nat /\ DownOk(down, minted, version)
    BY CountsAreNaturals DEF PhInv
  <1>3. LogType'
    BY <1>1, <1>2, LogUnchanged
  <1>4. SeatType'
    <2>1. speaks' \in [Conns -> 0..minted]
      BY <1>1, <1>2, SeatFacts
    <2>2. DOMAIN seats' = DOMAIN seats /\ seats' \in [DOMAIN seats -> Conns \cup {None}]
      BY <1>1, <1>2, SeatFacts
    <2>q. QED BY <1>1, <1>2, <2>1, <2>2, SeatFacts DEF SeatType
  <1>5. served' \in [Conns -> {"unused", "open", "closing", "closed"}]
    BY <1>1, <1>2
  <1>6. /\ up' \in [Conns -> Seq(Request)]
        /\ \A b \in Conns : \A i \in DOMAIN up'[b] : RequestOk(up'[b][i], minted, intents)
    <2>1. PICK o \in Seq(Request) : o = <<>> /\ DOMAIN o = {}
      <3>1. <<>> \in Seq(Request) /\ DOMAIN <<>> = {}
        OBVIOUS
      <3>q. QED BY <3>1
    <2>2. up' = [up EXCEPT ![c] = o] /\ up \in [Conns -> Seq(Request)]
      BY <1>1, <1>2, <2>1 DEF WinUp
    <2>3. \A b \in Conns : up'[b] = IF b = c THEN o ELSE up[b]
      BY <2>2
    <2>q. QED BY <1>2, <2>1, <2>2, <2>3 DEF WinUp
  <1>7. DownOk(down', minted', version')
    BY <1>1, <1>2 DEF DownOk
  <1>q. QED BY <1>1, <1>2, <1>3, <1>4, <1>5, <1>6, <1>7, ServerMovedTypes

\* Types: a restart.
LEMMA ServerRestartsTypes ==
  ASSUME PhInv, ServerRestarts
  PROVE  TypeInv'
  <1>1. /\ served' = [c \in Conns |-> IF Live(c) THEN "closed" ELSE served[c]]
        /\ up' = [c \in Conns |-> <<>>] /\ lost' = TRUE
        /\ bound' = {} /\ speaks' = [c \in Conns |-> 0] /\ seats' = <<>>
        /\ win' = win /\ stored' = stored /\ intents' = intents /\ down' = down
        /\ minted' = minted /\ logVars' = logVars /\ version' = version
    BY DEF ServerRestarts, logVars
  <1>2. TypeInv /\ WinUp(intents) /\ served \in [Conns -> {"unused", "open", "closing", "closed"}]
        /\ minted \in Nat /\ version \in Nat /\ DownOk(down, minted, version)
        /\ SeatType /\ LogType
    BY CountsAreNaturals DEF PhInv
  <1>3. LogType'
    <2>1. /\ version' = version /\ announced' = announced /\ seen' = seen /\ applied' = applied
      BY <1>1 DEF logVars
    <2>q. QED BY <1>1, <1>2, <2>1 DEF LogType
  <1>4. SeatType'
    <2>1. DOMAIN seats' = {} /\ seats' \in [DOMAIN seats' -> Conns \cup {None}]
      BY <1>1
    <2>2. speaks' \in [Conns -> 0..minted]
      BY <1>1, <1>2
    <2>q. QED BY <1>1, <1>2, <2>1, <2>2 DEF SeatType
  <1>5. served' \in [Conns -> {"unused", "open", "closing", "closed"}]
    BY <1>1, <1>2
  <1>6. /\ up' \in [Conns -> Seq(Request)]
        /\ \A b \in Conns : \A i \in DOMAIN up'[b] : RequestOk(up'[b][i], minted, intents)
    <2>1. PICK o \in Seq(Request) : o = <<>> /\ DOMAIN o = {}
      <3>1. <<>> \in Seq(Request) /\ DOMAIN <<>> = {}
        OBVIOUS
      <3>q. QED BY <3>1
    <2>2. up' = [b \in Conns |-> o]
      BY <1>1, <2>1
    <2>q. QED BY <2>1, <2>2
  <1>7. DownOk(down', minted', version')
    BY <1>1, <1>2 DEF DownOk
  <1>q. QED BY <1>1, <1>2, <1>3, <1>4, <1>5, <1>6, <1>7, ServerMovedTypes

-----------------------------------------------------------------------------
(* Every step of the server keeps the invariant. *)

\* Nothing happens to a socket that was never opened, and none is unopened.
FreshStay ==
    /\ \A c \in Conns : served[c] = "unused" =>
           /\ served'[c] = "unused" /\ up'[c] = up[c] /\ down'[c] = down[c] /\ speaks'[c] = 0
           /\ \A n \in DOMAIN seats' : seats'[n] # c
    /\ \A c \in Conns : served[c] # "unused" => served'[c] # "unused"

SpeakersBound ==
    /\ \A c \in Conns : speaks'[c] # 0 => c \in bound'
    /\ lost' => speaks' = [c \in Conns |-> 0]

StillOk(v, c) == WindowOk(win[v], down'[c], up'[c], served'[c], speaks'[c], HeldBy(c)', announced')

AllStillOk == \A v \in Windows, c \in Conns : win[v].open /\ win[v].socket = c => StillOk(v, c)

\* What a step of the server has to keep.
LEMMA ServerKeeps ==
  ASSUME PhInv, win' = win, FreshStay, SpeakersBound, AllStillOk
  PROVE  SocketInv' /\ WindowInv' /\ OpenInv' /\ NeverGivesUp'
  <1>1. \A v \in Windows, c \in Conns : win[v].open /\ win[v].socket = c =>
            WindowOk(win[v], down'[c], up'[c], served'[c], speaks'[c], HeldBy(c)', announced')
    BY DEF AllStillOk, StillOk
  <1>q. QED BY <1>1, ServerMoved DEF FreshStay, SpeakersBound

\* Where an answer goes.
LEMMA AnswerAt ==
  ASSUME NEW box \in [Conns -> Seq(Message)], NEW c \in Conns, NEW e
  PROVE  /\ served[c] = "open" => Answer(box, c, e)[c] = Append(box[c], e)
         /\ served[c] # "open" => Answer(box, c, e)[c] = box[c]
         /\ \A b \in Conns : b # c => Answer(box, c, e)[b] = box[b]
  BY DEF Answer

\* A request is served, and answered if the socket is open.
LEMMA ServedIsOk ==
  ASSUME NEW x \in Window, NEW d \in Seq(Message), NEW u \in Seq(Request), NEW s, NEW sp,
         NEW held, NEW ann, WindowOk(x, d, u, s, sp, held, ann), u # <<>>,
         NEW e \in Message, e.is = "ack", e.kind = Head(u).kind,
         Shows(e) => x.view <= e.arg /\ \A k \in DOMAIN d : Shows(d[k]) => d[k].arg <= e.arg,
         NEW sp2, NEW held2, NEW ann2,
         sp2 = 0 \/ sp2 = sp \/ Head(u).kind \in {"join", "resume"},
         \/ sp2 = 0
         \/ Shows(e) /\ e.arg >= ann2
         \/ e.is = "ack" /\ e.kind = "resume" /\ e.ok
         \/ Head(u).kind = "join"
         \/ sp # 0 /\ ann2 = ann /\ Head(u).kind # "read",
         NEW d2, s = "open" => d2 = Append(d, e), s # "open" => d2 = d
  PROVE  WindowOk(x, d2, Tail(u), s, sp2, held2, ann2)
  <1>1. CASE s = "open"
    <2>1. Steady(x, d, u, s, sp, held)
      BY DEF WindowOk
    <2>2. Steady(x, Append(d, e), Tail(u), s, sp2, held2)
      BY <1>1, <2>1, AnswerIsSteady
    <2>3. UpToDate(x, Append(d, e), Tail(u), s, sp2, ann2)
      BY <1>1, AnswerIsUpToDate
    <2>q. QED BY <1>1, <2>2, <2>3 DEF WindowOk
  <1>2. CASE s # "open"
    <2>1. WindowOk(x, d, Tail(u), s, sp2, held2, ann2)
      BY <1>2, SkippedIsOk
    <2>q. QED BY <1>2, <2>1
  <1>q. QED BY <1>1, <1>2

\* An event is published to every socket that speaks for somebody.
LEMMA PublishedIsOk ==
  ASSUME PhInv, NEW v \in Windows, win[v].open, NEW c, c = win[v].socket,
         NEW family \in Families, Publishes(family), NEW to, bound \subseteq to,
         NEW ann2, ann2 = announced', NEW h, h \subseteq HeldBy(c)
  PROVE  WindowOk(win[v], Delivers(to, Event(family))[c], up[c], served[c], speaks[c], h, ann2)
  <1>1. PICK x, d, u, s, sp, held, ann : /\ x = win[v] /\ d = down[c] /\ u = up[c] /\ s = served[c]
                                        /\ sp = speaks[c] /\ held = HeldBy(c) /\ ann = announced
    OBVIOUS
  <1>2. PICK e : e = Event(family)
    OBVIOUS
  <1>3. /\ WindowOk(x, d, u, s, sp, held, ann) /\ x \in Window /\ d \in Seq(Message)
        /\ u \in Seq(Request) /\ c \in Conns
    BY <1>1, OkIs
  <1>4. e \in Message /\ e.is = family
    BY <1>2, EventIs
  <1>5. ann2 = ann \/ e.is = "GAME"
    <2>1. announced' = IF family = "GAME" THEN version' ELSE announced
      BY PublishedTypes DEF PhInv
    <2>q. QED BY <1>1, <1>4, <2>1
  <1>6. CASE c \in to /\ s = "open"
    <2>1. WindowOk(x, Append(d, e), u, s, sp, held, ann2)
      BY <1>3, <1>4, <1>5, <1>6, ToldIsOk
    <2>2. WindowOk(x, Append(d, e), u, s, sp, h, ann2)
      BY <1>1, <2>1, StayingIsOk
    <2>3. Delivers(to, e)[c] = Append(d, e)
      BY <1>1, <1>3, <1>6 DEF Delivers
    <2>q. QED BY <1>1, <1>2, <2>2, <2>3
  <1>7. CASE ~(c \in to /\ s = "open")
    <2>1. s # "open" \/ sp = 0
      <3>1. c \notin to => speaks[c] = 0
        BY <1>3 DEF PhInv, SocketInv
      <3>q. QED BY <1>1, <1>7, <3>1
    <2>2. WindowOk(x, d, u, s, sp, h, ann2)
      BY <1>1, <1>3, <2>1, StayingIsOk
    <2>3. Delivers(to, e)[c] = d
      BY <1>1, <1>3, <1>7 DEF Delivers
    <2>q. QED BY <1>1, <1>2, <2>2, <2>3
  <1>q. QED BY <1>6, <1>7

\* The invariant: an event of the game.
LEMMA GameMovesKeeps ==
  ASSUME PhInv, GameMoves
  PROVE  PhInv'
  <1>1. PICK family \in Families : Publishes(family) /\ down' = Delivers(bound, Event(family))
    BY DEF GameMoves
  <1>2. /\ win' = win /\ up' = up /\ served' = served /\ lost' = lost
        /\ bound' = bound /\ speaks' = speaks /\ seats' = seats
    BY DEF GameMoves, seatVars
  <1>3. FreshStay
    <2>1. \A c \in Conns : served[c] = "unused" => down'[c] = down[c]
      BY <1>1 DEF Delivers
    <2>q. QED BY <1>2, <2>1 DEF FreshStay, PhInv, SocketInv
  <1>4. SpeakersBound
    BY <1>2 DEF SpeakersBound, PhInv, SocketInv
  <1>5. ASSUME NEW v \in Windows, NEW c \in Conns, win[v].open, win[v].socket = c
        PROVE  StillOk(v, c)
    <2>1. PICK ann2, h : ann2 = announced' /\ h = HeldBy(c)
      OBVIOUS
    <2>2. HeldBy(c)' = h
      BY <1>2, <2>1 DEF HeldBy
    <2>3. WindowOk(win[v], Delivers(bound, Event(family))[c], up[c], served[c], speaks[c], h, ann2)
      BY <1>1, <1>5, <2>1, PublishedIsOk
    <2>q. QED BY <1>1, <1>2, <2>1, <2>2, <2>3 DEF StillOk
  <1>6. AllStillOk
    BY <1>5 DEF AllStillOk
  <1>q. QED BY <1>2, <1>3, <1>4, <1>6, ServerKeeps, GameMovesTypes DEF PhInv

\* What serving a request does, whatever the request.
LEMMA ServeFacts ==
  ASSUME PhInv, NEW c \in Conns, Serve(c)
  PROVE  /\ served[c] \in {"open", "closing"} /\ up[c] # <<>> /\ up'[c] = Tail(up[c])
         /\ \A b \in Conns : b # c => up'[b] = up[b]
         /\ Head(up[c]) \in Request /\ win' = win /\ lost' = lost
         /\ up[c] \in Seq(Request) /\ down \in [Conns -> Seq(Message)]
  <1>1. /\ Live(c) /\ up[c] # <<>> /\ up' = [up EXCEPT ![c] = Tail(@)]
        /\ win' = win /\ lost' = lost
    BY DEF Serve
  <1>2. up \in [Conns -> Seq(Request)] /\ down \in [Conns -> Seq(Message)]
    BY CountsAreNaturals DEF PhInv, WinUp, DownOk
  <1>3. PICK q : q = Tail(up[c])
    OBVIOUS
  <1>4. up' = [up EXCEPT ![c] = q] /\ Head(up[c]) \in Request
    BY <1>1, <1>2, <1>3
  <1>q. QED BY <1>1, <1>2, <1>3, <1>4 DEF Live

\* The window whose request is served.
LEMMA ServedStill ==
  ASSUME PhInv, NEW c \in Conns, Serve(c), NEW v \in Windows, win[v].open, win[v].socket = c,
         NEW e \in Message, e.is = "ack", e.kind = Head(up[c]).kind,
         served[c] = "open" => down'[c] = Append(down[c], e),
         served[c] # "open" => down'[c] = down[c],
         served'[c] = served[c], Shows(e) => e.arg = version,
         NEW sp2, sp2 = speaks'[c], NEW ann2, ann2 = announced',
         sp2 = 0 \/ sp2 = speaks[c] \/ Head(up[c]).kind \in {"join", "resume"},
         \/ sp2 = 0
         \/ Shows(e) /\ e.arg >= ann2
         \/ e.is = "ack" /\ e.kind = "resume" /\ e.ok
         \/ Head(up[c]).kind = "join"
         \/ speaks[c] # 0 /\ ann2 = announced /\ Head(up[c]).kind # "read"
  PROVE  StillOk(v, c)
  <1>1. PICK x, d, u, s, sp, held, ann : /\ x = win[v] /\ d = down[c] /\ u = up[c] /\ s = served[c]
                                        /\ sp = speaks[c] /\ held = HeldBy(c) /\ ann = announced
    OBVIOUS
  <1>2. PICK held2, d2 : held2 = HeldBy(c)' /\ d2 = down'[c]
    OBVIOUS
  <1>3. /\ WindowOk(x, d, u, s, sp, held, ann) /\ x \in Window /\ d \in Seq(Message)
        /\ u \in Seq(Request)
    BY <1>1, OkIs
  <1>4. u # <<>> /\ up'[c] = Tail(u) /\ win' = win
    BY <1>1, ServeFacts
  <1>5. Shows(e) => x.view <= e.arg /\ \A k \in DOMAIN d : Shows(d[k]) => d[k].arg <= e.arg
    <2>1. x.view \in 0..version /\ DownOk(down, minted, version) /\ version \in Nat
      BY <1>1, WindowFacts, CountsAreNaturals DEF PhInv
    <2>2. \A k \in DOMAIN d : Shows(d[k]) => d[k].arg \in 0..version
      BY <1>1, <2>1 DEF DownOk, MessageOk, Shows
    <2>q. QED BY <2>1, <2>2
  <1>6. (s = "open" => d2 = Append(d, e)) /\ (s # "open" => d2 = d)
    BY <1>1, <1>2
  <1>7. /\ e.kind = Head(u).kind
        /\ sp2 = 0 \/ sp2 = sp \/ Head(u).kind \in {"join", "resume"}
        /\ \/ sp2 = 0
           \/ Shows(e) /\ e.arg >= ann2
           \/ e.is = "ack" /\ e.kind = "resume" /\ e.ok
           \/ Head(u).kind = "join"
           \/ sp # 0 /\ ann2 = ann /\ Head(u).kind # "read"
    BY <1>1
  <1>8. WindowOk(x, d2, Tail(u), s, sp2, held2, ann2)
    BY <1>3, <1>4, <1>5, <1>6, <1>7, ServedIsOk
  <1>q. QED BY <1>1, <1>2, <1>4, <1>8 DEF StillOk

\* A window nothing happens to, but that fewer seats may name its socket.
LEMMA OthersStill ==
  ASSUME PhInv, NEW b \in Conns, NEW v \in Windows, win[v].open, win[v].socket = b,
         up'[b] = up[b], down'[b] = down[b], served'[b] = served[b], speaks'[b] = speaks[b],
         HeldBy(b)' \subseteq HeldBy(b), announced' = announced
  PROVE  StillOk(v, b)
  <1>1. PICK held2 : held2 = HeldBy(b)'
    OBVIOUS
  <1>2. WindowOk(win[v], down[b], up[b], served[b], speaks[b], HeldBy(b), announced)
    BY OkIs
  <1>3. WindowOk(win[v], down[b], up[b], served[b], speaks[b], held2, announced)
    BY <1>1, <1>2, StayingIsOk
  <1>q. QED BY <1>1, <1>3 DEF StillOk

\* What is left where only the socket served has moved.
LEMMA OneServed ==
  ASSUME PhInv, NEW c \in Conns, Serve(c),
         \A b \in Conns : b # c =>
             /\ down'[b] = down[b] /\ speaks'[b] = speaks[b] /\ HeldBy(b)' \subseteq HeldBy(b),
         served' = served, announced' = announced,
         \A v \in Windows : win[v].open /\ win[v].socket = c => StillOk(v, c)
  PROVE  FreshStay /\ AllStillOk
  <1>1. /\ served[c] \in {"open", "closing"} /\ \A b \in Conns : b # c => up'[b] = up[b]
    BY ServeFacts
  <1>2. FreshStay
    <2>1. \A b \in Conns : served[b] = "unused" => HeldBy(b) = {} /\ speaks[b] = 0 /\ b # c
      BY <1>1 DEF PhInv, SocketInv, HeldBy
    <2>2. \A b \in Conns : served[b] = "unused" => HeldBy(b)' = {}
      BY <2>1
    <2>3. \A b \in Conns : served[b] = "unused" => \A n \in DOMAIN seats' : seats'[n] # b
      BY <2>2 DEF HeldBy
    <2>q. QED BY <1>1, <2>1, <2>3 DEF FreshStay
  <1>3. ASSUME NEW v \in Windows, NEW b \in Conns, win[v].open, win[v].socket = b
        PROVE  StillOk(v, b)
    <2>1. CASE b = c
      BY <1>3, <2>1
    <2>2. CASE b # c
      BY <1>1, <1>3, <2>2, OthersStill
    <2>q. QED BY <2>1, <2>2
  <1>q. QED BY <1>2, <1>3 DEF AllStillOk

\* The invariant: a request refused.
LEMMA RefusesKeeps ==
  ASSUME PhInv, NEW c \in Conns, Serve(c), NEW r, r = Head(up[c]), Refuses(c, r),
         bound' \in {bound, bound \cup {c}}, r.kind = "read" => lost
  PROVE  FreshStay /\ SpeakersBound /\ AllStillOk
  <1>1. PICK e : e = Ack(r.kind, FALSE, 0)
    OBVIOUS
  <1>2. /\ down' = Answer(down, c, e) /\ served' = served /\ speaks' = speaks /\ seats' = seats
        /\ announced' = announced /\ lost' = lost /\ down \in [Conns -> Seq(Message)]
        /\ r \in Request
    BY <1>1, ServeFacts DEF Refuses, logVars
  <1>3. e \in Message /\ e.is = "ack" /\ e.kind = r.kind /\ ~e.ok
    <2>1. r.kind \in Kinds /\ FALSE \in BOOLEAN /\ 0 \in Nat
      BY <1>2 DEF Request
    <2>q. QED BY <1>1, <2>1 DEF Ack, Message
  <1>4. SpeakersBound
    BY <1>2 DEF SpeakersBound, PhInv, SocketInv
  <1>5. /\ served[c] = "open" => down'[c] = Append(down[c], e)
        /\ served[c] # "open" => down'[c] = down[c]
        /\ \A b \in Conns : b # c => down'[b] = down[b]
    BY <1>2, AnswerAt
  <1>6. \A b \in Conns : HeldBy(b)' \subseteq HeldBy(b)
    BY <1>2 DEF HeldBy
  <1>7. r.kind = "read" => speaks[c] = 0
    BY DEF PhInv, SocketInv
  <1>8. ASSUME NEW v \in Windows, win[v].open, win[v].socket = c PROVE StillOk(v, c)
    BY <1>2, <1>3, <1>5, <1>7, <1>8, ServedStill DEF Shows
  <1>q. QED BY <1>2, <1>4, <1>5, <1>6, <1>8, OneServed

\* The invariant: a snapshot read.
LEMMA ReadsKeeps ==
  ASSUME PhInv, NEW c \in Conns, Serve(c), Head(up[c]).kind = "read", Reads(c), ~lost,
         bound' = bound \cup {c}
  PROVE  FreshStay /\ SpeakersBound /\ AllStillOk
  <1>1. PICK e : e = Ack("read", TRUE, version)
    OBVIOUS
  <1>2. /\ down' = Answer(down, c, e) /\ served' = served /\ speaks' = speaks /\ seats' = seats
        /\ announced' = announced /\ lost' = lost /\ down \in [Conns -> Seq(Message)]
    BY <1>1, ServeFacts DEF Reads, logVars
  <1>3. /\ e \in Message /\ e.is = "ack" /\ e.kind = "read" /\ e.ok /\ e.arg = version
        /\ version >= announced
    <2>1. /\ version \in Nat /\ "read" \in Kinds /\ TRUE \in BOOLEAN
          /\ announced \in 0..version
      BY CountsAreNaturals DEF Kinds, PhInv, LogType, TypeInv
    <2>2. version >= announced
      BY <2>1
    <2>q. QED BY <1>1, <2>1, <2>2 DEF Ack, Message
  <1>4. SpeakersBound
    BY <1>2 DEF SpeakersBound, PhInv, SocketInv
  <1>5. /\ served[c] = "open" => down'[c] = Append(down[c], e)
        /\ served[c] # "open" => down'[c] = down[c]
        /\ \A b \in Conns : b # c => down'[b] = down[b]
    BY <1>2, AnswerAt
  <1>6. \A b \in Conns : HeldBy(b)' \subseteq HeldBy(b)
    BY <1>2 DEF HeldBy
  <1>8. ASSUME NEW v \in Windows, win[v].open, win[v].socket = c PROVE StillOk(v, c)
    BY <1>2, <1>3, <1>5, <1>8, ServedStill DEF Shows
  <1>q. QED BY <1>2, <1>4, <1>5, <1>6, <1>8, OneServed

\* The invariant: a seat given out.
LEMMA JoinsKeeps ==
  ASSUME PhInv, NEW c \in Conns, Serve(c), Head(up[c]).kind = "join", Joins(c), ~lost,
         bound' = bound \cup {c}
  PROVE  FreshStay /\ SpeakersBound /\ AllStillOk
  <1>1. PICK m : m = minted'
    OBVIOUS
  <1>2. PICK e : e = Ack("join", TRUE, m)
    OBVIOUS
  <1>3. /\ down' = Answer(down, c, e) /\ served' = served /\ m = minted + 1
        /\ speaks' = [speaks EXCEPT ![c] = m]
        /\ seats' = [n \in DOMAIN seats \cup {m} |-> IF n = m THEN c ELSE seats[n]]
        /\ announced' = announced /\ lost' = lost /\ down \in [Conns -> Seq(Message)]
    BY <1>1, <1>2, ServeFacts DEF Joins, logVars
  <1>4. /\ speaks \in [Conns -> 0..minted] /\ minted \in Nat
    BY SeatFacts DEF PhInv
  <1>5. e \in Message /\ e.is = "ack" /\ e.kind = "join"
    <2>1. "join" \in Kinds /\ TRUE \in BOOLEAN /\ m \in Nat
      BY <1>3, <1>4 DEF Kinds
    <2>q. QED BY <1>2, <2>1 DEF Ack, Message
  <1>6. SpeakersBound
    BY <1>3, <1>4 DEF SpeakersBound, PhInv, SocketInv
  <1>7. /\ served[c] = "open" => down'[c] = Append(down[c], e)
        /\ served[c] # "open" => down'[c] = down[c]
        /\ \A b \in Conns : b # c => down'[b] = down[b]
    BY <1>3, AnswerAt
  <1>8. \A b \in Conns : b # c => HeldBy(b)' \subseteq HeldBy(b) /\ speaks'[b] = speaks[b]
    BY <1>3, <1>4 DEF HeldBy
  <1>9. ASSUME NEW v \in Windows, win[v].open, win[v].socket = c PROVE StillOk(v, c)
    <2>1. ~Shows(e)
      BY <1>5 DEF Shows
    <2>2. PICK sp2, ann2 : sp2 = speaks'[c] /\ ann2 = announced'
      OBVIOUS
    <2>q. QED BY <1>3, <1>5, <1>7, <1>9, <2>1, <2>2, ServedStill
  <1>q. QED BY <1>3, <1>6, <1>7, <1>8, <1>9, OneServed

\* The invariant: a seat given up.
LEMMA LeavesKeeps ==
  ASSUME PhInv, NEW c \in Conns, Serve(c), Head(up[c]).kind = "leave", Leaves(c), ~lost,
         bound' = bound \cup {c}
  PROVE  FreshStay /\ SpeakersBound /\ AllStillOk
  <1>2. PICK e : e = Ack("leave", TRUE, 0)
    OBVIOUS
  <1>3. /\ down' = Answer(down, c, e) /\ served' = served
        /\ speaks' = [speaks EXCEPT ![c] = 0]
        /\ seats' = Restrict(seats, DOMAIN seats \ {speaks[c]})
        /\ announced' = announced /\ lost' = lost /\ down \in [Conns -> Seq(Message)]
    BY <1>2, ServeFacts DEF Leaves, Without, logVars
  <1>4. /\ speaks \in [Conns -> 0..minted] /\ minted \in Nat
    BY SeatFacts DEF PhInv
  <1>5. e \in Message /\ e.is = "ack" /\ e.kind = "leave"
    <2>1. "leave" \in Kinds /\ TRUE \in BOOLEAN /\ 0 \in Nat
      BY DEF Kinds
    <2>q. QED BY <1>2, <2>1 DEF Ack, Message
  <1>6. SpeakersBound
    BY <1>3, <1>4 DEF SpeakersBound, PhInv, SocketInv
  <1>7. /\ served[c] = "open" => down'[c] = Append(down[c], e)
        /\ served[c] # "open" => down'[c] = down[c]
        /\ \A b \in Conns : b # c => down'[b] = down[b]
    BY <1>3, AnswerAt
  <1>8. \A b \in Conns : b # c => HeldBy(b)' \subseteq HeldBy(b) /\ speaks'[b] = speaks[b]
    <2>1. seats' = [n \in DOMAIN seats \ {speaks[c]} |-> seats[n]]
      BY <1>3 DEF Restrict
    <2>q. QED BY <1>3, <1>4, <2>1 DEF HeldBy
  <1>9. ASSUME NEW v \in Windows, win[v].open, win[v].socket = c PROVE StillOk(v, c)
    <2>1. ~Shows(e) /\ speaks'[c] = 0
      BY <1>3, <1>4, <1>5 DEF Shows
    <2>2. PICK sp2, ann2 : sp2 = speaks'[c] /\ ann2 = announced'
      OBVIOUS
    <2>q. QED BY <1>3, <1>5, <1>7, <1>9, <2>1, <2>2, ServedStill
  <1>q. QED BY <1>3, <1>6, <1>7, <1>8, <1>9, OneServed

\* An act is announced before it is answered.
LEMMA ActsKeeps ==
  ASSUME PhInv, NEW c \in Conns, Serve(c), Head(up[c]).kind = "act", NEW i, Acts(c, i), ~lost,
         bound' = bound \cup {c}
  PROVE  FreshStay /\ SpeakersBound /\ AllStillOk
  <1>1. PICK to : to = bound \cup {c}
    OBVIOUS
  <1>2. PICK e : e = Ack("act", TRUE, 0)
    OBVIOUS
  <1>3. PICK family \in Families :
           Publishes(family) /\ down' = Answer(Delivers(to, Event(family)), c, e)
    BY <1>1, <1>2 DEF Acts
  <1>4. PICK box : box = Delivers(to, Event(family))
    OBVIOUS
  <1>5. /\ served' = served /\ speaks' = speaks /\ seats' = seats /\ speaks[c] # 0
        /\ lost' = lost /\ bound \subseteq to
    BY <1>1, ServeFacts DEF Acts
  <1>6. e \in Message /\ e.is = "ack" /\ e.kind = "act"
    <2>1. "act" \in Kinds /\ TRUE \in BOOLEAN /\ 0 \in Nat
      BY DEF Kinds
    <2>q. QED BY <1>2, <2>1 DEF Ack, Message
  <1>7. box \in [Conns -> Seq(Message)]
    <2>1. DownOk(down, minted, version)
      BY CountsAreNaturals DEF PhInv
    <2>2. DownOk(box, minted, version)
      BY <1>3, <1>4, <2>1, DeliversOk
    <2>q. QED BY <2>2 DEF DownOk
  <1>8. /\ served[c] = "open" => down'[c] = Append(box[c], e)
        /\ served[c] # "open" => down'[c] = box[c]
        /\ \A b \in Conns : b # c => down'[b] = box[b]
    BY <1>3, <1>4, <1>7, AnswerAt
  <1>9. /\ served[c] \in {"open", "closing"} /\ \A b \in Conns : b # c => up'[b] = up[b]
        /\ win' = win /\ up'[c] = Tail(up[c]) /\ up[c] # <<>>
    BY ServeFacts
  <1>10. SpeakersBound
    BY <1>1, <1>5 DEF SpeakersBound, PhInv, SocketInv
  <1>11. FreshStay
    <2>1. \A b \in Conns : served[b] = "unused" => box[b] = down[b] /\ b # c
      BY <1>4, <1>9 DEF Delivers
    <2>q. QED BY <1>5, <1>8, <1>9, <2>1 DEF FreshStay, PhInv, SocketInv
  <1>12. ASSUME NEW v \in Windows, NEW b \in Conns, win[v].open, win[v].socket = b
         PROVE  StillOk(v, b)
    <2>1. PICK x, d, u, s, sp, h, ann2 : /\ x = win[v] /\ d = box[b] /\ u = up[b] /\ s = served[b]
                                         /\ sp = speaks[b] /\ h = HeldBy(b) /\ ann2 = announced'
      OBVIOUS
    <2>2. HeldBy(b)' = h
      BY <1>5, <2>1 DEF HeldBy
    <2>3. WindowOk(x, d, u, s, sp, h, ann2)
      BY <1>3, <1>4, <1>5, <1>12, <2>1, PublishedIsOk
    <2>4. CASE b # c
      <3>1. down'[b] = d /\ up'[b] = u /\ served'[b] = s /\ speaks'[b] = sp
        BY <1>5, <1>8, <1>9, <2>1, <2>4
      <3>q. QED BY <1>9, <2>1, <2>2, <2>3, <3>1 DEF StillOk
    <2>5. CASE b = c
      <3>1. PICK d2 : d2 = down'[b]
        OBVIOUS
      <3>2. /\ x \in Window /\ d \in Seq(Message) /\ u \in Seq(Request) /\ u # <<>>
            /\ (s = "open" => d2 = Append(d, e)) /\ (s # "open" => d2 = d)
        BY <1>7, <1>8, <1>9, <1>12, <2>1, <2>5, <3>1, OkIs
      <3>3. e.kind = Head(u).kind /\ Head(u).kind = "act" /\ ~Shows(e) /\ sp # 0
        BY <1>5, <1>6, <2>1, <2>5 DEF Shows
      <3>4. WindowOk(x, d2, Tail(u), s, sp, h, ann2)
        BY <1>6, <2>3, <3>2, <3>3, ServedIsOk
      <3>5. up'[b] = Tail(u) /\ served'[b] = s /\ speaks'[b] = sp
        BY <1>5, <1>9, <2>1, <2>5
      <3>q. QED BY <1>9, <2>1, <2>2, <3>1, <3>4, <3>5 DEF StillOk
    <2>q. QED BY <2>4, <2>5
  <1>q. QED BY <1>10, <1>11, <1>12 DEF AllStillOk

\* The window of a socket that loses its seat, whose window is told if it is open.
LEMMA DisplacedStill ==
  ASSUME PhInv, win' = win, NEW b \in Conns, NEW v \in Windows, win[v].open, win[v].socket = b,
         HeldBy(b) # {}, HeldBy(b)' \subseteq HeldBy(b), up'[b] = up[b], speaks'[b] = 0,
         NEW e \in Message, e.is \in {"superseded", "removed"},
         served[b] = "open" => down'[b] = Append(down[b], e) /\ served'[b] = "closing",
         served[b] # "open" => down'[b] = down[b] /\ served'[b] = served[b]
  PROVE  StillOk(v, b)
  <1>1. PICK x, d, u, s, sp, held, ann : /\ x = win[v] /\ d = down[b] /\ u = up[b] /\ s = served[b]
                                        /\ sp = speaks[b] /\ held = HeldBy(b) /\ ann = announced
    OBVIOUS
  <1>2. PICK d2, s2, h2, ann2 : /\ d2 = down'[b] /\ s2 = served'[b] /\ h2 = HeldBy(b)'
                                /\ ann2 = announced'
    OBVIOUS
  <1>3. /\ WindowOk(x, d, u, s, sp, held, ann) /\ x \in Window /\ d \in Seq(Message)
        /\ u \in Seq(Request)
    BY <1>1, OkIs
  <1>4. WindowOk(x, d2, u, s2, 0, h2, ann2)
    <2>1. CASE s = "open"
      <3>1. s2 = "closing" /\ d2 = Append(d, e) /\ held # {}
        BY <1>1, <1>2, <2>1
      <3>2. WindowOk(x, Append(d, e), u, s2, 0, h2, ann2)
        BY <1>3, <2>1, <3>1, DisplacedIsOk
      <3>q. QED BY <3>1, <3>2
    <2>2. CASE s # "open"
      <3>1. s2 = s /\ d2 = d /\ h2 \subseteq held
        BY <1>1, <1>2, <2>2
      <3>2. WindowOk(x, d, u, s, 0, h2, ann2)
        BY <1>3, <2>2, <3>1, MuteIsOk
      <3>q. QED BY <3>1, <3>2
    <2>q. QED BY <2>1, <2>2
  <1>q. QED BY <1>1, <1>2, <1>4 DEF StillOk

\* The invariant: a seat taken over.
LEMMA ResumesKeeps ==
  ASSUME PhInv, NEW c \in Conns, Serve(c), Head(up[c]).kind = "resume", ~lost,
         NEW n \in DOMAIN seats, Resumes(c, n)
  PROVE  FreshStay /\ SpeakersBound /\ AllStillOk
  <1>1. PICK old, e, f : /\ old = {seats[n]} \ {None, c} /\ e = Ack("resume", TRUE, n)
                         /\ f = Event("superseded")
    OBVIOUS
  <1>2. PICK box : box = Delivers(old, f)
    OBVIOUS
  <1>3. /\ seats' = [seats EXCEPT ![n] = c]
        /\ speaks' = [d \in Conns |-> IF d = c THEN n ELSE IF d \in old THEN 0 ELSE speaks[d]]
        /\ bound' = (bound \cup {c}) \ old
        /\ served' = [d \in Conns |-> IF d \in old /\ served[d] = "open" THEN "closing"
                                      ELSE served[d]]
        /\ down' = Answer(box, c, e) /\ announced' = announced /\ lost' = lost
    BY <1>1, <1>2, ServeFacts DEF Resumes, logVars
  <1>4. /\ e \in Message /\ e.is = "ack" /\ e.kind = "resume" /\ e.ok
        /\ f \in Message /\ f.is \in {"superseded", "removed"}
    <2>1. "resume" \in Kinds /\ TRUE \in BOOLEAN /\ n \in Nat
      BY SeatFacts DEF Kinds, PhInv
    <2>2. f \in Message /\ f.is = "superseded"
      BY <1>1, EventIs
    <2>3. e \in Message /\ e.is = "ack" /\ e.kind = "resume" /\ e.ok
      BY <1>1, <2>1 DEF Ack, Message
    <2>q. QED BY <2>2, <2>3
  <1>5. box \in [Conns -> Seq(Message)]
    <2>1. DownOk(down, minted, version)
      BY CountsAreNaturals DEF PhInv
    <2>2. DownOk(box, minted, version)
      BY <1>1, <1>2, <2>1, DeliversOk
    <2>q. QED BY <2>2 DEF DownOk
  <1>6. /\ served[c] = "open" => down'[c] = Append(box[c], e)
        /\ served[c] # "open" => down'[c] = box[c]
        /\ \A b \in Conns : b # c => down'[b] = box[b]
    BY <1>3, <1>5, AnswerAt
  <1>7. \A b \in Conns : /\ b \in old /\ served[b] = "open" => box[b] = Append(down[b], f)
                         /\ ~(b \in old /\ served[b] = "open") => box[b] = down[b]
    BY <1>2 DEF Delivers
  <1>8. /\ served[c] \in {"open", "closing"} /\ \A b \in Conns : b # c => up'[b] = up[b]
        /\ win' = win /\ up'[c] = Tail(up[c]) /\ up[c] # <<>>
    BY ServeFacts
  <1>9. c \notin old /\ \A b \in old : b \in Conns /\ HeldBy(b) # {} /\ served[b] # "unused"
    <2>1. seats[n] \in Conns \cup {None}
      BY SeatFacts DEF PhInv
    <2>q. QED BY <1>1, <2>1 DEF HeldBy, PhInv, SocketInv
  <1>10. SpeakersBound
    BY <1>3, <1>9 DEF SpeakersBound, PhInv, SocketInv
  <1>11. \A b \in Conns : b # c => HeldBy(b)' \subseteq HeldBy(b)
    BY <1>3 DEF HeldBy
  <1>12. FreshStay
    <2>1. \A b \in Conns : served[b] = "unused" =>
              b # c /\ b \notin old /\ HeldBy(b) = {} /\ speaks[b] = 0
      BY <1>8, <1>9 DEF PhInv, SocketInv, HeldBy
    <2>2. \A b \in Conns : served[b] = "unused" => \A k \in DOMAIN seats' : seats'[k] # b
      BY <1>11, <2>1 DEF HeldBy
    <2>q. QED BY <1>3, <1>6, <1>7, <1>8, <2>1, <2>2 DEF FreshStay
  <1>13. ASSUME NEW v \in Windows, NEW b \in Conns, win[v].open, win[v].socket = b
         PROVE  StillOk(v, b)
    <2>1. CASE b = c
      <3>1. /\ served[c] = "open" => down'[c] = Append(down[c], e)
            /\ served[c] # "open" => down'[c] = down[c]
            /\ served'[c] = served[c]
        BY <1>3, <1>6, <1>7, <1>9
      <3>2. ~Shows(e)
        BY <1>4 DEF Shows
      <3>3. PICK sp2, ann2 : sp2 = speaks'[c] /\ ann2 = announced'
        OBVIOUS
      <3>q. QED BY <1>4, <1>13, <2>1, <3>1, <3>2, <3>3, ServedStill
    <2>2. CASE b \in old
      <3>1. /\ served[b] = "open" => down'[b] = Append(down[b], f) /\ served'[b] = "closing"
            /\ served[b] # "open" => down'[b] = down[b] /\ served'[b] = served[b]
            /\ speaks'[b] = 0 /\ up'[b] = up[b] /\ b # c
        BY <1>3, <1>6, <1>7, <1>8, <1>9, <2>2
      <3>q. QED BY <1>4, <1>8, <1>9, <1>11, <1>13, <2>2, <3>1, DisplacedStill
    <2>3. CASE b # c /\ b \notin old
      <3>1. /\ down'[b] = down[b] /\ served'[b] = served[b] /\ speaks'[b] = speaks[b]
            /\ up'[b] = up[b]
        BY <1>3, <1>6, <1>7, <1>8, <2>3
      <3>q. QED BY <1>3, <1>8, <1>11, <1>13, <2>3, <3>1, OthersStill
    <2>q. QED BY <2>1, <2>2, <2>3
  <1>q. QED BY <1>10, <1>12, <1>13 DEF AllStillOk

\* The invariant: a request served.
LEMMA ServeKeeps ==
  ASSUME PhInv, NEW c \in Conns, Serve(c)
  PROVE  PhInv'
  <1>1. PICK r : r = Head(up[c])
    OBVIOUS
  <1>2. FreshStay /\ SpeakersBound /\ AllStillOk
    <2>1. CASE ~lost /\ r.kind = "resume" /\ r.arg \in DOMAIN seats /\ Resumes(c, r.arg)
      <3>1. PICK n \in DOMAIN seats : n = r.arg
        BY <2>1
      <3>2. Head(up[c]).kind = "resume" /\ Resumes(c, n)
        BY <1>1, <2>1, <3>1
      <3>q. QED BY <2>1, <3>2, ResumesKeeps
    <2>2. CASE ~lost /\ bound' = bound \cup {c} /\ r.kind = "join" /\ Joins(c)
      BY <1>1, <2>2, JoinsKeeps
    <2>3. CASE ~lost /\ bound' = bound \cup {c} /\ r.kind = "read" /\ Reads(c)
      BY <1>1, <2>3, ReadsKeeps
    <2>4. CASE ~lost /\ bound' = bound \cup {c} /\ r.kind = "act" /\ Acts(c, r.arg)
      <3>1. Head(up[c]).kind = "act" /\ Acts(c, Head(up[c]).arg)
        BY <1>1, <2>4
      <3>q. QED BY <2>4, <3>1, ActsKeeps
    <2>5. CASE ~lost /\ bound' = bound \cup {c} /\ r.kind = "leave" /\ Leaves(c)
      BY <1>1, <2>5, LeavesKeeps
    <2>6. CASE /\ bound' = IF lost THEN bound ELSE bound \cup {c}
               /\ r.kind = "read" => lost
               /\ Refuses(c, r)
      <3>1. bound' \in {bound, bound \cup {c}} /\ Refuses(c, Head(up[c]))
        BY <1>1, <2>6
      <3>2. Head(up[c]).kind = "read" => lost
        BY <1>1, <2>6
      <3>q. QED BY <3>1, <3>2, RefusesKeeps
    <2>q. QED BY <1>1, <2>1, <2>2, <2>3, <2>4, <2>5, <2>6 DEF Serve
  <1>3. TypeInv'
    BY ServeTypes
  <1>4. win' = win
    BY ServeFacts
  <1>5. SocketInv' /\ WindowInv' /\ OpenInv' /\ NeverGivesUp'
    BY <1>2, <1>4, ServerKeeps
  <1>q. QED BY <1>3, <1>5 DEF PhInv

\* The invariant: a player removed.
LEMMA HostRemovesKeeps ==
  ASSUME PhInv, NEW n, HostRemoves(n)
  PROVE  PhInv'
  <1>1. PICK old, f : old = {seats[n]} \ {None} /\ f = Event("removed")
    OBVIOUS
  <1>2. /\ n \in DOMAIN seats /\ seats' = Restrict(seats, DOMAIN seats \ {n})
        /\ speaks' = [d \in Conns |-> IF d \in old THEN 0 ELSE speaks[d]]
        /\ bound' = bound \ old
        /\ down' = Delivers(old, f)
        /\ served' = [d \in Conns |-> IF d \in old /\ served[d] = "open" THEN "closing"
                                      ELSE served[d]]
        /\ win' = win /\ up' = up /\ lost' = lost /\ announced' = announced
    BY <1>1 DEF HostRemoves, Without, logVars
  <1>3. f \in Message /\ f.is \in {"superseded", "removed"}
    <2>1. f \in Message /\ f.is = "removed"
      BY <1>1, EventIs
    <2>q. QED BY <2>1
  <1>4. \A b \in Conns : /\ b \in old /\ served[b] = "open" => down'[b] = Append(down[b], f)
                         /\ ~(b \in old /\ served[b] = "open") => down'[b] = down[b]
    BY <1>2 DEF Delivers
  <1>5. \A b \in old : b \in Conns /\ HeldBy(b) # {} /\ served[b] # "unused"
    <2>1. seats[n] \in Conns \cup {None}
      BY <1>2, SeatFacts DEF PhInv
    <2>q. QED BY <1>1, <1>2, <2>1 DEF HeldBy, PhInv, SocketInv
  <1>6. \A b \in Conns : HeldBy(b)' \subseteq HeldBy(b)
    <2>1. seats' = [k \in DOMAIN seats \ {n} |-> seats[k]]
      BY <1>2 DEF Restrict
    <2>q. QED BY <2>1 DEF HeldBy
  <1>7. SpeakersBound
    BY <1>2 DEF SpeakersBound, PhInv, SocketInv
  <1>8. FreshStay
    <2>1. \A b \in Conns : served[b] = "unused" => b \notin old /\ HeldBy(b) = {} /\ speaks[b] = 0
      BY <1>5 DEF PhInv, SocketInv, HeldBy
    <2>2. \A b \in Conns : served[b] = "unused" => \A k \in DOMAIN seats' : seats'[k] # b
      BY <1>6, <2>1 DEF HeldBy
    <2>q. QED BY <1>2, <1>4, <2>1, <2>2 DEF FreshStay
  <1>9. ASSUME NEW v \in Windows, NEW b \in Conns, win[v].open, win[v].socket = b
        PROVE  StillOk(v, b)
    <2>1. CASE b \in old
      <3>1. /\ served[b] = "open" => down'[b] = Append(down[b], f) /\ served'[b] = "closing"
            /\ served[b] # "open" => down'[b] = down[b] /\ served'[b] = served[b]
            /\ speaks'[b] = 0 /\ up'[b] = up[b]
        BY <1>2, <1>4, <2>1
      <3>q. QED BY <1>2, <1>3, <1>5, <1>6, <1>9, <2>1, <3>1, DisplacedStill
    <2>2. CASE b \notin old
      <3>1. /\ down'[b] = down[b] /\ served'[b] = served[b] /\ speaks'[b] = speaks[b]
            /\ up'[b] = up[b]
        BY <1>2, <1>4, <2>2
      <3>q. QED BY <1>2, <1>6, <1>9, <3>1, OthersStill
    <2>q. QED BY <2>1, <2>2
  <1>10. AllStillOk
    BY <1>9 DEF AllStillOk
  <1>q. QED BY <1>2, <1>7, <1>8, <1>10, ServerKeeps, HostRemovesTypes DEF PhInv

\* The window of a socket the server has seen the end of.
LEMMA ClosedStill ==
  ASSUME PhInv, NEW b \in Conns, NEW v \in Windows, win[v].open, win[v].socket = b,
         down'[b] = down[b], up'[b] = <<>>, served'[b] = "closed", speaks'[b] = 0
  PROVE  StillOk(v, b)
  <1>1. PICK x, d, u, s, sp, held, ann : /\ x = win[v] /\ d = down[b] /\ u = up[b] /\ s = served[b]
                                        /\ sp = speaks[b] /\ held = HeldBy(b) /\ ann = announced
    OBVIOUS
  <1>2. PICK o, t, h2, ann2 : o = up'[b] /\ t = served'[b] /\ h2 = HeldBy(b)' /\ ann2 = announced'
    OBVIOUS
  <1>3. /\ WindowOk(x, d, u, s, sp, held, ann) /\ x \in Window /\ d \in Seq(Message)
        /\ u \in Seq(Request)
    BY <1>1, OkIs
  <1>4. o = <<>> /\ t = "closed"
    BY <1>2
  <1>5. WindowOk(x, d, o, t, 0, h2, ann2)
    BY <1>3, <1>4, ClosedIsOk
  <1>q. QED BY <1>1, <1>2, <1>5 DEF StillOk

\* The invariant: a socket the server sees closed.
LEMMA ServerNoticesKeeps ==
  ASSUME PhInv, NEW c \in Conns, ServerNotices(c)
  PROVE  PhInv'
  <1>1. /\ served' = [served EXCEPT ![c] = "closed"] /\ up' = [up EXCEPT ![c] = <<>>]
        /\ bound' = bound \ {c} /\ speaks' = [speaks EXCEPT ![c] = 0]
        /\ seats' = [n \in DOMAIN seats |-> IF seats[n] = c /\ speaks[c] = n THEN None
                                            ELSE seats[n]]
        /\ win' = win /\ lost' = lost /\ down' = down /\ announced' = announced
        /\ served[c] \in {"open", "closing"}
    BY DEF ServerNotices, logVars, Live
  <1>2. /\ \A b \in Conns : b # c => /\ served'[b] = served[b] /\ up'[b] = up[b]
                                     /\ speaks'[b] = speaks[b]
        /\ up'[c] = <<>> /\ served'[c] = "closed" /\ speaks'[c] = 0
    <2>1. up \in [Conns -> Seq(Request)] /\ speaks \in [Conns -> 0..minted]
      BY CountsAreNaturals, SeatFacts DEF PhInv, WinUp
    <2>2. served \in [Conns -> {"unused", "open", "closing", "closed"}]
      BY CountsAreNaturals DEF PhInv
    <2>q. QED BY <1>1, <2>1, <2>2
  <1>3. \A b \in Conns : HeldBy(b)' \subseteq HeldBy(b)
    BY <1>1, PhoneAssumption DEF HeldBy
  <1>4. SpeakersBound
    BY <1>1, <1>2 DEF SpeakersBound, PhInv, SocketInv
  <1>5. FreshStay
    <2>1. \A b \in Conns : served[b] = "unused" => b # c /\ HeldBy(b) = {} /\ speaks[b] = 0
      BY <1>1 DEF PhInv, SocketInv, HeldBy
    <2>2. \A b \in Conns : served[b] = "unused" => \A k \in DOMAIN seats' : seats'[k] # b
      BY <1>3, <2>1 DEF HeldBy
    <2>q. QED BY <1>1, <1>2, <2>1, <2>2 DEF FreshStay
  <1>6. ASSUME NEW v \in Windows, NEW b \in Conns, win[v].open, win[v].socket = b
        PROVE  StillOk(v, b)
    <2>1. CASE b = c
      BY <1>1, <1>2, <1>6, <2>1, ClosedStill
    <2>2. CASE b # c
      BY <1>1, <1>2, <1>3, <1>6, <2>2, OthersStill
    <2>q. QED BY <2>1, <2>2
  <1>7. AllStillOk
    BY <1>6 DEF AllStillOk
  <1>q. QED BY <1>1, <1>4, <1>5, <1>7, ServerKeeps, ServerNoticesTypes DEF PhInv

\* The invariant: a restart.
LEMMA ServerRestartsKeeps ==
  ASSUME PhInv, ServerRestarts
  PROVE  PhInv'
  <1>1. /\ served' = [c \in Conns |-> IF Live(c) THEN "closed" ELSE served[c]]
        /\ up' = [c \in Conns |-> <<>>] /\ bound' = {} /\ speaks' = [c \in Conns |-> 0]
        /\ seats' = <<>> /\ win' = win /\ down' = down
    BY DEF ServerRestarts
  <1>2. \A c \in Conns : /\ served[c] = "unused" => served'[c] = "unused"
                         /\ served[c] # "unused" => served'[c] = "closed"
    <2>1. served \in [Conns -> {"unused", "open", "closing", "closed"}]
      BY CountsAreNaturals DEF PhInv
    <2>q. QED BY <1>1, <2>1 DEF Live
  <1>3. SpeakersBound
    BY <1>1 DEF SpeakersBound
  <1>4. FreshStay
    <2>1. DOMAIN seats' = {}
      BY <1>1
    <2>2. \A c \in Conns : served[c] = "unused" => up[c] = <<>>
      BY DEF PhInv, SocketInv
    <2>q. QED BY <1>1, <1>2, <2>1, <2>2 DEF FreshStay
  <1>5. ASSUME NEW v \in Windows, NEW b \in Conns, win[v].open, win[v].socket = b
        PROVE  StillOk(v, b)
    <2>1. served[b] # "unused"
      BY <1>5 DEF PhInv, WindowInv
    <2>q. QED BY <1>1, <1>2, <1>5, <2>1, ClosedStill
  <1>6. AllStillOk
    BY <1>5 DEF AllStillOk
  <1>q. QED BY <1>1, <1>3, <1>4, <1>6, ServerKeeps, ServerRestartsTypes DEF PhInv

-----------------------------------------------------------------------------
(* The invariant holds of every reachable state. *)

\* No window is open yet and nothing is under way.
LEMMA InitHolds == PInit => PhInv
  <1> SUFFICES ASSUME PInit PROVE PhInv
    OBVIOUS
  <1>1. MaxSeats \in Nat /\ MaxVersion \in Nat /\ MaxIntents \in Nat /\ None \notin Conns
    BY BoundsAreNaturals, PhoneAssumption
  <1>2. \A w \in Windows : win[w] = NewWindow
    BY DEF PInit
  <1>3. NewWindow \in Window /\ NewWindow.identity = 0 /\ NewWindow.view = 0
    BY DEF NewWindow, Window
  <1>4. WinType
    BY <1>1, <1>2, <1>3 DEF PInit, WinType
  <1>5. NetType
    <2>1. PICK o \in Seq(Request) : o = <<>> /\ DOMAIN o = {}
      <3>1. <<>> \in Seq(Request) /\ DOMAIN <<>> = {}
        OBVIOUS
      <3>q. QED BY <3>1
    <2>2. PICK q \in Seq(Message) : q = <<>> /\ DOMAIN q = {}
      <3>1. <<>> \in Seq(Message) /\ DOMAIN <<>> = {}
        OBVIOUS
      <3>q. QED BY <3>1
    <2>3. /\ up = [c \in Conns |-> o] /\ down = [c \in Conns |-> q]
          /\ served = [c \in Conns |-> "unused"]
      BY <2>1, <2>2 DEF PInit
    <2>q. QED BY <2>1, <2>2, <2>3 DEF NetType
  <1>6. SeatType
    <2>1. DOMAIN seats = {}
      BY DEF PInit
    <2>q. QED BY <1>1, <2>1 DEF PInit, SeatType
  <1>7. LogType
    <2>1. applied = [i \in 1..MaxIntents |-> IF i \in seen THEN 1 ELSE 0]
      BY DEF PInit
    <2>2. /\ version \in 0..MaxVersion /\ announced \in 0..version
          /\ intents \in 0..MaxIntents /\ seen \subseteq 1..intents
      <3>1. version = 0 /\ announced = 0 /\ intents = 0 /\ seen = {}
        BY DEF PInit
      <3>q. QED BY <1>1, <3>1
    <2>3. lost \in BOOLEAN
      BY DEF PInit
    <2>q. QED BY <2>1, <2>2, <2>3 DEF LogType
  <1>8. SocketInv
    <2>1. DOMAIN seats = {}
      BY DEF PInit
    <2>q. QED BY <2>1 DEF PInit, SocketInv
  <1>9. \A w \in Windows : /\ win[w].page = "closed" /\ win[w].socket = None /\ ~win[w].open
                           /\ win[w].asked = <<>> /\ ~win[w].retrying /\ ~win[w].told
    BY <1>2 DEF NewWindow
  <1>10. WindowInv /\ OpenInv /\ NeverGivesUp
    BY <1>9 DEF WindowInv, OpenInv, NeverGivesUp
  <1>q. QED BY <1>4, <1>5, <1>6, <1>7, <1>8, <1>10 DEF PhInv, TypeInv

\* One action at a time.
LEMMA StepHolds == PhInv /\ [PNext]_pvars => PhInv'
  <1> SUFFICES ASSUME PhInv, [PNext]_pvars PROVE PhInv'
    OBVIOUS
  <1>1. ASSUME NEW w \in Windows, NEW c \in Conns, Load(w, c) \/ Retry(w, c) PROVE PhInv'
    BY <1>1, LoadKeeps, RetryKeeps
  <1>2. ASSUME NEW w \in Windows, Connected(w) PROVE PhInv'
    BY <1>2, ConnectedKeeps
  <1>3. ASSUME NEW w \in Windows, ConnectFails(w) PROVE PhInv'
    BY <1>3, ConnectFailsKeeps
  <1>4. ASSUME NEW w \in Windows, Drops(w) PROVE PhInv'
    BY <1>4, DropsKeeps
  <1>5. ASSUME NEW w \in Windows, Receive(w) PROVE PhInv'
    BY <1>5, ReceiveKeeps
  <1>6. ASSUME NEW w \in Windows, GivesUp(w) PROVE PhInv'
    BY <1>6, GivesUpKeeps
  <1>7. ASSUME NEW w \in Windows, Join(w) \/ Tap(w) \/ Leave(w) PROVE PhInv'
    BY <1>7, JoinKeeps, TapKeeps, LeaveKeeps
  <1>8. ASSUME NEW w \in Windows, NEW i \in 1..MaxIntents, SendAgain(w, i) PROVE PhInv'
    BY <1>8, SendAgainKeeps
  <1>9. ASSUME NEW c \in Conns, Serve(c) \/ ServerNotices(c) PROVE PhInv'
    BY <1>9, ServeKeeps, ServerNoticesKeeps
  <1>10. ASSUME GameMoves PROVE PhInv'
    BY <1>10, GameMovesKeeps
  <1>11. ASSUME NEW n \in 1..MaxSeats, HostRemoves(n) PROVE PhInv'
    BY <1>11, HostRemovesKeeps
  <1>12. ASSUME ServerRestarts PROVE PhInv'
    BY <1>12, ServerRestartsKeeps
  <1>13. CASE UNCHANGED pvars
    BY <1>13 DEF pvars, netVars, seatVars, logVars, PhInv, TypeInv, WinType, NetType, SeatType,
                 LogType, SocketInv, WindowInv, OpenInv, Ok, HeldBy, NeverGivesUp
  <1>q. QED BY <1>1, <1>2, <1>3, <1>4, <1>5, <1>6, <1>7, <1>8, <1>9, <1>10, <1>11, <1>12, <1>13
            DEF PNext

\* Every reachable state has the invariant.
THEOREM InvHolds == PSpec => []PhInv
  BY InitHolds, StepHolds, PTL DEF PSpec

\* An intent remembered was accepted once, and one forgotten never.
LEMMA OnceIsImplied == PhInv => IntentsApplyOnce
  <1> SUFFICES ASSUME PhInv PROVE IntentsApplyOnce
    OBVIOUS
  <1>1. TypeInv /\ minted \in Nat /\ version \in Nat /\ intents \in Nat /\ intents \in 0..MaxIntents
    BY CountsAreNaturals DEF PhInv, TypeInv, LogType
  <1>2. AcceptedOnce
    BY <1>1 DEF TypeInv, LogType, AcceptedOnce
  <1>3. ASSUME NEW w \in Windows
        PROVE  /\ win[w].page \in {"closed", "shown", "evicted"}
               /\ win[w].socket \in Conns \cup {None}
               /\ {win[w].open, win[w].first, win[w].retrying, win[w].byUs} \subseteq BOOLEAN
               /\ win[w].open => win[w].socket # None
               /\ win[w].identity \in 0..minted /\ win[w].view \in 0..version
               /\ \A i \in DOMAIN win[w].asked : win[w].asked[i].kind \in Kinds
    <2>1. win[w] \in Window /\ win[w].identity \in 0..minted /\ win[w].view \in 0..version
      BY <1>3, WindowFacts
    <2>2. win[w].open => win[w].socket # None
      BY <1>3 DEF PhInv, WindowInv
    <2>3. win[w].asked \in Seq(Pending)
      BY <2>1 DEF Window
    <2>4. \A i \in DOMAIN win[w].asked : win[w].asked[i].kind \in Kinds
      <3>1. PICK a : a = win[w].asked
        OBVIOUS
      <3>2. \A i \in DOMAIN a : a[i] \in Pending
        BY <2>3, <3>1
      <3>q. QED BY <3>1, <3>2 DEF Pending
    <2>5. /\ win[w].page \in {"closed", "shown", "evicted"}
          /\ win[w].socket \in Conns \cup {None}
          /\ win[w].open \in BOOLEAN /\ win[w].first \in BOOLEAN
          /\ win[w].retrying \in BOOLEAN /\ win[w].byUs \in BOOLEAN
      BY <2>1 DEF Window
    <2>6. {win[w].open, win[w].first, win[w].retrying, win[w].byUs} \subseteq BOOLEAN
      BY <2>5
    <2>q. QED BY <2>1, <2>2, <2>4, <2>5, <2>6
  <1>4. PTypeOK
    BY <1>1, <1>3 DEF PTypeOK, TypeInv, WinType, SeatType, LogType
  <1>q. QED BY <1>2, <1>4 DEF IntentsApplyOnce

\* However often, over whichever sockets and however late an intent is sent, and
\* whatever was given up on meanwhile, the registry accepts it at most once, and
\* all the windows and the server hold of each other is of their types.
THEOREM IntentsApplyOnceAlways == PSpec => []IntentsApplyOnce
  BY InvHolds, OnceIsImplied, PTL

\* Both parts are in the invariant, the second for the sockets of open windows.
LEMMA LostIsImplied == PhInv => OnlyTheLostComeBack
  <1> SUFFICES ASSUME PhInv PROVE OnlyTheLostComeBack
    OBVIOUS
  <1>1. ASSUME NEW w \in Windows, win[w].told
        PROVE  /\ ~win[w].retrying
               /\ win[w].socket # None =>
                      /\ \A i \in DOMAIN up[win[w].socket] : up[win[w].socket][i].kind # "resume"
                      /\ win[w].identity # 0 => speaks[win[w].socket] = 0
    <2>1. ~win[w].retrying /\ (win[w].socket # None => win[w].open)
      BY <1>1 DEF PhInv, WindowInv
    <2>2. CASE win[w].socket # None
      <3>1. Ok(w) /\ win[w].open
        BY <1>1, <2>1, <2>2 DEF PhInv, OpenInv
      <3>2. PICK c : c = win[w].socket
        OBVIOUS
      <3>3. SentOffFor(win[w], down[c], up[c], served[c], speaks[c], HeldBy(c))
        BY <3>1, <3>2 DEF Ok, WindowOk, Steady
      <3>q. QED BY <1>1, <2>1, <3>2, <3>3 DEF SentOffFor, SentOff
    <2>q. QED BY <2>1, <2>2
  <1>2. SentAwayStaysAway
    BY <1>1 DEF SentAwayStaysAway
  <1>q. QED BY <1>2 DEF OnlyTheLostComeBack, PhInv

\* A window that lost its connection always has a socket or the next try ahead
\* of it, and one that another window of the player's or the Host sent away has
\* no try ahead of it, no resume under way, and nobody to speak for.
THEOREM OnlyTheLostComeBackAlways == PSpec => []OnlyTheLostComeBack
  BY InvHolds, LostIsImplied, PTL

\* A window that asked nothing has nothing under way, so no reason to read.
LEMMA CurrentIsImplied == PhInv => ViewIsCurrent
  <1> SUFFICES ASSUME PhInv, NEW w \in Windows, Quiet(w) PROVE win[w].view >= announced
    BY DEF ViewIsCurrent
  <1>1. PICK x, c : x = win[w] /\ c = win[w].socket
    OBVIOUS
  <1>2. /\ x.page = "shown" /\ x.open /\ x.asked = <<>> /\ ~x.gaveUp /\ x.identity # 0
        /\ served[c] = "open" /\ speaks[c] = x.identity /\ down[c] = <<>>
    BY <1>1 DEF Quiet
  <1>3. PICK d, u, s, sp, held, ann : /\ d = down[c] /\ u = up[c] /\ s = served[c]
                                     /\ sp = speaks[c] /\ held = HeldBy(c) /\ ann = announced
    OBVIOUS
  <1>4. /\ WindowOk(x, d, u, s, sp, held, ann) /\ d \in Seq(Message) /\ u \in Seq(Request)
        /\ x.asked \in Seq(Pending)
    BY <1>1, <1>2, <1>3, OkIs, WindowFacts
  <1>5. Len(u) = 0
    <2>1. PICK p, n : Lined(x.asked, d, u, p, n)
      BY <1>4 DEF WindowOk, Steady, InLine, LineHolds
    <2>2. Len(x.asked) = n + Len(u) /\ n \in Nat /\ Len(x.asked) = 0
      BY <1>2, <2>1 DEF Lined
    <2>q. QED BY <1>4, <2>2
  <1>6. ~ReasonToRead(d, u, ann)
    BY <1>2, <1>3, <1>4, <1>5 DEF ReasonToRead
  <1>7. x.view >= ann
    BY <1>2, <1>3, <1>4, <1>6 DEF WindowOk, UpToDate
  <1>q. QED BY <1>1, <1>3, <1>7

\* Through any drops, resumes, timeouts and takeovers, a phone at rest shows the
\* game as it was last announced to it: some read answered later than the
\* announcement is what it shows, or is still to be asked or answered.
THEOREM ViewIsCurrentAlways == PSpec => []ViewIsCurrent
  BY InvHolds, CurrentIsImplied, PTL

=============================================================================

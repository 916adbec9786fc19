----------------------------- MODULE CardsClash -----------------------------
(***************************************************************************)
(* Bacchanal Cards and the Clash: bacchanal-cards.ts, clash.ts and the     *)
(* part of shared-systems.ts that joins them, inside the game whose        *)
(* challenges they are played into and whose pause freezes their window.   *)
(*                                                                         *)
(* A team is dealt one card of each category, so <<team, category>> names  *)
(* a card.  RESOLVING begins and ends inside resolveClash and is not kept. *)
(* Of the advantages only what a Clash reads and writes is here: who holds *)
(* Bacchanal Immunity, and the two budgets a card spends.  The turn, the   *)
(* active players, the rosters and the challenge timer never meet a card:  *)
(* their intents are GameFlow's and left out of the steps taken here.      *)
(***************************************************************************)
EXTENDS GameFlow, ClashRules

CONSTANTS
    Hands,      \* hands a team may be dealt: category -> card type
    Kinds,      \* challenge kinds the Host opens windows for
    ClashMs     \* CLASH_RESPONSE_WINDOW_MS

ASSUME CardsClashAssumption ==
    /\ Hands \subseteq [Categories -> CardTypes]
    /\ \A h \in Hands, c \in Categories : CategoryOf[h[c]] = c
    /\ Kinds \subseteq ChallengeKinds
    /\ ClashMs \in Nat \ {0}

VARIABLES
    hand,         \* team -> category -> type, once dealt
    status,       \* team -> category -> CardStatus; "none" before the deal
    window,       \* #windowOpen, #challengeKind and #challengeId (0 for null)
    played,       \* #challengeState.teamsWhoPlayed
    barred,       \* #challengeState.barredCardInstanceIds
    clash,        \* ClashEngine's fields but the deadline; challenge 0 for no Clash
    clashTimer,   \* ClashEngine.#deadline
    doubled,      \* teams whose usage has doubleUsed
    retried,      \* teams whose usage has used its one retry
    immune,       \* teams that hold an unused Bacchanal Immunity
    immunityDrawn \* the deck's one BACCHANAL_IMMUNITY has left it

handVars  == <<hand, status>>
barVars   == <<window, played, barred>>
clashVars == <<clash, clashTimer>>
usageVars == <<doubled, retried, immune, immunityDrawn>>
cardVars  == <<handVars, barVars, clashVars, usageVars>>
allVars   == <<vars, cardVars>>

CardNames == Teams \X Categories
Plays == [team : Teams, category : Categories, target : Teams \cup {None}]

NoCardWindow == [open |-> FALSE, kind |-> "none", challenge |-> 0]
NoClash  == [challenge |-> 0, initiator |-> None, plays |-> {}, eligible |-> {},
             resolved |-> FALSE]

ClashActive == clash.challenge # 0 /\ ~clash.resolved

CTypeOK ==
    /\ hand \in [Teams -> [Categories -> CardTypes \cup {None}]]
    /\ status \in [Teams -> [Categories -> {"none", "held", "pending", "consumed"}]]
    /\ window \in [open : BOOLEAN, kind : ChallengeKinds \cup {"none"},
                   challenge : 0..MaxChallenges]
    /\ window.open => window.kind # "none" /\ window.challenge # 0
    /\ played \in SUBSET Teams
    /\ barred \in SUBSET CardNames
    /\ clash \in [challenge : 0..MaxChallenges, initiator : Teams \cup {None},
                  plays : SUBSET Plays, eligible : SUBSET Teams, resolved : BOOLEAN]
    /\ clashTimer \in Deadlines /\ WellFormed(now, clashTimer)
    /\ doubled \in SUBSET Teams /\ retried \in SUBSET Teams
    /\ immune \in SUBSET Teams /\ immunityDrawn \in BOOLEAN

CInit ==
    /\ Init
    /\ hand = [t \in Teams |-> [c \in Categories |-> None]]
    /\ status = [t \in Teams |-> [c \in Categories |-> "none"]]
    /\ window = NoCardWindow
    /\ played = {}
    /\ barred = {}
    /\ clash = NoClash
    /\ clashTimer = NoTimer
    /\ doubled = {}
    /\ retried = {}
    /\ immune = {}
    /\ immunityDrawn = FALSE

-----------------------------------------------------------------------------
(* Dealing, the window, and the one outcome of Maco Mail a Clash reads. *)

Dealt == \E t \in Teams, c \in Categories : status[t][c] # "none"

\* #drawMacoMail with the deck's one BACCHANAL_IMMUNITY.
DrawImmunity(t) ==
    /\ Running
    /\ ~immunityDrawn
    /\ immunityDrawn' = TRUE
    /\ immune' = immune \cup {t}
    /\ UNCHANGED <<vars, handVars, barVars, clashVars, doubled, retried>>

DealBacchanalCards ==
    /\ Running
    /\ ~Dealt
    /\ hand' \in [Teams -> Hands]
    /\ status' = [t \in Teams |-> [c \in Categories |-> "held"]]
    /\ UNCHANGED <<vars, barVars, clashVars, usageVars>>

LiveChallenge == challenge.status \notin {"none", "resolved"}

\* A slip the checks must catch: opening the window always starts clean.
CleanBars(c) == played' = {} /\ barred' = {}

\* Reopening the same challenge keeps its bars.
BarsFor(c) == IF window.challenge = c THEN UNCHANGED <<played, barred>>
                                      ELSE played' = {} /\ barred' = {}

OpenCardWindow(kind) ==
    /\ Running
    /\ LiveChallenge
    /\ Dealt
    /\ BarsFor(challenge.id)
    /\ window' = [open |-> TRUE, kind |-> kind, challenge |-> challenge.id]
    /\ UNCHANGED <<vars, handVars, clashVars, usageVars>>

CloseCardWindow ==
    /\ Running
    /\ window.open
    /\ window' = [window EXCEPT !.open = FALSE]
    /\ UNCHANGED <<vars, handVars, played, barred, clashVars, usageVars>>

-----------------------------------------------------------------------------
(* Playing a card. *)

\* #unplayableReason is null (the engine has refused a paused game).
Playable(t, c) ==
    /\ status[t][c] = "held"
    /\ window.open
    /\ t \notin played
    /\ <<t, c>> \notin barred
    /\ hand[t][c] \in Eligible[window.kind]

\* A card that needs no target keeps whatever target the intent carried.
TargetOK(t, c, target) ==
    hand[t][c] \in RequiresTarget => target \in Teams \ {t}

SetStatus(t, c, s) == [status EXCEPT ![t][c] = s]

\* BacchanalCards.play: committed, and the team has had its play.
Commit(t, c, target) ==
    /\ Playable(t, c)
    /\ TargetOK(t, c, target)
    /\ played' = played \cup {t}

PlayOf(t, c, target) == [team |-> t, category |-> c, target |-> target]

\* The card is committed before the Clash is asked, and a Clash already
\* running refuses the play.
PlayBacchanalCard(t, c, target) ==
    /\ Running
    /\ LiveChallenge
    /\ Commit(t, c, target)
    /\ status' = SetStatus(t, c, "pending")
    /\ IF ClashActive
       THEN UNCHANGED clashVars
       ELSE /\ clash' = [challenge |-> challenge.id,
                         initiator |-> t,
                         plays     |-> {PlayOf(t, c, target)},
                         eligible  |-> {u \in Teams \ {t} :
                                            \E d \in Categories : Playable(u, d)},
                         resolved  |-> FALSE]
            /\ clashTimer' = StartDeadline(now, ClashMs)
    /\ UNCHANGED <<vars, hand, window, barred, usageVars>>

MayRespond(t) == t \in clash.eligible /\ \A p \in clash.plays : p.team # t

\* ClashEngine.respond, or the card goes back barred and the team has still
\* had its play.
RespondToClash(t, c, target) ==
    /\ Running
    /\ Commit(t, c, target)
    /\ IF ClashActive /\ ~HasExpired(now, clashTimer) /\ MayRespond(t)
       THEN /\ clash' = [clash EXCEPT !.plays = @ \cup {PlayOf(t, c, target)}]
            /\ status' = SetStatus(t, c, "pending")
            /\ UNCHANGED barred
       ELSE /\ barred' = barred \cup {<<t, c>>}
            /\ UNCHANGED <<status, clash>>
    /\ UNCHANGED <<vars, hand, window, clashTimer, usageVars>>

-----------------------------------------------------------------------------
(* The reveal. *)

AllResponded == \A t \in clash.eligible : \E p \in clash.plays : p.team = t

ClashDue == ClashActive /\ (HasExpired(now, clashTimer) \/ AllResponded)

Blocked(p) == p.target \in immune

\* The winning card is consumed; every other card of the Clash goes back.
StatusAfter(winners) ==
    [t \in Teams |-> [c \in Categories |->
        IF \E p \in winners : p.team = t /\ p.category = c THEN "consumed"
        ELSE IF \E p \in clash.plays : p.team = t /\ p.category = c THEN "held"
        ELSE status[t][c]]]

\* resolveClash.  W holds the play that takes effect.
RevealClash ==
    /\ clash' = [clash EXCEPT !.resolved = TRUE]
    /\ LET won == Winners(clash.plays)
           W   == {p \in won : ~Blocked(p)}
           Takers(type) == {p.team : p \in {q \in W : hand[q.team][q.category] = type}}
       IN  /\ status' = StatusAfter(W)
           /\ barred' = barred \cup {<<p.team, p.category>> : p \in clash.plays \ W}
           /\ immune' = immune \ {p.target : p \in won}
           /\ doubled' = doubled \cup Takers("DOUBLE_IT")
           /\ retried' = retried \cup Takers("FORGIVE_MEH")
    /\ UNCHANGED <<vars, hand, window, played, clashTimer, immunityDrawn>>

\* A slip the checks must catch: the tick waits for the last answer.
PollWaitsForAnswers == Running /\ ClashActive /\ AllResponded /\ RevealClash

PollClashResolution == Running /\ ClashDue /\ RevealClash

-----------------------------------------------------------------------------
(* The game around the cards. *)

\* A slip the checks must catch: a Clash that outlives its challenge.
KeepTheClash ==
    /\ window' = NoCardWindow
    /\ played' = {}
    /\ barred' = {}
    /\ doubled' = {}
    /\ retried' = {}
    /\ UNCHANGED <<handVars, clashVars, immune, immunityDrawn>>

\* SharedSystems.endChallenge.
EndChallenge ==
    /\ window' = NoCardWindow
    /\ played' = {}
    /\ barred' = {}
    /\ clash' = NoClash
    /\ clashTimer' = NoTimer
    /\ doubled' = {}
    /\ retried' = {}
    /\ UNCHANGED <<handVars, immune, immunityDrawn>>

ChallengeStep == (PrepareChallenge \/ ResolveChallenge) /\ EndChallenge

PauseTheWindow ==
    clashTimer' = IF clashTimer = NoTimer THEN clashTimer ELSE PauseDeadline(now, clashTimer)

ResumeTheWindow ==
    clashTimer' = IF clashTimer = NoTimer THEN clashTimer ELSE ResumeDeadline(now, clashTimer)

OverlayStep ==
    /\ \/ HostPause /\ PauseTheWindow
       \/ Resume /\ ResumeTheWindow
    /\ UNCHANGED <<handVars, barVars, clash, usageVars>>

FlowStep ==
    /\ \/ StartGame
       \/ \E to \in Phases : AdvancePhase(to)
       \/ StartChallenge
       \/ RequestReview
       \/ ClockTick
    /\ UNCHANGED cardVars

CNext ==
    \/ \E t \in Teams : DrawImmunity(t)
    \/ DealBacchanalCards
    \/ \E kind \in Kinds : OpenCardWindow(kind)
    \/ CloseCardWindow
    \/ \E t \in Teams, c \in Categories, target \in Teams \cup {None} :
           PlayBacchanalCard(t, c, target) \/ RespondToClash(t, c, target)
    \/ PollClashResolution
    \/ ChallengeStep
    \/ OverlayStep
    \/ FlowStep

CSpec == CInit /\ [][CNext]_allVars

\* The 250 ms tick polls the Clash; no person is assumed to do anything.
FairCSpec == CSpec /\ WF_allVars(PollClashResolution)

-----------------------------------------------------------------------------
(* Properties. *)

\* A Clash is always about the challenge being played: one that resolves or
\* is replaced takes its Clash with it, so no card takes effect on a challenge
\* it was not played into (endChallenge, openCardWindow).
ClashOfLiveChallenge ==
    clash.challenge # 0 => clash.challenge = challenge.id /\ LiveChallenge

\* The six seconds stand still exactly while the game is paused, so a pause
\* neither steals a team's time to counter nor adds any (ClashEngine.pause).
WindowFollowsPause == clash.challenge # 0 => (IsPaused(clashTimer) <=> Paused)

\* Whoever is in a Clash, and whoever doubled or retried by a card, has had
\* its play of this challenge; each team has one card in the Clash, and it is
\* committed until the reveal (play, respond, resolveClash).
OnePlayEach ==
    /\ {p.team : p \in clash.plays} \cup doubled \cup retried \subseteq played
    /\ \A p, q \in clash.plays : p.team = q.team => p = q
    /\ ClashActive => \A p \in clash.plays : status[p.team][p.category] = "pending"

\* A team's play is never handed back while its challenge goes on: closing
\* and reopening the window, losing a Clash or a refused answer do not lift it.
PlayIsNeverHandedBack ==
    [][played \subseteq played' \/ challenge'.id # challenge.id
                                \/ challenge'.status = "resolved"]_allVars

Spent == {p \in CardNames : status[p[1]][p[2]] = "consumed"}

\* A reveal spends exactly the card that beats every other card of the Clash,
\* unless its target was immune; every other card is back in its hand, and
\* only the team whose card was spent has doubled or retried (resolveClash).
RevealIsFair ==
    [][(clash.challenge # 0 /\ clash'.resolved /\ ~clash.resolved) =>
          /\ \A p \in clash.plays : status'[p.team][p.category] \in {"consumed", "held"}
          /\ \A p \in clash.plays :
                status'[p.team][p.category] = "consumed" <=>
                    /\ Dominates(p, clash.plays)
                    /\ p.target \notin immune
          /\ (doubled' \ doubled) \cup (retried' \ retried) \subseteq
                {p[1] : p \in Spent' \ Spent}]_allVars

\* Whatever happens, a Clash is revealed or its challenge ends, unless the
\* game is paused: the room never sits through a window that has run out.
ClashIsRevealed == (ClashDue /\ ~Paused) ~> (~ClashActive \/ Paused)

\* What holds of a Clash between any two steps: well-formed, about the challenge
\* being played, and frozen exactly while the game is.
ClashIsSound == CTypeOK /\ ClashOfLiveChallenge /\ WindowFollowsPause

\* A team has one play a challenge: one card in the Clash, and no second play
\* by closing the window, losing the Clash or being refused.
OnePlayAChallenge == []OnePlayEach /\ PlayIsNeverHandedBack

=============================================================================

-------------------------- MODULE CardsClashProofs ---------------------------
(***************************************************************************)
(* Proofs about Bacchanal Cards and the Clash, for every number of teams,  *)
(* every hand and every length of the window: the card that takes effect   *)
(* is the one that beats every other, however many are played; the six     *)
(* seconds ride the pause; and a team has one play a challenge, whatever   *)
(* the Host does to the window.                                            *)
(***************************************************************************)
EXTENDS CardsClash, GameFlowProofs

-----------------------------------------------------------------------------
(* The rules of a Clash. *)

\* Three categories, each beating the next, none beating itself or the one
\* that beats it.
LEMMA BeatsFacts ==
    \A c \in Categories : /\ Beats[c] \in Categories /\ Beats[c] # c /\ Beats[Beats[c]] # c
                          /\ Categories = {c, Beats[c], Beats[Beats[c]]}
                          /\ Beats[Beats[Beats[c]]] = c
BY DEF Categories, Beats

\* Winners, said as what it must be: the play that beats every other play, of
\* however many teams; with nobody to beat, the only play.
THEOREM WinnersDominate ==
    ASSUME NEW plays, \A p \in plays : p.category \in Categories
    PROVE  Winners(plays) = {p \in plays : Dominates(p, plays)}
<1> DEFINE D == {p \in plays : Dominates(p, plays)}
<1>1. CASE \E p \in plays : plays = {p}
  <2>1. D = plays
    BY <1>1 DEF Dominates
  <2>2. QED
    BY <1>1, <2>1 DEF Winners
<1>2. CASE ~(\E p \in plays : plays = {p}) /\ CategoriesOf(plays) = Categories
  <2>1. ASSUME NEW p \in plays, Dominates(p, plays) PROVE FALSE
    <3>1. PICK q \in plays : q.category = Beats[Beats[p.category]]
      BY <1>2, BeatsFacts DEF CategoriesOf
    <3>2. q # p /\ q.category # Beats[p.category]
      BY <3>1, BeatsFacts
    <3>3. QED
      BY <2>1, <3>2 DEF Dominates, CategoryBeats
  <2>2. Winners(plays) = {}
    BY <1>2 DEF Winners
  <2>3. QED
    BY <2>1, <2>2
<1>3. CASE ~(\E p \in plays : plays = {p}) /\ CategoriesOf(plays) # Categories
  <2>1. ASSUME NEW p \in plays, Dominates(p, plays) PROVE Survivors(plays) = {p}
    <3>1. PICK q \in plays : q # p
      BY <1>3
    <3>2. \A r \in plays \ {p} : r.category = Beats[p.category]
      BY <2>1 DEF Dominates, CategoryBeats
    <3>3. p \in Survivors(plays)
      BY <3>1, <3>2 DEF Survivors, CategoriesOf, CategoryBeats
    <3>4. ASSUME NEW r \in plays \ {p} PROVE r \notin Survivors(plays)
      <4>1. \A c \in CategoriesOf(plays) : c \in {p.category, Beats[p.category]}
        BY <3>2 DEF CategoriesOf
      <4>2. Beats[r.category] \notin {p.category, Beats[p.category]}
        BY <3>2, BeatsFacts
      <4>3. QED
        BY <4>1, <4>2 DEF Survivors, CategoryBeats
    <3>5. QED
      BY <3>3, <3>4 DEF Survivors
  <2>2. ASSUME NEW p \in plays, Survivors(plays) = {p} PROVE Dominates(p, plays)
    <3>1. PICK s \in plays : s.category = Beats[p.category]
      BY <2>2 DEF Survivors, CategoriesOf, CategoryBeats
    <3>2. ASSUME NEW q \in plays, q # p PROVE q.category = Beats[p.category]
      <4>1. q.category # p.category
        BY <2>2, <3>1, <3>2 DEF Survivors, CategoriesOf, CategoryBeats
      <4>2. q.category # Beats[Beats[p.category]]
        <5>1. ASSUME q.category = Beats[Beats[p.category]] PROVE CategoriesOf(plays) = Categories
          <6>1. CategoriesOf(plays) \subseteq Categories
            BY DEF CategoriesOf
          <6>2. p.category \in CategoriesOf(plays) /\ s.category \in CategoriesOf(plays)
                /\ q.category \in CategoriesOf(plays)
            BY DEF CategoriesOf
          <6>3. QED
            BY <3>1, <5>1, <6>1, <6>2, BeatsFacts
        <5>2. QED
          BY <1>3, <5>1
      <4>3. QED
        BY <4>1, <4>2, BeatsFacts
    <3>3. QED
      BY <3>2 DEF Dominates, CategoryBeats
  <2>3. Winners(plays) = IF \E p \in plays : Survivors(plays) = {p} THEN Survivors(plays) ELSE {}
    BY <1>3 DEF Winners
  <2>4. CASE \E p \in plays : Survivors(plays) = {p}
    <3>1. PICK p \in plays : Survivors(plays) = {p}
      BY <2>4
    <3>2. Dominates(p, plays) /\ \A q \in plays : Dominates(q, plays) => q = p
      BY <2>1, <2>2, <3>1
    <3>3. QED
      BY <2>3, <3>1, <3>2
  <2>5. CASE ~(\E p \in plays : Survivors(plays) = {p})
    BY <2>1, <2>3, <2>5
  <2>6. QED
    BY <2>4, <2>5
<1>4. QED
  BY <1>1, <1>2, <1>3

-----------------------------------------------------------------------------
(* What the cards' state keeps to beyond what the runs ask of it: the      *)
(* window and the plays are the current challenge's, and a Clash has its   *)
(* deadline while there is one.                                            *)

PlaysOfTheChallenge ==
    /\ window.challenge # 0 => window.challenge = challenge.id
    /\ played # {} => window.challenge # 0

ClashHasTimer ==
    /\ clash.challenge = 0 <=> clashTimer = NoTimer
    /\ clashTimer # NoTimer => clashTimer.durationMs > 0

\* CTypeOK, but for the deadline.
CardTypesOK ==
    /\ hand \in [Teams -> [Categories -> CardTypes \cup {None}]]
    /\ status \in [Teams -> [Categories -> {"none", "held", "pending", "consumed"}]]
    /\ window \in [open : BOOLEAN, kind : ChallengeKinds \cup {"none"},
                   challenge : 0..MaxChallenges]
    /\ window.open => window.kind # "none" /\ window.challenge # 0
    /\ played \in SUBSET Teams
    /\ barred \in SUBSET CardNames
    /\ clash \in [challenge : 0..MaxChallenges, initiator : Teams \cup {None},
                  plays : SUBSET Plays, eligible : SUBSET Teams, resolved : BOOLEAN]
    /\ doubled \in SUBSET Teams /\ retried \in SUBSET Teams
    /\ immune \in SUBSET Teams /\ immunityDrawn \in BOOLEAN

PlaysInv == CardTypesOK /\ ClashOfLiveChallenge /\ OnePlayEach /\ PlaysOfTheChallenge

ClashWindowInv ==
    /\ clashTimer \in Deadlines /\ WellFormed(now, clashTimer)
    /\ WindowFollowsPause /\ ClashHasTimer

CInv == FlowInv /\ PlaysInv /\ ClashWindowInv /\ IdOfAChallenge

\* It holds of a game no card has been dealt in.
LEMMA InitCards == CInit => CInv
<1> SUFFICES ASSUME CInit PROVE CInv
  OBVIOUS
<1>1. FlowInv /\ now \in Nat
  BY InitFlow DEF CInit, FlowInv, TypeOK
<1>2. ClashWindowInv
  BY <1>1, NoTimerFacts DEF CInit, ClashWindowInv, WindowFollowsPause, ClashHasTimer, NoClash
<1>3. CardTypesOK
  <2>1. 0 \in 0..MaxChallenges
    BY GameFlowAssumption DEF GameFlowAssumption
  <2>2. QED
    BY <2>1 DEF CInit, CardTypesOK, NoCardWindow, NoClash
<1>4. ClashOfLiveChallenge /\ OnePlayEach /\ PlaysOfTheChallenge
  BY DEF CInit, ClashOfLiveChallenge, OnePlayEach, PlaysOfTheChallenge, NoCardWindow, NoClash,
         ClashActive
<1>5. IdOfAChallenge
  BY DEF CInit, Init, IdOfAChallenge
<1>6. QED
  BY <1>1, <1>2, <1>3, <1>4, <1>5 DEF CInv, PlaysInv

-----------------------------------------------------------------------------
(* The game around the cards. *)

\* To the game every step is one of its own or none.
LEMMA StepsOfTheGame == [CNext]_allVars => [Next]_vars
<1> SUFFICES ASSUME [CNext]_allVars PROVE [Next]_vars
  OBVIOUS
<1>1. CASE FlowStep
  BY <1>1 DEF FlowStep, Next
<1>2. CASE OverlayStep
  BY <1>2 DEF OverlayStep, Next
<1>3. CASE ChallengeStep
  BY <1>3 DEF ChallengeStep, Next
<1>4. CASE UNCHANGED allVars
  BY <1>4 DEF allVars
<1>5. QED
  BY <1>1, <1>2, <1>3, <1>4
     DEF CNext, DrawImmunity, DealBacchanalCards, OpenCardWindow, CloseCardWindow,
         PlayBacchanalCard, RespondToClash, PollClashResolution, RevealClash

-----------------------------------------------------------------------------
(* The six seconds. *)

\* The intents of the game a card knows nothing of.
LEMMA FlowStepIsPlain == ASSUME FlowStep PROVE PlainStep
BY DEF FlowStep, PlainStep

\* The deadline starts with a Clash, is forgotten with its challenge, and stands
\* still exactly through each pause; nothing else reaches it.
LEMMA WindowKept == CInv /\ [CNext]_allVars => ClashWindowInv'
<1> SUFFICES ASSUME CInv, [CNext]_allVars PROVE ClashWindowInv'
  OBVIOUS
<1>t. /\ TypeOK /\ PauseShape /\ now \in Nat
      /\ clashTimer \in Deadlines /\ WellFormed(now, clashTimer)
      /\ clash.challenge = 0 <=> clashTimer = NoTimer
      /\ clashTimer # NoTimer => clashTimer.durationMs > 0
      /\ clash.challenge # 0 => (IsPaused(clashTimer) <=> Paused)
      /\ clash \in [challenge : 0..MaxChallenges, initiator : Teams \cup {None},
                    plays : SUBSET Plays, eligible : SUBSET Teams, resolved : BOOLEAN]
  BY DEF CInv, FlowInv, TypeOK, ClashWindowInv, WindowFollowsPause, ClashHasTimer, PlaysInv,
         CardTypesOK
<1> USE DEF ClashWindowInv, WindowFollowsPause, ClashHasTimer
<1>a. ASSUME UNCHANGED <<now, clashTimer>>, clash'.challenge = clash.challenge,
             Paused' <=> Paused
      PROVE  ClashWindowInv'
  BY <1>t, <1>a
<1>v. ASSUME UNCHANGED vars PROVE now' = now /\ (Paused' <=> Paused)
  BY <1>v DEF vars, flowVars, Paused
<1>1. ASSUME UNCHANGED <<vars, clash, clashTimer>> PROVE ClashWindowInv'
  BY <1>1, <1>a, <1>v
<1>2. ASSUME NEW t, NEW c, NEW target, PlayBacchanalCard(t, c, target) PROVE ClashWindowInv'
  <2>1. CASE ClashActive
    BY <1>2, <1>1, <2>1 DEF PlayBacchanalCard, clashVars
  <2>2. CASE ~ClashActive
    <3>1. /\ clash'.challenge = challenge.id /\ clashTimer' = StartDeadline(now, ClashMs)
          /\ now' = now /\ ~Paused'
      BY <1>2, <1>v, <2>2 DEF PlayBacchanalCard, Running
    <3>2. challenge.id # 0
      BY <1>2 DEF PlayBacchanalCard, Commit, Playable, CInv, PlaysInv, CardTypesOK,
                  PlaysOfTheChallenge
    <3>3. /\ clashTimer' \in Deadlines /\ WellFormed(now, clashTimer')
          /\ ~IsPaused(clashTimer') /\ clashTimer'.durationMs > 0
      BY <1>t, <3>1, StartFacts, CardsClashAssumption DEF CardsClashAssumption
    <3>4. clashTimer' # NoTimer
      BY <3>3, PositiveIsSet
    <3>5. QED
      BY <3>1, <3>2, <3>3, <3>4
  <2>3. QED
    BY <2>1, <2>2
<1>3. ASSUME NEW t, NEW c, NEW target, RespondToClash(t, c, target) PROVE ClashWindowInv'
  <2>1. UNCHANGED <<vars, clashTimer>>
    BY <1>3 DEF RespondToClash
  <2>2. clash'.challenge = clash.challenge
    BY <1>3, <1>t DEF RespondToClash
  <2>3. QED
    BY <1>a, <1>v, <2>1, <2>2
<1>4. CASE PollClashResolution
  <2>1. UNCHANGED <<vars, clashTimer>> /\ clash' = [clash EXCEPT !.resolved = TRUE]
    BY <1>4 DEF PollClashResolution, RevealClash
  <2>2. clash'.challenge = clash.challenge
    BY <1>t, <2>1
  <2>3. QED
    BY <1>a, <1>v, <2>1, <2>2
<1>5. CASE ChallengeStep
  <2>1. clash'.challenge = 0 /\ clashTimer' = NoTimer
    BY <1>5 DEF ChallengeStep, EndChallenge, NoClash
  <2>2. now' = now
    BY <1>5 DEF ChallengeStep, PrepareChallenge, ResolveChallenge
  <2>3. QED
    BY <1>t, <2>1, <2>2, NoTimerFacts
<1>6. CASE OverlayStep
  <2>1. clash' = clash
    BY <1>6 DEF OverlayStep
  <2>2. CASE HostPause /\ PauseTheWindow
    <3>1. ~Paused /\ Paused' /\ now' = now
      BY <2>2, OverlayFacts DEF HostPause
    <3>2. CASE clashTimer = NoTimer
      BY <1>t, <2>1, <2>2, <3>1, <3>2 DEF PauseTheWindow
    <3>3. CASE clashTimer # NoTimer
      <4>1. clashTimer' = PauseDeadline(now, clashTimer)
        BY <2>2, <3>3 DEF PauseTheWindow
      <4>2. /\ clashTimer' \in Deadlines /\ WellFormed(now, clashTimer')
            /\ IsPaused(clashTimer') /\ clashTimer'.durationMs > 0
        BY <1>t, <3>3, <4>1, PauseFacts
      <4>3. QED
        BY <1>t, <2>1, <3>1, <3>3, <4>2, PositiveIsSet
    <3>4. QED
      BY <3>2, <3>3
  <2>3. CASE Resume /\ ResumeTheWindow
    <3>1. Paused /\ ~Paused' /\ now' = now
      BY <1>t, <2>3, OverlayFacts
    <3>2. CASE clashTimer = NoTimer
      BY <1>t, <2>1, <2>3, <3>1, <3>2 DEF ResumeTheWindow
    <3>3. CASE clashTimer # NoTimer
      <4>1. clashTimer' = ResumeDeadline(now, clashTimer)
        BY <2>3, <3>3 DEF ResumeTheWindow
      <4>2. /\ clashTimer' \in Deadlines /\ WellFormed(now, clashTimer')
            /\ ~IsPaused(clashTimer') /\ clashTimer'.durationMs > 0
        BY <1>t, <3>3, <4>1, ResumeFacts
      <4>3. QED
        BY <1>t, <2>1, <3>1, <3>3, <4>2, PositiveIsSet
    <3>4. QED
      BY <3>2, <3>3
  <2>4. QED
    BY <1>6, <2>2, <2>3 DEF OverlayStep
<1>7. CASE FlowStep
  <2>1. (Paused' <=> Paused) /\ (ClockTick \/ now' = now) /\ UNCHANGED <<clash, clashTimer>>
    BY <1>7, <1>t, FlowStepIsPlain, PlainStepFacts DEF FlowStep, cardVars, clashVars
  <2>2. CASE now' = now
    BY <1>a, <2>1, <2>2
  <2>3. CASE ClockTick
    BY <1>t, <2>1, <2>3, TickFacts DEF ClockTick
  <2>4. QED
    BY <2>1, <2>2, <2>3
<1>8. ASSUME \/ \E t \in Teams : DrawImmunity(t)
             \/ DealBacchanalCards
             \/ \E kind \in Kinds : OpenCardWindow(kind)
             \/ CloseCardWindow
             \/ UNCHANGED allVars
      PROVE  ClashWindowInv'
  <2>1. UNCHANGED <<vars, clash, clashTimer>>
    BY <1>8 DEF DrawImmunity, DealBacchanalCards, OpenCardWindow, CloseCardWindow, allVars,
                cardVars, clashVars
  <2>2. QED
    BY <1>1, <2>1
<1>9. QED
  BY <1>2, <1>3, <1>4, <1>5, <1>6, <1>7, <1>8 DEF CNext

-----------------------------------------------------------------------------
(* One lemma for each thing that happens to a card. *)

\* A card that can be played is played into the current challenge, by a team
\* that is not in its Clash yet.
LEMMA CommitFacts ==
    ASSUME CInv, NEW t \in Teams, NEW c \in Categories, NEW target \in Teams \cup {None},
           Commit(t, c, target)
    PROVE  /\ status[t][c] = "held" /\ t \notin played
           /\ window.challenge # 0 /\ window.challenge = challenge.id
           /\ played' = played \cup {t} /\ played' \in SUBSET Teams
           /\ PlayOf(t, c, target) \in Plays
           /\ PlayOf(t, c, target).team = t /\ PlayOf(t, c, target).category = c
           /\ \A p \in clash.plays : p.team # t
BY DEF CInv, PlaysInv, CardTypesOK, PlaysOfTheChallenge, OnePlayEach, Commit, Playable, PlayOf,
       Plays

\* One card gets a new status and every other keeps its own.
LEMMA SetStatusFacts ==
    ASSUME CardTypesOK, NEW t \in Teams, NEW c \in Categories,
           NEW s \in {"none", "held", "pending", "consumed"}
    PROVE  /\ SetStatus(t, c, s) \in
                  [Teams -> [Categories -> {"none", "held", "pending", "consumed"}]]
           /\ SetStatus(t, c, s)[t][c] = s
           /\ \A u \in Teams, d \in Categories :
                 u # t => SetStatus(t, c, s)[u][d] = status[u][d]
BY DEF CardTypesOK, SetStatus

\* A play waits for the reveal in a new Clash, or in none where one is running.
LEMMA PlayKeeps ==
    ASSUME CInv, NEW t \in Teams, NEW c \in Categories, NEW target \in Teams \cup {None},
           PlayBacchanalCard(t, c, target)
    PROVE  PlaysInv'
<1>t. CardTypesOK /\ ClashOfLiveChallenge /\ OnePlayEach /\ PlaysOfTheChallenge
  BY DEF CInv, PlaysInv
<1>1. /\ LiveChallenge /\ Commit(t, c, target) /\ status' = SetStatus(t, c, "pending")
      /\ UNCHANGED <<challenge, hand, window, barred, doubled, retried, immune, immunityDrawn>>
  BY DEF PlayBacchanalCard, vars, playVars, usageVars
<1>2. /\ status[t][c] = "held" /\ t \notin played
      /\ window.challenge # 0 /\ window.challenge = challenge.id
      /\ played' = played \cup {t} /\ played' \in SUBSET Teams
      /\ PlayOf(t, c, target) \in Plays
      /\ PlayOf(t, c, target).team = t /\ PlayOf(t, c, target).category = c
      /\ \A p \in clash.plays : p.team # t
  BY <1>1, CommitFacts
<1>3. /\ status' \in [Teams -> [Categories -> {"none", "held", "pending", "consumed"}]]
      /\ status'[t][c] = "pending"
      /\ \A u \in Teams, d \in Categories : u # t => status'[u][d] = status[u][d]
  BY <1>1, <1>t, SetStatusFacts
<1>4. CASE ClashActive
  <2>1. clash' = clash
    BY <1>4 DEF PlayBacchanalCard, clashVars
  <2>2. CardTypesOK' /\ ClashOfLiveChallenge'
    BY <1>1, <1>2, <1>3, <1>t, <2>1 DEF CardTypesOK, ClashOfLiveChallenge, LiveChallenge
  <2>3. \A p \in clash.plays : p.team \in Teams /\ p.category \in Categories
    BY <1>t DEF CardTypesOK, Plays
  <2>4. OnePlayEach'
    BY <1>1, <1>2, <1>3, <1>t, <2>1, <2>3 DEF OnePlayEach, ClashActive
  <2>5. PlaysOfTheChallenge'
    BY <1>1, <1>2 DEF PlaysOfTheChallenge
  <2>6. QED
    BY <2>2, <2>4, <2>5 DEF PlaysInv
<1>5. CASE ~ClashActive
  <2>1. PICK p \in Plays, el \in SUBSET Teams :
           /\ p = PlayOf(t, c, target)
           /\ clash' = [challenge |-> challenge.id, initiator |-> t, plays |-> {p},
                        eligible |-> el, resolved |-> FALSE]
    <3>1. PICK p \in Plays : p = PlayOf(t, c, target)
      BY <1>2
    <3>2. PICK el \in SUBSET Teams : el = {u \in Teams \ {t} : \E d \in Categories : Playable(u, d)}
      OBVIOUS
    <3>3. clash' = [challenge |-> challenge.id, initiator |-> t, plays |-> {p},
                    eligible |-> el, resolved |-> FALSE]
      BY <1>5, <3>1, <3>2 DEF PlayBacchanalCard
    <3>4. QED
      BY <3>1, <3>3
  <2>2. challenge.id \in 0..MaxChallenges
    BY <1>t, <1>2 DEF CardTypesOK
  <2>3. CardTypesOK'
    BY <1>1, <1>2, <1>3, <1>t, <2>1, <2>2 DEF CardTypesOK
  <2>4. ClashOfLiveChallenge' /\ PlaysOfTheChallenge'
    BY <1>1, <1>2, <2>1 DEF ClashOfLiveChallenge, LiveChallenge, PlaysOfTheChallenge
  <2>5. OnePlayEach'
    <3>1. clash'.plays = {p} /\ p.team = t /\ p.category = c
      BY <1>2, <2>1
    <3>2. doubled \cup retried \subseteq played
      BY <1>t DEF OnePlayEach
    <3>3. QED
      BY <1>1, <1>2, <1>3, <3>1, <3>2 DEF OnePlayEach
  <2>6. QED
    BY <2>3, <2>4, <2>5 DEF PlaysInv
<1>6. QED
  BY <1>4, <1>5

\* An answer joins the Clash or comes back barred.
LEMMA RespondKeeps ==
    ASSUME CInv, NEW t \in Teams, NEW c \in Categories, NEW target \in Teams \cup {None},
           RespondToClash(t, c, target)
    PROVE  PlaysInv'
<1>t. CardTypesOK /\ ClashOfLiveChallenge /\ OnePlayEach /\ PlaysOfTheChallenge
  BY DEF CInv, PlaysInv
<1>1. /\ Commit(t, c, target)
      /\ UNCHANGED <<challenge, hand, window, doubled, retried, immune, immunityDrawn>>
  BY DEF RespondToClash, vars, playVars, usageVars
<1>2. /\ status[t][c] = "held" /\ t \notin played
      /\ window.challenge # 0 /\ window.challenge = challenge.id
      /\ played' = played \cup {t} /\ played' \in SUBSET Teams
      /\ PlayOf(t, c, target) \in Plays
      /\ PlayOf(t, c, target).team = t /\ PlayOf(t, c, target).category = c
      /\ \A p \in clash.plays : p.team # t
  BY <1>1, CommitFacts
<1>3. PICK p \in Plays : p = PlayOf(t, c, target)
  BY <1>2
<1>4. \A q \in clash.plays : q.team \in Teams /\ q.category \in Categories
  BY <1>t DEF CardTypesOK, Plays
<1>5. CASE ClashActive /\ ~HasExpired(now, clashTimer) /\ MayRespond(t)
  <2>1. /\ status' = SetStatus(t, c, "pending") /\ barred' = barred
        /\ clash' = [clash EXCEPT !.plays = @ \cup {p}]
    BY <1>3, <1>5 DEF RespondToClash
  <2>2. /\ status' \in [Teams -> [Categories -> {"none", "held", "pending", "consumed"}]]
        /\ status'[t][c] = "pending"
        /\ \A u \in Teams, d \in Categories : u # t => status'[u][d] = status[u][d]
    BY <1>t, <2>1, SetStatusFacts
  <2>3. /\ clash' \in [challenge : 0..MaxChallenges, initiator : Teams \cup {None},
                       plays : SUBSET Plays, eligible : SUBSET Teams, resolved : BOOLEAN]
        /\ clash'.plays = clash.plays \cup {p} /\ clash'.challenge = clash.challenge
        /\ clash'.resolved = clash.resolved
    BY <1>t, <2>1 DEF CardTypesOK
  <2>4. CardTypesOK'
    BY <1>1, <1>2, <1>t, <2>1, <2>2, <2>3 DEF CardTypesOK
  <2>5. ClashOfLiveChallenge' /\ PlaysOfTheChallenge'
    BY <1>1, <1>2, <1>t, <2>3 DEF ClashOfLiveChallenge, LiveChallenge, PlaysOfTheChallenge
  <2>6. OnePlayEach'
    BY <1>1, <1>2, <1>3, <1>4, <1>5, <1>t, <2>2, <2>3 DEF OnePlayEach, ClashActive
  <2>7. QED
    BY <2>4, <2>5, <2>6 DEF PlaysInv
<1>6. CASE ~(ClashActive /\ ~HasExpired(now, clashTimer) /\ MayRespond(t))
  <2>1. barred' = barred \cup {<<t, c>>} /\ UNCHANGED <<status, clash>>
    BY <1>6 DEF RespondToClash
  <2>2. CardTypesOK' /\ ClashOfLiveChallenge' /\ PlaysOfTheChallenge'
    BY <1>1, <1>2, <1>t, <2>1 DEF CardTypesOK, CardNames, ClashOfLiveChallenge, LiveChallenge,
                                  PlaysOfTheChallenge
  <2>3. OnePlayEach'
    BY <1>1, <1>2, <1>t, <2>1 DEF OnePlayEach, ClashActive
  <2>4. QED
    BY <2>2, <2>3 DEF PlaysInv
<1>7. QED
  BY <1>5, <1>6

\* What the reveal takes effect with: the dominating play, unless its target is
\* immune.
TakesEffect == {p \in clash.plays : Dominates(p, clash.plays) /\ ~Blocked(p)}

TakersOf(type) == {p.team : p \in {q \in TakesEffect : hand[q.team][q.category] = type}}

\* resolveClash, from what beats what.
LEMMA RevealFacts ==
    ASSUME CardTypesOK, RevealClash
    PROVE  /\ status' = StatusAfter(TakesEffect)
           /\ barred' = barred \cup {<<p.team, p.category>> : p \in clash.plays \ TakesEffect}
           /\ immune' \subseteq immune
           /\ doubled' = doubled \cup TakersOf("DOUBLE_IT")
           /\ retried' = retried \cup TakersOf("FORGIVE_MEH")
           /\ clash' = [clash EXCEPT !.resolved = TRUE]
           /\ UNCHANGED <<vars, hand, window, played, clashTimer, immunityDrawn>>
<1>1. \A p \in clash.plays : p.category \in Categories
  BY DEF CardTypesOK, Plays
<1>2. Winners(clash.plays) = {p \in clash.plays : Dominates(p, clash.plays)}
  BY <1>1, WinnersDominate
<1>3. {p \in Winners(clash.plays) : ~Blocked(p)} = TakesEffect
  BY <1>2 DEF TakesEffect
<1>4. QED
  BY <1>3 DEF RevealClash, TakersOf

\* The reveal keeps all of it: it commits nobody and frees no team's play.
LEMMA RevealKeeps ==
    ASSUME CInv, PollClashResolution
    PROVE  PlaysInv'
<1>t. CardTypesOK /\ ClashOfLiveChallenge /\ OnePlayEach /\ PlaysOfTheChallenge
  BY DEF CInv, PlaysInv
<1>1. /\ status' = StatusAfter(TakesEffect)
      /\ barred' = barred \cup {<<p.team, p.category>> : p \in clash.plays \ TakesEffect}
      /\ immune' \subseteq immune
      /\ doubled' = doubled \cup TakersOf("DOUBLE_IT")
      /\ retried' = retried \cup TakersOf("FORGIVE_MEH")
      /\ clash' = [clash EXCEPT !.resolved = TRUE]
      /\ UNCHANGED <<vars, hand, window, played, clashTimer, immunityDrawn>>
  BY <1>t, RevealFacts DEF PollClashResolution
<1>c. challenge' = challenge
  BY <1>1 DEF vars, playVars
<1>2. status' \in [Teams -> [Categories -> {"none", "held", "pending", "consumed"}]]
  BY <1>1, <1>t DEF StatusAfter, CardTypesOK
<1>3. /\ clash' \in [challenge : 0..MaxChallenges, initiator : Teams \cup {None},
                     plays : SUBSET Plays, eligible : SUBSET Teams, resolved : BOOLEAN]
      /\ clash'.plays = clash.plays /\ clash'.challenge = clash.challenge /\ clash'.resolved
  BY <1>1, <1>t DEF CardTypesOK
<1>4. \A type : TakersOf(type) \subseteq {p.team : p \in clash.plays}
  BY DEF TakersOf, TakesEffect
<1>5. \A p \in clash.plays : p.team \in Teams /\ p.category \in Categories
  BY <1>t DEF CardTypesOK, Plays
<1>6. /\ barred' \in SUBSET CardNames /\ doubled' \in SUBSET Teams /\ retried' \in SUBSET Teams
      /\ immune' \in SUBSET Teams
  <2>1. {<<p.team, p.category>> : p \in clash.plays \ TakesEffect} \subseteq CardNames
    BY <1>5 DEF CardNames
  <2>2. barred' \in SUBSET CardNames
    BY <1>1, <1>t, <2>1 DEF CardTypesOK
  <2>3. \A type : TakersOf(type) \subseteq Teams
    BY <1>4, <1>5
  <2>4. QED
    BY <1>1, <1>t, <2>2, <2>3 DEF CardTypesOK
<1>7. CardTypesOK'
  BY <1>1, <1>2, <1>3, <1>6, <1>t DEF CardTypesOK
<1>8. ClashOfLiveChallenge' /\ PlaysOfTheChallenge'
  BY <1>1, <1>3, <1>c, <1>t DEF ClashOfLiveChallenge, LiveChallenge, PlaysOfTheChallenge
<1>9. OnePlayEach'
  BY <1>1, <1>3, <1>4, <1>t DEF OnePlayEach, ClashActive
<1>10. QED
  BY <1>7, <1>8, <1>9 DEF PlaysInv

\* Opening a window starts clean only where nothing was played yet.
LEMMA OpenKeeps ==
    ASSUME CInv, NEW kind \in Kinds, OpenCardWindow(kind)
    PROVE  PlaysInv' /\ played \subseteq played'
<1>t. CardTypesOK /\ ClashOfLiveChallenge /\ OnePlayEach /\ PlaysOfTheChallenge /\ TypeOK
  BY DEF CInv, PlaysInv, FlowInv
<1>1. /\ UNCHANGED <<challenge, hand, status, clash, doubled, retried, immune, immunityDrawn>>
      /\ LiveChallenge /\ BarsFor(challenge.id)
      /\ window' = [open |-> TRUE, kind |-> kind, challenge |-> challenge.id]
  BY DEF OpenCardWindow, vars, playVars, handVars, clashVars, usageVars
<1>2. played' = played
  BY <1>1, <1>t DEF BarsFor, PlaysOfTheChallenge
<1>3. barred' \in SUBSET CardNames
  BY <1>1, <1>t DEF BarsFor, CardTypesOK
<1>4. /\ challenge.id \in 0..MaxChallenges /\ challenge.id # 0
      /\ kind \in ChallengeKinds /\ kind # "none"
  <2>1. challenge.status # "none" /\ challenge.status # "resolved"
    BY <1>1 DEF LiveChallenge
  <2>2. challenge.id # 0
    BY <2>1 DEF CInv, IdOfAChallenge
  <2>3. kind \in ChallengeKinds /\ kind # "none"
    BY CardsClashAssumption DEF CardsClashAssumption, ChallengeKinds, Eligible
  <2>4. QED
    BY <1>t, <2>2, <2>3 DEF TypeOK
<1>5. /\ window' \in [open : BOOLEAN, kind : ChallengeKinds \cup {"none"},
                      challenge : 0..MaxChallenges]
      /\ window'.kind = kind /\ window'.challenge = challenge.id
  BY <1>1, <1>4
<1>6. CardTypesOK'
  BY <1>1, <1>2, <1>3, <1>4, <1>5, <1>t DEF CardTypesOK
<1>7. ClashOfLiveChallenge' /\ PlaysOfTheChallenge'
  BY <1>1, <1>4, <1>5, <1>t DEF ClashOfLiveChallenge, LiveChallenge, PlaysOfTheChallenge
<1>8. OnePlayEach'
  BY <1>1, <1>2, <1>t DEF OnePlayEach, ClashActive
<1>9. QED
  BY <1>2, <1>6, <1>7, <1>8 DEF PlaysInv

\* A challenge that ends or is replaced takes its plays and its Clash with it.
LEMMA ChallengeKeeps ==
    ASSUME CInv, ChallengeStep
    PROVE  PlaysInv'
<1>t. CardTypesOK
  BY DEF CInv, PlaysInv
<1>1. /\ window' = NoCardWindow /\ played' = {} /\ barred' = {} /\ clash' = NoClash
      /\ doubled' = {} /\ retried' = {}
      /\ UNCHANGED <<hand, status, immune, immunityDrawn>>
  BY DEF ChallengeStep, EndChallenge, handVars
<1>2. 0 \in 0..MaxChallenges
  BY GameFlowAssumption DEF GameFlowAssumption
<1>3. CardTypesOK'
  BY <1>1, <1>2, <1>t DEF CardTypesOK, NoCardWindow, NoClash
<1>4. ClashOfLiveChallenge' /\ OnePlayEach' /\ PlaysOfTheChallenge'
  BY <1>1 DEF ClashOfLiveChallenge, OnePlayEach, PlaysOfTheChallenge, NoCardWindow, NoClash,
              ClashActive
<1>5. QED
  BY <1>3, <1>4 DEF PlaysInv

\* What leaves the cards alone and moves the challenge on within itself.
LEMMA GameKeeps ==
    ASSUME CInv, FlowStep \/ OverlayStep
    PROVE  PlaysInv' /\ played' = played
<1>t. CardTypesOK /\ ClashOfLiveChallenge /\ OnePlayEach /\ PlaysOfTheChallenge
  BY DEF CInv, PlaysInv
<1>1. UNCHANGED <<hand, status, window, played, barred, clash, doubled, retried, immune,
                  immunityDrawn>>
  BY DEF FlowStep, OverlayStep, cardVars, handVars, barVars, clashVars, usageVars
<1>2. challenge'.id = challenge.id /\ (LiveChallenge => LiveChallenge')
  <2>1. challenge \in [id : 0..MaxChallenges, status : Statuses]
    BY DEF CInv, FlowInv, TypeOK
  <2>2. CASE StartChallenge \/ RequestReview
    BY <2>1, <2>2 DEF StartChallenge, RequestReview, LiveChallenge
  <2>3. CASE StartGame \/ (\E to \in Phases : AdvancePhase(to)) \/ ClockTick \/ OverlayStep
    <3>1. challenge' = challenge
      BY <2>3 DEF StartGame, AdvancePhase, ClockTick, OverlayStep, HostPause, Pause, Resume,
                  playVars
    <3>2. QED
      BY <3>1 DEF LiveChallenge
  <2>4. QED
    BY <2>2, <2>3 DEF FlowStep
<1>3. CardTypesOK'
  BY <1>1, <1>t DEF CardTypesOK
<1>4. ClashOfLiveChallenge' /\ PlaysOfTheChallenge' /\ OnePlayEach'
  BY <1>1, <1>2, <1>t DEF ClashOfLiveChallenge, PlaysOfTheChallenge, OnePlayEach, ClashActive
<1>5. QED
  BY <1>1, <1>3, <1>4 DEF PlaysInv

\* Immunity, the deal and closing the window reach no Clash.
LEMMA RestKeeps ==
    ASSUME CInv, \/ \E t \in Teams : DrawImmunity(t)
                 \/ DealBacchanalCards
                 \/ CloseCardWindow
                 \/ UNCHANGED allVars
    PROVE  PlaysInv' /\ played' = played
<1>t. CardTypesOK /\ ClashOfLiveChallenge /\ OnePlayEach /\ PlaysOfTheChallenge
  BY DEF CInv, PlaysInv
<1>1. UNCHANGED <<challenge, played, barred, clash, doubled, retried>>
  BY DEF DrawImmunity, DealBacchanalCards, CloseCardWindow, allVars, cardVars, vars, playVars,
         barVars, clashVars, usageVars
<1>2. ClashOfLiveChallenge'
  BY <1>1, <1>t DEF ClashOfLiveChallenge, LiveChallenge
<1>3. ASSUME UNCHANGED <<hand, status, window>>, immune' \in SUBSET Teams,
             immunityDrawn' \in BOOLEAN
      PROVE  PlaysInv'
  BY <1>1, <1>2, <1>3, <1>t DEF PlaysInv, CardTypesOK, PlaysOfTheChallenge, OnePlayEach,
                                ClashActive
<1>4. ASSUME NEW t \in Teams, DrawImmunity(t) PROVE PlaysInv'
  BY <1>3, <1>4, <1>t DEF DrawImmunity, handVars, barVars, CardTypesOK
<1>5. CASE DealBacchanalCards
  <2>1. /\ hand' \in [Teams -> Hands] /\ ~Dealt
        /\ status' = [u \in Teams |-> [c \in Categories |-> "held"]]
        /\ UNCHANGED <<window, immune, immunityDrawn>>
    BY <1>5 DEF DealBacchanalCards, barVars, usageVars
  <2>2. hand' \in [Teams -> [Categories -> CardTypes \cup {None}]]
    <3>1. Hands \subseteq [Categories -> CardTypes \cup {None}]
      BY CardsClashAssumption DEF CardsClashAssumption
    <3>2. QED
      BY <2>1, <3>1
  <2>3. CardTypesOK' /\ PlaysOfTheChallenge'
    BY <1>1, <1>t, <2>1, <2>2 DEF CardTypesOK, PlaysOfTheChallenge
  <2>4. OnePlayEach'
    <3>1. \A p \in clash.plays : p.team \in Teams /\ p.category \in Categories
      BY <1>t DEF CardTypesOK, Plays
    <3>2. ASSUME ClashActive, NEW p \in clash.plays PROVE FALSE
      <4>1. status[p.team][p.category] = "pending"
        BY <1>t, <3>2 DEF OnePlayEach
      <4>2. QED
        BY <2>1, <3>1, <4>1 DEF Dealt
    <3>3. QED
      BY <1>1, <1>t, <3>2 DEF OnePlayEach, ClashActive
  <2>5. QED
    BY <1>1, <1>2, <2>3, <2>4 DEF PlaysInv
<1>6. CASE CloseCardWindow
  <2>1. UNCHANGED <<hand, status, immune, immunityDrawn>>
        /\ window' = [window EXCEPT !.open = FALSE]
    BY <1>6 DEF CloseCardWindow, handVars, usageVars
  <2>2. /\ window' \in [open : BOOLEAN, kind : ChallengeKinds \cup {"none"},
                        challenge : 0..MaxChallenges]
        /\ ~window'.open /\ window'.challenge = window.challenge
    BY <1>t, <2>1 DEF CardTypesOK
  <2>3. QED
    BY <1>1, <1>2, <1>t, <2>1, <2>2 DEF PlaysInv, CardTypesOK, PlaysOfTheChallenge,
                                        OnePlayEach, ClashActive
<1>7. CASE UNCHANGED allVars
  BY <1>3, <1>7, <1>t DEF allVars, cardVars, handVars, barVars, usageVars, CardTypesOK
<1>8. QED
  BY <1>1, <1>4, <1>5, <1>6, <1>7

-----------------------------------------------------------------------------
(* The invariant, and what the runs check of it. *)

\* A card step is a step of the game or leaves it alone.
LEMMA IdKept == CInv /\ [CNext]_allVars => IdOfAChallenge'
BY StepsOfTheGame, NextNumbered DEF CInv

\* Every step keeps what holds of the plays.
LEMMA PlaysKept == CInv /\ [CNext]_allVars => PlaysInv'
<1> SUFFICES ASSUME CInv, [CNext]_allVars PROVE PlaysInv'
  OBVIOUS
<1>1. ASSUME NEW kind \in Kinds, OpenCardWindow(kind) PROVE PlaysInv'
  BY <1>1, OpenKeeps
<1>2. ASSUME NEW t \in Teams, NEW c \in Categories, NEW target \in Teams \cup {None},
             PlayBacchanalCard(t, c, target)
      PROVE  PlaysInv'
  BY <1>2, PlayKeeps
<1>3. ASSUME NEW t \in Teams, NEW c \in Categories, NEW target \in Teams \cup {None},
             RespondToClash(t, c, target)
      PROVE  PlaysInv'
  BY <1>3, RespondKeeps
<1>4. CASE PollClashResolution
  BY <1>4, RevealKeeps
<1>5. CASE ChallengeStep
  BY <1>5, ChallengeKeeps
<1>6. CASE FlowStep \/ OverlayStep
  BY <1>6, GameKeeps
<1>7. CASE \/ \E t \in Teams : DrawImmunity(t)
           \/ DealBacchanalCards
           \/ CloseCardWindow
           \/ UNCHANGED allVars
  BY <1>7, RestKeeps
<1>8. QED
  BY <1>1, <1>2, <1>3, <1>4, <1>5, <1>6, <1>7 DEF CNext

\* The inductive invariant holds always.
LEMMA CInvAlways == CSpec => []CInv
<1>1. FlowInv /\ [CNext]_allVars => FlowInv'
  BY StepsOfTheGame, NextFlow
<1>2. CInv /\ [CNext]_allVars => CInv'
  BY <1>1, PlaysKept, WindowKept, IdKept DEF CInv
<1>3. QED
  BY InitCards, <1>2, PTL DEF CSpec

\* A Clash is always about the challenge being played, and its six seconds stand
\* still exactly while the game does, however many teams and however long they
\* are (endChallenge, ClashEngine.pause and resume).
THEOREM ClashIsSoundAlways == CSpec => []ClashIsSound
<1>1. CInv => ClashIsSound
  BY DEF CInv, PlaysInv, ClashWindowInv, CardTypesOK, CTypeOK, ClashIsSound
<1>2. QED
  BY <1>1, CInvAlways, PTL

\* A team has one play a challenge: one card in the Clash, committed until the
\* reveal, and no second by reopening the window, losing the Clash or being
\* refused (play, respond, openCardWindow).
THEOREM OnePlayAChallengeAlways == CSpec => OnePlayAChallenge
<1> DEFINE Kept == played \subseteq played' \/ challenge'.id # challenge.id
                                            \/ challenge'.status = "resolved"
<1>1. CInv /\ [CNext]_allVars => [Kept]_allVars
  <2> SUFFICES ASSUME CInv, CNext PROVE Kept
    OBVIOUS
  <2>t. challenge \in [id : 0..MaxChallenges, status : Statuses]
    BY DEF CInv, FlowInv, TypeOK
  <2>1. ASSUME NEW kind \in Kinds, OpenCardWindow(kind) PROVE played \subseteq played'
    BY <2>1, OpenKeeps
  <2>2. ASSUME NEW t, NEW c, NEW target,
               PlayBacchanalCard(t, c, target) \/ RespondToClash(t, c, target)
        PROVE  played \subseteq played'
    BY <2>2 DEF PlayBacchanalCard, RespondToClash, Commit
  <2>3. CASE PollClashResolution
    BY <2>3 DEF PollClashResolution, RevealClash
  <2>4. CASE ChallengeStep
    BY <2>4, <2>t DEF ChallengeStep, PrepareChallenge, ResolveChallenge
  <2>5. CASE FlowStep \/ OverlayStep
    BY <2>5, GameKeeps
  <2>6. CASE (\E t \in Teams : DrawImmunity(t)) \/ DealBacchanalCards \/ CloseCardWindow
    BY <2>6, RestKeeps
  <2>7. QED
    BY <2>1, <2>2, <2>3, <2>4, <2>5, <2>6 DEF CNext
<1>2. CSpec => [][Kept]_allVars
  <2> HIDE DEF Kept
  <2>1. QED
    BY <1>1, CInvAlways, PTL DEF CSpec
<1>3. CSpec => PlayIsNeverHandedBack
  BY <1>2 DEF PlayIsNeverHandedBack
<1>4. CInv => OnePlayEach
  BY DEF CInv, PlaysInv
<1>5. QED
  BY <1>3, <1>4, CInvAlways, PTL DEF OnePlayAChallenge

\* Whatever other step a game takes, it reveals no Clash.
LEMMA OnlyPollReveals ==
    ASSUME CInv, CNext, clash.challenge # 0, clash'.resolved, ~clash.resolved
    PROVE  PollClashResolution
<1>t. clash \in [challenge : 0..MaxChallenges, initiator : Teams \cup {None},
                 plays : SUBSET Plays, eligible : SUBSET Teams, resolved : BOOLEAN]
  BY DEF CInv, PlaysInv, CardTypesOK
<1>1. ASSUME NEW t, NEW c, NEW target, PlayBacchanalCard(t, c, target) PROVE FALSE
  <2>1. ClashActive
    BY DEF ClashActive
  <2>2. QED
    BY <1>1, <2>1 DEF PlayBacchanalCard, clashVars
<1>2. ASSUME NEW t, NEW c, NEW target, RespondToClash(t, c, target) PROVE FALSE
  BY <1>2, <1>t DEF RespondToClash
<1>3. CASE ChallengeStep
  BY <1>3 DEF ChallengeStep, EndChallenge, NoClash
<1>4. QED
  BY <1>1, <1>2, <1>3
     DEF CNext, DrawImmunity, DealBacchanalCards, OpenCardWindow, CloseCardWindow, OverlayStep,
         FlowStep, clashVars, cardVars

\* A reveal spends exactly the card that beats every other card of the Clash,
\* unless its target was immune; every other card is back in its hand, and no
\* other team has doubled or retried (resolveClash).
THEOREM RevealIsFairAlways == CSpec => RevealIsFair
<1> DEFINE Fair ==
        (clash.challenge # 0 /\ clash'.resolved /\ ~clash.resolved) =>
          /\ \A p \in clash.plays : status'[p.team][p.category] \in {"consumed", "held"}
          /\ \A p \in clash.plays :
                status'[p.team][p.category] = "consumed" <=>
                    /\ Dominates(p, clash.plays)
                    /\ p.target \notin immune
          /\ (doubled' \ doubled) \cup (retried' \ retried) \subseteq
                {p[1] : p \in Spent' \ Spent}
<1>1. CInv /\ [CNext]_allVars => [Fair]_allVars
  <2> SUFFICES ASSUME CInv, CNext, clash.challenge # 0, clash'.resolved, ~clash.resolved
               PROVE  /\ \A p \in clash.plays :
                            status'[p.team][p.category] \in {"consumed", "held"}
                      /\ \A p \in clash.plays :
                            status'[p.team][p.category] = "consumed" <=>
                                Dominates(p, clash.plays) /\ p.target \notin immune
                      /\ (doubled' \ doubled) \cup (retried' \ retried) \subseteq
                            {p[1] : p \in Spent' \ Spent}
    OBVIOUS
  <2>t. CardTypesOK /\ OnePlayEach
    BY DEF CInv, PlaysInv
  <2>1. /\ status' = StatusAfter(TakesEffect)
        /\ doubled' = doubled \cup TakersOf("DOUBLE_IT")
        /\ retried' = retried \cup TakersOf("FORGIVE_MEH")
    BY <2>t, OnlyPollReveals, RevealFacts DEF PollClashResolution
  <2>2. ASSUME NEW p \in clash.plays
        PROVE  /\ p.team \in Teams /\ p.category \in Categories
               /\ status[p.team][p.category] = "pending"
               /\ \A q \in clash.plays : q.team = p.team => q = p
    BY <2>t DEF CardTypesOK, Plays, OnePlayEach, ClashActive
  <2>3. TakesEffect \subseteq clash.plays
    BY DEF TakesEffect
  <2>4. ASSUME NEW p \in clash.plays
        PROVE  status'[p.team][p.category] = IF p \in TakesEffect THEN "consumed" ELSE "held"
    BY <2>1, <2>2, <2>3 DEF StatusAfter
  <2>5. \A p \in clash.plays : p \in TakesEffect <=>
                                  Dominates(p, clash.plays) /\ p.target \notin immune
    BY DEF TakesEffect, Blocked
  <2>6. ASSUME NEW t \in TakersOf("DOUBLE_IT") \cup TakersOf("FORGIVE_MEH")
        PROVE  t \in {p[1] : p \in Spent' \ Spent}
    <3>1. PICK p \in TakesEffect : p.team = t
      BY DEF TakersOf
    <3>2. /\ p \in clash.plays /\ t \in Teams /\ p.category \in Categories
          /\ status[t][p.category] = "pending" /\ status'[t][p.category] = "consumed"
      BY <2>2, <2>3, <2>4, <3>1
    <3>3. <<t, p.category>> \in Spent' \ Spent
      BY <3>2 DEF Spent, CardNames
    <3>4. QED
      BY <3>3
  <2>7. QED
    BY <2>1, <2>4, <2>5, <2>6
<1>2. CSpec => [][Fair]_allVars
  <2> HIDE DEF Fair
  <2>1. QED
    BY <1>1, CInvAlways, PTL DEF CSpec
<1>3. QED
  BY <1>2, PTL DEF RevealIsFair

\* Cards and Clashes leave the game they are played in as sound as it is without
\* them.
THEOREM GameStaysSound == CSpec => [](GameIsSound /\ TimerIsSound)
<1>1. CInv => GameIsSound /\ TimerIsSound
  BY FlowInvGives DEF CInv
<1>2. QED
  BY <1>1, CInvAlways, PTL

=============================================================================

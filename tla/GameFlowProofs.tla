--------------------------- MODULE GameFlowProofs ---------------------------
(***************************************************************************)
(* Proofs about GameFlow, for every set of players, teams and durations    *)
(* and every bound.  First what the proofs about every component use:      *)
(* induction on the naturals, sums over finite sets, deadline arithmetic   *)
(* and windows.  Then the timer, the flow's invariants, each from the ones *)
(* before it, the action properties, that the timer implements Countdown,  *)
(* and what the modules that play rounds on this flow cite of it, with the *)
(* walk of the development controls that take a game to a later round.     *)
(***************************************************************************)
EXTENDS DevSkip, RoundFlow, FiniteSetTheorems, TLAPS

-----------------------------------------------------------------------------
(* Induction on the naturals, said of a set and not of a predicate.        *)

\* A set of naturals that is not empty has a least member.
LEMMA LeastNatural ==
    ASSUME NEW T, T \subseteq Nat, T # {}
    PROVE  \E m \in T : \A n \in T : m <= n
<1> DEFINE Less == OpToRel(<, Nat)
<1>1. IsWellFoundedOn(Less, Nat)
  BY NatLessThanWellFounded
<1>2. PICK m \in T : \A n \in T : <<n, m>> \notin Less
  BY <1>1, WFMin
<1>3. ASSUME NEW n \in T PROVE m <= n
  <2>1. ~(n < m)
    BY <1>2 DEF OpToRel
  <2>2. QED
    BY <2>1
<1>4. QED
  BY <1>3

\* A set that has 0, and with each natural the next, has them all.
LEMMA NaturalsInduct ==
    ASSUME NEW S, 0 \in S, \A n \in Nat : n \in S => n + 1 \in S
    PROVE  Nat \subseteq S
<1>1. SUFFICES ASSUME Nat \ S # {} PROVE FALSE
  OBVIOUS
<1>2. PICK m \in Nat \ S : \A n \in Nat \ S : m <= n
  <2>1. Nat \ S \subseteq Nat
    OBVIOUS
  <2>2. QED
    BY <1>1, <2>1, LeastNatural
<1>3. m - 1 \in Nat \ S
  OBVIOUS
<1>4. QED
  BY <1>2, <1>3

-----------------------------------------------------------------------------
(* Sums over a finite set, as MapThenSumSet takes them: element by element, *)
(* in an order nobody knows.                                               *)

Pick(s) == CHOOSE x \in s : TRUE

\* i holds the sum of f over every subset of D.
Tally(i, f, D) ==
    i = [s \in SUBSET D |-> IF s = {} THEN 0 ELSE f[Pick(s)] + i[s \ {Pick(s)}]]

\* What holds of the empty set, and of a set when it holds of that set without
\* any one of its elements, holds of every subset of a finite set.
LEMMA SubsetsInduct ==
    ASSUME NEW D, IsFiniteSet(D), NEW G, {} \in G,
           \A s \in SUBSET D : s # {} /\ (\A x \in s : s \ {x} \in G) => s \in G
    PROVE  SUBSET D \subseteq G
<1> DEFINE N == {n \in Nat : \A s \in SUBSET D : Cardinality(s) = n => s \in G}
<1>f. \A s \in SUBSET D : IsFiniteSet(s) /\ Cardinality(s) \in Nat
  BY FS_Subset, FS_CardinalityType
<1>1. 0 \in N
  BY <1>f, FS_EmptySet
<1>2. ASSUME NEW n \in Nat, n \in N PROVE n + 1 \in N
  <2>1. ASSUME NEW s \in SUBSET D, Cardinality(s) = n + 1 PROVE s \in G
    <3>1. s # {}
      BY <1>f, <2>1, FS_EmptySet
    <3>2. ASSUME NEW x \in s PROVE s \ {x} \in G
      <4>1. Cardinality(s \ {x}) = n
        BY <1>f, <2>1, FS_RemoveElement
      <4>2. QED
        BY <1>2, <4>1
    <3>3. QED
      BY <3>1, <3>2
  <2>2. QED
    BY <2>1
<1> HIDE DEF N
<1>3. Nat \subseteq N
  BY <1>1, <1>2, NaturalsInduct
<1>4. QED
  BY <1>3, <1>f DEF N

\* There is one: the recursion is well founded.
LEMMA TallyExists ==
    ASSUME NEW D, IsFiniteSet(D), NEW f
    PROVE  \E i : Tally(i, f, D)
<1> DEFINE UpTo(n) == {s \in SUBSET D : Cardinality(s) <= n}
           Part(i, n) == i = [s \in UpTo(n) |->
                                IF s = {} THEN 0 ELSE f[Pick(s)] + i[s \ {Pick(s)}]]
           N == {n \in Nat : \E i : Part(i, n)}
<1>f. \A s \in SUBSET D : IsFiniteSet(s) /\ Cardinality(s) \in Nat
  BY FS_Subset, FS_CardinalityType
<1>p. \A s \in SUBSET D : s # {} =>
         /\ Pick(s) \in s /\ s \ {Pick(s)} \in SUBSET D
         /\ Cardinality(s \ {Pick(s)}) = Cardinality(s) - 1
  BY <1>f, FS_RemoveElement DEF Pick
<1>1. 0 \in N
  <2>1. UpTo(0) = {{}}
    BY <1>f, FS_EmptySet
  <2> HIDE DEF UpTo
  <2>2. Part([s \in UpTo(0) |-> 0], 0)
    BY <2>1
  <2>3. QED
    BY <2>2
<1>2. ASSUME NEW n \in Nat, n \in N PROVE n + 1 \in N
  <2>1. PICK i : Part(i, n)
    BY <1>2
  <2> DEFINE j == [s \in UpTo(n + 1) |->
                     IF s \in UpTo(n) THEN i[s] ELSE f[Pick(s)] + i[s \ {Pick(s)}]]
  <2>2. ASSUME NEW s \in UpTo(n + 1)
        PROVE  j[s] = IF s = {} THEN 0 ELSE f[Pick(s)] + j[s \ {Pick(s)}]
    <3>1. s # {} => s \ {Pick(s)} \in UpTo(n) /\ s \ {Pick(s)} \in UpTo(n + 1)
      BY <1>f, <1>p
    <3>2. {} \in UpTo(n)
      BY FS_EmptySet
    <3>3. j[s] = IF s \in UpTo(n) THEN i[s] ELSE f[Pick(s)] + i[s \ {Pick(s)}]
      OBVIOUS
    <3>4. s # {} => j[s \ {Pick(s)}] = i[s \ {Pick(s)}]
      BY <3>1
    <3>5. s \in UpTo(n) => i[s] = IF s = {} THEN 0 ELSE f[Pick(s)] + i[s \ {Pick(s)}]
      BY <2>1
    <3> HIDE DEF j, UpTo
    <3>6. QED
      BY <3>2, <3>3, <3>4, <3>5
  <2>3. Part(j, n + 1)
    <3>1. j = [s \in UpTo(n + 1) |-> j[s]]
      OBVIOUS
    <3> HIDE DEF j
    <3>2. QED
      BY <2>2, <3>1
  <2> HIDE DEF j, Part
  <2>4. QED
    BY <2>3
<1>3. PICK i : Part(i, Cardinality(D))
  <2> HIDE DEF Part
  <2>1. Nat \subseteq N
    <3> HIDE DEF N
    <3>1. QED
      BY <1>1, <1>2, NaturalsInduct
  <2>2. Cardinality(D) \in Nat
    BY FS_CardinalityType
  <2>3. QED
    BY <2>1, <2>2
<1>4. UpTo(Cardinality(D)) = SUBSET D
  BY <1>f, FS_Subset
<1>5. QED
  BY <1>3, <1>4 DEF Tally

\* What a tally says of one set.
LEMMA TallyAt ==
    ASSUME NEW D, NEW f, NEW i, Tally(i, f, D), NEW s \in SUBSET D
    PROVE  /\ s = {} => i[s] = 0
           /\ s # {} => /\ Pick(s) \in s
                        /\ s \ {Pick(s)} \in SUBSET D
                        /\ i[s] = f[Pick(s)] + i[s \ {Pick(s)}]
BY DEF Tally, Pick

\* Sums of integers are integers.
LEMMA TallyType ==
    ASSUME NEW D, IsFiniteSet(D), NEW f \in [D -> Int], NEW i, Tally(i, f, D)
    PROVE  \A s \in SUBSET D : i[s] \in Int
<1>u. ASSUME NEW s \in SUBSET D, s # {}
      PROVE  Pick(s) \in s /\ i[s] = f[Pick(s)] + i[s \ {Pick(s)}]
  BY <1>u DEF Tally, Pick
<1> DEFINE G == {s \in SUBSET D : i[s] \in Int}
<1>1. {} \in G
  BY TallyAt
<1>2. ASSUME NEW s \in SUBSET D, s # {}, \A x \in s : s \ {x} \in G PROVE s \in G
  <2>1. Pick(s) \in s /\ i[s] = f[Pick(s)] + i[s \ {Pick(s)}]
    BY <1>2, <1>u
  <2>2. f[Pick(s)] \in Int /\ i[s \ {Pick(s)}] \in Int
    BY <1>2, <2>1
  <2>3. QED
    BY <2>1, <2>2
<1>3. SUBSET D \subseteq G
  <2> HIDE DEF G
  <2>1. QED
    BY <1>1, <1>2, SubsetsInduct
<1>4. QED
  BY <1>3

\* Any element may be taken out first.
LEMMA TallyTakesAny ==
    ASSUME NEW D, IsFiniteSet(D), NEW f \in [D -> Int], NEW i, Tally(i, f, D)
    PROVE  \A s \in SUBSET D : \A x \in s : i[s] = f[x] + i[s \ {x}]
<1> DEFINE G == {s \in SUBSET D : \A x \in s : i[s] = f[x] + i[s \ {x}]}
<1>t. \A s \in SUBSET D : i[s] \in Int
  BY TallyType
<1>1. {} \in G
  OBVIOUS
<1>2. ASSUME NEW s \in SUBSET D, s # {}, \A x \in s : s \ {x} \in G PROVE s \in G
  <2> DEFINE c == Pick(s)
  <2>1. c \in s /\ i[s] = f[c] + i[s \ {c}]
    BY <1>2, TallyAt
  <2>2. ASSUME NEW x \in s PROVE i[s] = f[x] + i[s \ {x}]
    <3>1. CASE x = c
      BY <2>1, <3>1
    <3>2. CASE x # c
      <4> DEFINE rest == (s \ {x}) \ {c}
      <4>1. rest = (s \ {c}) \ {x}
        OBVIOUS
      <4>2. i[s \ {c}] = f[x] + i[rest]
        BY <1>2, <2>1, <3>2, <4>1
      <4>3. i[s \ {x}] = f[c] + i[rest]
        BY <1>2, <2>1, <3>2
      <4>4. f[x] \in Int /\ f[c] \in Int /\ i[rest] \in Int
        BY <1>t, <2>1
      <4> HIDE DEF rest, c
      <4>5. QED
        BY <2>1, <4>2, <4>3, <4>4
    <3>3. QED
      BY <3>1, <3>2
  <2>3. QED
    BY <2>2
<1>3. SUBSET D \subseteq G
  <2> HIDE DEF G
  <2>1. QED
    BY <1>1, <1>2, SubsetsInduct
<1>4. QED
  BY <1>3

\* A sum depends on nothing but what is summed.
LEMMA TalliesAgree ==
    ASSUME NEW D, NEW E, NEW f, NEW g, NEW i, NEW j, Tally(i, f, D), Tally(j, g, E),
           NEW C \in SUBSET D, C \in SUBSET E, IsFiniteSet(C), \A x \in C : f[x] = g[x]
    PROVE  i[C] = j[C]
<1> DEFINE G == {s \in SUBSET C : i[s] = j[s]}
<1>u. \A s \in SUBSET C : s # {} => /\ Pick(s) \in s
                                    /\ i[s] = f[Pick(s)] + i[s \ {Pick(s)}]
                                    /\ j[s] = g[Pick(s)] + j[s \ {Pick(s)}]
  BY TallyAt
<1>1. {} \in G
  BY TallyAt
<1>2. ASSUME NEW s \in SUBSET C, s # {}, \A x \in s : s \ {x} \in G PROVE s \in G
  <2>1. Pick(s) \in s /\ i[s] = f[Pick(s)] + i[s \ {Pick(s)}]
                      /\ j[s] = g[Pick(s)] + j[s \ {Pick(s)}]
    BY <1>2, <1>u
  <2>2. QED
    BY <1>2, <2>1
<1>3. SUBSET C \subseteq G
  <2> HIDE DEF G
  <2>1. QED
    BY <1>1, <1>2, SubsetsInduct
<1>4. QED
  BY <1>3

\* Where one summand changes, the sum changes by as much.
LEMMA TallyMoves ==
    ASSUME NEW D, IsFiniteSet(D), NEW f \in [D -> Int], NEW g \in [D -> Int],
           NEW i, NEW j, Tally(i, f, D), Tally(j, g, D)
    PROVE  \A x \in D : (\A y \in D \ {x} : g[y] = f[y]) => j[D] = i[D] + (g[x] - f[x])
<1>1. \A s \in SUBSET D : i[s] \in Int
  BY TallyType
<1>2. ASSUME NEW x \in D, \A y \in D \ {x} : g[y] = f[y]
      PROVE  j[D] = i[D] + (g[x] - f[x])
  <2>1. i[D] = f[x] + i[D \ {x}] /\ j[D] = g[x] + j[D \ {x}]
    BY TallyTakesAny
  <2>2. i[D \ {x}] = j[D \ {x}]
    <3>1. IsFiniteSet(D \ {x})
      BY FS_RemoveElement
    <3>2. QED
      BY <1>2, <3>1, TalliesAgree
  <2>3. i[D \ {x}] \in Int /\ f[x] \in Int /\ g[x] \in Int
    BY <1>1
  <2>4. QED
    BY <1>1, <2>1, <2>2, <2>3
<1>3. QED
  BY <1>2

\* Where a summand is added, the sum is more by that summand.
LEMMA TallyGrows ==
    ASSUME NEW E, IsFiniteSet(E), NEW x \in E, NEW D, D = E \ {x},
           NEW f \in [D -> Int], NEW g \in [E -> Int], NEW i, NEW j,
           Tally(i, f, D), Tally(j, g, E), \A y \in D : g[y] = f[y]
    PROVE  j[E] = i[D] + g[x] /\ i[D] \in Int
<1>1. j[E] = g[x] + j[D]
  BY TallyTakesAny
<1>2. IsFiniteSet(D)
  BY FS_RemoveElement
<1>3. i[D] = j[D]
  BY <1>2, TalliesAgree
<1>4. i[D] \in Int /\ g[x] \in Int
  BY <1>2, TallyType
<1>5. QED
  BY <1>1, <1>3, <1>4

\* Nothing sums to nothing.
LEMMA TallyOfNothing ==
    ASSUME NEW D, IsFiniteSet(D), NEW f, \A x \in D : f[x] = 0, NEW i, Tally(i, f, D)
    PROVE  i[D] = 0
<1> DEFINE G == {s \in SUBSET D : i[s] = 0}
<1>u. \A s \in SUBSET D : s # {} => Pick(s) \in s /\ i[s] = f[Pick(s)] + i[s \ {Pick(s)}]
  BY TallyAt
<1>1. {} \in G
  BY TallyAt
<1>2. ASSUME NEW s \in SUBSET D, s # {}, \A x \in s : s \ {x} \in G PROVE s \in G
  <2>1. Pick(s) \in s /\ i[s] = f[Pick(s)] + i[s \ {Pick(s)}]
    BY <1>2, <1>u
  <2>2. f[Pick(s)] = 0 /\ i[s \ {Pick(s)}] = 0
    BY <1>2, <2>1
  <2>3. QED
    BY <2>1, <2>2
<1>3. SUBSET D \subseteq G
  <2> HIDE DEF G
  <2>1. QED
    BY <1>1, <1>2, SubsetsInduct
<1>4. QED
  BY <1>3

-----------------------------------------------------------------------------
(* Deadline arithmetic. *)

\* startDeadline: a fresh deadline has all its time left and is running.
LEMMA StartFacts ==
    ASSUME NEW n \in Nat, NEW d \in Nat \ {0}
    PROVE  /\ StartDeadline(n, d) \in Deadlines
           /\ WellFormed(n, StartDeadline(n, d))
           /\ ~IsPaused(StartDeadline(n, d))
           /\ StartDeadline(n, d).durationMs = d
           /\ RemainingMs(n, StartDeadline(n, d)) = d
BY DEF StartDeadline, Deadlines, WellFormed, IsPaused, RemainingMs, ElapsedMs,
       AtLeastZero, NotPaused

\* remainingMs is a natural number of milliseconds, never negative.
LEMMA RemainingType ==
    ASSUME NEW n \in Nat, NEW dl \in Deadlines
    PROVE  RemainingMs(n, dl) \in Nat
BY DEF Deadlines, RemainingMs, ElapsedMs, AtLeastZero, IsPaused, NotPaused

\* pauseDeadline keeps the time left.
LEMMA PauseFacts ==
    ASSUME NEW n \in Nat, NEW dl \in Deadlines, WellFormed(n, dl)
    PROVE  /\ PauseDeadline(n, dl) \in Deadlines
           /\ WellFormed(n, PauseDeadline(n, dl))
           /\ IsPaused(PauseDeadline(n, dl))
           /\ PauseDeadline(n, dl).durationMs = dl.durationMs
           /\ RemainingMs(n, PauseDeadline(n, dl)) = RemainingMs(n, dl)
BY DEF PauseDeadline, Deadlines, WellFormed, IsPaused, RemainingMs, ElapsedMs,
       AtLeastZero, NotPaused

\* resumeDeadline keeps the time left: the pause that ends is banked.
LEMMA ResumeFacts ==
    ASSUME NEW n \in Nat, NEW dl \in Deadlines, WellFormed(n, dl)
    PROVE  /\ ResumeDeadline(n, dl) \in Deadlines
           /\ WellFormed(n, ResumeDeadline(n, dl))
           /\ ~IsPaused(ResumeDeadline(n, dl))
           /\ ResumeDeadline(n, dl).durationMs = dl.durationMs
           /\ RemainingMs(n, ResumeDeadline(n, dl)) = RemainingMs(n, dl)
<1>1. CASE ~IsPaused(dl)
  BY <1>1 DEF ResumeDeadline
<1>2. CASE IsPaused(dl)
  BY <1>2 DEF ResumeDeadline, Deadlines, WellFormed, IsPaused, RemainingMs, ElapsedMs,
       AtLeastZero, NotPaused
<1>3. QED
  BY <1>1, <1>2

\* Extending a deadline that has not run out adds exactly the extension.
LEMMA ExtendFacts ==
    ASSUME NEW n \in Nat, NEW dl \in Deadlines, WellFormed(n, dl), NEW ms \in Nat \ {0},
           ~HasExpired(n, dl)
    PROVE  /\ ExtendDeadline(dl, ms) \in Deadlines
           /\ WellFormed(n, ExtendDeadline(dl, ms))
           /\ IsPaused(ExtendDeadline(dl, ms)) <=> IsPaused(dl)
           /\ ExtendDeadline(dl, ms).durationMs = dl.durationMs + ms
           /\ RemainingMs(n, ExtendDeadline(dl, ms)) = RemainingMs(n, dl) + ms
BY DEF ExtendDeadline, Deadlines, WellFormed, IsPaused, RemainingMs, ElapsedMs,
       AtLeastZero, NotPaused, HasExpired

\* One tick of the clock takes one unit from a running deadline that has
\* time left, and nothing from a paused one.
LEMMA TickFacts ==
    ASSUME NEW n \in Nat, NEW dl \in Deadlines, WellFormed(n, dl)
    PROVE  /\ WellFormed(n + 1, dl)
           /\ RemainingMs(n + 1, dl) = IF IsPaused(dl) \/ RemainingMs(n, dl) = 0
                                       THEN RemainingMs(n, dl)
                                       ELSE RemainingMs(n, dl) - 1
BY DEF Deadlines, WellFormed, IsPaused, RemainingMs, ElapsedMs, AtLeastZero, NotPaused

-----------------------------------------------------------------------------
(* A deadline read at any clock reading is a window: each thing the code    *)
(* does to a deadline does to that reading what Windows says.  The modules  *)
(* of the rounds keep windows on the strength of this.                      *)

\* The window a deadline dl is at clock reading n.
WindowOf(n, dl) == [left  |-> RemainingMs(n, dl),
                    state |-> IF IsPaused(dl) THEN "frozen" ELSE "running"]

\* startDeadline opens a window of the length it is given.
THEOREM StartOpens ==
    ASSUME NEW n \in Nat, NEW d \in Nat
    PROVE  WindowOf(n, StartDeadline(n, d)) = OpenWindow(d)
BY DEF WindowOf, StartDeadline, OpenWindow, RemainingMs, ElapsedMs, AtLeastZero,
       IsPaused, NotPaused

\* pauseDeadline freezes it and costs no time.
THEOREM PauseFreezes ==
    ASSUME NEW n \in Nat, NEW dl \in Deadlines
    PROVE  WindowOf(n, PauseDeadline(n, dl)) = FreezeWindow(WindowOf(n, dl))
<1>1. CASE IsPaused(dl)
  BY <1>1 DEF WindowOf, PauseDeadline, FreezeWindow
<1>2. CASE ~IsPaused(dl)
  <2>1. /\ IsPaused(PauseDeadline(n, dl))
        /\ PauseDeadline(n, dl).pausedAt = n
        /\ PauseDeadline(n, dl).durationMs = dl.durationMs
        /\ PauseDeadline(n, dl).startedAt = dl.startedAt
        /\ PauseDeadline(n, dl).accumulatedPauseMs = dl.accumulatedPauseMs
    BY <1>2 DEF PauseDeadline, Deadlines, IsPaused, NotPaused
  <2>2. RemainingMs(n, PauseDeadline(n, dl)) = RemainingMs(n, dl)
    BY <1>2, <2>1 DEF RemainingMs, ElapsedMs
  <2> QED
    BY <1>2, <2>1, <2>2 DEF WindowOf, FreezeWindow
<1> QED
  BY <1>1, <1>2

\* resumeDeadline lets it run again from where it stood, however long it stood.
THEOREM ResumeThaws ==
    ASSUME NEW n \in Nat, NEW dl \in Deadlines, WellFormed(n, dl)
    PROVE  WindowOf(n, ResumeDeadline(n, dl)) = ThawWindow(WindowOf(n, dl))
<1>1. CASE ~IsPaused(dl)
  BY <1>1 DEF WindowOf, ResumeDeadline, ThawWindow
<1>2. CASE IsPaused(dl)
  <2> DEFINE r == ResumeDeadline(n, dl)
  <2>1. /\ ~IsPaused(r)
        /\ r.durationMs = dl.durationMs
        /\ r.startedAt = dl.startedAt
        /\ r.accumulatedPauseMs = dl.accumulatedPauseMs + (n - dl.pausedAt)
    BY <1>2 DEF ResumeDeadline, Deadlines, IsPaused, NotPaused
  <2>2. dl.pausedAt \in Nat /\ dl.startedAt \in Nat /\ dl.accumulatedPauseMs \in Nat
    BY <1>2 DEF Deadlines, IsPaused
  <2>3. n - r.startedAt - r.accumulatedPauseMs
          = dl.pausedAt - dl.startedAt - dl.accumulatedPauseMs
    BY <2>1, <2>2
  <2>4. RemainingMs(n, r) = RemainingMs(n, dl)
    BY <1>2, <2>1, <2>3 DEF RemainingMs, ElapsedMs
  <2> QED
    BY <1>2, <2>1, <2>4 DEF WindowOf, ThawWindow
<1> QED
  BY <1>1, <1>2

\* A tick of the clock takes one unit off a window that runs and nothing off one
\* that is frozen or has run out.
THEOREM ClockElapses ==
    ASSUME NEW n \in Nat, NEW dl \in Deadlines, WellFormed(n, dl)
    PROVE  WindowOf(n + 1, dl) = ElapseWindow(WindowOf(n, dl))
<1>1. CASE IsPaused(dl)
  BY <1>1 DEF WindowOf, ElapseWindow, RemainingMs, ElapsedMs
<1>2. CASE ~IsPaused(dl)
  <2>1. /\ dl.durationMs \in Nat /\ dl.startedAt \in Nat /\ dl.accumulatedPauseMs \in Nat
        /\ dl.startedAt + dl.accumulatedPauseMs <= n
    BY <1>2 DEF Deadlines, WellFormed
  <2>2. /\ ElapsedMs(n, dl) = n - dl.startedAt - dl.accumulatedPauseMs
        /\ ElapsedMs(n + 1, dl) = ElapsedMs(n, dl) + 1
        /\ ElapsedMs(n, dl) \in Nat
    BY <1>2, <2>1 DEF ElapsedMs, AtLeastZero
  <2>3. RemainingMs(n + 1, dl) = IF RemainingMs(n, dl) > 0
                                 THEN RemainingMs(n, dl) - 1 ELSE RemainingMs(n, dl)
    BY <2>1, <2>2 DEF RemainingMs, AtLeastZero
  <2> QED
    BY <1>2, <2>3 DEF WindowOf, ElapseWindow
<1> QED
  BY <1>1, <1>2

\* hasExpired is the question the rounds ask.
THEOREM ExpiredIsDue ==
    ASSUME NEW n \in Nat, NEW dl \in Deadlines
    PROVE  HasExpired(n, dl) <=> Due(WindowOf(n, dl))
BY DEF HasExpired, Due, Exists, WindowOf

-----------------------------------------------------------------------------
(* The four things that happen to the timer besides being left alone. *)

TimerTypeOK ==
    /\ now \in Nat
    /\ timer \in Deadlines /\ WellFormed(now, timer)
    /\ TimerSet => timer.durationMs > 0
    /\ timerChallenge \in 0..MaxChallenges
    /\ expiryReported \in BOOLEAN

\* A deadline of positive length is not the absent timer.
LEMMA PositiveIsSet ==
    ASSUME NEW dl \in Deadlines, dl.durationMs > 0
    PROVE  dl # NoTimer
BY DEF NoTimer, Deadlines

\* The absent timer is a well-formed deadline at any reading of the clock.
LEMMA NoTimerFacts ==
    /\ NoTimer \in Deadlines
    /\ ~IsPaused(NoTimer)
    /\ \A n \in Nat : WellFormed(n, NoTimer) /\ RemainingMs(n, NoTimer) = 0
BY DEF NoTimer, Deadlines, IsPaused, WellFormed, RemainingMs, ElapsedMs, AtLeastZero,
       NotPaused

\* Cancelling, pausing and resuming the timer keep it well formed.
LEMMA TimerEffects ==
    ASSUME TimerTypeOK, now' = now, CancelTheTimer \/ PauseTheTimer \/ ResumeTheTimer
    PROVE  TimerTypeOK'
<1>1. now' \in Nat /\ 0 \in 0..MaxChallenges
  BY GameFlowAssumption DEF TimerTypeOK, GameFlowAssumption
<1>2. CASE CancelTheTimer
  BY <1>1, <1>2, NoTimerFacts DEF CancelTheTimer, TimerTypeOK, TimerSet
<1>3. CASE ~TimerSet /\ UNCHANGED <<timer, timerChallenge, expiryReported>>
  BY <1>3 DEF TimerTypeOK, TimerSet
<1>4. CASE TimerSet /\ PauseTheTimer
  BY <1>1, <1>4, PauseFacts DEF PauseTheTimer, TimerTypeOK, TimerSet
<1>5. CASE TimerSet /\ ResumeTheTimer
  BY <1>1, <1>5, ResumeFacts DEF ResumeTheTimer, TimerTypeOK, TimerSet
<1>6. QED
  BY <1>2, <1>3, <1>4, <1>5 DEF PauseTheTimer, ResumeTheTimer

-----------------------------------------------------------------------------
(* The phase machine. *)

\* The thirteen phases of lifecycle.ts, spelled out for the provers.
LEMMA PhaseNames ==
    Phases = {"BOOT", "LOBBY", "TEAM_LOCK", "ROUND_INTRO", "MARKET", "CHALLENGE_INTRO",
              "ACTIVE_PLAY", "HOST_REVIEW", "RESULT", "ROUND_COMPLETE", "SUDDEN_DEATH",
              "PAUSED", "GAME_OVER"}
BY DEF Phases, Transitions

\* No transition enters or leaves PAUSED, and none leaves GAME_OVER: the
\* overlay is the only way in and the Host's resume the only way out.
LEMMA TransitionFacts ==
    ASSUME NEW from \in Phases, NEW to, IsLegalTransition(from, to)
    PROVE  /\ from \notin {"PAUSED", "GAME_OVER"}
           /\ to \in Phases \ {"PAUSED"}
BY PhaseNames DEF IsLegalTransition, Transitions

\* Every transition, tried or required, leaves a phase that exists.
LEMMA MoveFacts ==
    ASSUME NEW to, phase \in Phases, resumePhase \in Phases \cup {NoPhase},
           MoveTo(to) \/ TryMoveTo(to)
    PROVE  phase' \in Phases /\ resumePhase' \in Phases \cup {NoPhase}
BY TransitionFacts DEF MoveTo, TryMoveTo

-----------------------------------------------------------------------------
(* Type correctness. *)

\* The engine of a room whose teams are locked is well typed.
LEMMA InitType == Init => TypeOK
<1> SUFFICES ASSUME Init PROVE TypeOK
  OBVIOUS
<1>1. now \in Nat /\ timer \in Deadlines /\ WellFormed(now, timer) /\ ~TimerSet
  BY NoTimerFacts DEF Init, TimerSet
<1>2. challenge \in [id : 0..MaxChallenges, status : Statuses]
      /\ turn \in [team : Teams \cup {None}, player : Players \cup {None}]
      /\ timerChallenge \in 0..MaxChallenges
  BY GameFlowAssumption DEF Init, GameFlowAssumption, Statuses, NoTurn
<1>3. settlements \in [1..MaxChallenges -> Nat]
  BY DEF Init
<1>4. QED
  BY <1>1, <1>2, <1>3, PhaseNames DEF Init, TypeOK

\* Every engine method, tick and clock step keeps the state well typed; that a
\* resume lands on a real phase needs PauseShape.
LEMMA NextType == TypeOK /\ PauseShape /\ [Next]_vars => TypeOK'
<1> SUFFICES ASSUME TypeOK, PauseShape, [Next]_vars PROVE TypeOK'
  OBVIOUS
<1> USE GameFlowAssumption DEF GameFlowAssumption
<1> DEFINE FlowType ==
      /\ started \in BOOLEAN
      /\ phase \in Phases
      /\ resumePhase \in Phases \cup {NoPhase}
      /\ roundIndex \in Nat
    PlayType ==
      /\ members \in [Teams -> SUBSET Players]
      /\ challenge \in [id : 0..MaxChallenges, status : Statuses]
      /\ settlements \in [1..MaxChallenges -> Nat]
      /\ turn \in [team : Teams \cup {None}, player : Players \cup {None}]
      /\ active \in SUBSET Players
      /\ pausedBy \in Players \cup {None}
<1>a. TypeOK <=> FlowType /\ PlayType /\ TimerTypeOK
  BY DEF TypeOK, TimerTypeOK
<1>b. TypeOK' <=> FlowType' /\ PlayType' /\ TimerTypeOK'
  BY DEF TypeOK, TimerTypeOK
<1>c. ASSUME UNCHANGED <<started, phase, resumePhase, roundIndex>> PROVE FlowType'
  BY <1>a, <1>c
<1>d. ASSUME UNCHANGED <<members, challenge, settlements, turn, active, pausedBy>> PROVE PlayType'
  BY <1>a, <1>d
<1>e. ASSUME UNCHANGED <<now, timer, timerChallenge, expiryReported>> PROVE TimerTypeOK'
  BY <1>a, <1>e DEF TimerTypeOK, TimerSet
<1>f. ASSUME ClearPlay, members' \in [Teams -> SUBSET Players],
             challenge' \in [id : 0..MaxChallenges, status : Statuses],
             settlements' \in [1..MaxChallenges -> Nat], pausedBy' = pausedBy
      PROVE  PlayType'
  BY <1>a, <1>f DEF ClearPlay, NoTurn
<1>g. ASSUME NEW s \in Statuses
      PROVE  [challenge EXCEPT !.status = s] \in [id : 0..MaxChallenges, status : Statuses]
  BY <1>a
<1>h. ASSUME UNCHANGED <<members, settlements, turn, active, pausedBy>>,
             challenge' \in [id : 0..MaxChallenges, status : Statuses]
      PROVE  PlayType'
  BY <1>a, <1>h
<1>1. CASE StartGame
  <2>1. FlowType'
    BY <1>1, <1>a, MoveFacts DEF StartGame
  <2>2. QED
    BY <1>1, <2>1, <1>b, <1>d, <1>e DEF StartGame, playVars, timerVars
<1>2. ASSUME NEW to \in Phases, AdvancePhase(to) PROVE TypeOK'
  <2>1. FlowType'
    BY <1>2, <1>a, MoveFacts DEF AdvancePhase
  <2>2. QED
    BY <1>2, <2>1, <1>b, <1>d, <1>e DEF AdvancePhase, playVars, timerVars
<1>3. CASE PrepareChallenge
  <2>1. PlayType'
    BY <1>3, <1>a, <1>f DEF PrepareChallenge, Statuses
  <2>2. QED
    BY <1>3, <2>1, <1>a, <1>b, <1>c, TimerEffects DEF PrepareChallenge, flowVars
<1>4. CASE StartChallenge
  <2>1. FlowType'
    BY <1>4, <1>a, MoveFacts DEF StartChallenge
  <2>2. PlayType'
    BY <1>4, <1>g, <1>h DEF StartChallenge, Statuses
  <2>3. QED
    BY <1>4, <2>1, <2>2, <1>b, <1>e DEF StartChallenge, timerVars
<1>5. CASE RequestReview
  <2>1. FlowType'
    BY <1>5, <1>a, MoveFacts DEF RequestReview
  <2>2. PlayType'
    BY <1>5, <1>g, <1>h DEF RequestReview, Statuses
  <2>3. QED
    BY <1>5, <2>1, <2>2, <1>a, <1>b, TimerEffects DEF RequestReview
<1>6. CASE ResolveChallenge
  <2>1. FlowType'
    BY <1>6, <1>a, MoveFacts DEF ResolveChallenge
  <2>2. settlements' \in [1..MaxChallenges -> Nat]
    <3>1. settlements \in [1..MaxChallenges -> Nat]
          /\ settlements' = [settlements EXCEPT ![challenge.id] = settlements[challenge.id] + 1]
      BY <1>6, <1>a DEF ResolveChallenge
    <3>2. ASSUME NEW c \in 1..MaxChallenges PROVE settlements'[c] \in Nat
      BY <3>1, Z3
    <3>3. QED
      BY <3>1, <3>2
  <2>3. PlayType'
    BY <1>6, <2>2, <1>a, <1>f, <1>g DEF ResolveChallenge, Statuses
  <2>4. QED
    BY <1>6, <2>1, <2>3, <1>a, <1>b, TimerEffects DEF ResolveChallenge
<1>7. ASSUME NEW t \in Teams \cup {None}, NEW p \in Players \cup {None}, SetTurn(t, p)
      PROVE  TypeOK'
  <2>1. PlayType'
    BY <1>7, <1>a DEF SetTurn
  <2>2. QED
    BY <1>7, <2>1, <1>b, <1>c, <1>e DEF SetTurn, flowVars, timerVars
<1>8. ASSUME NEW ps \in SUBSET Players, SetActivePlayers(ps) PROVE TypeOK'
  <2>1. PlayType'
    BY <1>8, <1>a DEF SetActivePlayers
  <2>2. QED
    BY <1>8, <2>1, <1>b, <1>c, <1>e DEF SetActivePlayers, flowVars, timerVars
<1>9. ASSUME NEW p \in Players, RemoveMember(p) PROVE TypeOK'
  <2>1. PlayType'
    BY <1>9, <1>a DEF RemoveMember, TurnWithout
  <2>2. QED
    BY <1>9, <2>1, <1>b, <1>c, <1>e DEF RemoveMember, flowVars, timerVars
<1>10. ASSUME NEW d \in Durations, StartTimer(d) PROVE TypeOK'
  <2>1. d \in Nat \ {0}
    OBVIOUS
  <2>2. TimerTypeOK'
    <3>1. now \in Nat /\ challenge.id \in 0..MaxChallenges
      BY <1>a DEF TimerTypeOK
    <3>2. timer' \in Deadlines /\ WellFormed(now, timer') /\ timer'.durationMs > 0
      BY <1>10, <2>1, <3>1, StartFacts DEF StartTimer
    <3>3. now' = now /\ timerChallenge' = challenge.id /\ expiryReported' = FALSE
      BY <1>10 DEF StartTimer
    <3>4. QED
      BY <3>1, <3>2, <3>3 DEF TimerTypeOK
  <2>3. QED
    BY <1>10, <2>2, <1>b, <1>c, <1>d DEF StartTimer, flowVars, playVars
<1>11. CASE CancelTimer
  <2>1. TimerTypeOK'
    BY <1>11, <1>a, TimerEffects DEF CancelTimer
  <2>2. QED
    BY <1>11, <2>1, <1>b, <1>c, <1>d DEF CancelTimer, flowVars, playVars
<1>12. CASE UseExtraTime
  <2>1. TimerTypeOK'
    <3>1. CASE TimerSet /\ ~HasExpired(now, timer)
      <4>1. timer' = ExtendDeadline(timer, Extension)
            /\ UNCHANGED <<now, timerChallenge, expiryReported>>
        BY <1>12, <3>1 DEF UseExtraTime, CanBeExtended
      <4>2. timer \in Deadlines /\ WellFormed(now, timer) /\ timer.durationMs > 0 /\ now \in Nat
        BY <3>1, <1>a DEF TimerTypeOK
      <4>3. timer' \in Deadlines /\ WellFormed(now, timer') /\ timer'.durationMs > 0
        <5>1. timer.durationMs + Extension > 0
          BY <4>2 DEF Deadlines
        <5>2. QED
          BY <4>1, <4>2, <3>1, <5>1, ExtendFacts
      <4>4. QED
        BY <4>1, <4>3, <1>a DEF TimerTypeOK
    <3>2. CASE ~(TimerSet /\ ~HasExpired(now, timer))
      <4>1. timer' = timer
        BY <1>12, <3>2 DEF UseExtraTime, CanBeExtended
      <4>2. QED
        BY <1>12, <4>1, <1>e DEF UseExtraTime
    <3>3. QED
      BY <3>1, <3>2
  <2>2. QED
    BY <1>12, <2>1, <1>b, <1>c, <1>d DEF UseExtraTime, flowVars, playVars
<1>13. CASE PollTimerExpiry
  <2>1. FlowType'
    BY <1>13, <1>a, MoveFacts DEF PollTimerExpiry
  <2>2. PlayType'
    BY <1>13, <1>a, <1>g, <1>h DEF PollTimerExpiry, Statuses
  <2>3. TimerTypeOK'
    BY <1>13, <1>a DEF PollTimerExpiry, TimerTypeOK, TimerSet
  <2>4. QED
    BY <2>1, <2>2, <2>3, <1>b
<1>14. ASSUME NEW by \in Players \cup {None}, Pause(by) PROVE TypeOK'
  <2>1. FlowType'
    BY <1>14, <1>a, PhaseNames DEF Pause
  <2>2. PlayType'
    BY <1>14, <1>a DEF Pause, playVars
  <2>3. QED
    BY <1>14, <2>1, <2>2, <1>a, <1>b, TimerEffects DEF Pause
<1>15. CASE Resume
  <2>1. FlowType'
    BY <1>15, <1>a DEF Resume, PauseShape
  <2>2. PlayType'
    BY <1>15, <1>a DEF Resume, playVars
  <2>3. QED
    BY <1>15, <2>1, <2>2, <1>a, <1>b, TimerEffects DEF Resume
<1>16. CASE ClockTick
  <2>1. TimerTypeOK'
    BY <1>16, <1>a, TickFacts DEF ClockTick, TimerTypeOK, timerVars, TimerSet
  <2>2. QED
    BY <1>16, <2>1, <1>b, <1>c, <1>d DEF ClockTick, flowVars, playVars
<1>17. CASE UNCHANGED vars
  BY <1>17, <1>b, <1>c, <1>d, <1>e DEF vars, flowVars, playVars, timerVars
<1>18. QED
  BY <1>1, <1>2, <1>3, <1>4, <1>5, <1>6, <1>7, <1>8, <1>9, <1>10, <1>11, <1>12, <1>13,
     <1>14, <1>15, <1>16, <1>17 DEF Next, HostPause, ActivePlayerDisconnect

-----------------------------------------------------------------------------
(* The pause overlay. *)

\* What the actions of a running game have in common: they leave or move the
\* phase, and never name who paused.
LEMMA RunningKeepsPauseShape ==
    ASSUME TypeOK, PauseShape, Running, pausedBy' = pausedBy,
           \/ UNCHANGED <<phase, resumePhase>>
           \/ \E to \in Phases : MoveTo(to)
           \/ TryMoveTo("RESULT")
    PROVE  PauseShape' /\ ~Paused'
<1>1. phase \in Phases /\ resumePhase = NoPhase /\ pausedBy = None /\ ~Paused
  BY DEF TypeOK, PauseShape, Running
<1>2. phase' # "PAUSED" /\ resumePhase' = NoPhase /\ pausedBy' = None
  BY <1>1, TransitionFacts DEF MoveTo, TryMoveTo, Paused
<1>3. QED
  BY <1>2 DEF PauseShape, Paused, NoPhase

\* TimerService.pause leaves no timer running, and its time left as it was.
LEMMA PauseTheTimerFreezes ==
    ASSUME TypeOK, PauseTheTimer, now' = now
    PROVE  /\ TimerSet' <=> TimerSet
           /\ TimerSet => IsPaused(timer')
           /\ RemainingMs(now', timer') = RemainingMs(now, timer)
           /\ UNCHANGED <<timerChallenge, expiryReported>>
<1>1. CASE TimerSet
  BY <1>1, PauseFacts, PositiveIsSet DEF PauseTheTimer, TypeOK, TimerSet
<1>2. CASE ~TimerSet
  BY <1>2 DEF PauseTheTimer, TimerSet
<1>3. QED
  BY <1>1, <1>2

\* TimerService.resume leaves no timer frozen, and its time left as it was.
LEMMA ResumeTheTimerRuns ==
    ASSUME TypeOK, ResumeTheTimer, now' = now
    PROVE  /\ TimerSet' <=> TimerSet
           /\ ~IsPaused(timer')
           /\ RemainingMs(now', timer') = RemainingMs(now, timer)
           /\ UNCHANGED <<timerChallenge, expiryReported>>
<1>1. CASE TimerSet
  BY <1>1, ResumeFacts, PositiveIsSet DEF ResumeTheTimer, TypeOK, TimerSet
<1>2. CASE ~TimerSet
  BY <1>2, NoTimerFacts DEF ResumeTheTimer, TimerSet
<1>3. QED
  BY <1>1, <1>2

\* Every step keeps the pause an overlay.
LEMMA NextPauseShape == TypeOK /\ PauseShape /\ [Next]_vars => PauseShape'
<1> SUFFICES ASSUME TypeOK, PauseShape, [Next]_vars PROVE PauseShape'
  OBVIOUS
<1>a. ASSUME UNCHANGED <<phase, resumePhase, pausedBy, timer>> PROVE PauseShape'
  BY <1>a DEF PauseShape, Paused, TimerSet
<1>1. CASE StartGame
  <2>1. phase \in Phases
    BY DEF TypeOK
  <2>2. CASE IsLegalTransition(phase, "ROUND_INTRO")
    BY <1>1, <2>1, <2>2, TransitionFacts
       DEF StartGame, TryMoveTo, PauseShape, Paused, NoPhase
  <2>3. CASE ~IsLegalTransition(phase, "ROUND_INTRO")
    BY <1>1, <2>3, <1>a DEF StartGame, TryMoveTo, timerVars
  <2>4. QED
    BY <2>2, <2>3
<1>2. ASSUME NEW to \in Phases, AdvancePhase(to) PROVE PauseShape'
  BY <1>2, RunningKeepsPauseShape DEF AdvancePhase
<1>3. CASE PrepareChallenge
  BY <1>3, RunningKeepsPauseShape DEF PrepareChallenge, flowVars
<1>4. CASE StartChallenge
  BY <1>4, RunningKeepsPauseShape, PhaseNames DEF StartChallenge
<1>5. CASE RequestReview
  BY <1>5, RunningKeepsPauseShape, PhaseNames DEF RequestReview
<1>6. CASE ResolveChallenge
  BY <1>6, RunningKeepsPauseShape DEF ResolveChallenge
<1>7. ASSUME NEW t \in Teams \cup {None}, NEW p \in Players \cup {None}, SetTurn(t, p)
      PROVE  PauseShape'
  BY <1>7, <1>a DEF SetTurn, flowVars, timerVars
<1>8. ASSUME NEW ps \in SUBSET Players, SetActivePlayers(ps) PROVE PauseShape'
  BY <1>8, <1>a DEF SetActivePlayers, flowVars, timerVars
<1>9. ASSUME NEW p \in Players, RemoveMember(p) PROVE PauseShape'
  BY <1>9, <1>a DEF RemoveMember, flowVars, timerVars
<1>10. ASSUME NEW d \in Durations, StartTimer(d) PROVE PauseShape'
  BY <1>10, RunningKeepsPauseShape DEF StartTimer, flowVars
<1>11. CASE CancelTimer
  BY <1>11, RunningKeepsPauseShape DEF CancelTimer, flowVars
<1>12. CASE UseExtraTime
  BY <1>12, RunningKeepsPauseShape DEF UseExtraTime, flowVars
<1>13. CASE PollTimerExpiry
  BY <1>13, RunningKeepsPauseShape, PhaseNames DEF PollTimerExpiry
<1>14. ASSUME NEW by \in Players \cup {None}, Pause(by) PROVE PauseShape'
  <2>1. TimerSet' => IsPaused(timer')
    BY <1>14, PauseTheTimerFreezes DEF Pause
  <2>2. phase' = "PAUSED" /\ resumePhase' \in Phases \ {"PAUSED", "GAME_OVER"}
    BY <1>14 DEF Pause, TypeOK
  <2>3. QED
    BY <2>1, <2>2, PhaseNames DEF PauseShape, Paused, NoPhase
<1>15. CASE Resume
  BY <1>15 DEF Resume, PauseShape, Paused, NoPhase
<1>16. CASE ClockTick
  BY <1>16, <1>a DEF ClockTick, flowVars, timerVars
<1>17. CASE UNCHANGED vars
  BY <1>17, <1>a DEF vars, flowVars, timerVars
<1>18. QED
  BY <1>1, <1>2, <1>3, <1>4, <1>5, <1>6, <1>7, <1>8, <1>9, <1>10, <1>11, <1>12, <1>13,
     <1>14, <1>15, <1>16, <1>17 DEF Next, HostPause, ActivePlayerDisconnect

\* The state of every reachable game is well typed, its timer included.
THEOREM TypeCorrect == Spec => []TypeOK
<1>1. Init => TypeOK /\ PauseShape
  BY InitType DEF Init, PauseShape, Paused, NoPhase, TimerSet
<1>2. TypeOK /\ PauseShape /\ [Next]_vars => TypeOK' /\ PauseShape'
  BY NextType, NextPauseShape
<1>3. QED
  BY <1>1, <1>2, PTL DEF Spec

\* A pause captures a phase to go back to and freezes the timer, and only
\* a paused game has either (applyTransition, pause and resume).
THEOREM PauseShapeAlways == Spec => []PauseShape
<1>1. Init => TypeOK /\ PauseShape
  BY InitType DEF Init, PauseShape, Paused, NoPhase, TimerSet
<1>2. TypeOK /\ PauseShape /\ [Next]_vars => TypeOK' /\ PauseShape'
  BY NextType, NextPauseShape
<1>3. QED
  BY <1>1, <1>2, PTL DEF Spec

-----------------------------------------------------------------------------
(* The timer's invariants. *)

TimerInv == TimerOfCurrentChallenge /\ FrozenOnlyForReview /\ ReportedExpiryStands

\* A cancelled timer is neither frozen nor reported.
LEMMA CancelledTimerFacts ==
    ASSUME CancelTheTimer
    PROVE  ~TimerSet' /\ ~expiryReported'
BY DEF CancelTheTimer, TimerSet

\* A timer just started is there, runs, and has all of its time left.
LEMMA ArmedTimerFacts ==
    ASSUME TypeOK, NEW d \in Durations, timer' = StartDeadline(now, d)
    PROVE  TimerSet' /\ ~IsPaused(timer') /\ RemainingMs(now, timer') = d
BY GameFlowAssumption, StartFacts, PositiveIsSet DEF GameFlowAssumption, TypeOK, TimerSet

\* Extra Time adds exactly the extension to a timer with time left, changes no
\* other, and neither freezes nor thaws it.
LEMMA ExtraTimeFacts ==
    ASSUME TypeOK, UseExtraTime
    PROVE  /\ TimerSet' <=> TimerSet
           /\ IsPaused(timer') <=> IsPaused(timer)
           /\ HasExpired(now, timer) => timer' = timer
           /\ RemainingMs(now, timer') = IF TimerSet /\ ~HasExpired(now, timer)
                                         THEN RemainingMs(now, timer) + Extension
                                         ELSE RemainingMs(now, timer)
<1>1. CASE TimerSet /\ ~HasExpired(now, timer)
  <2>1. timer' = ExtendDeadline(timer, Extension)
    BY <1>1 DEF UseExtraTime, CanBeExtended
  <2>2. timer.durationMs + Extension > 0 /\ Extension \in Nat \ {0}
    BY <1>1, GameFlowAssumption DEF GameFlowAssumption, TypeOK, Deadlines
  <2>3. QED
    BY <1>1, <2>1, <2>2, ExtendFacts, PositiveIsSet DEF TypeOK, TimerSet
<1>2. CASE ~(TimerSet /\ ~HasExpired(now, timer))
  <2>1. timer' = timer
    BY <1>2 DEF UseExtraTime, CanBeExtended
  <2>2. QED
    BY <1>2, <2>1 DEF TimerSet
<1>3. QED
  BY <1>1, <1>2

\* Every step keeps the three invariants of the timer.
LEMMA NextTimerInv == TypeOK /\ PauseShape /\ TimerInv /\ [Next]_vars => TimerInv'
<1> SUFFICES ASSUME TypeOK, PauseShape, TimerInv, [Next]_vars PROVE TimerInv'
  OBVIOUS
<1> USE DEF TimerInv, TimerOfCurrentChallenge, FrozenOnlyForReview, ReportedExpiryStands
<1>a. ASSUME UNCHANGED <<now, challenge, timerVars>>, Paused' <=> Paused
      PROVE  TimerInv'
  BY <1>a DEF timerVars, TimerSet
<1>b. ASSUME CancelTheTimer PROVE TimerInv'
  BY <1>b, CancelledTimerFacts
<1>1. CASE StartGame
  <2>1. phase \in Phases
    BY DEF TypeOK
  <2>2. Paused' <=> Paused
    BY <1>1, <2>1, TransitionFacts DEF StartGame, TryMoveTo, Paused
  <2>3. QED
    BY <1>1, <2>2, <1>a DEF StartGame, playVars
<1>2. ASSUME NEW to \in Phases, AdvancePhase(to) PROVE TimerInv'
  BY <1>2, <1>a, RunningKeepsPauseShape DEF AdvancePhase, playVars, Running
<1>3. CASE PrepareChallenge
  BY <1>3, <1>b DEF PrepareChallenge
<1>4. CASE StartChallenge
  BY <1>4 DEF StartChallenge, Running, timerVars, TimerSet, TypeOK
<1>5. CASE RequestReview
  <2>1. challenge'.id = challenge.id /\ challenge'.status = "awaiting_host" /\ now' = now
    BY <1>5 DEF RequestReview, TypeOK
  <2>2. QED
    BY <1>5, <2>1, PauseTheTimerFreezes DEF RequestReview, HasExpired
<1>6. CASE ResolveChallenge
  BY <1>6, <1>b DEF ResolveChallenge
<1>7. ASSUME NEW t \in Teams \cup {None}, NEW p \in Players \cup {None}, SetTurn(t, p)
      PROVE  TimerInv'
  BY <1>7, <1>a DEF SetTurn, flowVars, Paused
<1>8. ASSUME NEW ps \in SUBSET Players, SetActivePlayers(ps) PROVE TimerInv'
  BY <1>8, <1>a DEF SetActivePlayers, flowVars, Paused
<1>9. ASSUME NEW p \in Players, RemoveMember(p) PROVE TimerInv'
  BY <1>9, <1>a DEF RemoveMember, flowVars, Paused
<1>10. ASSUME NEW d \in Durations, StartTimer(d) PROVE TimerInv'
  BY <1>10, ArmedTimerFacts DEF StartTimer, playVars
<1>11. CASE CancelTimer
  BY <1>11, <1>b DEF CancelTimer
<1>12. CASE UseExtraTime
  BY <1>12, ExtraTimeFacts DEF UseExtraTime, playVars, flowVars, Paused, HasExpired
<1>13. CASE PollTimerExpiry
  <2>1. timer' = timer /\ timerChallenge' = timerChallenge /\ now' = now /\ expiryReported'
    BY <1>13 DEF PollTimerExpiry
  <2>2. challenge'.id = challenge.id
        /\ (challenge.status = "awaiting_host" => challenge'.status = "awaiting_host")
    BY <1>13 DEF PollTimerExpiry, TypeOK
  <2>3. ~Paused
    BY <1>13 DEF PollTimerExpiry, Running
  <2>4. QED
    BY <1>13, <2>1, <2>2, <2>3 DEF PollTimerExpiry, ExpiryDue, TimerSet
<1>14. ASSUME NEW by \in Players \cup {None}, Pause(by) PROVE TimerInv'
  BY <1>14, PauseTheTimerFreezes DEF Pause, playVars, Paused, HasExpired
<1>15. CASE Resume
  BY <1>15, ResumeTheTimerRuns DEF Resume, playVars, HasExpired
<1>16. CASE ClockTick
  <2>1. UNCHANGED <<challenge, timer, timerChallenge, expiryReported, phase>> /\ now' = now + 1
    BY <1>16 DEF ClockTick, flowVars, playVars, timerVars
  <2>2. HasExpired(now, timer) => HasExpired(now', timer')
    BY <2>1, TickFacts DEF TypeOK, HasExpired
  <2>3. QED
    BY <2>1, <2>2 DEF TimerSet, Paused
<1>17. CASE UNCHANGED vars
  BY <1>17, <1>a DEF vars, flowVars, playVars, Paused
<1>18. QED
  BY <1>1, <1>2, <1>3, <1>4, <1>5, <1>6, <1>7, <1>8, <1>9, <1>10, <1>11, <1>12, <1>13,
     <1>14, <1>15, <1>16, <1>17 DEF Next, HostPause, ActivePlayerDisconnect

LEMMA TimerInvAlways == Spec => []TimerInv
<1>1. Init => TimerInv
  BY DEF Init, TimerInv, TimerOfCurrentChallenge, FrozenOnlyForReview,
         ReportedExpiryStands, TimerSet
<1>2. TypeOK /\ PauseShape /\ TimerInv /\ [Next]_vars => TimerInv'
  BY NextTimerInv
<1>3. QED
  BY <1>1, <1>2, TypeCorrect, PauseShapeAlways, PTL DEF Spec

\* The one timer belongs to the challenge on screen: every way of leaving a
\* challenge cancels it.
THEOREM TimerOfCurrentChallengeAlways == Spec => []TimerOfCurrentChallenge
<1>1. TimerInv => TimerOfCurrentChallenge
  BY DEF TimerInv
<1>2. QED
  BY <1>1, TimerInvAlways, PTL

\* Outside a pause the timer stands still for a review and for nothing else.
THEOREM FrozenOnlyForReviewAlways == Spec => []FrozenOnlyForReview
<1>1. TimerInv => FrozenOnlyForReview
  BY DEF TimerInv
<1>2. QED
  BY <1>1, TimerInvAlways, PTL

\* A timer once reported to the Host as run out has no time left and gets none.
THEOREM ReportedExpiryStandsAlways == Spec => []ReportedExpiryStands
<1>1. TimerInv => ReportedExpiryStands
  BY DEF TimerInv
<1>2. QED
  BY <1>1, TimerInvAlways, PTL

\* The three together, as the runs check them.
THEOREM TimerIsSoundAlways == Spec => []TimerIsSound
<1>1. TimerInv => TimerIsSound
  BY DEF TimerInv, TimerIsSound
<1>2. QED
  BY <1>1, TimerInvAlways, PTL

-----------------------------------------------------------------------------
(* What the ledger has been given. *)

\* Resolving challenge c raises settlements[c] and leaves the others.
LEMMA ResolveSettles ==
    ASSUME TypeOK, ResolveChallenge
    PROVE  /\ challenge' = [id |-> challenge.id, status |-> "resolved"]
           /\ \A c \in 1..MaxChallenges :
                 settlements'[c] = IF c = challenge.id THEN settlements[c] + 1
                                                       ELSE settlements[c]
<1>1. challenge' = [challenge EXCEPT !.status = "resolved"]
      /\ settlements' = [settlements EXCEPT ![challenge.id] = settlements[challenge.id] + 1]
  BY DEF ResolveChallenge
<1>2. challenge \in [id : 0..MaxChallenges, status : Statuses]
      /\ settlements \in [1..MaxChallenges -> Nat]
  BY DEF TypeOK
<1>3. QED
  BY <1>1, <1>2

\* Every step keeps the results in the order of the challenges.
LEMMA NextSettled == TypeOK /\ SettledInOrder /\ [Next]_vars => SettledInOrder'
<1> SUFFICES ASSUME TypeOK, SettledInOrder, [Next]_vars PROVE SettledInOrder'
  OBVIOUS
<1>t. challenge.id \in 0..MaxChallenges /\ challenge.status \in Statuses
      /\ settlements \in [1..MaxChallenges -> Nat]
  BY DEF TypeOK
<1>a. ASSUME UNCHANGED <<challenge, settlements>> PROVE SettledInOrder'
  BY <1>a DEF SettledInOrder
<1>b. ASSUME settlements' = settlements, challenge'.id = challenge.id,
             challenge.status # "none",
             \/ challenge'.status = "awaiting_host"
             \/ challenge.status = "pending" /\ challenge'.status = "active"
      PROVE  SettledInOrder'
  BY <1>b DEF SettledInOrder
<1>3. CASE PrepareChallenge
  <2>1. challenge' = [id |-> challenge.id + 1, status |-> "pending"]
        /\ settlements' = settlements /\ challenge.status \in {"none", "resolved"}
    BY <1>3 DEF PrepareChallenge, NoOpenChallenge
  <2>2. QED
    BY <2>1, <1>t DEF SettledInOrder
<1>4. CASE StartChallenge
  BY <1>4, <1>b DEF StartChallenge, TypeOK
<1>5. CASE RequestReview
  BY <1>5, <1>b DEF RequestReview, TypeOK
<1>6. CASE ResolveChallenge
  BY <1>6, <1>t, ResolveSettles DEF SettledInOrder
<1>13. CASE PollTimerExpiry
  BY <1>13, <1>a, <1>b DEF PollTimerExpiry, TypeOK
<1>18. QED
  BY <1>a, <1>3, <1>4, <1>5, <1>6, <1>13
     DEF Next, HostPause, ActivePlayerDisconnect, StartGame, AdvancePhase, SetTurn,
         SetActivePlayers, RemoveMember, StartTimer, CancelTimer, UseExtraTime, Pause,
         Resume, ClockTick, vars, playVars

\* The ledger has a result for every challenge that was superseded, none for
\* one still to be prepared, started or played, and one for a resolved one.
THEOREM SettledInOrderAlways == Spec => []SettledInOrder
<1>1. Init => SettledInOrder
  BY DEF Init, SettledInOrder
<1>2. TypeOK /\ SettledInOrder /\ [Next]_vars => SettledInOrder'
  BY NextSettled
<1>3. QED
  BY <1>1, <1>2, TypeCorrect, PTL DEF Spec

-----------------------------------------------------------------------------
(* Who the game waits on. *)

\* Every step keeps the turn and the active players on the rosters.
LEMMA NextMembers == TypeOK /\ WaitsOnlyOnMembers /\ [Next]_vars => WaitsOnlyOnMembers'
<1> SUFFICES ASSUME TypeOK, WaitsOnlyOnMembers, [Next]_vars PROVE WaitsOnlyOnMembers'
  OBVIOUS
<1>a. ASSUME UNCHANGED <<members, turn, active>> PROVE WaitsOnlyOnMembers'
  BY <1>a DEF WaitsOnlyOnMembers
<1>b. ASSUME members' = members, ClearPlay PROVE WaitsOnlyOnMembers'
  BY <1>b DEF WaitsOnlyOnMembers, ClearPlay, NoTurn
<1>7. ASSUME NEW t \in Teams \cup {None}, NEW p \in Players \cup {None}, SetTurn(t, p)
      PROVE  WaitsOnlyOnMembers'
  BY <1>7 DEF SetTurn, WaitsOnlyOnMembers
<1>8. ASSUME NEW ps \in SUBSET Players, SetActivePlayers(ps) PROVE WaitsOnlyOnMembers'
  BY <1>8 DEF SetActivePlayers, WaitsOnlyOnMembers
<1>9. ASSUME NEW p \in Players, RemoveMember(p) PROVE WaitsOnlyOnMembers'
  <2>1. \A t \in Teams : members'[t] = members[t] \ {p}
    BY <1>9 DEF RemoveMember
  <2>2. active' \subseteq UNION {members'[t] : t \in Teams}
    BY <1>9, <2>1 DEF RemoveMember, WaitsOnlyOnMembers
  <2>3. turn'.team = turn.team /\ turn'.player \in {turn.player, None} \ {p}
    <3>1. p # None
      BY GameFlowAssumption DEF GameFlowAssumption
    <3>2. QED
      BY <1>9, <3>1 DEF RemoveMember, TurnWithout, TypeOK
  <2>4. turn'.player # None => turn'.team # None /\ turn'.player \in members'[turn'.team]
    BY <2>1, <2>3 DEF WaitsOnlyOnMembers, TypeOK
  <2>5. QED
    BY <2>2, <2>4 DEF WaitsOnlyOnMembers
<1>18. QED
  BY <1>a, <1>b, <1>7, <1>8, <1>9
     DEF Next, HostPause, ActivePlayerDisconnect, StartGame, AdvancePhase, StartTimer,
         CancelTimer, UseExtraTime, Pause, Resume, ClockTick, vars, playVars,
         PrepareChallenge, StartChallenge, RequestReview, ResolveChallenge, PollTimerExpiry

\* No removal, turn or selection leaves the game waiting on someone who is
\* on no team.
THEOREM WaitsOnlyOnMembersAlways == Spec => []WaitsOnlyOnMembers
<1>1. Init => WaitsOnlyOnMembers
  BY DEF Init, WaitsOnlyOnMembers, NoTurn
<1>2. TypeOK /\ WaitsOnlyOnMembers /\ [Next]_vars => WaitsOnlyOnMembers'
  BY NextMembers
<1>3. QED
  BY <1>1, <1>2, TypeCorrect, PTL DEF Spec

\* Well-formed, captured phases only under a pause, results in order and
\* nobody gone waited for: what the runs check of every state of the game.
THEOREM GameIsSoundAlways == Spec => []GameIsSound
<1>1. TypeOK /\ PauseShape /\ SettledInOrder /\ WaitsOnlyOnMembers => GameIsSound
  BY DEF GameIsSound
<1>2. QED
  BY <1>1, TypeCorrect, PauseShapeAlways, SettledInOrderAlways, WaitsOnlyOnMembersAlways, PTL

-----------------------------------------------------------------------------
(* What a pause excludes. *)

\* The steps a paused game can take.
LEMMA PausedSteps ==
    ASSUME TypeOK, Paused, Next
    PROVE  StartGame \/ (\E p \in Players : RemoveMember(p)) \/ Resume \/ ClockTick
BY DEF Next, HostPause, ActivePlayerDisconnect, AdvancePhase, StartTimer, CancelTimer,
       UseExtraTime, Pause, PrepareChallenge, StartChallenge, RequestReview,
       ResolveChallenge, PollTimerExpiry, SetTurn, SetActivePlayers, Running, Paused

\* A pause happens to a game that has started.
PausedMeansStarted == Paused => started

\* Only a started game is ever paused, and it stays started.
LEMMA NextPausedMeansStarted ==
    TypeOK /\ PausedMeansStarted /\ [Next]_vars => PausedMeansStarted'
<1> SUFFICES ASSUME TypeOK, PausedMeansStarted, [Next]_vars PROVE PausedMeansStarted'
  OBVIOUS
<1>1. started => started'
  BY DEF Next, HostPause, ActivePlayerDisconnect, StartGame, AdvancePhase, SetTurn,
         SetActivePlayers, RemoveMember, StartTimer, CancelTimer, UseExtraTime, Pause,
         Resume, ClockTick, vars, flowVars, PrepareChallenge, StartChallenge,
         RequestReview, ResolveChallenge, PollTimerExpiry
<1>2. CASE started
  BY <1>1, <1>2 DEF PausedMeansStarted
<1>3. CASE ~started /\ StartGame
  BY <1>3 DEF PausedMeansStarted, StartGame
<1>4. CASE ~started /\ ~StartGame
  <2>1. phase' = phase
    BY <1>4 DEF Next, HostPause, ActivePlayerDisconnect, AdvancePhase, SetTurn,
         SetActivePlayers, RemoveMember, StartTimer, CancelTimer, UseExtraTime, Pause,
         Resume, ClockTick, vars, flowVars, PrepareChallenge, StartChallenge,
         RequestReview, ResolveChallenge, PollTimerExpiry, Running
  <2>2. QED
    BY <1>4, <2>1 DEF PausedMeansStarted, Paused
<1>5. QED
  BY <1>2, <1>3, <1>4

\* No step pauses a game that never began, so a resume always finds an engine.
THEOREM PausedMeansStartedAlways == Spec => []PausedMeansStarted
<1>1. Init => PausedMeansStarted
  BY DEF Init, PausedMeansStarted, Paused
<1>2. QED
  BY <1>1, NextPausedMeansStarted, TypeCorrect, PTL DEF Spec

\* Gameplay cannot slip past a pause.
THEOREM NothingPlaysWhilePausedAlways == Spec => NothingPlaysWhilePaused
<1> DEFINE Untouched ==
      Paused => /\ UNCHANGED <<challenge, settlements, roundIndex, turn.team>>
                /\ active' \subseteq active
                /\ phase' \in {"PAUSED", resumePhase}
                /\ phase' = "PAUSED" => resumePhase' = resumePhase
<1>1. TypeOK /\ PauseShape /\ PausedMeansStarted /\ [Next]_vars => [Untouched]_vars
  <2> SUFFICES ASSUME TypeOK, PauseShape, PausedMeansStarted, Next, Paused
               PROVE  Untouched
    BY DEF Untouched
  <2>1. ~StartGame
    BY DEF PausedMeansStarted, StartGame
  <2>2. ASSUME NEW p \in Players, RemoveMember(p) PROVE Untouched
    BY <2>2 DEF RemoveMember, TurnWithout, TypeOK, flowVars, Paused
  <2>3. CASE Resume
    BY <2>3 DEF Resume, PauseShape, playVars
  <2>4. CASE ClockTick
    BY <2>4 DEF ClockTick, flowVars, playVars, Paused
  <2>5. QED
    BY <2>1, <2>2, <2>3, <2>4, PausedSteps
<1>2. QED
  BY <1>1, TypeCorrect, PauseShapeAlways, PausedMeansStartedAlways, PTL
     DEF Spec, NothingPlaysWhilePaused

\* The time left survives a pause exactly.
THEOREM PauseCostsNoTimeAlways == Spec => PauseCostsNoTime
<1>1. TypeOK /\ PauseShape /\ PausedMeansStarted /\ [Next]_vars =>
        [(Paused \/ Paused') => RemainingMs(now', timer') = RemainingMs(now, timer)]_vars
  <2> SUFFICES ASSUME TypeOK, PauseShape, PausedMeansStarted, Next, Paused \/ Paused'
               PROVE  RemainingMs(now', timer') = RemainingMs(now, timer)
    OBVIOUS
  <2>1. ASSUME NEW by \in Players \cup {None}, Pause(by)
        PROVE  RemainingMs(now', timer') = RemainingMs(now, timer)
    BY <2>1, PauseTheTimerFreezes DEF Pause
  <2>2. CASE Paused
    <3>1. ~StartGame
      BY <2>2 DEF PausedMeansStarted, StartGame
    <3>2. ASSUME NEW p \in Players, RemoveMember(p)
          PROVE  RemainingMs(now', timer') = RemainingMs(now, timer)
      BY <3>2 DEF RemoveMember, timerVars
    <3>3. CASE Resume
      BY <3>3, ResumeTheTimerRuns DEF Resume
    <3>4. CASE ClockTick
      <4>1. TimerSet => IsPaused(timer)
        BY <2>2 DEF PauseShape
      <4>2. QED
        BY <3>4, <4>1, TickFacts, NoTimerFacts DEF ClockTick, timerVars, TypeOK, TimerSet
    <3>5. QED
      BY <2>2, <3>1, <3>2, <3>3, <3>4, PausedSteps
  <2>3. CASE ~Paused
    <3>1. phase \in Phases /\ phase' = "PAUSED" /\ phase # "PAUSED"
      BY <2>3 DEF TypeOK, Paused
    <3>2. \E by \in Players \cup {None} : Pause(by)
      BY <3>1, TransitionFacts, PhaseNames
         DEF Next, HostPause, ActivePlayerDisconnect, StartGame, AdvancePhase, SetTurn,
             SetActivePlayers, RemoveMember, StartTimer, CancelTimer, UseExtraTime,
             Resume, ClockTick, flowVars, PrepareChallenge, StartChallenge, Paused,
             RequestReview, ResolveChallenge, PollTimerExpiry, MoveTo, TryMoveTo
    <3>3. QED
      BY <2>1, <3>2
  <2>4. QED
    BY <2>2, <2>3
<1>2. QED
  BY <1>1, TypeCorrect, PauseShapeAlways, PausedMeansStartedAlways, PTL
     DEF Spec, PauseCostsNoTime

\* A pause stops the game and costs no time, as the runs check it.
THEOREM PauseStopsTheGameAlways == Spec => PauseStopsTheGame
  BY NothingPlaysWhilePausedAlways, PauseCostsNoTimeAlways DEF PauseStopsTheGame

-----------------------------------------------------------------------------
(* The timer implements Countdown. *)

\* What is left, how the timer stands and whether it rang, after any step, is
\* a step of the countdown or none.
LEMMA StepIsCountdownStep ==
    TypeOK /\ PauseShape /\ TimerInv /\ [Next]_vars => [Clock!CNext]_(Clock!cvars)
<1> SUFFICES ASSUME TypeOK, PauseShape, TimerInv, [Next]_vars
             PROVE  Clock!CNext \/ UNCHANGED Clock!cvars
  OBVIOUS
<1> USE DEF RemainingTime, TimerMode
<1>t. now \in Nat /\ timer \in Deadlines /\ WellFormed(now, timer)
      /\ RemainingMs(now, timer) \in Nat /\ expiryReported \in BOOLEAN
  BY RemainingType DEF TypeOK
<1>a. ASSUME UNCHANGED <<now, timer, expiryReported>> PROVE UNCHANGED Clock!cvars
  BY <1>a DEF Clock!cvars, TimerSet
<1>b. ASSUME CancelTheTimer PROVE Clock!Disarm
  BY <1>b DEF CancelTheTimer, Clock!Disarm, TimerSet
<1>c. ASSUME PauseTheTimer, now' = now PROVE Clock!Freeze \/ UNCHANGED Clock!cvars
  <2>1. CASE TimerSet /\ ~IsPaused(timer)
    BY <1>c, <2>1, PauseTheTimerFreezes DEF Clock!Freeze
  <2>2. CASE ~(TimerSet /\ ~IsPaused(timer))
    BY <1>c, <2>2, <1>a DEF PauseTheTimer, PauseDeadline
  <2>3. QED
    BY <2>1, <2>2
<1>d. ASSUME ResumeTheTimer, now' = now PROVE Clock!Thaw \/ UNCHANGED Clock!cvars
  <2>1. CASE TimerSet /\ IsPaused(timer)
    BY <1>d, <2>1, ResumeTheTimerRuns DEF Clock!Thaw
  <2>2. CASE ~(TimerSet /\ IsPaused(timer))
    BY <1>d, <2>2, <1>a DEF ResumeTheTimer, ResumeDeadline
  <2>3. QED
    BY <2>1, <2>2
<1>5. CASE RequestReview
  BY <1>5, <1>c DEF RequestReview, Clock!CNext
<1>10. ASSUME NEW d \in Durations, StartTimer(d) PROVE Clock!CNext
  <2>1. now' = now /\ timer' = StartDeadline(now, d) /\ expiryReported' = FALSE
    BY <1>10 DEF StartTimer
  <2>2. QED
    BY <2>1, ArmedTimerFacts DEF Clock!Arm, Clock!CNext
<1>12. CASE UseExtraTime
  <2>1. CASE TimerSet /\ ~HasExpired(now, timer)
    <3>1. now' = now /\ expiryReported' = expiryReported
      BY <1>12 DEF UseExtraTime
    <3>2. RemainingMs(now, timer) > 0
      BY <2>1, <1>t DEF HasExpired
    <3>3. QED
      BY <1>12, <2>1, <3>1, <3>2, ExtraTimeFacts DEF Clock!Extend, Clock!CNext
  <2>2. CASE ~(TimerSet /\ ~HasExpired(now, timer))
    BY <1>12, <2>2, <1>a DEF UseExtraTime, CanBeExtended
  <2>3. QED
    BY <2>1, <2>2
<1>13. CASE PollTimerExpiry
  <2>1. UNCHANGED <<now, timer>> /\ expiryReported' = TRUE /\ TimerSet /\ ~expiryReported
        /\ RemainingMs(now, timer) = 0
    BY <1>13 DEF PollTimerExpiry, ExpiryDue, HasExpired
  <2>2. QED
    BY <2>1 DEF Clock!Ring, Clock!CNext, TimerSet
<1>14. ASSUME NEW by \in Players \cup {None}, Pause(by)
       PROVE  Clock!CNext \/ UNCHANGED Clock!cvars
  BY <1>14, <1>c DEF Pause, Clock!CNext
<1>15. CASE Resume
  BY <1>15, <1>d DEF Resume, Clock!CNext
<1>16. CASE ClockTick
  <2>1. UNCHANGED <<timer, expiryReported>> /\ now' = now + 1
    BY <1>16 DEF ClockTick, timerVars
  <2>2. RemainingMs(now', timer') = IF IsPaused(timer) \/ RemainingMs(now, timer) = 0
                                    THEN RemainingMs(now, timer)
                                    ELSE RemainingMs(now, timer) - 1
    BY <2>1, <1>t, TickFacts
  <2>3. CASE TimerSet /\ ~IsPaused(timer) /\ RemainingMs(now, timer) # 0
    <3>1. RemainingMs(now, timer) > 0
      BY <2>3, <1>t
    <3>2. QED
      BY <2>1, <2>2, <2>3, <3>1 DEF Clock!Elapse, Clock!CNext, TimerSet
  <2>4. CASE ~(TimerSet /\ ~IsPaused(timer) /\ RemainingMs(now, timer) # 0)
    BY <2>1, <2>2, <2>4 DEF Clock!cvars, TimerSet
  <2>5. QED
    BY <2>3, <2>4
<1>18. QED
  BY <1>a, <1>b, <1>5, <1>10, <1>12, <1>13, <1>14, <1>15, <1>16
     DEF Next, HostPause, ActivePlayerDisconnect, StartGame, AdvancePhase, SetTurn,
         SetActivePlayers, RemoveMember, CancelTimer, vars, timerVars, PrepareChallenge,
         StartChallenge, ResolveChallenge, Clock!CNext

\* The engine's timer implements the abstract countdown.
THEOREM TimerImplementsCountdown == Spec => ImplementsCountdown
<1>1. Init => Clock!CInit
  BY DEF Init, Clock!CInit, RemainingTime, TimerMode, TimerSet
<1>2. TypeOK /\ PauseShape /\ TimerInv /\ [Next]_vars => [Clock!CNext]_(Clock!cvars)
  BY StepIsCountdownStep
<1>3. Spec => []TimerInv
  BY TimerInvAlways
<1>4. QED
  BY <1>1, <1>2, <1>3, TypeCorrect, PauseShapeAlways, PTL
     DEF Spec, ImplementsCountdown, Clock!CSpec

-----------------------------------------------------------------------------
(* What the components built on the game take from here: the whole         *)
(* invariant of the game, and the steps that leave the overlay alone.      *)

FlowInv == TypeOK /\ PauseShape /\ SettledInOrder /\ WaitsOnlyOnMembers /\ TimerInv

\* It holds of a room whose teams are just locked.
LEMMA InitFlow == Init => FlowInv
BY InitType DEF Init, FlowInv, PauseShape, Paused, NoPhase, TimerSet, SettledInOrder,
   WaitsOnlyOnMembers, NoTurn, TimerInv, TimerOfCurrentChallenge, FrozenOnlyForReview,
   ReportedExpiryStands

\* Every step keeps it.
LEMMA NextFlow == FlowInv /\ [Next]_vars => FlowInv'
BY NextType, NextPauseShape, NextSettled, NextMembers, NextTimerInv DEF FlowInv

\* It is more than what the runs check.
LEMMA FlowInvGives == FlowInv => GameIsSound /\ TimerIsSound
BY DEF FlowInv, GameIsSound, TimerInv, TimerIsSound

\* The first challenge has number 1.
IdOfAChallenge == challenge.id = 0 => challenge.status = "none"

\* A challenge is numbered when it is prepared and before anything can start it.
LEMMA NextNumbered == FlowInv /\ IdOfAChallenge /\ [Next]_vars => IdOfAChallenge'
<1> SUFFICES ASSUME FlowInv, IdOfAChallenge, [Next]_vars PROVE IdOfAChallenge'
  OBVIOUS
<1>t. challenge \in [id : 0..MaxChallenges, status : Statuses]
      /\ (challenge.id = 0 => challenge.status = "none")
  BY DEF FlowInv, TypeOK, IdOfAChallenge
<1>1. CASE PrepareChallenge
  BY <1>1, <1>t DEF PrepareChallenge, IdOfAChallenge
<1>2. CASE StartChallenge \/ RequestReview \/ ResolveChallenge \/ PollTimerExpiry
  BY <1>2, <1>t DEF StartChallenge, RequestReview, ResolveChallenge, PollTimerExpiry,
                    IdOfAChallenge
<1>3. CASE challenge' = challenge
  BY <1>3, <1>t DEF IdOfAChallenge
<1>4. QED
  BY <1>1, <1>2, <1>3
     DEF Next, StartGame, AdvancePhase, SetTurn, SetActivePlayers, RemoveMember, StartTimer,
         CancelTimer, UseExtraTime, HostPause, ActivePlayerDisconnect, Pause, Resume, ClockTick,
         vars, playVars

\* A running game taken to another phase, and told whom it waits on, is as
\* sound as it was, whatever legal transitions were passed on the way.
LEMMA MovedGameKeepsFlow ==
    ASSUME FlowInv, Running,
           phase' \in Phases \ {"PAUSED"}, resumePhase' = NoPhase,
           active' \subseteq UNION {members[t] : t \in Teams},
           UNCHANGED <<now, started, roundIndex, members, challenge, settlements, turn,
                       pausedBy, timerVars>>
    PROVE  FlowInv'
<1>1. ~Paused /\ ~Paused'
  BY DEF Running, Paused
<1>2. TypeOK'
  <2>1. active' \in SUBSET Players
    BY DEF FlowInv, TypeOK
  <2>2. QED
    BY <2>1 DEF FlowInv, TypeOK, timerVars, TimerSet
<1>3. PauseShape'
  BY <1>1 DEF FlowInv, PauseShape, NoPhase
<1>4. SettledInOrder' /\ WaitsOnlyOnMembers'
  BY DEF FlowInv, SettledInOrder, WaitsOnlyOnMembers
<1>5. TimerInv'
  BY <1>1 DEF FlowInv, TimerInv, TimerOfCurrentChallenge, FrozenOnlyForReview,
              ReportedExpiryStands, timerVars, TimerSet
<1>6. QED
  BY <1>2, <1>3, <1>4, <1>5 DEF FlowInv

\* The steps of the game that are neither a pause nor a resume.
PlainStep ==
    \/ StartGame
    \/ \E to \in Phases : AdvancePhase(to)
    \/ PrepareChallenge
    \/ StartChallenge
    \/ RequestReview
    \/ ResolveChallenge
    \/ \E t \in Teams \cup {None}, p \in Players \cup {None} : SetTurn(t, p)
    \/ \E ps \in SUBSET Players : SetActivePlayers(ps)
    \/ \E p \in Players : RemoveMember(p)
    \/ \E d \in Durations : StartTimer(d)
    \/ CancelTimer
    \/ UseExtraTime
    \/ PollTimerExpiry
    \/ ClockTick

\* They neither pause nor resume the game, and only the clock moves the clock.
LEMMA PlainStepFacts ==
    ASSUME TypeOK, PlainStep
    PROVE  /\ Next
           /\ Paused' <=> Paused
           /\ ClockTick \/ now' = now
<1>1. Next
  BY DEF PlainStep, Next
<1>2. ClockTick \/ now' = now
  BY DEF PlainStep, StartGame, AdvancePhase, PrepareChallenge, StartChallenge,
         RequestReview, ResolveChallenge, SetTurn, SetActivePlayers, RemoveMember,
         StartTimer, CancelTimer, UseExtraTime, PollTimerExpiry
<1>3. ASSUME NEW to, MoveTo(to) \/ TryMoveTo(to) PROVE Paused' <=> Paused
  BY <1>3, TransitionFacts DEF MoveTo, TryMoveTo, TypeOK, Paused
<1>4. Paused' <=> Paused
  BY <1>3 DEF PlainStep, StartGame, AdvancePhase, PrepareChallenge, StartChallenge,
         RequestReview, ResolveChallenge, SetTurn, SetActivePlayers, RemoveMember,
         StartTimer, CancelTimer, UseExtraTime, PollTimerExpiry, ClockTick, flowVars,
         Paused
<1>5. QED
  BY <1>1, <1>2, <1>4

\* A pause pauses a game that ran, a resume ends a pause; neither is told the
\* time twice.
LEMMA OverlayFacts ==
    /\ \A by : Pause(by) => ~Paused /\ Paused' /\ now' = now
    /\ PauseShape /\ Resume => Paused /\ ~Paused' /\ now' = now
<1>1. \A by : Pause(by) => ~Paused /\ Paused' /\ now' = now
  BY DEF Pause, Paused
<1>2. ASSUME PauseShape, Resume PROVE Paused /\ ~Paused' /\ now' = now
  BY <1>2 DEF Resume, PauseShape, Paused
<1>3. QED
  BY <1>1, <1>2

\* No step takes a challenge back, or a result the ledger has seen.
LEMMA NothingIsTakenBack ==
    ASSUME TypeOK, [Next]_vars
    PROVE  /\ challenge'.id >= challenge.id
           /\ challenge'.id > challenge.id => challenge'.id = challenge.id + 1
           /\ \A c \in 1..MaxChallenges : settlements'[c] >= settlements[c]
<1>t. challenge.id \in Nat /\ settlements \in [1..MaxChallenges -> Nat]
  BY DEF TypeOK
<1>1. CASE PrepareChallenge
  BY <1>1, <1>t DEF PrepareChallenge
<1>2. CASE ResolveChallenge
  BY <1>2, <1>t, ResolveSettles
<1>3. CASE settlements' = settlements /\ challenge'.id = challenge.id
  BY <1>3, <1>t
<1>4. QED
  BY <1>1, <1>2, <1>3
     DEF Next, HostPause, ActivePlayerDisconnect, StartGame, AdvancePhase, StartChallenge,
         RequestReview, SetTurn, SetActivePlayers, RemoveMember, StartTimer, CancelTimer,
         UseExtraTime, PollTimerExpiry, Pause, Resume, ClockTick, vars, playVars, TypeOK

-----------------------------------------------------------------------------
(* The walk of the development control. *)

\* One turn of its loop.
WalkStep(g, round) ==
    IF g.refused \/ g.round >= round THEN g ELSE NextIntro(PlaceholderPlayed(g))

\* What the walk went through: the n-th entry after n turns of its loop.
Walk(f, m, round) ==
    f = [n \in 0..m |-> IF n = 0 THEN Here ELSE WalkStep(f[n - 1], round)]

\* The recursion is well founded: there is such a walk.
LEMMA WalkExists ==
    ASSUME NEW round \in Nat
    PROVE  \E f : Walk(f, round, round)
<1> DEFINE S == {m \in Nat : \E f : Walk(f, m, round)}
<1>1. 0 \in S
  <2>1. Walk([n \in 0..0 |-> Here], 0, round)
    BY DEF Walk
  <2>2. QED
    BY <2>1
<1>2. ASSUME NEW m \in Nat, m \in S PROVE m + 1 \in S
  <2>1. PICK f : Walk(f, m, round)
    BY <1>2
  <2> DEFINE g == [n \in 0..m + 1 |-> IF n = m + 1 THEN WalkStep(f[m], round) ELSE f[n]]
  <2>2. ASSUME NEW n \in 0..m + 1
        PROVE  g[n] = IF n = 0 THEN Here ELSE WalkStep(g[n - 1], round)
    <3>1. CASE n = m + 1
      BY <3>1
    <3>2. CASE n # m + 1
      <4>1. n \in 0..m /\ (n # 0 => n - 1 \in 0..m)
        BY <3>2
      <4>2. f[n] = IF n = 0 THEN Here ELSE WalkStep(f[n - 1], round)
        BY <2>1, <4>1 DEF Walk
      <4>3. QED
        BY <3>2, <4>1, <4>2
    <3>3. QED
      BY <3>1, <3>2
  <2>3. Walk(g, m + 1, round)
    BY <2>2 DEF Walk
  <2>4. QED
    BY <2>3
<1>3. QED
  <2> HIDE DEF S
  <2>1. Nat \subseteq S
    BY <1>1, <1>2, NaturalsInduct
  <2>2. QED
    BY <2>1 DEF S

\* Walked is where that walk ends.
LEMMA WalkedEndsAWalk ==
    ASSUME NEW round \in Nat
    PROVE  \E f : Walk(f, round, round) /\ Walked(round) = f[round]
<1> DEFINE f == CHOOSE f : Walk(f, round, round)
<1>1. Walk(f, round, round)
  BY WalkExists
<1>2. Walked(round) = f[round]
  BY DEF Walked, Walk, WalkStep
<1>3. QED
  BY <1>1, <1>2

\* The results are as SettledInOrder has them, for a game the walk is at.
PaidInOrder(g) ==
    /\ g.challenge.status = "none" => g.challenge.id = 0
    /\ \A c \in 1..MaxChallenges :
           /\ c < g.challenge.id => g.settlements[c] > 0
           /\ c > g.challenge.id => g.settlements[c] = 0
           /\ c = g.challenge.id /\ g.challenge.status \in {"pending", "active"}
                  => g.settlements[c] = 0
           /\ c = g.challenge.id /\ g.challenge.status = "resolved" => g.settlements[c] > 0

\* Wherever the walk has got to, the game is in a phase it can go on from, and
\* the challenges it put behind it are resolved and paid, in order.
WalkInv(g) ==
    /\ g \in [phase : Phases \ {"PAUSED"}, round : Nat,
              challenge : [id : Nat, status : Statuses],
              settlements : [1..MaxChallenges -> Nat], refused : BOOLEAN]
    /\ g.challenge.id >= challenge.id
    /\ g.challenge # challenge => g.challenge.status = "resolved"
    /\ PaidInOrder(g)
    /\ \A c \in 1..MaxChallenges : g.settlements[c] >= settlements[c]

\* A placeholder raises one entry of the results and leaves the others.
LEMMA PlaceholderPays ==
    ASSUME NEW st \in [1..MaxChallenges -> Nat], NEW id \in Nat, NEW after,
           after = [c \in 1..MaxChallenges |-> IF c = id THEN st[c] + 1 ELSE st[c]]
    PROVE  /\ after \in [1..MaxChallenges -> Nat]
           /\ \A c \in 1..MaxChallenges :
                 after[c] = (IF c = id THEN st[c] + 1 ELSE st[c]) /\ after[c] >= st[c]
OBVIOUS

\* It leaves the walk in order.
LEMMA PlaceholderKeeps ==
    ASSUME FlowInv, NEW g, WalkInv(g)
    PROVE  WalkInv(PlaceholderPlayed(g))
<1> DEFINE h == PlaceholderPlayed(g)
<1>t. /\ challenge.id \in Nat /\ settlements \in [1..MaxChallenges -> Nat]
      /\ g \in [phase : Phases \ {"PAUSED"}, round : Nat,
                 challenge : [id : Nat, status : Statuses],
                 settlements : [1..MaxChallenges -> Nat], refused : BOOLEAN]
      /\ g.challenge.id \in Nat /\ g.challenge.id >= challenge.id /\ PaidInOrder(g)
      /\ \A c \in 1..MaxChallenges : g.settlements[c] >= settlements[c]
  BY DEF FlowInv, TypeOK, WalkInv
<1>1. CASE g.phase # "ROUND_INTRO"
  BY <1>1 DEF PlaceholderPlayed
<1>2. CASE g.phase = "ROUND_INTRO" /\ g.challenge.status \notin {"none", "resolved"}
  <2>1. h = [g EXCEPT !.phase = "CHALLENGE_INTRO", !.refused = TRUE]
    BY <1>2 DEF PlaceholderPlayed
  <2>2. QED
    BY <2>1, PhaseNames DEF WalkInv, PaidInOrder
<1>3. CASE g.phase = "ROUND_INTRO" /\ g.challenge.status \in {"none", "resolved"}
  <2> DEFINE id == g.challenge.id + 1
             st == g.settlements
             paid == [c \in 1..MaxChallenges |-> IF c = id THEN st[c] + 1 ELSE st[c]]
  <2>1. h = [g EXCEPT !.phase = "RESULT", !.challenge = [id |-> id, status |-> "resolved"],
                      !.settlements = paid]
    <3>1. DOMAIN g.settlements = 1..MaxChallenges
      BY <1>t
    <3>2. QED
      BY <1>3, <3>1 DEF PlaceholderPlayed
  <2>2. /\ id \in Nat /\ paid \in [1..MaxChallenges -> Nat]
        /\ \A c \in 1..MaxChallenges :
              paid[c] = (IF c = id THEN st[c] + 1 ELSE st[c]) /\ paid[c] >= st[c]
    <3>1. id \in Nat /\ st \in [1..MaxChallenges -> Nat]
      BY <1>t
    <3> HIDE DEF id, st
    <3>2. QED
      BY <3>1, PlaceholderPays
  <2> HIDE DEF paid, h
  <2>3. /\ h \in [phase : Phases \ {"PAUSED"}, round : Nat,
                   challenge : [id : Nat, status : Statuses],
                   settlements : [1..MaxChallenges -> Nat], refused : BOOLEAN]
        /\ h.challenge.id = id /\ h.challenge.status = "resolved" /\ h.settlements = paid
    BY <1>t, <2>1, <2>2, PhaseNames DEF Statuses
  <2>4. PaidInOrder(h)
    BY <1>3, <1>t, <2>2, <2>3 DEF PaidInOrder
  <2>5. h.challenge.id >= challenge.id
    BY <1>t, <2>3
  <2>6. \A c \in 1..MaxChallenges : h.settlements[c] >= settlements[c]
    <3>1. \A c \in 1..MaxChallenges : /\ h.settlements[c] \in Nat /\ settlements[c] \in Nat
                                     /\ st[c] \in Nat /\ h.settlements[c] >= st[c]
                                     /\ st[c] >= settlements[c]
      BY <1>t, <2>2, <2>3
    <3>2. QED
      BY <3>1
  <2>7. QED
    BY <2>3, <2>4, <2>5, <2>6 DEF WalkInv, h
<1>4. QED
  BY <1>1, <1>2, <1>3

\* So does going on to the next round, or being refused.
LEMMA NextIntroKeeps ==
    ASSUME NEW g, WalkInv(g)
    PROVE  WalkInv(NextIntro(g))
<1>1. CASE g.refused
  BY <1>1 DEF NextIntro
<1>2. CASE ~g.refused /\ g.phase \in {"RESULT", "ROUND_COMPLETE"}
  <2>1. NextIntro(g) = [g EXCEPT !.phase = "ROUND_INTRO", !.round = g.round + 1]
    BY <1>2 DEF NextIntro
  <2>2. g.round + 1 \in Nat
    BY DEF WalkInv
  <2>3. QED
    BY <2>1, <2>2, PhaseNames DEF WalkInv, PaidInOrder
<1>3. CASE ~g.refused /\ g.phase \notin {"RESULT", "ROUND_COMPLETE"}
  <2>1. NextIntro(g) = [g EXCEPT !.refused = TRUE]
    BY <1>3 DEF NextIntro
  <2>2. QED
    BY <2>1 DEF WalkInv, PaidInOrder
<1>4. QED
  BY <1>1, <1>2, <1>3

\* And so does a whole turn of the loop.
LEMMA WalkStepKeeps ==
    ASSUME FlowInv, NEW round \in Nat, NEW g, WalkInv(g)
    PROVE  WalkInv(WalkStep(g, round))
BY PlaceholderKeeps, NextIntroKeeps DEF WalkStep

\* Wherever the walk of a running game ends, it ends soundly.
LEMMA WalkedSoundly ==
    ASSUME FlowInv, Running, NEW round \in Nat
    PROVE  WalkInv(Walked(round))
<1>1. PICK f : Walk(f, round, round) /\ Walked(round) = f[round]
  BY WalkedEndsAWalk
<1> DEFINE S == {n \in Nat : n \in 0..round => WalkInv(f[n])}
<1>2. 0 \in S
  <2>1. WalkInv(Here)
    BY DEF WalkInv, Here, PaidInOrder, FlowInv, TypeOK, SettledInOrder, Running, Paused
  <2>2. f[0] = Here
    BY <1>1 DEF Walk
  <2>3. QED
    BY <2>1, <2>2
<1>3. ASSUME NEW n \in Nat, n \in S PROVE n + 1 \in S
  <2>1. CASE n + 1 \in 0..round
    <3>1. f[n + 1] = WalkStep(f[n], round)
      BY <1>1, <2>1 DEF Walk
    <3>2. WalkInv(f[n])
      BY <1>3, <2>1
    <3>3. QED
      BY <3>1, <3>2, WalkStepKeeps
  <2>2. CASE n + 1 \notin 0..round
    BY <2>2
  <2>3. QED
    BY <2>1, <2>2
<1>4. Nat \subseteq S
  <2> HIDE DEF S
  <2>1. QED
    BY <1>2, <1>3, NaturalsInduct
<1>5. QED
  BY <1>1, <1>4

\* The walk leaves a sound game, whether it arrives or is refused on the way,
\* and takes back neither a challenge nor a result.
LEMMA WalkKeepsFlow ==
    ASSUME FlowInv, Running, NEW round \in Nat, WalksTo(round)
    PROVE  /\ FlowInv' /\ ~Paused'
           /\ challenge'.id >= challenge.id
           /\ \A c \in 1..MaxChallenges : settlements'[c] >= settlements[c]
<1> DEFINE g == Walked(round)
<1>1. WalkInv(g)
  BY WalkedSoundly
<1>2. /\ g.round <= MaxRound /\ g.challenge.id <= MaxChallenges
      /\ phase' = g.phase /\ resumePhase' = NoPhase /\ roundIndex' = g.round
      /\ challenge' = g.challenge /\ settlements' = g.settlements
      /\ IF g.challenge # challenge THEN ClearPlay /\ CancelTheTimer
                                    ELSE UNCHANGED <<turn, active, timerVars>>
      /\ UNCHANGED <<now, started, members, pausedBy>>
  BY DEF WalksTo
<1> HIDE DEF g
<1>3. ~Paused /\ ~Paused'
  BY <1>1, <1>2 DEF Running, Paused, WalkInv
<1>4. TypeOK'
  <2>1. /\ phase' \in Phases /\ roundIndex' \in Nat
        /\ challenge' \in [id : 0..MaxChallenges, status : Statuses]
        /\ settlements' \in [1..MaxChallenges -> Nat]
    BY <1>1, <1>2, GameFlowAssumption DEF WalkInv, GameFlowAssumption
  <2>2. /\ turn' \in [team : Teams \cup {None}, player : Players \cup {None}]
        /\ active' \in SUBSET Players
    BY <1>2 DEF ClearPlay, NoTurn, FlowInv, TypeOK
  <2>3. /\ timer' \in Deadlines /\ WellFormed(now, timer') /\ (TimerSet' => timer'.durationMs > 0)
        /\ timerChallenge' \in 0..MaxChallenges /\ expiryReported' \in BOOLEAN
    <3>1. CASE CancelTheTimer
      <4>1. now \in Nat /\ MaxChallenges \in Nat
        BY GameFlowAssumption DEF GameFlowAssumption, FlowInv, TypeOK
      <4>2. QED
        BY <3>1, <4>1, NoTimerFacts, 0 \in 0..MaxChallenges DEF CancelTheTimer, TimerSet
    <3>2. CASE UNCHANGED timerVars
      BY <3>2 DEF timerVars, FlowInv, TypeOK, TimerSet
    <3>3. QED
      BY <1>2, <3>1, <3>2
  <2>4. QED
    BY <1>2, <2>1, <2>2, <2>3 DEF FlowInv, TypeOK
<1>5. PauseShape'
  BY <1>2, <1>3 DEF FlowInv, PauseShape, NoPhase
<1>6. SettledInOrder'
  BY <1>1, <1>2 DEF WalkInv, PaidInOrder, SettledInOrder
<1>7. WaitsOnlyOnMembers'
  BY <1>2 DEF ClearPlay, NoTurn, FlowInv, WaitsOnlyOnMembers
<1>8. TimerInv'
  <2>1. CASE g.challenge # challenge
    BY <1>2, <2>1, CancelledTimerFacts
       DEF TimerInv, TimerOfCurrentChallenge, FrozenOnlyForReview, ReportedExpiryStands
  <2>2. CASE g.challenge = challenge
    BY <1>2, <1>3, <2>2 DEF FlowInv, TimerInv, TimerOfCurrentChallenge, FrozenOnlyForReview,
                            ReportedExpiryStands, timerVars, TimerSet
  <2>3. QED
    BY <2>1, <2>2
<1>9. QED
  BY <1>1, <1>2, <1>3, <1>4, <1>5, <1>6, <1>7, <1>8 DEF FlowInv, WalkInv

-----------------------------------------------------------------------------
(* What every round built on the game is played by: its own prepare and    *)
(* start of a challenge, and windows that ride the pause.                  *)

\* What the game is known to do meanwhile.
GoesOn ==
    /\ FlowInv'
    /\ challenge'.id >= challenge.id
    /\ \A c \in 1..MaxChallenges : settlements'[c] >= settlements[c]

\* A challenge prepared and started in one go leaves the game sound, whomever it
\* then waits for.
LEMMA StartedGameKeepsFlow ==
    ASSUME FlowInv, PreparesAndStarts, active' \subseteq UNION {members[t] : t \in Teams}
    PROVE  GoesOn /\ challenge'.id = challenge.id + 1 /\ ~Paused /\ ~Paused'
<1>t. /\ TypeOK /\ challenge \in [id : 0..MaxChallenges, status : Statuses]
      /\ settlements \in [1..MaxChallenges -> Nat] /\ MaxChallenges \in Nat
  BY GameFlowAssumption DEF GameFlowAssumption, FlowInv, TypeOK
<1>1. /\ Running /\ NoOpenChallenge /\ challenge.id < MaxChallenges
      /\ challenge' = [id |-> challenge.id + 1, status |-> "active"]
      /\ phase' = "ACTIVE_PLAY" /\ resumePhase' = NoPhase /\ turn' = NoTurn
      /\ CancelTheTimer
      /\ UNCHANGED <<now, started, roundIndex, members, settlements, pausedBy>>
  BY DEF PreparesAndStarts
<1>2. ~Paused /\ ~Paused'
  BY <1>1 DEF Running, Paused
<1>3. TypeOK'
  <2>1. challenge' \in [id : 0..MaxChallenges, status : Statuses]
    BY <1>t, <1>1 DEF Statuses
  <2>2. NoTimer \in Deadlines /\ WellFormed(now, NoTimer) /\ timer' = NoTimer
        /\ timerChallenge' = 0 /\ expiryReported' = FALSE
    BY <1>1, <1>t, NoTimerFacts DEF CancelTheTimer, TypeOK
  <2>3. active' \in SUBSET Players
    BY <1>t DEF TypeOK
  <2>4. "ACTIVE_PLAY" \in Phases
    BY PhaseNames
  <2>5. NoTurn \in [team : Teams \cup {None}, player : Players \cup {None}]
    BY DEF NoTurn
  <2>6. now' \in Nat /\ WellFormed(now', timer') /\ timer' \in Deadlines
    BY <1>t, <1>1, <2>2 DEF TypeOK
  <2>7. ~TimerSet'
    BY <2>2 DEF TimerSet
  <2>8. /\ started' \in BOOLEAN /\ roundIndex' \in Nat /\ members' \in [Teams -> SUBSET Players]
        /\ settlements' \in [1..MaxChallenges -> Nat] /\ pausedBy' \in Players \cup {None}
        /\ 0 \in 0..MaxChallenges
    BY <1>t, <1>1 DEF TypeOK
  <2>9. QED
    BY <1>1, <2>1, <2>2, <2>3, <2>4, <2>5, <2>6, <2>7, <2>8 DEF TypeOK
<1>4. PauseShape'
  BY <1>1, <1>2 DEF FlowInv, PauseShape, NoPhase, Running
<1>5. SettledInOrder'
  <2>1. challenge.status = "none" => challenge.id = 0
    BY DEF FlowInv, SettledInOrder
  <2>2. challenge.status = "none" \/ challenge.status = "resolved"
    BY <1>1 DEF NoOpenChallenge
  <2>3. \A c \in 1..MaxChallenges : /\ c < challenge.id => settlements[c] > 0
                                    /\ c > challenge.id => settlements[c] = 0
                                    /\ c = challenge.id => settlements[c] > 0
    BY <1>t, <2>1, <2>2 DEF FlowInv, SettledInOrder
  <2>4. challenge'.id = challenge.id + 1 /\ challenge'.status = "active" /\ challenge.id \in Nat
    BY <1>1, <1>t
  <2>5. QED
    BY <1>1, <2>3, <2>4 DEF SettledInOrder
<1>6. WaitsOnlyOnMembers'
  BY <1>1 DEF WaitsOnlyOnMembers, NoTurn
<1>7. TimerInv'
  BY <1>1, <1>2 DEF CancelTheTimer, TimerInv, TimerOfCurrentChallenge, FrozenOnlyForReview,
                    ReportedExpiryStands, TimerSet
<1>8. QED
  BY <1>1, <1>2, <1>3, <1>4, <1>5, <1>6, <1>7, <1>t DEF FlowInv, GoesOn

\* What a pause, a resume and the clock make of a window.
LEMMA WindowAfterFacts ==
    ASSUME NEW d \in Nat, NEW w \in WindowsUpTo(d), NEW event \in {"pause", "resume", "tick"}
    PROVE  /\ WindowAfter(event, w) \in WindowsUpTo(d)
           /\ Exists(WindowAfter(event, w)) <=> Exists(w)
           /\ event = "pause" => WindowAfter(event, w).state # "running"
           /\ event = "resume" => WindowAfter(event, w).state # "frozen"
           /\ event = "tick" => WindowAfter(event, w).state = w.state
<1>1. w = NoWindow \/ w \in [left : 0..d, state : {"running", "frozen"}]
  BY DEF WindowsUpTo
<1>2. WindowAfter("pause", w) = FreezeWindow(w) /\ WindowAfter("resume", w) = ThawWindow(w)
      /\ WindowAfter("tick", w) = ElapseWindow(w)
  BY DEF WindowAfter
<1>3. CASE w = NoWindow
  <2>1. WindowAfter(event, w) = w
    BY <1>2, <1>3 DEF FreezeWindow, ThawWindow, ElapseWindow, NoWindow
  <2>2. QED
    BY <1>3, <2>1 DEF NoWindow, Exists
<1>4. CASE w \in [left : 0..d, state : {"running", "frozen"}]
  <2>1. CASE event = "pause"
    BY <1>2, <1>4, <2>1 DEF FreezeWindow, WindowsUpTo, Exists
  <2>2. CASE event = "resume"
    BY <1>2, <1>4, <2>2 DEF ThawWindow, WindowsUpTo, Exists
  <2>3. CASE event = "tick"
    BY <1>2, <1>4, <2>3 DEF ElapseWindow, WindowsUpTo, Exists
  <2>4. QED
    BY <2>1, <2>2, <2>3
<1>5. QED
  BY <1>1, <1>3, <1>4

\* A pause, a resume and the clock leave a window tied to the pause.
LEMMA WindowFollowsOn ==
    ASSUME NEW d \in Nat, NEW w \in WindowsUpTo(d), FollowsPause(w, Paused),
           NEW event \in {"pause", "resume", "tick"},
           event = "pause" => Paused', event = "resume" => ~Paused',
           event = "tick" => (Paused' <=> Paused)
    PROVE  /\ WindowAfter(event, w) \in WindowsUpTo(d)
           /\ FollowsPause(WindowAfter(event, w), Paused')
<1>1. PICK v : v = WindowAfter(event, w)
  OBVIOUS
<1>2. /\ v \in WindowsUpTo(d) /\ (Exists(v) <=> Exists(w))
      /\ event = "pause" => v.state # "running"
      /\ event = "resume" => v.state # "frozen"
      /\ event = "tick" => v.state = w.state
  BY <1>1, WindowAfterFacts
<1>3. v.state \in {"none", "running", "frozen"}
  BY <1>2 DEF WindowsUpTo, NoWindow
<1>4. FollowsPause(v, Paused')
  <2>1. CASE event = "pause"
    BY <1>2, <1>3, <2>1 DEF FollowsPause, Exists
  <2>2. CASE event = "resume"
    BY <1>2, <1>3, <2>2 DEF FollowsPause, Exists
  <2>3. CASE event = "tick"
    BY <1>2, <1>3, <2>3 DEF FollowsPause, Exists
  <2>4. QED
    BY <2>1, <2>2, <2>3
<1>5. QED
  BY <1>1, <1>2, <1>4

=============================================================================

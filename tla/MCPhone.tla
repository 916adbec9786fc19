------------------------------- MODULE MCPhone -------------------------------
(***************************************************************************)
(* Bounded instances of Phone for TLC.                                     *)
(***************************************************************************)
EXTENDS Phone

CONSTANTS w1, w2, c1, c2, c3

MCWindows == {w1, w2}
MCConns   == {c1, c2, c3}

MCOrder   == <<c1, c2, c3>>

\* Sockets, and windows, are opened in this order, so that their names make no
\* states.
InOrder ==
    \A w \in Windows :
        win'[w].socket \notin {None, win[w].socket} =>
            \A i, j \in DOMAIN MCOrder :
                i < j /\ MCOrder[j] = win'[w].socket => ~Unused(MCOrder[i])

WindowsInOrder == win[w1].page = "closed" => win'[w2].page = "closed"

CONSTANT MaxUnderWay

Late == {<<w, i>> \in Windows \X {1, 2} : i <= Len(win[w].asked) /\ ~win[w].asked[i].wanted}

BothOpen == \A w \in Windows : win[w].page # "closed"

\* Bounds: how much may be under way at once, over all sockets and in all
\* windows; one answer only that comes too late; a restart that comes early;
\* a third socket only after a takeover.
FewUnderWay ==
    /\ FoldFunction(LAMBDA q, n : n + Len(q), 0, up)
         + FoldFunction(LAMBDA q, n : n + Len(q), 0, down) <= MaxUnderWay
    /\ FoldFunction(LAMBDA x, n : n + Len(x.asked), 0, win) <= MaxUnderWay
    /\ Cardinality(Late) <= 1
    /\ Unused(c3) \/ \E w \in Windows : win[w].told
    /\ version = 2 => intents = 1 /\ Late = {}
    /\ lost => version <= 1 /\ announced = version /\ Late = {}
    /\ BothOpen => /\ minted = 1 /\ intents = 0 /\ version <= 1 /\ announced = version
                   /\ ~lost /\ Late = {}
                   /\ FoldFunction(LAMBDA x, n : n + Len(x.asked), 0, win) <= 1

\* With both windows open the player neither loads one again nor leaves, and
\* the Host removes nobody: they are there for the takeover.
Takeover ==
    BothOpen => /\ \A w \in Windows : win[w].page = "shown" => ~win'[w].first \/ win[w].first
                /\ DOMAIN seats \subseteq DOMAIN seats'

MCSteps == InOrder /\ WindowsInOrder /\ Takeover

=============================================================================

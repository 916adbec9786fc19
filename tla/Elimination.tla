------------------------------ MODULE Elimination ------------------------------
(***************************************************************************)
(* What a knockout among tied teams promises, whatever is played: those    *)
(* still standing only become fewer, at least two stand while it goes on,  *)
(* and the champion is the one left standing, for good.                    *)
(***************************************************************************)
EXTENDS FiniteSets, Integers

CONSTANTS Contenders, Nobody

VARIABLES standing, champion

KVars == <<standing, champion>>

KInit == standing = {} /\ champion = Nobody

\* The tie is announced, once.
Begin ==
    /\ standing = {}
    /\ standing' \in SUBSET Contenders
    /\ Cardinality(standing') > 1
    /\ champion' = Nobody

KnockOut ==
    /\ champion = Nobody
    /\ standing' \subseteq standing /\ standing' # standing
    /\ Cardinality(standing') > 1
    /\ champion' = Nobody

Crown ==
    /\ champion = Nobody
    /\ champion' \in standing
    /\ standing' = {champion'}

KSpec == KInit /\ [][Begin \/ KnockOut \/ Crown]_KVars

=============================================================================

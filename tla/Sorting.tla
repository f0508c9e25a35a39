------------------------------ MODULE Sorting ------------------------------
(***************************************************************************)
(* What std::sort and std::stable_sort return: the leaderboard, the inputs *)
(* of a tick and the players of a snapshot are sorted with them.           *)
(***************************************************************************)
EXTENDS Integers, FiniteSets

(* The elements of S, each before those it precedes.  precedes is a set of *)
(* pairs that orders S strictly and totally, so no element comes twice.    *)
InOrder(S, precedes) ==
    CHOOSE order \in [1 .. Cardinality(S) -> S] :
        \A i, j \in DOMAIN order : i < j => <<order[i], order[j]>> \in precedes
=============================================================================

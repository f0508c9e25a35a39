---------------------------- MODULE MCMatchQueue ----------------------------
(***************************************************************************)
(* Small instances of MatchQueue for TLC.  Session ids are never reused,   *)
(* so MaxSessions = 2 lets a pair play, rejoin and play again.             *)
(***************************************************************************)
EXTENDS MatchQueue

NoConnections == [c \in {} |-> 1]

(* -1: a timeoutSeconds beyond the range of std::chrono::seconds; 4: one   *)
(* that cannot be added to the time of the clock                           *)
MCTimeouts == {-1, 3, 4}
=============================================================================

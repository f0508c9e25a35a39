--------------------------- MODULE MatchLifecycle ---------------------------
(***************************************************************************)
(* What matchmaking promises its users, without queues, timers, strands,   *)
(* locks or maps (design/protocol/contract.md).  Players wait in order of  *)
(* arrival; a wait ends by leaving (a cancellation or a timeout) or by a   *)
(* match between the two who have waited longest; a match ends once its    *)
(* result, which names one of its players as the winner, has been          *)
(* recorded; only then may its players wait again.                         *)
(***************************************************************************)
EXTENDS Naturals, Sequences

CONSTANTS Players, Matches

VARIABLES
    waiting,                  \* the players who wait, in order of arrival
    match,                    \* per match: its players, {} before it is made
    winner,                   \* per match: 0 until its result is recorded
    playing                   \* the matches that are being played

lifecycleVars == <<waiting, match, winner, playing>>

IsWaiting(p) == \E i \in DOMAIN waiting : waiting[i] = p

IsPlaying(p) == \E m \in playing : p \in match[m]

LifecycleInit ==
    /\ waiting = <<>>
    /\ match = [m \in Matches |-> {}]
    /\ winner = [m \in Matches |-> 0]
    /\ playing = {}

Arrive(p) ==
    /\ ~IsWaiting(p)
    /\ ~IsPlaying(p)
    /\ waiting' = Append(waiting, p)
    /\ UNCHANGED <<match, winner, playing>>

Leave(i) ==
    /\ waiting' = SubSeq(waiting, 1, i - 1) \o SubSeq(waiting, i + 1, Len(waiting))
    /\ UNCHANGED <<match, winner, playing>>

Pair(m) ==
    /\ Len(waiting) >= 2
    /\ match[m] = {}
    /\ match' = [match EXCEPT ![m] = {waiting[1], waiting[2]}]
    /\ playing' = playing \cup {m}
    /\ waiting' = SubSeq(waiting, 3, Len(waiting))
    /\ UNCHANGED winner

Record(m) ==
    /\ m \in playing
    /\ winner[m] = 0
    /\ \E p \in match[m] : winner' = [winner EXCEPT ![m] = p]
    /\ UNCHANGED <<waiting, match, playing>>

Finish(m) ==
    /\ m \in playing
    /\ winner[m] # 0
    /\ playing' = playing \ {m}
    /\ UNCHANGED <<waiting, match, winner>>

LifecycleNext ==
    \/ \E p \in Players : Arrive(p)
    \/ \E i \in DOMAIN waiting : Leave(i)
    \/ \E m \in Matches : Pair(m) \/ Record(m) \/ Finish(m)

LifecycleSafety == LifecycleInit /\ [][LifecycleNext]_lifecycleVars

(* A match that has been made is played to its end.                        *)
LifecycleSpec ==
    /\ LifecycleSafety
    /\ \A m \in Matches : WF_lifecycleVars(Record(m)) /\ WF_lifecycleVars(Finish(m))
=============================================================================

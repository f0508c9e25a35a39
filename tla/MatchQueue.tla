----------------------------- MODULE MatchQueue -----------------------------
(***************************************************************************)
(* The matching queue (server/src/match_queue.cpp) on top of the session   *)
(* manager: players join and cancel over HTTP, a one-second timer removes  *)
(* expired entries and pairs the rest, and every pair becomes a session.   *)
(*                                                                         *)
(* Time is relative: an entry and the timer hold the time left to them,    *)
(* and Advance lets one unit pass.  OnTick is a sequence of steps during   *)
(* which the queue's mutex is held (timer = "timeouts" or "pairing"); the  *)
(* session manager's own steps interleave with it.  So do they between     *)
(* CreateSession, which fills the maps, and the StartSession it dispatches:*)
(* an input that slips in first makes the dispatch wait.                   *)
(***************************************************************************)
EXTENDS SessionManager

CONSTANTS
    Timeouts,                 \* values of timeoutSeconds, in units of time
    MaxTimeout,               \* the longest that can be added to the clock's time
    DefaultTimeout,           \* default_timeout_
    TimerPeriod               \* one second, in units of time

ASSUME MatchQueueConstants ==
    /\ Timeouts \subseteq Int
    /\ MaxTimeout \in Nat
    /\ DefaultTimeout \in Nat \ {0}
    /\ TimerPeriod \in Nat \ {0}

VARIABLES
    queue_,                   \* sequence of [user, left]
    user_index_,              \* the keys of user_index_
    timer,                    \* "off", "armed", or where OnTick is
    timer_left                \* time until the timer expires

queueVars == <<queue_, user_index_, timer, timer_left>>
vars == <<smVars, queueVars>>

MutexFree == timer \in {"off", "armed"}

Init ==
    /\ SMInit
    /\ queue_ = <<>>
    /\ user_index_ = {}
    /\ timer = "off"
    /\ timer_left = 0

(* Bound of the model: as many sessions as may still be created suffice to *)
(* pair everyone in a queue of this length.                                *)
RoomFor(length) == length <= 2 * (MaxSessions + 1 - next_session_id_)

---------------------------------------------------------------------------
(* A faulty test for duplicates: only the queue is looked at.              *)
NotQueued(u) == u \notin user_index_

(* A duplicate is refused without effect.                                  *)
MayJoin(u) == u \notin user_index_ /\ ~IsUserInSession(u)

(* A faulty choice of the timeout: the default is never used.              *)
TimeoutAsGiven(timeout) == timeout

EffectiveTimeout(timeout) == IF timeout <= 0 THEN DefaultTimeout ELSE timeout

(* A faulty EnsureTimer: every join starts the period anew.                *)
RestartTimer ==
    /\ timer' = "armed"
    /\ timer_left' = TimerPeriod

(* The first join arms the timer, for good.                                *)
EnsureTimer ==
    /\ timer' = "armed"
    /\ timer_left' = IF timer = "off" THEN TimerPeriod ELSE timer_left

(* now + timeout: the sum of a longer one overflows, to a time that may be *)
(* past.                                                                   *)
ExpiresIn(timeout) == IF timeout <= MaxTimeout THEN {timeout} ELSE 0 .. MaxTimeout

Join(u, timeout) ==
    /\ MutexFree
    /\ FreeWorker
    /\ RoomFor(Len(queue_) + 1)
    /\ MayJoin(u)
    /\ \E left \in ExpiresIn(EffectiveTimeout(timeout)) :
          queue_' = Append(queue_, [user |-> u, left |-> left])
    /\ user_index_' = user_index_ \cup {u}
    /\ EnsureTimer
    /\ UNCHANGED smVars

(* A faulty Cancel: the entry leaves the list but not the index.           *)
CancelKeepsIndex(u) ==
    /\ MutexFree
    /\ FreeWorker
    /\ u \in user_index_
    /\ \E i \in DOMAIN queue_ : queue_[i].user = u /\ queue_' = RemoveAt(queue_, i)
    /\ UNCHANGED <<smVars, user_index_, timer, timer_left>>

(* Cancel, through the iterator kept in user_index_; not found: no effect. *)
Cancel(u) ==
    /\ MutexFree
    /\ FreeWorker
    /\ u \in user_index_
    /\ \E i \in DOMAIN queue_ : queue_[i].user = u /\ queue_' = RemoveAt(queue_, i)
    /\ user_index_' = user_index_ \ {u}
    /\ UNCHANGED <<smVars, timer, timer_left>>

---------------------------------------------------------------------------
(* OnTick begins when the timer has expired: the mutex is taken and        *)
(* HandleTimeouts reads the clock.                                         *)
OnTick ==
    /\ timer = "armed"
    /\ timer_left = 0
    /\ FreeWorker
    /\ timer' = "timeouts"
    /\ UNCHANGED <<smVars, queue_, user_index_, timer_left>>

(* One turn of the loop of HandleTimeouts: the first entry that has        *)
(* expired goes and its user is sent queue_timeout, which is not a session *)
(* event.  The clock is read once, so no time passes in this loop.         *)
HandleTimeout ==
    /\ timer = "timeouts"
    /\ \E i \in DOMAIN queue_ :
          /\ queue_[i].left = 0
          /\ \A j \in 1 .. i - 1 : queue_[j].left > 0
          /\ queue_' = RemoveAt(queue_, i)
          /\ user_index_' = user_index_ \ {queue_[i].user}
    /\ UNCHANGED <<smVars, timer, timer_left>>

TimeoutsDone ==
    /\ timer = "timeouts"
    /\ \A i \in DOMAIN queue_ : queue_[i].left > 0
    /\ timer' = "pairing"
    /\ UNCHANGED <<smVars, queue_, user_index_, timer_left>>

(* A faulty PairIfPossible: the newest entries are taken.                  *)
PairNewest ==
    /\ timer = "pairing"
    /\ Len(queue_) >= 2
    /\ LET n == Len(queue_)
       IN  /\ queue_' = SubSeq(queue_, 1, n - 2)
           /\ user_index_' = user_index_ \ {queue_[n - 1].user, queue_[n].user}
           /\ CreateSession(<<queue_[n - 1].user, queue_[n].user>>)
    /\ UNCHANGED <<timer, timer_left>>

(* One turn of the loop of PairIfPossible.                                 *)
PairIfPossible ==
    /\ timer = "pairing"
    /\ Len(queue_) >= 2
    /\ queue_' = SubSeq(queue_, 3, Len(queue_))
    /\ user_index_' = user_index_ \ {queue_[1].user, queue_[2].user}
    /\ CreateSession(<<queue_[1].user, queue_[2].user>>)
    /\ UNCHANGED <<timer, timer_left>>

(* The mutex is released and the timer armed again.                        *)
RearmTimer ==
    /\ timer = "pairing"
    /\ Len(queue_) < 2
    /\ timer' = "armed"
    /\ timer_left' = TimerPeriod
    /\ UNCHANGED <<smVars, queue_, user_index_>>

(* A unit of time passes; an expired timer may be served late.             *)
Advance ==
    /\ timer # "timeouts"
    /\ queue_' = [i \in DOMAIN queue_ |->
                    [queue_[i] EXCEPT !.left = IF @ > 0 THEN @ - 1 ELSE 0]]
    /\ timer_left' = IF timer_left > 0 THEN timer_left - 1 ELSE 0
    /\ UNCHANGED <<smVars, user_index_, timer>>

---------------------------------------------------------------------------
(* POST /api/queue/join, once Auth has found the user: without a           *)
(* timeoutSeconds the configured default is passed, and one of 2^63 or     *)
(* more becomes negative.  POST /api/queue/cancel.                         *)
QueueJoin(u) == \E timeout \in Timeouts \cup {DefaultTimeout} : Join(u, timeout)

QueueCancel(u) == Cancel(u)

TimerStep == OnTick \/ HandleTimeout \/ TimeoutsDone \/ PairIfPossible \/ RearmTimer

QueueStep ==
    \/ \E u \in Users : QueueJoin(u) \/ QueueCancel(u)
    \/ TimerStep
    \/ Advance

Next == QueueStep \/ (SMStep /\ UNCHANGED queueVars)

Spec == Init /\ [][Next]_vars

(* Time passes, the timer handler runs when it is due, and the session     *)
(* manager's handlers run as in SMFairness.                                *)
Fairness ==
    /\ WF_vars(Advance) /\ WF_vars(TimerStep)
    /\ \A s \in Sessions : WF_vars(StrandStep(s) /\ UNCHANGED queueVars)
    /\ \A c \in Connections : WF_vars(RunInput(c) /\ UNCHANGED queueVars)

FairSpec == Spec /\ Fairness

---------------------------------------------------------------------------
(* The queue: entries carry a user and a time left that is never negative,   *)
(* and the timer is off or somewhere in its period.                          *)
QueueTypeOK ==
    /\ queue_ \in Seq([user : Users, left : Nat])
    /\ user_index_ \subseteq Users
    /\ timer \in {"off", "armed", "timeouts", "pairing"}
    /\ timer_left \in 0 .. TimerPeriod

(* Types of the queue and of the session manager below it: no entry expires  *)
(* before it was made, though the body of the request may hold anything.     *)
TypeOK == SMTypeOK /\ QueueTypeOK

(* The list and its index hold the same users, each once: the iterators kept *)
(* in user_index_ stay valid through joins, cancellations, timeouts and      *)
(* pairings.                                                                 *)
QueueIndex ==
    /\ user_index_ = {queue_[i].user : i \in DOMAIN queue_}
    /\ \A i, j \in DOMAIN queue_ : queue_[i].user = queue_[j].user => i = j

(* contract.md's duplicate rule: nobody waits in the queue while playing.    *)
QueuedOrPlaying == \A u \in user_index_ : user_to_session_[u] = 0

(* Every wait ends, by a match, a timeout or a cancellation, though nothing  *)
(* but the timer ever looks at the queue again.                              *)
WaitEnds == \A u \in Users : u \in user_index_ ~> u \notin user_index_

(* contract.md: the first two players in the queue are matched at once.  So  *)
(* nobody should be timed out of a queue that holds somebody to play with.   *)
NoTimeoutWithPartner ==
    [][timer = "timeouts" /\ queue_' # queue_ => Len(queue_) < 2]_vars

---------------------------------------------------------------------------
(* What the users are promised, and the session manager's contract.        *)
Lifecycle == INSTANCE MatchLifecycle WITH
    Players <- Users,
    Matches <- Sessions,
    waiting <- [i \in DOMAIN queue_ |-> queue_[i].user],
    match   <- [s \in Sessions |-> Participant(s)],
    winner  <- [s \in Sessions |-> IF s \in DOMAIN records_
                                   THEN records_[s].winner_user_id ELSE 0],
    playing <- sessions_

(* Queue, timer, strands and stores together implement MatchLifecycle: the   *)
(* two longest waiting players are paired, a match is recorded once, with    *)
(* one of its players as winner, and its players are free only after that.   *)
ImplementsLifecycle == Lifecycle!LifecycleSpec

(* The queue creates sessions only as the session manager expects: with two  *)
(* distinct users that are in no session.                                    *)
UsesSessionManager == SMSafety
=============================================================================

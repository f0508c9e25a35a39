--------------------------- MODULE SessionManager ---------------------------
(***************************************************************************)
(* Sessions from their creation to the storing of their result             *)
(* (server/src/session_manager.cpp), with the event stream each WebSocket  *)
(* connection is sent through RealtimeCoordinator (server/src/realtime.cpp)*)
(* and the input requests that race the ticks.                             *)
(*                                                                         *)
(* A session's ticks, its inputs and its end run on the session's strand,  *)
(* one handler at a time.  A handler is not atomic for other threads: it   *)
(* takes and releases SessionManager::mutex_, the coordinator's, the       *)
(* repository's and the rating service's mutex.  phase[s] is the program   *)
(* counter of the strand of session s at this granularity:                 *)
(*                                                                         *)
(*   none       not created                                                *)
(*   created    in the maps; StartSession about to run                     *)
(*   announced  session.created sent                                       *)
(*   running    no handler running, timer armed                            *)
(*   finishing  last tick done, FinishSession about to run                 *)
(*   saving     ended is true and session.ended sent                       *)
(*   rating     result stored                                              *)
(*   erasing    FinalizeResult has returned                                *)
(*   closed     erased from the maps; late inputs may still hold the       *)
(*              context                                                    *)
(*                                                                         *)
(* SubmitInput blocks the I/O thread it runs on until the strand has run   *)
(* its handler, so a waiting input occupies one of the Workers threads     *)
(* that run the io_context.                                                *)
(***************************************************************************)
EXTENDS Simulation, Results

CONSTANTS
    Connections,              \* WebSocket connections
    Owner,                    \* the user each connection is authenticated as
    NoConnection,
    MaxTicks,                 \* max_ticks_
    MaxSessions,              \* bound on the sessions created
    NamedSessions,            \* values of sessionId clients put in their inputs
    Workers                   \* number of threads running the io_context

ASSUME SessionManagerConstants ==
    /\ Owner \in [Connections -> Users]
    /\ NoConnection \notin Connections
    /\ MaxTicks \in Nat \ {0}
    /\ MaxSessions \in Nat
    /\ NamedSessions \subseteq Nat
    /\ Workers \in Nat

VARIABLES
    next_session_id_,
    participants,             \* SessionContext::participants, by session number
    phase,                    \* see above
    tick_sent,                \* SessionContext::tick_sent
    simulation,               \* SessionContext::simulation
    sessions_,                \* keys of SessionManager::sessions_
    user_to_session_,         \* 0: no entry
    records_,                 \* ResultRepository::records_
    entries_,                 \* RatingService::entries_
    request,                  \* per connection: its last session.input and the answer
    connections_,             \* RealtimeCoordinator::connections_
    open,                     \* the connections that are open
    seen                      \* per connection: the last session event sent on it

strandVars == <<participants, phase, tick_sent, simulation>>
mapVars    == <<next_session_id_, sessions_, user_to_session_>>
storeVars  == <<records_, entries_>>
connVars   == <<connections_, open>>
smVars     == <<strandVars, mapVars, storeVars, request, connVars, seen>>

Sessions == 1 .. MaxSessions

Phases == {"none", "created", "announced", "running", "finishing",
           "saving", "rating", "erasing", "closed"}

Ended(s) == phase[s] \in {"saving", "rating", "erasing", "closed"}

Participant(s) == {participants[s][i] : i \in DOMAIN participants[s]}

(* Events in the order a session sends them: session.created, .started,    *)
(* .state for each tick, .ended.                                           *)
CreatedRank  == 1
StartedRank  == 2
StateRank(t) == 2 + t
EndedRank    == 3 + MaxTicks

NoEvent   == [session |-> 0, rank |-> 0]
NoRequest == [answer |-> "none"]

Answers == {"ok", "session_not_found", "session_closed", "not_participant", "input_invalid"}

---------------------------------------------------------------------------
(* Threads.  A strand handler in progress and a waiting input each hold    *)
(* one; StartSession runs on the thread that created the session.          *)
HandlerRunning(s) == phase[s] \in {"announced", "finishing", "saving", "rating", "erasing"}

Waiting(s) == {c \in Connections : request[c].answer = "pending" /\ request[c].session = s}

FreeWorker ==
    Cardinality({s \in Sessions : HandlerRunning(s) \/ phase[s] = "created"})
      + Cardinality({c \in Connections : request[c].answer = "pending"}) < Workers

(* boost::asio::strand: dispatch runs its handler at once only if no other *)
(* handler of the strand is running or queued.                             *)
StrandLocked(s) == HandlerRunning(s) \/ Waiting(s) # {}

---------------------------------------------------------------------------
SMInit ==
    /\ next_session_id_ = 1
    /\ participants = [s \in Sessions |-> <<>>]
    /\ phase = [s \in Sessions |-> "none"]
    /\ tick_sent = [s \in Sessions |-> 0]
    /\ simulation = [s \in Sessions |-> NewSimulation]
    /\ sessions_ = {}
    /\ user_to_session_ = [u \in Users |-> 0]
    /\ records_ = [s \in {} |-> 0]
    /\ entries_ = [u \in {} |-> NewEntry]
    /\ request = [c \in Connections |-> NoRequest]
    /\ connections_ = [u \in Users |-> NoConnection]
    /\ open = {}
    /\ seen = [c \in Connections |-> NoEvent]

(* RealtimeCoordinator::Register and Unregister, called when a connection  *)
(* starts and when it closes.  A second connection of a user replaces the  *)
(* first one, which stays open and may still send inputs.                  *)
Register(c) ==
    /\ c \notin open
    /\ open' = open \cup {c}
    /\ connections_' = [connections_ EXCEPT ![Owner[c]] = c]
    /\ UNCHANGED <<strandVars, mapVars, storeVars, request, seen>>

Unregister(c) ==
    /\ c \in open
    /\ request[c].answer # "pending"
    /\ open' = open \ {c}
    /\ connections_' = [connections_ EXCEPT ![Owner[c]] = IF @ = c THEN NoConnection ELSE @]
    /\ seen' = [seen EXCEPT ![c] = NoEvent]
    /\ request' = [request EXCEPT ![c] = NoRequest]
    /\ UNCHANGED <<strandVars, mapVars, storeVars>>

(* BroadcastToParticipants: each participant's current connection, if any. *)
Broadcast(s, rank) ==
    seen' = [c \in Connections |->
                IF Owner[c] \in Participant(s) /\ connections_[Owner[c]] = c
                THEN [session |-> s, rank |-> rank] ELSE seen[c]]

---------------------------------------------------------------------------
CreateSession(pair) ==
    /\ next_session_id_ <= MaxSessions
    /\ LET s == next_session_id_
       IN  /\ participants' = [participants EXCEPT ![s] = pair]
           /\ phase' = [phase EXCEPT ![s] = "created"]
           /\ simulation' = [simulation EXCEPT ![s] = AddPlayer(AddPlayer(@, pair[1]), pair[2])]
           /\ sessions_' = sessions_ \cup {s}
           /\ user_to_session_' = [user_to_session_ EXCEPT ![pair[1]] = s, ![pair[2]] = s]
    /\ next_session_id_' = next_session_id_ + 1
    /\ UNCHANGED <<tick_sent, storeVars, request, connVars, seen>>

(* StartSession *)
AnnounceCreated(s) ==
    /\ phase[s] = "created"
    /\ phase' = [phase EXCEPT ![s] = "announced"]
    /\ Broadcast(s, CreatedRank)
    /\ UNCHANGED <<participants, tick_sent, simulation, mapVars, storeVars, request, connVars>>

(* A faulty end of StartSession: it waits for a participant to watch.      *)
StartWhenWatched(s) ==
    /\ phase[s] = "announced"
    /\ \E u \in Participant(s) : connections_[u] # NoConnection
    /\ phase' = [phase EXCEPT ![s] = "running"]
    /\ Broadcast(s, StartedRank)
    /\ UNCHANGED <<participants, tick_sent, simulation, mapVars, storeVars, request, connVars>>

AnnounceStarted(s) ==
    /\ phase[s] = "announced"
    /\ phase' = [phase EXCEPT ![s] = "running"]
    /\ Broadcast(s, StartedRank)
    /\ UNCHANGED <<participants, tick_sent, simulation, mapVars, storeVars, request, connVars>>

(* A faulty HandleTick: the state sent is that of the tick before.         *)
TickSendsOldState(s) ==
    /\ phase[s] = "running"
    /\ FreeWorker
    /\ simulation' = [simulation EXCEPT ![s] = TickOnce(@)]
    /\ tick_sent' = [tick_sent EXCEPT ![s] = @ + 1]
    /\ Broadcast(s, StateRank(simulation[s].current_tick))
    /\ phase' = [phase EXCEPT ![s] = IF tick_sent'[s] >= MaxTicks THEN "finishing" ELSE "running"]
    /\ UNCHANGED <<participants, mapVars, storeVars, request, connVars>>

HandleTick(s) ==
    /\ phase[s] = "running"
    /\ FreeWorker
    /\ simulation' = [simulation EXCEPT ![s] = TickOnce(@)]
    /\ tick_sent' = [tick_sent EXCEPT ![s] = @ + 1]
    /\ Broadcast(s, StateRank(simulation'[s].current_tick))
    /\ phase' = [phase EXCEPT ![s] = IF tick_sent'[s] >= MaxTicks THEN "finishing" ELSE "running"]
    /\ UNCHANGED <<participants, mapVars, storeVars, request, connVars>>

---------------------------------------------------------------------------
(* A faulty choice of the winner: the last of the best wins a draw.        *)
LastBestWins(snapshot) ==
    LET Better(best, p) == IF p.position >= best.position THEN p ELSE best
    IN  FoldLeft(Better, snapshot.players[1], snapshot.players).userId

(* FinishSession.  The winner: the players in ascending order of userId,   *)
(* a later one replacing the best so far only with a greater position.     *)
Winner(snapshot) ==
    LET Better(best, p) == IF p.position > best.position THEN p ELSE best
    IN  FoldLeft(Better, snapshot.players[1], snapshot.players).userId

ResultRecord(s) ==
    LET snapshot == Snapshot(simulation[s])
    IN  [user1_id |-> participants[s][1], user2_id |-> participants[s][2],
         winner_user_id |-> Winner(snapshot), tick_count |-> snapshot.tick,
         snapshot |-> snapshot]

FinishSession(s) ==
    /\ phase[s] = "finishing"
    /\ phase' = [phase EXCEPT ![s] = "saving"]
    /\ Broadcast(s, EndedRank)
    /\ UNCHANGED <<participants, tick_sent, simulation, mapVars, storeVars, request, connVars>>

(* A faulty FinalizeResult: the rating is left out.                        *)
SaveWithoutRating(s) ==
    /\ phase[s] = "saving"
    /\ records_' = SaveIfAbsent(records_, s, ResultRecord(s))
    /\ phase' = [phase EXCEPT ![s] = "erasing"]
    /\ UNCHANGED <<participants, tick_sent, simulation, mapVars, entries_, request, connVars, seen>>

(* ResultService::FinalizeResult, by its locked parts.                     *)
SaveResult(s) ==
    /\ phase[s] = "saving"
    /\ records_' = SaveIfAbsent(records_, s, ResultRecord(s))
    /\ phase' = [phase EXCEPT ![s] = IF s \in DOMAIN records_ THEN "erasing" ELSE "rating"]
    /\ UNCHANGED <<participants, tick_sent, simulation, mapVars, entries_, request, connVars, seen>>

(* The EnsureUser calls only add the entries ApplyMatchResult would add;   *)
(* ResultService takes them one by one.                                    *)
RateResult(s) ==
    /\ phase[s] = "rating"
    /\ entries_' = ApplyMatchResult(entries_, records_[s].winner_user_id, LoserId(records_[s]))
    /\ phase' = [phase EXCEPT ![s] = "erasing"]
    /\ UNCHANGED <<participants, tick_sent, simulation, mapVars, records_, request, connVars, seen>>

(* A faulty end of FinishSession: one participant stays in the map.        *)
EraseFirstOnly(s) ==
    /\ phase[s] = "erasing"
    /\ user_to_session_' = [user_to_session_ EXCEPT ![participants[s][1]] = 0]
    /\ sessions_' = sessions_ \ {s}
    /\ phase' = [phase EXCEPT ![s] = "closed"]
    /\ UNCHANGED <<participants, tick_sent, simulation, next_session_id_, storeVars,
                   request, connVars, seen>>

EraseSession(s) ==
    /\ phase[s] = "erasing"
    /\ user_to_session_' = [u \in Users |-> IF u \in Participant(s) THEN 0 ELSE user_to_session_[u]]
    /\ sessions_' = sessions_ \ {s}
    /\ phase' = [phase EXCEPT ![s] = "closed"]
    /\ UNCHANGED <<participants, tick_sent, simulation, next_session_id_, storeVars,
                   request, connVars, seen>>

---------------------------------------------------------------------------
(* SubmitInput.  The session is looked up by user; input.session_id is not *)
(* used.  AnswerOf is the handler dispatched to the strand.                *)
IsUserInSession(u) == user_to_session_[u] # 0

(* A faulty handler: the end of the session is not looked at.              *)
AcceptsAfterEnd(s, u, command) ==
    IF u \notin Participant(s)           THEN "not_participant"
    ELSE IF Accepts(simulation[s], InputOf(u, command)) THEN "ok"
    ELSE "input_invalid"

AnswerOf(s, u, command) ==
    IF Ended(s)                          THEN "session_closed"
    ELSE IF u \notin Participant(s)      THEN "not_participant"
    ELSE IF Accepts(simulation[s], InputOf(u, command)) THEN "ok"
    ELSE "input_invalid"

SubmitInput(c, named, command) ==
    /\ c \in open
    /\ request[c].answer # "pending"
    /\ FreeWorker
    /\ LET u == Owner[c]
           s == user_to_session_[u]
           Answered(a) == request' = [request EXCEPT ![c] =
                             [session |-> s, named |-> named, answer |-> a]]
       IN  \/ /\ s \notin sessions_
              /\ Answered("session_not_found")
              /\ UNCHANGED simulation
           \/ /\ s \in sessions_
              /\ StrandLocked(s)
              /\ request' = [request EXCEPT ![c] =
                    [session |-> s, named |-> named, command |-> command, answer |-> "pending"]]
              /\ UNCHANGED simulation
           \/ /\ s \in sessions_
              /\ ~StrandLocked(s)
              /\ Answered(AnswerOf(s, u, command))
              /\ simulation' = IF AnswerOf(s, u, command) = "ok"
                               THEN [simulation EXCEPT ![s] = EnqueueInput(@, InputOf(u, command))]
                               ELSE simulation
    /\ UNCHANGED <<participants, phase, tick_sent, mapVars, storeVars, connVars, seen>>

(* A faulty handler: it queues itself again when the session has ended.    *)
RetryAfterEnd(c) ==
    /\ request[c].answer = "pending"
    /\ FreeWorker
    /\ LET s == request[c].session
           answer == AnswerOf(s, Owner[c], request[c].command)
       IN  /\ ~HandlerRunning(s)
           /\ request' = IF Ended(s) THEN request
                         ELSE [request EXCEPT ![c] =
                                 [session |-> s, named |-> @.named, answer |-> answer]]
    /\ UNCHANGED <<simulation, participants, phase, tick_sent, mapVars, storeVars, connVars, seen>>

(* A queued input gets its turn on the strand; the waiting thread goes on. *)
RunInput(c) ==
    /\ request[c].answer = "pending"
    /\ FreeWorker
    /\ LET s == request[c].session
           u == Owner[c]
           answer == AnswerOf(s, u, request[c].command)
       IN  /\ ~HandlerRunning(s)
           /\ request' = [request EXCEPT ![c] =
                 [session |-> s, named |-> @.named, answer |-> answer]]
           /\ simulation' = IF answer = "ok"
                            THEN [simulation EXCEPT ![s] = EnqueueInput(@, InputOf(u, request[c].command))]
                            ELSE simulation
    /\ UNCHANGED <<participants, phase, tick_sent, mapVars, storeVars, connVars, seen>>

---------------------------------------------------------------------------
StrandStep(s) ==
    \/ AnnounceCreated(s) \/ AnnounceStarted(s) \/ HandleTick(s) \/ FinishSession(s)
    \/ SaveResult(s) \/ RateResult(s) \/ EraseSession(s)

(* Everything but the creation of sessions, which the matching queue does. *)
SMStep ==
    \/ \E s \in Sessions : StrandStep(s)
    \/ \E c \in Connections :
          \/ Register(c) \/ Unregister(c) \/ RunInput(c)
          \/ \E named \in NamedSessions, command \in Commands : SubmitInput(c, named, command)

(* The manager's contract with its caller: no participant is in a session. *)
CreateFreely ==
    \E u, v \in Users :
        /\ u # v
        /\ ~IsUserInSession(u) /\ ~IsUserInSession(v)
        /\ CreateSession(<<u, v>>)

SMNext == SMStep \/ CreateFreely

SMSafety == SMInit /\ [][SMNext]_smVars

(* Handlers that have started go on, armed timers expire, and queued       *)
(* handlers run once a thread is free.                                     *)
SMFairness ==
    /\ \A s \in Sessions : WF_smVars(StrandStep(s))
    /\ \A c \in Connections : WF_smVars(RunInput(c))

SMSpec == SMSafety /\ SMFairness
---------------------------------------------------------------------------
RequestType ==
    {NoRequest}
    \cup [session : Sessions, named : NamedSessions, command : Commands, answer : {"pending"}]
    \cup [session : Sessions \cup {0}, named : NamedSessions, answer : Answers]

(* Contexts, maps, connections and answers have their types: SubmitInput     *)
(* answers only with the codes of contract.md.  The contents of simulations  *)
(* and stores are described by SimulationLoop and ResultService.             *)
SMTypeOK ==
    /\ next_session_id_ \in 1 .. MaxSessions + 1
    /\ participants \in [Sessions -> Seq(Users)]
    /\ phase \in [Sessions -> Phases]
    /\ tick_sent \in [Sessions -> Nat]
    /\ DOMAIN simulation = Sessions
    /\ sessions_ \subseteq Sessions
    /\ user_to_session_ \in [Users -> Sessions \cup {0}]
    /\ DOMAIN records_ \subseteq Sessions
    /\ request \in [Connections -> RequestType]
    /\ connections_ \in [Users -> Connections \cup {NoConnection}]
    /\ open \subseteq Connections
    /\ DOMAIN seen = Connections

Live(s) == phase[s] \notin {"none", "closed"}

(* The two maps and the session contexts never disagree, at any point of any *)
(* handler: a user is routed to s exactly while s is live and the user plays *)
(* in it.  Hence no user is in two live sessions, no input reaches a session *)
(* its sender does not play in, and nobody is left routed to a session that  *)
(* has ended (SubmitInput's second session_not_found is unreachable).  The   *)
(* sessions created so far are those numbered below next_session_id_.        *)
Routing ==
    /\ \A s \in Sessions : phase[s] = "none" <=> s >= next_session_id_
    /\ sessions_ = {s \in Sessions : Live(s)}
    /\ \A u \in Users, s \in Sessions :
          user_to_session_[u] = s <=> Live(s) /\ u \in Participant(s)

(* FinishSession takes its snapshot before it sends session.ended and stores *)
(* the result later: no input that was already on its way may change the     *)
(* simulation of a session that has ended.                                   *)
EndedIsFrozen ==
    [][\A s \in Sessions : Ended(s) => simulation'[s] = simulation[s]]_smVars

(* The stored result is that of the final state: all ticks were played, and  *)
(* the winner has the greatest position, the lower userId winning a draw.    *)
ResultIsFinal ==
    \A s \in DOMAIN records_ :
        LET r == records_[s]
            players == simulation[s].players
        IN  /\ r.snapshot = Snapshot(simulation[s])
            /\ r.tick_count = MaxTicks
            /\ DOMAIN players = {r.user1_id, r.user2_id}
            /\ \A u \in DOMAIN players \ {r.winner_user_id} :
                  \/ players[u].position < players[r.winner_user_id].position
                  \/ /\ players[u].position = players[r.winner_user_id].position
                     /\ r.winner_user_id < u

RatedSessions == {s \in DOMAIN records_ : phase[s] # "rating"}

(* contract.md: when a session ends, exactly one result is recorded.  It is   *)
(* stored and rated before the participants may play again, and the wins and  *)
(* losses of a user count exactly the sessions whose rating step is over.     *)
ResultOnce ==
    /\ DOMAIN records_ = {s \in Sessions : phase[s] \in {"rating", "erasing", "closed"}}
    /\ \A u \in Users :
          /\ GetSummary(entries_, u).wins   = Cardinality({s \in RatedSessions : records_[s].winner_user_id = u})
          /\ GetSummary(entries_, u).losses = Cardinality({s \in RatedSessions : LoserId(records_[s]) = u})

(* contract.md: a connection is sent session.created, session.started, one    *)
(* session.state per tick and session.ended, in this order, without a gap or  *)
(* a repetition, and nothing of a later session before the end of the earlier *)
(* one.  A connection made in the middle of a session starts in the middle.   *)
EventOrder ==
    [][\A c \in Connections :
          LET old == seen[c]
              new == seen'[c]
          IN  old # NoEvent /\ new # NoEvent /\ new # old =>
                \/ new.session = old.session /\ new.rank = old.rank + 1
                \/ new.session > old.session /\ old.rank = EndedRank /\ new.rank = CreatedRank]_smVars

(* Every session that is created runs to its end and is erased.               *)
SessionsEnd == \A s \in Sessions : Live(s) ~> phase[s] = "closed"

(* Every session.input gets an answer: SubmitInput returns.                   *)
InputsAnswered ==
    \A c \in Connections : request[c].answer = "pending" ~> request[c].answer # "pending"

(* contract.md: an input that names a session which has ended is refused.     *)
NamedSessionIsUsed ==
    \A c \in Connections : request[c].answer = "ok" => request[c].named = request[c].session

(* v1.0.0-overview.md: an input for an ended session is refused as            *)
(* session_not_found.  It is not when it was already waiting for the strand.  *)
LateInputNotFound == \A c \in Connections : request[c].answer # "session_closed"
=============================================================================

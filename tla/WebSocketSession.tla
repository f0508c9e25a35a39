-------------------------- MODULE WebSocketSession --------------------------
(***************************************************************************)
(* One WebSocket connection (server/src/websocket_session.cpp): its send   *)
(* queue with the limits on messages and bytes, its reads and its end.     *)
(*                                                                         *)
(* The handlers of the connection itself (Run, OnRead, OnWrite) run on the *)
(* strand of its socket, one at a time: actor "socket".  Session events    *)
(* and queue timeouts are sent through RealtimeCoordinator by the threads  *)
(* that produce them, outside that strand: the actors in Senders.  With    *)
(* Workers = 1 the handlers exclude each other; with more threads          *)
(* EnqueueMessage, which takes no lock, interleaves with itself.  The      *)
(* model interleaves its accesses to the members in the order the code     *)
(* makes them; a real data race may do worse.                              *)
(*                                                                         *)
(* A write that completes and its handler OnWrite are one step.            *)
(***************************************************************************)
EXTENDS Integers, Sequences, FiniteSets, SequencesExt

CONSTANTS
    Senders,                  \* threads that send server events
    Workers,                  \* number of threads running the io_context
    Sizes,                    \* sizes of messages, in bytes
    MaxQueueMessages,         \* max_queue_messages_
    MaxQueueBytes,            \* max_queue_bytes_
    MaxMessages               \* bound on the messages made

ASSUME WebSocketConstants ==
    /\ "socket" \notin Senders /\ IsFiniteSet(Senders)
    /\ Workers \in Nat \ {0}
    /\ Sizes \subseteq Nat \ {0}
    /\ MaxQueueMessages \in Nat /\ MaxQueueBytes \in Nat /\ MaxMessages \in Nat

VARIABLES
    actor,                    \* where each actor is, and its message
    registered,               \* known to RealtimeCoordinator
    reading,                  \* an async_read is outstanding
    send_queue_,
    queued_bytes_,
    writing_,
    closing_,
    inflight,                 \* outstanding async_writes: [message, freed]
    close_op,                 \* the async_close: "none", "pending", "done"
    broken,                   \* the peer is gone or the stream timed out
    made,                     \* number of messages made
    accepted,                 \* history: the messages put into the queue
    wire                      \* history: what was written to the socket

queueVars == <<send_queue_, queued_bytes_, accepted>>
writeVars == <<writing_, inflight, wire>>
wsVars == <<actor, registered, reading, queueVars, writeVars, closing_, close_op, broken, made>>

Actors  == {"socket"} \cup Senders
Idle    == [step |-> "idle"]
Garbage == [kind |-> "garbage"]
Message(kind, size) == [kind |-> kind, size |-> size, number |-> made + 1]

WSInit ==
    /\ actor = [a \in Actors |-> IF a = "socket" THEN [step |-> "run"] ELSE Idle]
    /\ registered = FALSE
    /\ reading = FALSE
    /\ send_queue_ = <<>> /\ queued_bytes_ = 0 /\ accepted = <<>>
    /\ writing_ = FALSE /\ inflight = <<>> /\ wire = <<>>
    /\ closing_ = FALSE /\ close_op = "none"
    /\ broken = FALSE
    /\ made = 0

---------------------------------------------------------------------------
(* Threads, and the lifetime of the object: each outstanding operation and *)
(* each handler holds a shared_ptr; the coordinator holds a weak_ptr.      *)
Busy == {a \in Actors : actor[a].step \notin {"idle", "run"}}

ThreadFree == Cardinality(Busy) < Workers

Alive == reading \/ inflight # <<>> \/ close_op = "pending" \/ Busy # {}

Send(a, message) ==
    /\ actor' = [actor EXCEPT ![a] = [step |-> "enqueue", message |-> message]]
    /\ made' = made + 1

(* A faulty end of a handler: DoRead does not look at closing_.            *)
ReturnAndRead(a) ==
    /\ actor' = [actor EXCEPT ![a] = Idle]
    /\ reading' = IF a = "socket" THEN TRUE ELSE reading

(* The actor's handler returns; Run and OnRead end with DoRead.            *)
Return(a) ==
    /\ actor' = [actor EXCEPT ![a] = Idle]
    /\ reading' = IF a = "socket" THEN ~closing_' ELSE reading

---------------------------------------------------------------------------
(* A faulty Run: auth_state is left to the handler of the first read.      *)
RunAndRead ==
    /\ actor["socket"].step = "run"
    /\ ThreadFree
    /\ registered' = TRUE
    /\ actor' = [actor EXCEPT !["socket"] = Idle]
    /\ reading' = TRUE
    /\ UNCHANGED <<made, queueVars, writeVars, closing_, close_op, broken>>

(* Run: IssueToken (see Reconnect), Register, SendAuthState, DoRead.       *)
Run ==
    /\ actor["socket"].step = "run"
    /\ ThreadFree
    /\ registered' = TRUE
    /\ \E size \in Sizes : Send("socket", Message("auth_state", size))
    /\ UNCHANGED <<reading, queueVars, writeVars, closing_, close_op, broken>>

(* OnRead with a message.  Echo, resync and every error send one message;  *)
(* an accepted session.input sends none.                                   *)
OnRead ==
    /\ reading /\ actor["socket"] = Idle
    /\ ThreadFree
    /\ ~broken /\ ~closing_
    /\ \/ \E size \in Sizes :
             /\ made < MaxMessages
             /\ Send("socket", Message("reply", size))
             /\ reading' = FALSE
       \/ UNCHANGED <<reading, actor, made>>
    /\ UNCHANGED <<registered, queueVars, writeVars, closing_, close_op, broken>>

(* OnRead with an error, or once closing_ is set: no further read.         *)
OnReadEnd ==
    /\ reading /\ actor["socket"] = Idle
    /\ ThreadFree
    /\ broken \/ closing_
    /\ reading' = FALSE
    /\ UNCHANGED <<actor, made, registered, queueVars, writeVars, closing_, close_op, broken>>

(* SendEventToUser and SendErrorToUser: the weak_ptr is locked, and the    *)
(* message sent on the caller's thread.                                    *)
SendServerEvent(a) ==
    /\ actor[a] = Idle
    /\ ThreadFree
    /\ registered /\ Alive
    /\ made < MaxMessages
    /\ \E size \in Sizes : Send(a, Message("event", size))
    /\ UNCHANGED <<registered, reading, queueVars, writeVars, closing_, close_op, broken>>

---------------------------------------------------------------------------
(* A faulty test of the limits: one message too many is let in.            *)
ExceedsByOne(message) ==
    \/ Len(send_queue_) > MaxQueueMessages
    \/ queued_bytes_ + message.size > MaxQueueBytes

(* EnqueueMessage: the test of closing_ and of the limits, ...             *)
Exceeds(message) ==
    \/ Len(send_queue_) >= MaxQueueMessages
    \/ queued_bytes_ + message.size > MaxQueueBytes

(* A faulty TriggerBackpressureClose: no close frame is sent.              *)
CloseSilently ==
    /\ closing_' = TRUE
    /\ send_queue_' = <<>>
    /\ queued_bytes_' = 0
    /\ inflight' = [i \in DOMAIN inflight |-> [inflight[i] EXCEPT !.freed = TRUE]]
    /\ UNCHANGED close_op

(* The queue is cleared at once, also when its front is being written.     *)
TriggerBackpressureClose ==
    /\ closing_' = TRUE
    /\ send_queue_' = <<>>
    /\ queued_bytes_' = 0
    /\ inflight' = [i \in DOMAIN inflight |-> [inflight[i] EXCEPT !.freed = TRUE]]
    /\ close_op' = "pending"

CheckLimits(a) ==
    /\ actor[a].step = "enqueue"
    /\ \/ /\ closing_
          /\ UNCHANGED <<closing_, send_queue_, queued_bytes_, inflight, close_op>>
          /\ Return(a)
       \/ /\ ~closing_
          /\ Exceeds(actor[a].message)
          /\ TriggerBackpressureClose
          /\ Return(a)
       \/ /\ ~closing_
          /\ ~Exceeds(actor[a].message)
          /\ actor' = [actor EXCEPT ![a].step = "push"]
          /\ UNCHANGED <<closing_, send_queue_, queued_bytes_, inflight, close_op, reading>>
    /\ UNCHANGED <<registered, accepted, writing_, wire, broken, made>>

(* ... the push, ...                                                       *)
Push(a) ==
    /\ actor[a].step = "push"
    /\ send_queue_' = Append(send_queue_, actor[a].message)
    /\ queued_bytes_' = queued_bytes_ + actor[a].message.size
    /\ accepted' = Append(accepted, actor[a].message)
    /\ actor' = [actor EXCEPT ![a] = [step |-> "start"]]
    /\ UNCHANGED <<registered, reading, writeVars, closing_, close_op, broken, made>>

(* A faulty test: by the length of the queue, off by one, not by writing_. *)
TestQueueInstead(a) ==
    /\ actor[a].step = "start"
    /\ UNCHANGED closing_
    /\ \/ Len(send_queue_) > 2 /\ Return(a)
       \/ /\ Len(send_queue_) <= 2
          /\ actor' = [actor EXCEPT ![a] = [step |-> "write"]]
          /\ UNCHANGED reading
    /\ UNCHANGED <<registered, queueVars, writeVars, close_op, broken, made>>

(* ... and the test of writing_.                                           *)
TestWriting(a) ==
    /\ actor[a].step = "start"
    /\ UNCHANGED closing_
    /\ \/ writing_ /\ Return(a)
       \/ /\ ~writing_
          /\ actor' = [actor EXCEPT ![a] = [step |-> "write"]]
          /\ UNCHANGED reading
    /\ UNCHANGED <<registered, queueVars, writeVars, close_op, broken, made>>

(* WriteNext from EnqueueMessage.                                          *)
WriteNext(a) ==
    /\ actor[a].step = "write"
    /\ UNCHANGED closing_
    /\ IF send_queue_ = <<>> \/ closing_
       THEN UNCHANGED <<writing_, inflight>>
       ELSE /\ writing_' = TRUE
            /\ inflight' = Append(inflight, [message |-> Head(send_queue_), freed |-> FALSE])
    /\ Return(a)
    /\ UNCHANGED <<registered, queueVars, wire, close_op, broken, made>>

EnqueueStep(a) == CheckLimits(a) \/ Push(a) \/ TestWriting(a) \/ WriteNext(a)

---------------------------------------------------------------------------
(* Faulty removals of the written message: its size is subtracted even if  *)
(* the queue was cleared; the wrong end is taken.                          *)
PopUnchecked ==
    /\ send_queue_' = IF send_queue_ = <<>> THEN <<>> ELSE Tail(send_queue_)
    /\ queued_bytes_' = queued_bytes_ - Head(inflight).message.size

PopBack ==
    IF send_queue_ = <<>>
    THEN UNCHANGED <<send_queue_, queued_bytes_>>
    ELSE /\ send_queue_' = Front(send_queue_)
         /\ queued_bytes_' = queued_bytes_ - Last(send_queue_).size

(* The front of the queue goes, unless the queue was cleared.              *)
PopFront ==
    IF send_queue_ = <<>>
    THEN UNCHANGED <<send_queue_, queued_bytes_>>
    ELSE /\ send_queue_' = Tail(send_queue_)
         /\ queued_bytes_' = queued_bytes_ - Head(send_queue_).size

(* A faulty end of OnWrite: writing_ is not reset.                         *)
KeepsWritingSet ==
    IF send_queue_' = <<>> \/ closing_
    THEN /\ inflight' = Tail(inflight)
         /\ UNCHANGED writing_
    ELSE /\ writing_' = TRUE
         /\ inflight' = Append(Tail(inflight), [message |-> Head(send_queue_'), freed |-> FALSE])

(* The next write, if there is one to start.                               *)
ContinueWriting ==
    IF send_queue_' = <<>> \/ closing_
    THEN /\ writing_' = FALSE
         /\ inflight' = Tail(inflight)
    ELSE /\ writing_' = TRUE
         /\ inflight' = Append(Tail(inflight), [message |-> Head(send_queue_'), freed |-> FALSE])

(* The oldest write completes and OnWrite runs: the front goes, and the    *)
(* next write starts.  What was read from a buffer freed in the meantime   *)
(* is either what it held or not.                                          *)
OnWrite ==
    /\ inflight # <<>> /\ actor["socket"] = Idle
    /\ ThreadFree
    /\ ~broken
    /\ \E content \in {Head(inflight).message}
                      \cup (IF Head(inflight).freed THEN {Garbage} ELSE {}) :
          wire' = Append(wire, content)
    /\ PopFront
    /\ ContinueWriting
    /\ UNCHANGED <<actor, registered, reading, accepted, closing_, close_op, broken, made>>

(* OnWrite with an error: writing_ stays set, no close is attempted.       *)
OnWriteError ==
    /\ inflight # <<>> /\ actor["socket"] = Idle
    /\ ThreadFree
    /\ broken
    /\ inflight' = Tail(inflight)
    /\ PopFront
    /\ closing_' = TRUE
    /\ UNCHANGED <<actor, registered, reading, accepted, writing_, wire, close_op, broken, made>>

---------------------------------------------------------------------------
(* Beast sends the close frame once no write is in progress; the pending   *)
(* close also ends when the stream breaks.                                 *)
CloseDone ==
    /\ close_op = "pending"
    /\ inflight = <<>> \/ broken
    /\ close_op' = "done"
    /\ UNCHANGED <<actor, registered, reading, queueVars, writeVars, closing_, broken, made>>

(* The peer goes away, or a timeout of the stream expires.                 *)
Break ==
    /\ ~broken
    /\ broken' = TRUE
    /\ UNCHANGED <<actor, registered, reading, queueVars, writeVars, closing_, close_op, made>>

WSNext ==
    \/ Run \/ OnRead \/ OnReadEnd \/ OnWrite \/ OnWriteError \/ CloseDone \/ Break
    \/ \E a \in Senders : SendServerEvent(a)
    \/ \E a \in Actors : EnqueueStep(a)

(* Handlers run to their end, and every outstanding operation completes:   *)
(* the stream's idle timeout ends the ones a silent peer leaves open.      *)
WSFairness ==
    /\ WF_wsVars(Run) /\ WF_wsVars(OnReadEnd) /\ WF_wsVars(CloseDone)
    /\ WF_wsVars(OnWrite \/ OnWriteError)
    /\ \A a \in Actors : WF_wsVars(EnqueueStep(a))

WSSpec == WSInit /\ [][WSNext]_wsVars /\ WSFairness

---------------------------------------------------------------------------
Messages == [kind : {"auth_state", "reply", "event"}, size : Sizes, number : 1 .. MaxMessages + 1]

(* Types; queued_bytes_, an unsigned number in the code, never has to be     *)
(* negative, and only whole messages are queued.                             *)
WSTypeOK ==
    /\ \A a \in Actors : actor[a].step \in {"idle", "run", "enqueue", "push", "start", "write"}
    /\ {registered, reading, writing_, closing_, broken} \subseteq BOOLEAN
    /\ queued_bytes_ \in Nat
    /\ \A i \in DOMAIN send_queue_ : send_queue_[i] \in Messages
    /\ \A i \in DOMAIN wire : wire[i] \in Messages \cup {Garbage}
    /\ close_op \in {"none", "pending", "done"}

(* total is what a count over the queue, message by message, arrives at.     *)
CountsBytes(queue, total) ==
    \E count \in [0 .. Len(queue) -> 0 .. total] :
        /\ count[0] = 0
        /\ count[Len(queue)] = total
        /\ \A i \in 1 .. Len(queue) : count[i] = count[i - 1] + queue[i].size

(* contract.md, back-pressure: the queue never exceeds either limit, and the *)
(* byte count is that of the queue through pushes, completions, clearing and *)
(* failed writes (a size_t that slips below zero would close every           *)
(* connection from then on).                                                 *)
WithinLimits ==
    /\ Len(send_queue_) <= MaxQueueMessages
    /\ queued_bytes_ <= MaxQueueBytes
    /\ CountsBytes(send_queue_, queued_bytes_)

(* contract.md: what the server sends on a connection arrives in order.  To  *)
(* its senders the connection is a Channel: messages accepted into the queue *)
(* reach the client in that order, each once, none is skipped or repeated at *)
(* a full queue, at the limits, or when the queue is cleared under a write   *)
(* in progress, and every one is written unless the connection closes.       *)
Phase == IF ~closing_ THEN "open" ELSE IF inflight # <<>> THEN "closing" ELSE "closed"

Connection == INSTANCE Channel WITH
    Payloads <- Messages,
    MaxTaken <- MaxMessages + 1,
    taken <- accepted,
    delivered <- wire,
    phase <- Phase

ImplementsChannel == Connection!ChannelSpec

(* v0.4.0-backpressure-reconnect.md: once a connection is closing, no further*)
(* read or write is started.                                                 *)
NothingAfterClosing ==
    [][closing_' => /\ reading' => reading
                    /\ \A i \in DOMAIN inflight' : \E j \in DOMAIN inflight :
                          inflight'[i].message = inflight[j].message]_wsVars

(* A connection that exceeded its limit is sent the close frame, if its      *)
(* client is still there, and the object is released.                        *)
BackpressureCloses ==
    /\ closing_ ~> close_op = "done" \/ broken
    /\ closing_ ~> ~Alive

(* v0.5.0-match-session.md: auth_state precedes whatever the coordinator     *)
(* sends.  With two threads it need not: Run registers before it sends.      *)
AuthStateFirst == accepted # <<>> => accepted[1].kind = "auth_state"

(* realtime.cpp: the coordinator delivers server events safely.  A stream    *)
(* admits one write at a time.  With two threads this fails: both may find   *)
(* writing_ false.                                                           *)
OneWriteAtATime == Len(inflight) <= 1

(* contract.md: what is sent is a message envelope the server has built.     *)
WireIsMessages == \A i \in DOMAIN wire : wire[i] # Garbage
=============================================================================

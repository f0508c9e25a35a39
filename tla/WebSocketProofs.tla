-------------------------- MODULE WebSocketProofs --------------------------
(***************************************************************************)
(* Proofs about WebSocketSession, for any senders, sizes and limits.       *)
(*                                                                         *)
(* With any number of threads: types, the count of bytes, and that nothing *)
(* is started once the connection is closing.  With one thread running the *)
(* io_context: both limits, one write at a time, auth_state first, and     *)
(* that every step of a connection is a step of the Channel it promises to *)
(* be, or none.                                                            *)
(*                                                                         *)
(* With one thread a handler that EnqueueMessage is part of is alone, so   *)
(* what it has tested (closing_, the limits, writing_) still holds when it *)
(* acts on it: Alone and Tested.  Lined relates the queue, the write under *)
(* way and the two histories, which no property alone does.                *)
(***************************************************************************)
EXTENDS WebSocketSession, SequenceTheorems, SetInduction

Writes == [message : Messages, freed : BOOLEAN]

ActorStates ==
    {Idle, [step |-> "run"], [step |-> "start"], [step |-> "write"]}
        \cup [step : {"enqueue", "push"}, message : Messages]

Working(a) == actor[a].step \in {"enqueue", "push", "start", "write"}

(* With any number of threads. *)
ActorInv ==
    /\ actor \in [Actors -> ActorStates]
    /\ \A a \in Actors : actor[a].step = "run" => a = "socket"
    /\ registered \in BOOLEAN /\ (registered <=> actor["socket"].step # "run")
    /\ \A a \in Actors : Working(a) => registered
    /\ made \in 0 .. MaxMessages + 1 /\ (~registered => made = 0)

QueueInv ==
    /\ send_queue_ \in Seq(Messages)
    /\ accepted \in Seq(Messages)
    /\ queued_bytes_ \in Nat /\ CountsBytes(send_queue_, queued_bytes_)

WriteInv ==
    /\ reading \in BOOLEAN /\ writing_ \in BOOLEAN /\ closing_ \in BOOLEAN /\ broken \in BOOLEAN
    /\ close_op \in {"none", "pending", "done"}
    /\ inflight \in Seq(Writes)
    /\ wire \in Seq(Messages \cup {Garbage})

TypeInv == ActorInv /\ QueueInv /\ WriteInv

(* With one thread. *)
Alone == \A a, b \in Actors : Working(a) /\ Working(b) => a = b

Tested ==
    \A a \in Actors :
        /\ actor[a].step \in {"push", "start", "write"} => ~closing_
        /\ actor[a].step = "push" => ~Exceeds(actor[a].message)
        /\ actor[a].step = "write" => ~writing_

(* accepted is what was written followed by what is queued; the one write  *)
(* under way is of the front of the queue, or of what was the front when   *)
(* the queue was cleared.                                                  *)
Lined ==
    /\ Len(inflight) <= 1
    /\ inflight # <<>> => writing_
    /\ ~closing_ /\ writing_ => inflight # <<>>
    /\ ~closing_ =>
          /\ Len(accepted) = Len(wire) + Len(send_queue_)
          /\ \A i \in 1 .. Len(send_queue_) : accepted[Len(wire) + i] = send_queue_[i]
    /\ ~closing_ /\ inflight # <<>> =>
          /\ send_queue_ # <<>>
          /\ inflight[1] = [message |-> send_queue_[1], freed |-> FALSE]
    /\ closing_ /\ inflight # <<>> =>
          /\ send_queue_ = <<>>
          /\ Len(wire) < Len(accepted)
          /\ inflight[1].message = accepted[Len(wire) + 1]

(* Until the connection has taken its first message, the thread is sending *)
(* it auth_state.                                                          *)
First ==
    /\ AuthStateFirst
    /\ accepted = <<>> /\ ~closing_ =>
          /\ registered => \E a \in Actors : Working(a)
          /\ \A a \in Actors : Working(a) =>
                /\ actor[a].step \in {"enqueue", "push"}
                /\ actor[a].message.kind = "auth_state"

Limited == Len(send_queue_) <= MaxQueueMessages /\ queued_bytes_ <= MaxQueueBytes

IInv == TypeInv /\ Alone /\ Tested /\ Lined /\ First /\ Limited

---------------------------------------------------------------------------
(* The count of bytes.  Messages have positive sizes. *)
LEMMA SizesAreNatural == \A m \in Messages : m.size \in Nat
BY WebSocketConstants DEF Messages

(* The empty queue. *)
LEMMA CountEmpty == CountsBytes(<<>>, 0)
<1> DEFINE count == [i \in 0 .. Len(<<>>) |-> 0]
<1>1. count \in [0 .. Len(<<>>) -> 0 .. 0] /\ count[0] = 0 /\ count[Len(<<>>)] = 0
  OBVIOUS
<1>2. 1 .. Len(<<>>) = {}
  OBVIOUS
<1> HIDE DEF count
<1>3. QED BY <1>1, <1>2 DEF CountsBytes

(* A message more. *)
LEMMA CountAppend ==
    ASSUME NEW queue \in Seq(Messages), NEW total \in Nat, CountsBytes(queue, total),
           NEW message \in Messages
    PROVE  CountsBytes(Append(queue, message), total + message.size)
<1> DEFINE n == Len(queue)
           longer == Append(queue, message)
           grown == total + message.size
<1>1. PICK count \in [0 .. n -> 0 .. total] :
         count[0] = 0 /\ count[n] = total /\ \A i \in 1 .. n : count[i] = count[i - 1] + queue[i].size
  BY DEF CountsBytes
<1>2. /\ n \in Nat /\ Len(longer) = n + 1 /\ longer[n + 1] = message
      /\ \A i \in 1 .. n : longer[i] = queue[i]
  BY LenProperties, AppendProperties
<1>3. message.size \in Nat /\ grown \in Nat
  BY SizesAreNatural
<1> DEFINE next == [i \in 0 .. n + 1 |-> IF i = n + 1 THEN grown ELSE count[i]]
<1>4. next \in [0 .. n + 1 -> 0 .. grown] /\ next[0] = 0 /\ next[n + 1] = grown
  BY <1>1, <1>2, <1>3
<1>5. \A i \in 1 .. n + 1 : next[i] = next[i - 1] + longer[i].size
  BY <1>1, <1>2, <1>3
<1> HIDE DEF next, longer, grown
<1>6. next \in [0 .. Len(longer) -> 0 .. grown] /\ next[Len(longer)] = grown
  BY <1>2, <1>4
<1>7. \A i \in 1 .. Len(longer) : next[i] = next[i - 1] + longer[i].size
  BY <1>2, <1>5
<1>8. QED BY <1>4, <1>6, <1>7 DEF CountsBytes, longer, grown

(* The front message less: the count never falls below its size.           *)
LEMMA CountTail ==
    ASSUME NEW queue \in Seq(Messages), queue # <<>>, NEW total \in Nat, CountsBytes(queue, total)
    PROVE  /\ total - Head(queue).size \in Nat
           /\ CountsBytes(Tail(queue), total - Head(queue).size)
<1> DEFINE n == Len(queue)
           size == queue[1].size
           shorter == Tail(queue)
           shrunk == total - size
<1>1. PICK count \in [0 .. n -> 0 .. total] :
         count[0] = 0 /\ count[n] = total /\ \A i \in 1 .. n : count[i] = count[i - 1] + queue[i].size
  BY DEF CountsBytes
<1>2. /\ n \in Nat \ {0} /\ Len(shorter) = n - 1 /\ Head(queue) = queue[1]
      /\ \A i \in 1 .. n - 1 : shorter[i] = queue[i + 1]
  BY EmptySeq, LenProperties, HeadTailProperties
<1>3. \A i \in 1 .. n : queue[i].size \in Nat
  BY ElementOfSeq, SizesAreNatural
<1>4. size \in Nat /\ count[1] = size
  BY <1>1, <1>2, <1>3
<1>5. \A i \in 0 .. n - 1 : count[i + 1] >= size
  <2> DEFINE T == {i \in Nat : i <= n - 1 => count[i + 1] >= size}
  <2>1. 0 \in T
    BY <1>4
  <2>2. ASSUME NEW i \in 0 .. n - 1, i \in T, i < n - 1
        PROVE  i + 1 \in T
    <3>1. count[i + 1] >= size /\ i + 2 \in 1 .. n
      BY <1>2, <2>2
    <3>2. count[i + 2] = count[i + 1] + queue[i + 2].size
      BY <1>1, <1>2, <3>1
    <3>3. count[i + 1] \in Nat /\ queue[i + 2].size \in Nat
      BY <1>1, <1>2, <1>3, <2>2, <3>1
    <3>4. count[i + 2] >= size
      BY <1>4, <3>1, <3>2, <3>3
    <3>5. QED BY <3>4
  <2> HIDE DEF T
  <2>3. 0 .. n - 1 \subseteq T
    <3>1. n - 1 \in Nat
      BY <1>2
    <3>2. QED BY <2>1, <2>2, <3>1, IntervalInduction
  <2>4. QED BY <2>3 DEF T
<1>6. shrunk \in Nat
  <2>1. count[(n - 1) + 1] >= size /\ (n - 1) + 1 = n
    BY <1>2, <1>5
  <2>2. QED BY <1>1, <1>4, <2>1
<1> DEFINE next == [i \in 0 .. n - 1 |-> count[i + 1] - size]
<1>7. next \in [0 .. n - 1 -> 0 .. shrunk]
  <2>1. \A i \in 0 .. n - 1 : count[i + 1] \in 0 .. total
    BY <1>1, <1>2
  <2>2. \A i \in 0 .. n - 1 : count[i + 1] - size \in 0 .. shrunk
    BY <1>4, <1>5, <1>6, <2>1
  <2>3. QED BY <2>2
<1>8. next[0] = 0 /\ next[n - 1] = shrunk
  BY <1>1, <1>2, <1>4
<1>9. \A i \in 1 .. n - 1 : next[i] = next[i - 1] + shorter[i].size
  <2>1. SUFFICES ASSUME NEW i \in 1 .. n - 1
                 PROVE  next[i] = next[i - 1] + shorter[i].size
    OBVIOUS
  <2>2. i + 1 \in 1 .. n /\ i - 1 \in 0 .. n - 1 /\ i \in 0 .. n - 1 /\ (i + 1) - 1 = i /\ (i - 1) + 1 = i
    BY <1>2
  <2>3. count[i + 1] = count[i] + shorter[i].size
    BY <1>1, <1>2, <2>2
  <2>4. count[i] \in Nat /\ count[i + 1] \in Nat /\ shorter[i].size \in Nat
    BY <1>1, <1>2, <1>3, <2>2
  <2>5. next[i] = count[i + 1] - size /\ next[i - 1] = count[i] - size
    BY <2>2
  <2>6. QED BY <1>4, <2>3, <2>4, <2>5
<1> HIDE DEF next, shorter, shrunk
<1>10. /\ next \in [0 .. Len(shorter) -> 0 .. shrunk] /\ next[Len(shorter)] = shrunk
       /\ \A i \in 1 .. Len(shorter) : next[i] = next[i - 1] + shorter[i].size
  BY <1>2, <1>7, <1>8, <1>9
<1>11. CountsBytes(shorter, shrunk)
  BY <1>8, <1>10 DEF CountsBytes
<1>12. QED BY <1>2, <1>6, <1>11 DEF shorter, shrunk

---------------------------------------------------------------------------
(* Types.  A message made is one of Messages while the bound has room.     *)
LEMMA MessageMade ==
    ASSUME made \in 0 .. MaxMessages, NEW kind \in {"auth_state", "reply", "event"}, NEW size \in Sizes
    PROVE  Message(kind, size) \in Messages /\ made + 1 \in 0 .. MaxMessages + 1
<1>1. made + 1 \in 1 .. MaxMessages + 1 /\ made + 1 \in 0 .. MaxMessages + 1
  BY WebSocketConstants
<1>2. QED BY <1>1 DEF Message, Messages

(* One actor moves on within its handler. *)
LEMMA ActorMoves ==
    ASSUME ActorInv, NEW a \in Actors, registered, NEW s \in ActorStates, s.step # "run",
           actor[a].step # "run", actor' = [actor EXCEPT ![a] = s], UNCHANGED registered,
           made' \in 0 .. MaxMessages + 1
    PROVE  ActorInv'
<1>1. actor' \in [Actors -> ActorStates]
  BY DEF ActorInv
<1>2. \A b \in Actors : actor'[b] = IF b = a THEN s ELSE actor[b]
  BY DEF ActorInv
<1>3. "socket" \in Actors
  BY DEF Actors
<1>4. QED BY <1>1, <1>2, <1>3 DEF ActorInv, Working

(* An actor's message, if it has one. *)
LEMMA ActorMessage ==
    ASSUME ActorInv, NEW a \in Actors
    PROVE  /\ actor[a].step \in {"enqueue", "push"} => actor[a].message \in Messages
           /\ actor[a].step \in {"enqueue", "push"} =>
                 actor[a] = [step |-> actor[a].step, message |-> actor[a].message]
           /\ actor[a].step \in {"idle", "run", "enqueue", "push", "start", "write"}
<1>1. actor[a] \in ActorStates
  BY DEF ActorInv
<1>2. QED BY <1>1 DEF ActorStates, Idle

(* Idle and Return's effect on the actors. *)
LEMMA ActorReturns ==
    ASSUME ActorInv, NEW a \in Actors, Working(a), actor' = [actor EXCEPT ![a] = Idle],
           UNCHANGED <<registered, made>>
    PROVE  ActorInv'
<1>1. Idle \in ActorStates /\ Idle.step # "run" /\ actor[a].step # "run" /\ registered
  BY DEF ActorStates, Idle, Working, ActorInv
<1>2. made' \in 0 .. MaxMessages + 1
  BY DEF ActorInv
<1> HIDE DEF ActorInv
<1>3. QED BY <1>1, <1>2, ActorMoves

(* Run. *)
LEMMA RunActors ==
    ASSUME ActorInv, Run
    PROVE  ActorInv'
<1>1. PICK size \in Sizes : Send("socket", Message("auth_state", size))
  BY DEF Run
<1> DEFINE m == Message("auth_state", size)
           s == [step |-> "enqueue", message |-> m]
<1>2. "socket" \in Actors /\ actor["socket"].step = "run" /\ registered' = TRUE
  BY DEF Actors, Run
<1>3. made = 0 /\ made \in 0 .. MaxMessages
  BY <1>2, WebSocketConstants DEF ActorInv
<1>4. m \in Messages /\ made' \in 0 .. MaxMessages + 1
  BY <1>1, <1>3, MessageMade DEF Send
<1>5. s \in ActorStates /\ s.step = "enqueue"
  BY <1>4 DEF ActorStates
<1>6. actor' = [actor EXCEPT !["socket"] = s]
  BY <1>1 DEF Send
<1> HIDE DEF s
<1>7. \A b \in Actors : actor'[b] = IF b = "socket" THEN s ELSE actor[b]
  BY <1>6 DEF ActorInv
<1>8. actor' \in [Actors -> ActorStates]
  BY <1>2, <1>5, <1>6 DEF ActorInv
<1>9. QED BY <1>2, <1>4, <1>5, <1>7, <1>8 DEF ActorInv

(* A message is made by an idle actor. *)
LEMMA SendActors ==
    ASSUME ActorInv, NEW a \in Actors, actor[a] = Idle, registered, made < MaxMessages,
           NEW kind \in {"reply", "event"}, NEW size \in Sizes, Send(a, Message(kind, size)),
           UNCHANGED registered
    PROVE  ActorInv'
<1> DEFINE m == Message(kind, size)
           s == [step |-> "enqueue", message |-> m]
<1>1. made \in 0 .. MaxMessages /\ actor[a].step # "run"
  BY WebSocketConstants DEF ActorInv, Idle
<1>2. m \in Messages /\ made' \in 0 .. MaxMessages + 1
  BY <1>1, MessageMade DEF Send
<1>3. s \in ActorStates /\ s.step # "run" /\ actor' = [actor EXCEPT ![a] = s]
  BY <1>2 DEF ActorStates, Send
<1> HIDE DEF s, ActorInv
<1>4. QED BY <1>1, <1>2, <1>3, ActorMoves

(* Marking the buffers under way as freed. *)
LEMMA Freeing ==
    ASSUME inflight \in Seq(Writes),
           inflight' = [i \in DOMAIN inflight |-> [inflight[i] EXCEPT !.freed = TRUE]]
    PROVE  /\ inflight' \in Seq(Writes) /\ Len(inflight') = Len(inflight)
           /\ \A i \in 1 .. Len(inflight) : inflight'[i].message = inflight[i].message
<1> DEFINE n == Len(inflight)
<1>1. n \in Nat /\ DOMAIN inflight = 1 .. n /\ \A i \in 1 .. n : inflight[i] \in Writes
  BY LenProperties, ElementOfSeq
<1>2. \A w \in Writes : [w EXCEPT !.freed = TRUE] \in Writes /\ [w EXCEPT !.freed = TRUE].message = w.message
  BY DEF Writes
<1> HIDE DEF Writes
<1>3. /\ inflight' \in [1 .. n -> Writes]
      /\ \A i \in 1 .. n : inflight'[i].message = inflight[i].message
  BY <1>1, <1>2
<1>4. inflight' \in Seq(Writes)
  BY <1>1, <1>3, SeqDef
<1>5. Len(inflight') = n
  BY <1>1, <1>3, <1>4, LenProperties
<1>6. QED BY <1>3, <1>4, <1>5

(* Starting a write of the front of a queue. *)
LEMMA Starting ==
    ASSUME NEW pending \in Seq(Writes), NEW queue \in Seq(Messages), queue # <<>>,
           inflight' = Append(pending, [message |-> Head(queue), freed |-> FALSE])
    PROVE  inflight' \in Seq(Writes)
<1>1. Head(queue) \in Messages
  BY HeadTailProperties
<1>2. [message |-> Head(queue), freed |-> FALSE] \in Writes
  BY <1>1 DEF Writes
<1>3. QED BY <1>2, AppendProperties

(* The front of the queue goes. *)
LEMMA PopFrontQueue ==
    ASSUME QueueInv, PopFront, UNCHANGED accepted
    PROVE  QueueInv'
<1>1. CASE send_queue_ = <<>>
  BY <1>1 DEF PopFront, QueueInv
<1>2. CASE send_queue_ # <<>>
  <2>1. Tail(send_queue_) \in Seq(Messages)
    BY <1>2, HeadTailProperties DEF QueueInv
  <2>2. /\ queued_bytes_ - Head(send_queue_).size \in Nat
        /\ CountsBytes(Tail(send_queue_), queued_bytes_ - Head(send_queue_).size)
    BY <1>2, CountTail DEF QueueInv
  <2>3. send_queue_' = Tail(send_queue_) /\ queued_bytes_' = queued_bytes_ - Head(send_queue_).size
    BY <1>2 DEF PopFront
  <2>4. CountsBytes(send_queue_', queued_bytes_')
    BY <2>2, <2>3
  <2>5. QED BY <2>1, <2>2, <2>3, <2>4 DEF QueueInv, CountsBytes
<1>3. QED BY <1>1, <1>2

(* The steps of EnqueueMessage. *)
LEMMA CheckLimitsTypes ==
    ASSUME TypeInv, NEW a \in Actors, CheckLimits(a)
    PROVE  TypeInv'
<1>1. /\ actor[a].step = "enqueue" /\ Working(a) /\ "socket" \in Actors
      /\ UNCHANGED <<registered, accepted, writing_, wire, broken, made>>
  BY DEF CheckLimits, Working, Actors
<1>2. CASE closing_ /\ UNCHANGED <<closing_, send_queue_, queued_bytes_, inflight, close_op>> /\ Return(a)
  <2>1. ActorInv'
    BY <1>1, <1>2, ActorReturns DEF TypeInv, Return
  <2>2. QueueInv' /\ WriteInv'
    BY <1>1, <1>2 DEF TypeInv, QueueInv, CountsBytes, WriteInv, Return
  <2>3. QED BY <2>1, <2>2 DEF TypeInv
<1>3. CASE TriggerBackpressureClose /\ Return(a)
  <2>1. ActorInv'
    BY <1>1, <1>3, ActorReturns DEF TypeInv, Return
  <2>2. QueueInv'
    <3>1. <<>> \in Seq(Messages) /\ CountsBytes(<<>>, 0) /\ send_queue_' = <<>> /\ queued_bytes_' = 0
      BY <1>3, CountEmpty DEF TriggerBackpressureClose
    <3>2. CountsBytes(send_queue_', queued_bytes_')
      BY <3>1
    <3>3. QED BY <1>1, <3>1, <3>2 DEF TypeInv, QueueInv, CountsBytes
  <2>3. WriteInv'
    <3>1. inflight' \in Seq(Writes)
      BY <1>3, Freeing DEF TypeInv, WriteInv, TriggerBackpressureClose
    <3>2. QED BY <1>1, <1>3, <3>1 DEF TypeInv, WriteInv, TriggerBackpressureClose, Return, Writes
  <2>4. QED BY <2>1, <2>2, <2>3 DEF TypeInv
<1>4. CASE /\ actor' = [actor EXCEPT ![a].step = "push"]
           /\ UNCHANGED <<closing_, send_queue_, queued_bytes_, inflight, close_op, reading>>
  <2> DEFINE s == [step |-> "push", message |-> actor[a].message]
  <2>1. /\ actor[a].message \in Messages
        /\ actor[a] = [step |-> actor[a].step, message |-> actor[a].message]
    BY <1>1, ActorMessage DEF TypeInv
  <2>2. s \in ActorStates /\ s.step # "run" /\ [actor[a] EXCEPT !.step = "push"] = s
    BY <2>1 DEF ActorStates
  <2>3. actor' = [actor EXCEPT ![a] = s]
    BY <1>4, <2>2 DEF TypeInv, ActorInv
  <2> HIDE DEF s
  <2>4. made' \in 0 .. MaxMessages + 1 /\ registered
    BY <1>1 DEF TypeInv, ActorInv
  <2>5. ActorInv'
    BY <1>1, <2>2, <2>3, <2>4, ActorMoves DEF TypeInv
  <2>6. QueueInv' /\ WriteInv'
    BY <1>1, <1>4 DEF TypeInv, QueueInv, CountsBytes, WriteInv
  <2>7. QED BY <2>5, <2>6 DEF TypeInv
<1>5. QED BY <1>2, <1>3, <1>4 DEF CheckLimits

(* The push. *)
LEMMA PushTypes ==
    ASSUME TypeInv, NEW a \in Actors, Push(a)
    PROVE  TypeInv'
<1> DEFINE m == actor[a].message
<1>1. m \in Messages /\ actor[a].step = "push" /\ actor[a].step # "run" /\ registered
  BY ActorMessage DEF TypeInv, ActorInv, Working, Push
<1>2. [step |-> "start"] \in ActorStates /\ made' \in 0 .. MaxMessages + 1 /\ UNCHANGED registered
  BY DEF ActorStates, TypeInv, ActorInv, Push
<1>3. ActorInv'
  BY <1>1, <1>2, ActorMoves DEF TypeInv, Push
<1> HIDE DEF m
<1>4. QueueInv'
  <2>1. send_queue_' = Append(send_queue_, m) /\ accepted' = Append(accepted, m) /\ queued_bytes_' = queued_bytes_ + m.size
    BY DEF Push, m
  <2>2. send_queue_' \in Seq(Messages) /\ accepted' \in Seq(Messages)
    BY <1>1, <2>1, AppendProperties DEF TypeInv, QueueInv
  <2>3. CountsBytes(Append(send_queue_, m), queued_bytes_ + m.size)
    BY <1>1, CountAppend DEF TypeInv, QueueInv
  <2>4. queued_bytes_' \in Nat
    BY <1>1, <2>1, SizesAreNatural DEF TypeInv, QueueInv
  <2>5. CountsBytes(send_queue_', queued_bytes_')
    BY <2>1, <2>3
  <2>6. QED BY <2>2, <2>4, <2>5 DEF QueueInv, CountsBytes
<1>5. WriteInv'
  BY DEF TypeInv, WriteInv, Push, writeVars
<1>6. QED BY <1>3, <1>4, <1>5 DEF TypeInv

(* The test of writing_, and the start of a write. *)
LEMMA TestWritingTypes ==
    ASSUME TypeInv, NEW a \in Actors, TestWriting(a)
    PROVE  TypeInv'
<1>1. actor[a].step = "start" /\ actor[a].step # "run" /\ Working(a) /\ registered
      /\ UNCHANGED <<registered, made>>
  BY DEF TestWriting, Working, TypeInv, ActorInv
<1>2. ActorInv'
  <2>1. CASE Return(a)
    BY <1>1, <2>1, ActorReturns DEF TypeInv, Return
  <2>2. CASE actor' = [actor EXCEPT ![a] = [step |-> "write"]]
    <3>1. [step |-> "write"] \in ActorStates /\ made' \in 0 .. MaxMessages + 1
      BY <1>1 DEF ActorStates, TypeInv, ActorInv
    <3>2. QED BY <1>1, <2>2, <3>1, ActorMoves DEF TypeInv
  <2>3. QED BY <2>1, <2>2 DEF TestWriting
<1>3. QueueInv' /\ WriteInv'
  BY DEF TypeInv, QueueInv, CountsBytes, WriteInv, TestWriting, Return, queueVars, writeVars
<1>4. QED BY <1>2, <1>3 DEF TypeInv

(* WriteNext. *)
LEMMA WriteNextTypes ==
    ASSUME TypeInv, NEW a \in Actors, WriteNext(a)
    PROVE  TypeInv'
<1>1. Working(a) /\ Return(a) /\ UNCHANGED <<registered, queueVars, wire, close_op, broken, made, closing_>>
  BY DEF WriteNext, Working
<1>2. ActorInv'
  BY <1>1, ActorReturns DEF TypeInv, Return
<1>3. QueueInv'
  BY <1>1 DEF TypeInv, QueueInv, CountsBytes, queueVars
<1>4. inflight' \in Seq(Writes) /\ writing_' \in BOOLEAN
  BY Starting DEF TypeInv, WriteInv, QueueInv, WriteNext
<1>5. WriteInv'
  BY <1>1, <1>4 DEF TypeInv, WriteInv, Return, Writes
<1>6. QED BY <1>2, <1>3, <1>5 DEF TypeInv

(* The completion of a write, in order or in error. *)
LEMMA OnWriteTypes ==
    ASSUME TypeInv, OnWrite \/ OnWriteError
    PROVE  TypeInv'
<1>1. /\ inflight # <<>> /\ PopFront /\ UNCHANGED accepted
      /\ UNCHANGED <<actor, registered, reading, close_op, broken, made>>
  BY DEF OnWrite, OnWriteError
<1>2. QueueInv'
  BY <1>1, PopFrontQueue DEF TypeInv
<1>3. Tail(inflight) \in Seq(Writes) /\ Head(inflight).message \in Messages
  <2>1. inflight \in Seq(Writes)
    BY DEF TypeInv, WriteInv
  <2>2. Tail(inflight) \in Seq(Writes) /\ Head(inflight) \in Writes
    BY <1>1, <2>1, HeadTailProperties
  <2>3. QED BY <2>2 DEF Writes
<1>4. inflight' \in Seq(Writes) /\ writing_' \in BOOLEAN /\ closing_' \in BOOLEAN
  <2>1. CASE OnWrite
    <3>1. ContinueWriting /\ closing_' = closing_
      BY <2>1 DEF OnWrite
    <3>2. inflight' \in Seq(Writes)
      BY <1>2, <1>3, <3>1, Starting DEF QueueInv, ContinueWriting
    <3>3. QED BY <3>1, <3>2 DEF ContinueWriting, TypeInv, WriteInv
  <2>2. CASE OnWriteError
    BY <1>3, <2>2 DEF OnWriteError, TypeInv, WriteInv
  <2>3. QED BY <2>1, <2>2, <1>1
<1>5. wire' \in Seq(Messages \cup {Garbage})
  <2>1. wire \in Seq(Messages \cup {Garbage})
    BY DEF TypeInv, WriteInv
  <2>2. CASE OnWrite
    <3>1. PICK content \in Messages \cup {Garbage} : wire' = Append(wire, content)
      BY <1>3, <2>2 DEF OnWrite
    <3>2. QED BY <2>1, <3>1, AppendProperties
  <2>3. CASE OnWriteError
    BY <2>1, <2>3 DEF OnWriteError
  <2>4. QED BY <2>2, <2>3
<1>6. ActorInv' /\ WriteInv'
  BY <1>1, <1>4, <1>5 DEF TypeInv, ActorInv, Working, WriteInv, Writes
<1>7. QED BY <1>2, <1>6 DEF TypeInv

(* The initial state. *)
LEMMA InitTypes == WSInit => TypeInv
<1> SUFFICES ASSUME WSInit PROVE TypeInv
  OBVIOUS
<1>1. "socket" \in Actors
  BY DEF Actors
<1>2. actor \in [Actors -> ActorStates]
  BY DEF WSInit, ActorStates
<1>3. ActorInv
  <2>1. \A a \in Actors : actor[a].step = IF a = "socket" THEN "run" ELSE "idle"
    BY DEF WSInit, Idle
  <2>2. made = 0 /\ registered = FALSE /\ 0 \in 0 .. MaxMessages + 1
    BY WebSocketConstants DEF WSInit
  <2>3. QED BY <1>1, <1>2, <2>1, <2>2 DEF ActorInv, Working
<1>4. /\ <<>> \in Seq(Messages) /\ <<>> \in Seq(Writes) /\ <<>> \in Seq(Messages \cup {Garbage})
      /\ CountsBytes(<<>>, 0)
  BY CountEmpty
<1>5. QueueInv /\ WriteInv
  BY <1>4 DEF QueueInv, WriteInv, WSInit
<1>6. QED BY <1>3, <1>5 DEF TypeInv

(* Every step. *)
LEMMA TypesKept == TypeInv /\ [WSNext]_wsVars => TypeInv'
<1> SUFFICES ASSUME TypeInv, [WSNext]_wsVars PROVE TypeInv'
  OBVIOUS
<1>1. ASSUME UNCHANGED <<actor, registered, made>>, UNCHANGED queueVars, UNCHANGED <<writeVars, closing_>>,
             reading' \in BOOLEAN, broken' \in BOOLEAN, close_op' \in {"none", "pending", "done"}
      PROVE  TypeInv'
  BY <1>1 DEF TypeInv, ActorInv, Working, QueueInv, CountsBytes, WriteInv, queueVars, writeVars
<1>2. ASSUME ActorInv', UNCHANGED queueVars, UNCHANGED writeVars, UNCHANGED <<closing_, close_op, broken>>,
             reading' \in BOOLEAN
      PROVE  TypeInv'
  BY <1>2 DEF TypeInv, QueueInv, CountsBytes, WriteInv, queueVars, writeVars
<1>3. reading \in BOOLEAN /\ broken \in BOOLEAN /\ close_op \in {"none", "pending", "done"} /\ "socket" \in Actors
  BY DEF TypeInv, WriteInv, Actors
<1>4. CASE Run
  BY <1>2, <1>3, <1>4, RunActors DEF Run, TypeInv
<1>5. CASE OnRead
  <2>1. registered
    BY <1>3, <1>5 DEF OnRead, TypeInv, ActorInv, Idle
  <2>2. CASE UNCHANGED <<reading, actor, made>>
    BY <1>1, <1>3, <1>5, <2>2 DEF OnRead
  <2>3. CASE \E size \in Sizes : made < MaxMessages /\ Send("socket", Message("reply", size)) /\ reading' = FALSE
    <3>1. PICK size \in Sizes : made < MaxMessages /\ Send("socket", Message("reply", size))
      BY <2>3
    <3>2. actor["socket"] = Idle /\ UNCHANGED registered
      BY <1>5 DEF OnRead
    <3>3. ActorInv'
      BY <1>3, <2>1, <3>1, <3>2, SendActors DEF TypeInv
    <3>4. QED BY <1>2, <1>5, <2>3, <3>3 DEF OnRead
  <2>4. QED BY <1>5, <2>2, <2>3 DEF OnRead
<1>6. CASE OnReadEnd
  BY <1>1, <1>3, <1>6 DEF OnReadEnd
<1>7. CASE CloseDone
  BY <1>1, <1>3, <1>7 DEF CloseDone
<1>8. CASE Break
  BY <1>1, <1>3, <1>8 DEF Break
<1>9. ASSUME NEW a \in Senders, SendServerEvent(a) PROVE TypeInv'
  <2>1. PICK size \in Sizes : made < MaxMessages /\ Send(a, Message("event", size))
    BY <1>9 DEF SendServerEvent
  <2>2. a \in Actors /\ actor[a] = Idle /\ registered /\ UNCHANGED registered
    BY <1>9 DEF SendServerEvent, Actors
  <2>3. ActorInv'
    BY <2>1, <2>2, SendActors DEF TypeInv
  <2>4. QED BY <1>2, <1>3, <1>9, <2>3 DEF SendServerEvent
<1>10. ASSUME NEW a \in Actors, EnqueueStep(a) PROVE TypeInv'
  BY <1>10, CheckLimitsTypes, PushTypes, TestWritingTypes, WriteNextTypes DEF EnqueueStep
<1>11. CASE UNCHANGED wsVars
  BY <1>1, <1>3, <1>11 DEF wsVars
<1>12. QED BY <1>4, <1>5, <1>6, <1>7, <1>8, <1>9, <1>10, <1>11, OnWriteTypes DEF WSNext

(* Types, with any number of threads: the byte count never has to go below *)
(* zero, and what is queued and written is a whole message (or, written,   *)
(* what was left of one).                                                  *)
THEOREM TypeCorrect == WSSpec => []WSTypeOK
<1>1. WSSpec => []TypeInv
  BY InitTypes, TypesKept, PTL DEF WSSpec
<1>2. TypeInv => WSTypeOK
  <2> SUFFICES ASSUME TypeInv PROVE WSTypeOK
    OBVIOUS
  <2>1. \A a \in Actors : actor[a].step \in {"idle", "run", "enqueue", "push", "start", "write"}
    BY ActorMessage DEF TypeInv
  <2>2. \A i \in DOMAIN send_queue_ : send_queue_[i] \in Messages
    BY LenProperties, ElementOfSeq DEF TypeInv, QueueInv
  <2>3. \A i \in DOMAIN wire : wire[i] \in Messages \cup {Garbage}
    BY LenProperties, ElementOfSeq DEF TypeInv, WriteInv
  <2>4. QED BY <2>1, <2>2, <2>3 DEF TypeInv, ActorInv, QueueInv, WriteInv, WSTypeOK
<1>3. QED BY <1>1, <1>2, PTL

(* The byte count is that of the queue, with any number of threads. *)
THEOREM BytesCounted == WSSpec => []CountsBytes(send_queue_, queued_bytes_)
<1>1. WSSpec => []TypeInv
  BY InitTypes, TypesKept, PTL DEF WSSpec
<1>2. TypeInv => CountsBytes(send_queue_, queued_bytes_)
  BY DEF TypeInv, QueueInv
<1>3. QED BY <1>1, <1>2, PTL

---------------------------------------------------------------------------
(* Once the connection is closing, no step starts a read or a write, with  *)
(* any number of threads.                                                  *)
THEOREM ClosingStartsNothing == WSSpec => NothingAfterClosing
<1> DEFINE Same == \A i \in DOMAIN inflight' : \E j \in DOMAIN inflight :
                      inflight'[i].message = inflight[j].message
           Quiet == closing_' => (reading' => reading) /\ Same
<1>1. TypeInv /\ [WSNext]_wsVars => Quiet
  <2> SUFFICES ASSUME TypeInv, [WSNext]_wsVars PROVE Quiet
    OBVIOUS
  <2>1. ASSUME UNCHANGED inflight PROVE Same
    BY <2>1
  <2>2. ASSUME NEW a \in Actors, Return(a) PROVE closing_' => (reading' => reading)
    BY <2>2 DEF Return
  <2>3. inflight \in Seq(Writes) /\ DOMAIN inflight = 1 .. Len(inflight)
    BY LenProperties DEF TypeInv, WriteInv
  <2>4. ASSUME inflight # <<>>, inflight' = Tail(inflight) PROVE Same
    <3>1. /\ Tail(inflight) \in Seq(Writes) /\ Len(Tail(inflight)) = Len(inflight) - 1
          /\ \A i \in 1 .. Len(Tail(inflight)) : Tail(inflight)[i] = inflight[i + 1]
      BY <2>3, <2>4, HeadTailProperties
    <3>2. DOMAIN inflight' = 1 .. Len(inflight) - 1 /\ Len(inflight) \in Nat
      BY <2>3, <2>4, <3>1, LenProperties
    <3>3. SUFFICES ASSUME NEW i \in 1 .. Len(inflight) - 1
                   PROVE  \E j \in DOMAIN inflight : inflight'[i].message = inflight[j].message
      BY <3>2
    <3>4. i + 1 \in DOMAIN inflight /\ inflight'[i] = inflight[i + 1]
      BY <2>3, <2>4, <3>1, <3>2
    <3>5. QED BY <3>4
  <2>5. ASSUME NEW a \in Actors, EnqueueStep(a) PROVE Quiet
    <3>1. CASE CheckLimits(a)
      <4>1. CASE TriggerBackpressureClose /\ Return(a)
        <5>1. /\ inflight' \in Seq(Writes) /\ Len(inflight') = Len(inflight)
              /\ \A i \in 1 .. Len(inflight) : inflight'[i].message = inflight[i].message
          BY <2>3, <4>1, Freeing DEF TriggerBackpressureClose
        <5>2. DOMAIN inflight' = 1 .. Len(inflight)
          BY <5>1, LenProperties
        <5>3. Same
          BY <2>3, <5>1, <5>2
        <5>4. QED BY <2>2, <4>1, <5>3
      <4>2. CASE ~closing_ /\ UNCHANGED <<closing_, inflight, reading>>
        BY <4>2
      <4>3. CASE closing_ /\ UNCHANGED inflight /\ Return(a)
        BY <2>1, <2>2, <4>3
      <4>4. QED BY <3>1, <4>1, <4>2, <4>3 DEF CheckLimits
    <3>2. CASE Push(a)
      BY <2>1, <3>2 DEF Push, writeVars
    <3>3. CASE TestWriting(a)
      BY <2>1, <2>2, <3>3 DEF TestWriting, writeVars
    <3>4. CASE WriteNext(a)
      BY <2>1, <2>2, <3>4 DEF WriteNext
    <3>5. QED BY <2>5, <3>1, <3>2, <3>3, <3>4 DEF EnqueueStep
  <2>6. CASE OnWrite
    <3>1. CASE closing_
      BY <2>4, <2>6, <3>1 DEF OnWrite, ContinueWriting
    <3>2. CASE ~closing_
      BY <2>6, <3>2 DEF OnWrite
    <3>3. QED BY <3>1, <3>2
  <2>7. CASE OnWriteError
    BY <2>4, <2>7 DEF OnWriteError
  <2>8. CASE Run
    BY <2>1, <2>8 DEF Run, writeVars
  <2>9. CASE OnRead
    BY <2>1, <2>9 DEF OnRead, writeVars
  <2>10. CASE OnReadEnd
    BY <2>1, <2>10 DEF OnReadEnd, writeVars
  <2>11. CASE CloseDone \/ Break
    BY <2>1, <2>11 DEF CloseDone, Break, writeVars
  <2>12. ASSUME NEW a \in Senders, SendServerEvent(a) PROVE Quiet
    BY <2>1, <2>12 DEF SendServerEvent, writeVars
  <2>13. CASE UNCHANGED wsVars
    BY <2>1, <2>13 DEF wsVars, writeVars
  <2>14. QED BY <2>5, <2>6, <2>7, <2>8, <2>9, <2>10, <2>11, <2>12, <2>13 DEF WSNext
<1>2. WSSpec => []TypeInv
  BY InitTypes, TypesKept, PTL DEF WSSpec
<1>3. QED BY <1>1, <1>2, PTL DEF WSSpec, NothingAfterClosing

---------------------------------------------------------------------------
(* One thread.  A handler begins when no other is running.                 *)
OneThread == Workers = 1

LEMMA NobodyBusy ==
    ASSUME OneThread, TypeInv, ThreadFree
    PROVE  \A a \in Actors : ~Working(a)
<1>1. IsFiniteSet(Actors)
  BY WebSocketConstants, FS_Singleton, FS_Union DEF Actors
<1>2. IsFiniteSet(Busy) /\ Cardinality(Busy) \in Nat
  BY <1>1, FS_Subset, FS_CardinalityType DEF Busy
<1>3. Cardinality(Busy) = 0
  BY <1>2 DEF ThreadFree, OneThread
<1>4. Busy = {}
  BY <1>2, <1>3, FS_EmptySet
<1>5. QED BY <1>4 DEF Busy, Working

(* The handler that is running moves on, and stays the only one. *)
LEMMA StaysAlone ==
    ASSUME TypeInv, Alone, NEW a \in Actors, Working(a),
           NEW s, actor' = [actor EXCEPT ![a] = s]
    PROVE  /\ actor'[a] = s
           /\ \A b \in Actors : b # a => ~Working(b) /\ actor'[b] = actor[b] /\ ~Working(b)'
           /\ Alone'
<1>1. \A b \in Actors : actor'[b] = IF b = a THEN s ELSE actor[b]
  BY DEF TypeInv, ActorInv
<1>2. \A b \in Actors : b # a => ~Working(b)
  BY DEF Alone
<1>3. QED BY <1>1, <1>2 DEF Alone, Working

(* A handler begins: it is the only one. *)
LEMMA BeginsAlone ==
    ASSUME TypeInv, \A b \in Actors : ~Working(b), NEW a \in Actors,
           NEW s, actor' = [actor EXCEPT ![a] = s]
    PROVE  /\ actor'[a] = s
           /\ \A b \in Actors : b # a => actor'[b] = actor[b] /\ ~Working(b)'
           /\ Alone'
<1>1. \A b \in Actors : actor'[b] = IF b = a THEN s ELSE actor[b]
  BY DEF TypeInv, ActorInv
<1>2. QED BY <1>1 DEF Alone, Working

(* The write under way, if there is one, and the queue's front.            *)
LEMMA InflightShape ==
    ASSUME TypeInv, Len(inflight) <= 1
    PROVE  /\ inflight # <<>> => /\ Len(inflight) = 1 /\ Head(inflight) = inflight[1]
                                 /\ Tail(inflight) = <<>>
           /\ send_queue_ # <<>> =>
                 /\ Head(send_queue_) = send_queue_[1] /\ Len(send_queue_) \in Nat \ {0}
                 /\ Tail(send_queue_) \in Seq(Messages) /\ Len(Tail(send_queue_)) = Len(send_queue_) - 1
                 /\ \A i \in 1 .. Len(Tail(send_queue_)) : Tail(send_queue_)[i] = send_queue_[i + 1]
                 /\ send_queue_[1] \in Messages
           /\ Len(send_queue_) \in Nat /\ Len(accepted) \in Nat /\ Len(wire) \in Nat
           /\ (send_queue_ = <<>> <=> Len(send_queue_) = 0)
           /\ (accepted = <<>> <=> Len(accepted) = 0)
<1>1. inflight \in Seq(Writes) /\ send_queue_ \in Seq(Messages) /\ accepted \in Seq(Messages)
      /\ wire \in Seq(Messages \cup {Garbage})
  BY DEF TypeInv, WriteInv, QueueInv
<1>2. Len(inflight) \in Nat /\ Len(send_queue_) \in Nat /\ Len(accepted) \in Nat /\ Len(wire) \in Nat
  BY <1>1, LenProperties
<1>3. ASSUME inflight # <<>>
      PROVE  Len(inflight) = 1 /\ Head(inflight) = inflight[1] /\ Tail(inflight) = <<>>
  <2>1. Len(inflight) = 1
    <3>1. Len(inflight) \in Nat \ {0}
      BY <1>1, <1>3, EmptySeq
    <3>2. \A n \in Nat \ {0} : n <= 1 => n = 1
      OBVIOUS
    <3>3. QED BY <3>1, <3>2
  <2>2. Tail(inflight) \in Seq(Writes) /\ Len(Tail(inflight)) = 0
    BY <1>1, <1>3, <2>1, HeadTailProperties
  <2>3. Tail(inflight) = <<>>
    BY <2>2, EmptySeq
  <2>4. QED BY <2>1, <2>3
<1>4. (send_queue_ = <<>> <=> Len(send_queue_) = 0) /\ (accepted = <<>> <=> Len(accepted) = 0)
  BY <1>1, EmptySeq
<1>5. ASSUME send_queue_ # <<>>
      PROVE  /\ Head(send_queue_) = send_queue_[1] /\ Len(send_queue_) \in Nat \ {0}
             /\ Tail(send_queue_) \in Seq(Messages) /\ Len(Tail(send_queue_)) = Len(send_queue_) - 1
             /\ \A i \in 1 .. Len(Tail(send_queue_)) : Tail(send_queue_)[i] = send_queue_[i + 1]
             /\ send_queue_[1] \in Messages
  <2>1. Head(send_queue_) = send_queue_[1]
    OBVIOUS
  <2>2. QED BY <1>1, <1>2, <1>4, <1>5, <2>1, HeadTailProperties
<1>6. QED BY <1>2, <1>3, <1>4, <1>5

(* What EnqueueMessage has tested cannot change under it.                  *)
LEMMA CheckLimitsInv ==
    ASSUME OneThread, IInv, TypeInv', NEW a \in Actors, CheckLimits(a)
    PROVE  IInv'
<1>1. /\ actor[a].step = "enqueue" /\ Working(a)
      /\ UNCHANGED <<registered, accepted, writing_, wire, broken, made>>
  BY DEF CheckLimits, Working
<1>2. TypeInv /\ Alone /\ Lined /\ First /\ Limited /\ Tested
  BY DEF IInv
<1>3. Idle.step = "idle"
  BY DEF Idle
<1>4. CASE closing_ /\ UNCHANGED <<closing_, send_queue_, queued_bytes_, inflight, close_op>> /\ Return(a)
  <2>1. actor'[a] = Idle /\ Alone' /\ \A b \in Actors : b # a => ~Working(b)'
    BY <1>1, <1>2, <1>4, StaysAlone DEF Return
  <2>2. Tested'
    BY <1>3, <2>1 DEF Tested, Working
  <2>3. Lined' /\ First' /\ Limited'
    BY <1>1, <1>2, <1>4 DEF Lined, First, AuthStateFirst, Limited
  <2>4. QED BY <2>1, <2>2, <2>3 DEF IInv
<1>5. CASE ~closing_ /\ TriggerBackpressureClose /\ Return(a)
  <2>1. actor'[a] = Idle /\ Alone' /\ \A b \in Actors : b # a => ~Working(b)'
    BY <1>1, <1>2, <1>5, StaysAlone DEF Return
  <2>2. Tested'
    BY <1>3, <2>1 DEF Tested, Working
  <2>3. /\ inflight' \in Seq(Writes) /\ Len(inflight') = Len(inflight)
        /\ \A i \in 1 .. Len(inflight) : inflight'[i].message = inflight[i].message
    BY <1>2, <1>5, Freeing DEF TypeInv, WriteInv, TriggerBackpressureClose
  <2>4. inflight' # <<>> => inflight # <<>>
    BY <1>2, <2>3, EmptySeq DEF TypeInv, WriteInv
  <2>5. closing_' = TRUE /\ send_queue_' = <<>> /\ queued_bytes_' = 0
    BY <1>5 DEF TriggerBackpressureClose
  <2>6. Lined'
    <3>1. Len(inflight') <= 1
      BY <1>2, <2>3 DEF Lined
    <3>2. inflight' # <<>> => writing_'
      BY <1>1, <1>2, <2>4 DEF Lined
    <3>3. ASSUME inflight' # <<>>
          PROVE  Len(wire) < Len(accepted) /\ inflight'[1].message = accepted[Len(wire) + 1]
      <4>1. /\ inflight # <<>> /\ writing_ /\ send_queue_ # <<>>
            /\ inflight[1] = [message |-> send_queue_[1], freed |-> FALSE]
            /\ Len(accepted) = Len(wire) + Len(send_queue_)
            /\ \A i \in 1 .. Len(send_queue_) : accepted[Len(wire) + i] = send_queue_[i]
        BY <1>2, <1>5, <2>4, <3>3 DEF Lined
      <4>2. Len(send_queue_) \in Nat \ {0} /\ Len(wire) \in Nat /\ Len(inflight) = 1
        BY <1>2, <4>1, InflightShape DEF Lined
      <4>3. accepted[Len(wire) + 1] = send_queue_[1]
        BY <4>1, <4>2
      <4>4. QED BY <2>3, <4>1, <4>2, <4>3
    <3>4. QED BY <1>1, <2>5, <3>1, <3>2, <3>3 DEF Lined
  <2>7. First'
    BY <1>1, <1>2, <2>5 DEF First, AuthStateFirst
  <2>8. Limited'
    BY <2>5, WebSocketConstants DEF Limited
  <2>9. QED BY <2>1, <2>2, <2>6, <2>7, <2>8 DEF IInv
<1>6. CASE /\ ~closing_ /\ ~Exceeds(actor[a].message)
           /\ actor' = [actor EXCEPT ![a].step = "push"]
           /\ UNCHANGED <<closing_, send_queue_, queued_bytes_, inflight, close_op, reading>>
  <2> DEFINE s == [actor[a] EXCEPT !.step = "push"]
  <2>1. actor' = [actor EXCEPT ![a] = s]
    BY <1>6
  <2>2. s.step = "push" /\ s.message = actor[a].message
    BY <1>1, <1>2, ActorMessage DEF TypeInv
  <2> HIDE DEF s
  <2>3. actor'[a] = s /\ Alone' /\ \A b \in Actors : b # a => ~Working(b) /\ actor'[b] = actor[b] /\ ~Working(b)'
    BY <1>1, <1>2, <2>1, StaysAlone
  <2>4. Tested'
    BY <1>6, <2>2, <2>3 DEF Tested, Working, Exceeds
  <2>5. Lined' /\ Limited'
    BY <1>1, <1>2, <1>6 DEF Lined, Limited
  <2>6. First'
    BY <1>1, <1>2, <1>6, <2>2, <2>3 DEF First, AuthStateFirst, Working
  <2>7. QED BY <2>3, <2>4, <2>5, <2>6 DEF IInv
<1>7. QED BY <1>4, <1>5, <1>6 DEF CheckLimits

(* The push keeps within what CheckLimits has tested. *)
LEMMA PushInv ==
    ASSUME OneThread, IInv, TypeInv', NEW a \in Actors, Push(a)
    PROVE  IInv'
<1> DEFINE m == actor[a].message
           s == [step |-> "start"]
<1>1. /\ actor[a].step = "push" /\ Working(a) /\ actor' = [actor EXCEPT ![a] = s]
      /\ send_queue_' = Append(send_queue_, m) /\ accepted' = Append(accepted, m)
      /\ queued_bytes_' = queued_bytes_ + m.size
      /\ UNCHANGED <<registered, reading, writeVars, closing_, close_op, broken, made>>
  BY DEF Push, Working
<1>2. TypeInv /\ Alone /\ Lined /\ First /\ Limited /\ Tested
  BY DEF IInv
<1>3. m \in Messages /\ m.size \in Nat /\ ~closing_ /\ ~Exceeds(m)
  BY <1>1, <1>2, ActorMessage, SizesAreNatural DEF TypeInv, Tested
<1>4. /\ Len(send_queue_) \in Nat /\ Len(accepted) \in Nat /\ Len(wire) \in Nat
      /\ (send_queue_ = <<>> <=> Len(send_queue_) = 0) /\ (accepted = <<>> <=> Len(accepted) = 0)
  BY <1>2, InflightShape DEF Lined
<1>5. /\ Len(send_queue_') = Len(send_queue_) + 1 /\ send_queue_'[Len(send_queue_) + 1] = m
      /\ \A i \in 1 .. Len(send_queue_) : send_queue_'[i] = send_queue_[i]
  BY <1>1, <1>2, <1>3, AppendProperties DEF TypeInv, QueueInv
<1>6. /\ Len(accepted') = Len(accepted) + 1 /\ accepted'[Len(accepted) + 1] = m
      /\ \A i \in 1 .. Len(accepted) : accepted'[i] = accepted[i]
  BY <1>1, <1>2, <1>3, AppendProperties DEF TypeInv, QueueInv
<1>7. actor'[a] = s /\ Alone' /\ \A b \in Actors : b # a => ~Working(b) /\ ~Working(b)'
  BY <1>1, <1>2, StaysAlone
<1>8. Tested'
  BY <1>1, <1>3, <1>7 DEF Tested, Working
<1>9. Limited'
  <2>1. Len(send_queue_) < MaxQueueMessages /\ queued_bytes_ + m.size <= MaxQueueBytes
    BY <1>2, <1>3, <1>4, WebSocketConstants DEF Exceeds, TypeInv, QueueInv
  <2>2. QED BY <1>1, <1>4, <1>5, <2>1, WebSocketConstants DEF Limited
<1> HIDE DEF m, s
<1>10. Lined'
  <2>1. Len(accepted) = Len(wire) + Len(send_queue_)
        /\ \A i \in 1 .. Len(send_queue_) : accepted[Len(wire) + i] = send_queue_[i]
    BY <1>2, <1>3 DEF Lined
  <2>2. Len(accepted') = Len(wire) + Len(send_queue_')
    BY <1>4, <1>5, <1>6, <2>1
  <2>3. \A i \in 1 .. Len(send_queue_') : accepted'[Len(wire) + i] = send_queue_'[i]
    BY <1>4, <1>5, <1>6, <2>1
  <2>4. ASSUME inflight # <<>>
        PROVE  send_queue_' # <<>> /\ inflight[1] = [message |-> send_queue_'[1], freed |-> FALSE]
    <3>1. send_queue_ # <<>> /\ inflight[1] = [message |-> send_queue_[1], freed |-> FALSE]
      BY <1>2, <1>3, <2>4 DEF Lined
    <3>2. send_queue_'[1] = send_queue_[1] /\ Len(send_queue_') # 0
      BY <1>4, <1>5, <3>1
    <3>3. QED BY <3>1, <3>2
  <2>5. QED BY <1>1, <1>2, <1>3, <2>2, <2>3, <2>4 DEF Lined, writeVars
<1>11. First'
  <2>1. accepted' # <<>>
    BY <1>4, <1>6, EmptySeq
  <2>2. accepted'[1].kind = "auth_state"
    <3>1. CASE accepted = <<>>
      BY <1>1, <1>2, <1>3, <1>4, <1>6, <3>1 DEF First, m
    <3>2. CASE accepted # <<>>
      BY <1>2, <1>4, <1>6, <3>2 DEF First, AuthStateFirst
    <3>3. QED BY <3>1, <3>2
  <2>3. QED BY <2>1, <2>2 DEF First, AuthStateFirst
<1>12. QED BY <1>7, <1>8, <1>9, <1>10, <1>11 DEF IInv

(* The test of writing_ holds until the write starts. *)
LEMMA TestWritingInv ==
    ASSUME OneThread, IInv, TypeInv', NEW a \in Actors, TestWriting(a)
    PROVE  IInv'
<1>1. /\ actor[a].step = "start" /\ Working(a)
      /\ UNCHANGED <<registered, queueVars, writeVars, closing_, close_op, broken, made>>
  BY DEF TestWriting, Working
<1>2. TypeInv /\ Alone /\ Lined /\ First /\ Limited /\ Tested
  BY DEF IInv
<1>3. ~closing_ /\ accepted # <<>>
  BY <1>1, <1>2 DEF Tested, First
<1>4. Lined' /\ First' /\ Limited'
  BY <1>1, <1>2, <1>3 DEF Lined, First, AuthStateFirst, Limited, queueVars, writeVars
<1>5. CASE Return(a)
  <2>1. actor'[a] = Idle /\ Idle.step = "idle" /\ Alone' /\ \A b \in Actors : b # a => ~Working(b)'
    BY <1>1, <1>2, <1>5, StaysAlone DEF Return, Idle
  <2>2. Tested'
    BY <2>1 DEF Tested, Working
  <2>3. QED BY <1>4, <2>1, <2>2 DEF IInv
<1>6. CASE ~writing_ /\ actor' = [actor EXCEPT ![a] = [step |-> "write"]]
  <2>1. actor'[a] = [step |-> "write"] /\ Alone' /\ \A b \in Actors : b # a => ~Working(b)'
    BY <1>1, <1>2, <1>6, StaysAlone
  <2>2. Tested'
    BY <1>1, <1>3, <1>6, <2>1 DEF Tested, Working, writeVars
  <2>3. QED BY <1>4, <2>1, <2>2 DEF IInv
<1>7. QED BY <1>5, <1>6 DEF TestWriting

(* The write that WriteNext starts is the only one. *)
LEMMA WriteNextInv ==
    ASSUME OneThread, IInv, TypeInv', NEW a \in Actors, WriteNext(a)
    PROVE  IInv'
<1>1. /\ actor[a].step = "write" /\ Working(a) /\ Return(a)
      /\ UNCHANGED <<registered, queueVars, wire, close_op, broken, made, closing_>>
  BY DEF WriteNext, Working
<1>2. TypeInv /\ Alone /\ Lined /\ First /\ Limited /\ Tested
  BY DEF IInv
<1>3. ~closing_ /\ ~writing_ /\ inflight = <<>> /\ accepted # <<>>
  BY <1>1, <1>2 DEF Tested, Lined, First
<1>4. First' /\ Limited'
  BY <1>1, <1>2, <1>3 DEF First, AuthStateFirst, Limited, queueVars
<1>5. actor'[a] = Idle /\ Idle.step = "idle" /\ Alone' /\ \A b \in Actors : b # a => ~Working(b)'
  BY <1>1, <1>2, StaysAlone DEF Return, Idle
<1>6. Tested'
  BY <1>5 DEF Tested, Working
<1>7. Lined'
  <2>1. CASE send_queue_ = <<>>
    BY <1>1, <1>2, <1>3, <2>1 DEF WriteNext, Lined, queueVars
  <2>2. CASE send_queue_ # <<>>
    <3> DEFINE w == [message |-> Head(send_queue_), freed |-> FALSE]
    <3>1. writing_' = TRUE /\ inflight' = Append(<<>>, w)
      BY <1>3, <2>2 DEF WriteNext
    <3>2. Head(send_queue_) = send_queue_[1]
      BY <1>2, <2>2, InflightShape DEF Lined
    <3>3. inflight' = <<w>>
      BY <3>1
    <3>4. Len(inflight') = 1 /\ inflight'[1] = w
      BY <3>3
    <3>5. QED BY <1>1, <1>2, <1>3, <2>2, <3>1, <3>2, <3>4 DEF Lined, queueVars
  <2>3. QED BY <2>1, <2>2
<1>8. QED BY <1>4, <1>5, <1>6, <1>7 DEF IInv

(* A write completes: the message it wrote was the front of the queue, so  *)
(* that wire and queue still make up accepted.                             *)
LEMMA OnWriteInv ==
    ASSUME OneThread, IInv, TypeInv', OnWrite
    PROVE  IInv'
<1>1. /\ inflight # <<>> /\ ThreadFree /\ PopFront /\ ContinueWriting
      /\ UNCHANGED <<actor, registered, reading, accepted, closing_, close_op, broken, made>>
  BY DEF OnWrite
<1>2. TypeInv /\ Alone /\ Lined /\ First /\ Limited /\ Tested
  BY DEF IInv
<1>3. \A b \in Actors : ~Working(b)
  BY <1>1, <1>2, NobodyBusy
<1>4. Alone' /\ Tested'
  BY <1>1, <1>3 DEF Alone, Tested, Working
<1>5. /\ Len(inflight) = 1 /\ Head(inflight) = inflight[1] /\ Tail(inflight) = <<>>
      /\ Len(send_queue_) \in Nat /\ Len(accepted) \in Nat /\ Len(wire) \in Nat
      /\ (accepted = <<>> <=> Len(accepted) = 0)
  BY <1>1, <1>2, InflightShape DEF Lined
<1>6. CASE closing_
  <2>1. send_queue_ = <<>> /\ UNCHANGED <<send_queue_, queued_bytes_>>
    BY <1>1, <1>2, <1>6 DEF Lined, PopFront
  <2>2. inflight' = <<>> /\ writing_' = FALSE
    BY <1>1, <1>5, <1>6 DEF ContinueWriting
  <2>3. Lined'
    BY <1>1, <1>6, <2>2 DEF Lined
  <2>4. First' /\ Limited'
    BY <1>1, <1>2, <1>6, <2>1 DEF First, AuthStateFirst, Limited
  <2>5. QED BY <1>4, <2>3, <2>4 DEF IInv
<1>7. CASE ~closing_
  <2>1. /\ send_queue_ # <<>> /\ inflight[1] = [message |-> send_queue_[1], freed |-> FALSE]
        /\ Len(accepted) = Len(wire) + Len(send_queue_)
        /\ \A i \in 1 .. Len(send_queue_) : accepted[Len(wire) + i] = send_queue_[i]
    BY <1>1, <1>2, <1>7 DEF Lined
  <2>2. /\ Head(send_queue_) = send_queue_[1] /\ Len(send_queue_) \in Nat \ {0}
        /\ Tail(send_queue_) \in Seq(Messages) /\ Len(Tail(send_queue_)) = Len(send_queue_) - 1
        /\ \A i \in 1 .. Len(Tail(send_queue_)) : Tail(send_queue_)[i] = send_queue_[i + 1]
        /\ send_queue_[1] \in Messages
    BY <1>2, <2>1, InflightShape DEF Lined
  <2>3. send_queue_' = Tail(send_queue_) /\ queued_bytes_' = queued_bytes_ - Head(send_queue_).size
    BY <1>1, <2>1 DEF PopFront
  <2>4. wire' = Append(wire, send_queue_[1])
    <3>1. Head(inflight).message = send_queue_[1] /\ Head(inflight).freed = FALSE
      BY <1>5, <2>1
    <3>2. QED BY <3>1 DEF OnWrite
  <2>5. Len(wire') = Len(wire) + 1
    BY <1>2, <2>2, <2>4, AppendProperties DEF TypeInv, WriteInv
  <2>6. Len(accepted') = Len(wire') + Len(send_queue_')
    BY <1>1, <1>5, <2>1, <2>2, <2>3, <2>5
  <2>7. \A i \in 1 .. Len(send_queue_') : accepted'[Len(wire') + i] = send_queue_'[i]
    <3>1. SUFFICES ASSUME NEW i \in 1 .. Len(send_queue_) - 1
                   PROVE  accepted[(Len(wire) + 1) + i] = send_queue_[i + 1]
      BY <1>1, <2>2, <2>3, <2>5
    <3>2. i + 1 \in 1 .. Len(send_queue_) /\ (Len(wire) + 1) + i = Len(wire) + (i + 1)
      BY <1>5, <2>2
    <3>3. QED BY <2>1, <3>2
  <2>8. ASSUME send_queue_' = <<>> PROVE Lined'
    <3>1. writing_' = FALSE /\ inflight' = <<>>
      BY <1>1, <1>5, <2>8 DEF ContinueWriting
    <3>2. QED BY <1>1, <1>7, <2>6, <2>7, <3>1 DEF Lined
  <2>9. ASSUME send_queue_' # <<>> PROVE Lined'
    <3> DEFINE w == [message |-> Head(send_queue_'), freed |-> FALSE]
    <3>1. writing_' = TRUE /\ inflight' = Append(<<>>, w)
      BY <1>1, <1>5, <1>7, <2>9 DEF ContinueWriting
    <3>2. inflight' = <<w>>
      BY <3>1
    <3>3. Len(inflight') = 1 /\ inflight'[1] = w /\ Head(send_queue_') = send_queue_'[1]
      BY <3>2
    <3>4. QED BY <1>1, <1>7, <2>6, <2>7, <2>9, <3>1, <3>3 DEF Lined
  <2>10. accepted # <<>> /\ First'
    <3>1. accepted # <<>>
      BY <1>5, <2>1, <2>2
    <3>2. QED BY <1>1, <1>2, <3>1 DEF First, AuthStateFirst
  <2>11. Limited'
    <3>1. send_queue_[1].size \in Nat /\ queued_bytes_ \in Nat
      BY <1>2, <2>2, SizesAreNatural DEF TypeInv, QueueInv
    <3>2. queued_bytes_' <= MaxQueueBytes
      BY <1>2, <2>2, <2>3, <3>1, WebSocketConstants DEF Limited
    <3>3. Len(send_queue_') <= MaxQueueMessages
      BY <1>2, <2>2, <2>3, WebSocketConstants DEF Limited
    <3>4. QED BY <3>2, <3>3 DEF Limited
  <2>12. QED BY <1>4, <2>8, <2>9, <2>10, <2>11 DEF IInv
<1>8. QED BY <1>6, <1>7

(* A write that fails closes the connection with nothing under way.        *)
LEMMA OnWriteErrorInv ==
    ASSUME OneThread, IInv, TypeInv', OnWriteError
    PROVE  IInv'
<1>1. /\ inflight # <<>> /\ ThreadFree /\ PopFront /\ inflight' = Tail(inflight) /\ closing_' = TRUE
      /\ UNCHANGED <<actor, registered, reading, accepted, writing_, wire, close_op, broken, made>>
  BY DEF OnWriteError
<1>2. TypeInv /\ Alone /\ Lined /\ First /\ Limited /\ Tested
  BY DEF IInv
<1>3. \A b \in Actors : ~Working(b)
  BY <1>1, <1>2, NobodyBusy
<1>4. Alone' /\ Tested'
  BY <1>1, <1>3 DEF Alone, Tested, Working
<1>5. inflight' = <<>>
  BY <1>1, <1>2, InflightShape DEF Lined
<1>6. Lined' /\ First'
  BY <1>1, <1>2, <1>5 DEF Lined, First, AuthStateFirst
<1>7. Limited'
  <2>1. CASE send_queue_ = <<>>
    BY <1>1, <1>2, <2>1 DEF PopFront, Limited
  <2>2. CASE send_queue_ # <<>>
    <3>1. send_queue_' = Tail(send_queue_) /\ queued_bytes_' = queued_bytes_ - Head(send_queue_).size
      BY <1>1, <2>2 DEF PopFront
    <3>2. /\ Head(send_queue_) = send_queue_[1] /\ send_queue_[1] \in Messages
          /\ Len(send_queue_) \in Nat \ {0} /\ Len(Tail(send_queue_)) = Len(send_queue_) - 1
      BY <1>2, <2>2, InflightShape DEF Lined
    <3>3. send_queue_[1].size \in Nat /\ queued_bytes_ \in Nat
      BY <1>2, <3>2, SizesAreNatural DEF TypeInv, QueueInv
    <3>4. queued_bytes_' <= MaxQueueBytes
      BY <1>2, <3>1, <3>2, <3>3, WebSocketConstants DEF Limited
    <3>5. Len(send_queue_') <= MaxQueueMessages
      BY <1>2, <3>1, <3>2, WebSocketConstants DEF Limited
    <3>6. QED BY <3>4, <3>5 DEF Limited
  <2>3. QED BY <2>1, <2>2
<1>8. QED BY <1>4, <1>6, <1>7 DEF IInv

(* A handler that begins with a message to send. *)
LEMMA SendInv ==
    ASSUME OneThread, IInv, TypeInv', ThreadFree, NEW a \in Actors, NEW m, Send(a, m),
           UNCHANGED <<queueVars, writeVars, closing_>>,
           accepted = <<>> /\ ~closing_ => m.kind = "auth_state"
    PROVE  IInv'
<1> DEFINE s == [step |-> "enqueue", message |-> m]
<1>1. TypeInv /\ Alone /\ Lined /\ First /\ Limited /\ Tested
  BY DEF IInv
<1>2. actor' = [actor EXCEPT ![a] = s]
  BY DEF Send
<1>3. \A b \in Actors : ~Working(b)
  BY <1>1, NobodyBusy
<1>4. s.step = "enqueue" /\ s.message = m
  OBVIOUS
<1> HIDE DEF s
<1>5. actor'[a] = s /\ Alone' /\ \A b \in Actors : b # a => ~Working(b)'
  BY <1>1, <1>2, <1>3, BeginsAlone
<1>6. Tested'
  BY <1>4, <1>5 DEF Tested, Working
<1>7. Lined' /\ Limited'
  BY <1>1 DEF Lined, Limited, queueVars, writeVars
<1>8. First'
  BY <1>1, <1>4, <1>5 DEF First, AuthStateFirst, Working, queueVars
<1>9. QED BY <1>5, <1>6, <1>7, <1>8 DEF IInv

(* Steps of the environment, and reads that end. *)
LEMMA QuietInv ==
    ASSUME IInv, TypeInv', UNCHANGED <<actor, registered, queueVars, writeVars, closing_>>
    PROVE  IInv'
BY DEF IInv, Alone, Tested, Working, Exceeds, Lined, First, AuthStateFirst, Limited, queueVars, writeVars

(* IInv holds in every state when one thread runs the handlers.            *)
LEMMA OneThreadInvariant ==
    ASSUME OneThread
    PROVE  WSSpec => []IInv
<1>1. WSInit => IInv
  <2> SUFFICES ASSUME WSInit PROVE IInv
    OBVIOUS
  <2>1. \A a \in Actors : actor[a].step \in {"run", "idle"}
    BY DEF WSInit, Idle
  <2>2. Alone /\ Tested /\ First
    BY <2>1 DEF Alone, Tested, First, AuthStateFirst, Working, WSInit
  <2>3. Lined /\ Limited
    BY WebSocketConstants DEF Lined, Limited, WSInit
  <2>4. QED BY <2>2, <2>3, InitTypes DEF IInv
<1>2. IInv /\ [WSNext]_wsVars => IInv'
  <2> SUFFICES ASSUME IInv, [WSNext]_wsVars PROVE IInv'
    OBVIOUS
  <2>1. TypeInv' /\ TypeInv
    BY TypesKept DEF IInv
  <2>2. ASSUME ThreadFree, registered PROVE ~(accepted = <<>> /\ ~closing_)
    BY <2>1, <2>2, NobodyBusy DEF IInv, First
  <2>3. CASE Run
    <3>1. PICK size \in Sizes : Send("socket", Message("auth_state", size))
      BY <2>3 DEF Run
    <3>2. Message("auth_state", size).kind = "auth_state" /\ "socket" \in Actors
      BY DEF Message, Actors
    <3>3. QED BY <2>1, <2>3, <3>1, <3>2, SendInv DEF Run
  <2>4. CASE OnRead
    <3>1. registered /\ "socket" \in Actors
      BY <2>1, <2>4 DEF OnRead, TypeInv, ActorInv, Idle, Actors
    <3>2. CASE UNCHANGED <<reading, actor, made>>
      BY <2>1, <2>4, <3>2, QuietInv DEF OnRead
    <3>3. CASE \E size \in Sizes : Send("socket", Message("reply", size))
      BY <2>1, <2>2, <2>4, <3>1, <3>3, SendInv DEF OnRead
    <3>4. QED BY <2>4, <3>2, <3>3 DEF OnRead
  <2>5. ASSUME NEW a \in Senders, SendServerEvent(a) PROVE IInv'
    <3>1. a \in Actors
      BY DEF Actors
    <3>2. PICK size \in Sizes : Send(a, Message("event", size))
      BY <2>5 DEF SendServerEvent
    <3>3. QED BY <2>1, <2>2, <2>5, <3>1, <3>2, SendInv DEF SendServerEvent
  <2>6. CASE OnReadEnd \/ CloseDone \/ Break
    BY <2>1, <2>6, QuietInv DEF OnReadEnd, CloseDone, Break
  <2>7. ASSUME NEW a \in Actors, EnqueueStep(a) PROVE IInv'
    BY <2>1, <2>7, CheckLimitsInv, PushInv, TestWritingInv, WriteNextInv DEF EnqueueStep
  <2>8. CASE UNCHANGED wsVars
    BY <2>1, <2>8, QuietInv DEF wsVars
  <2>9. QED BY <2>1, <2>3, <2>4, <2>5, <2>6, <2>7, <2>8, OnWriteInv, OnWriteErrorInv DEF WSNext
<1>3. QED BY <1>1, <1>2, PTL DEF WSSpec

---------------------------------------------------------------------------
(* The queue keeps both limits, and its count of bytes is exact. *)
THEOREM LimitsKept == OneThread => (WSSpec => []WithinLimits)
<1> SUFFICES ASSUME OneThread PROVE WSSpec => []WithinLimits
  OBVIOUS
<1>1. IInv => WithinLimits
  BY DEF IInv, Limited, TypeInv, QueueInv, WithinLimits
<1>2. QED BY <1>1, OneThreadInvariant, PTL

(* At most one write is under way. *)
THEOREM SingleWrite == OneThread => (WSSpec => []OneWriteAtATime)
<1> SUFFICES ASSUME OneThread PROVE WSSpec => []OneWriteAtATime
  OBVIOUS
<1>1. IInv => OneWriteAtATime
  BY DEF IInv, Lined, OneWriteAtATime
<1>2. QED BY <1>1, OneThreadInvariant, PTL

(* The first message of a connection is auth_state. *)
THEOREM AuthStateIsFirst == OneThread => (WSSpec => []AuthStateFirst)
<1> SUFFICES ASSUME OneThread PROVE WSSpec => []AuthStateFirst
  OBVIOUS
<1>1. IInv => AuthStateFirst
  BY DEF IInv, First
<1>2. QED BY <1>1, OneThreadInvariant, PTL

---------------------------------------------------------------------------
(* The refinement.  A push takes a message; a write that completes hands   *)
(* over the next one, or settles the one that was under way when the       *)
(* connection closed; both ways to start closing are Close.  All other     *)
(* steps leave the channel as it is.                                       *)
LEMMA NoChannelStep ==
    ASSUME UNCHANGED <<accepted, wire, closing_, inflight>>
    PROVE  UNCHANGED Connection!chVars
BY DEF Connection!chVars, Phase

LEMMA CheckLimitsStep ==
    ASSUME OneThread, IInv, NEW a \in Actors, CheckLimits(a)
    PROVE  [Connection!ChannelNext]_(Connection!chVars)
<1>1. UNCHANGED <<accepted, wire>> /\ TypeInv /\ Lined
  BY DEF CheckLimits, IInv
<1>2. CASE UNCHANGED <<closing_, inflight>>
  BY <1>1, <1>2, NoChannelStep
<1>3. CASE ~closing_ /\ TriggerBackpressureClose
  <2>1. Phase = "open" /\ closing_' = TRUE
    BY <1>3 DEF Phase, TriggerBackpressureClose
  <2>2. inflight' # <<>> => inflight # <<>>
    <3>1. inflight \in Seq(Writes) /\ inflight' \in Seq(Writes) /\ Len(inflight') = Len(inflight)
      BY <1>1, <1>3, Freeing DEF TypeInv, WriteInv, TriggerBackpressureClose
    <3>2. QED BY <3>1, EmptySeq
  <2>3. inflight' # <<>> => Len(wire) < Len(accepted)
    <3>1. SUFFICES ASSUME inflight' # <<>> PROVE Len(wire) < Len(accepted)
      OBVIOUS
    <3>2. send_queue_ # <<>> /\ Len(accepted) = Len(wire) + Len(send_queue_)
      BY <1>1, <1>3, <2>2, <3>1 DEF Lined
    <3>3. Len(send_queue_) \in Nat \ {0} /\ Len(wire) \in Nat /\ Len(accepted) \in Nat
      BY <1>1, <3>2, InflightShape DEF Lined
    <3>4. QED BY <3>2, <3>3
  <2>4. Phase' \in {"closed"} \cup (IF Len(wire) < Len(accepted) THEN {"closing"} ELSE {})
    BY <2>1, <2>3 DEF Phase
  <2>5. Connection!Close
    BY <1>1, <2>1, <2>4 DEF Connection!Close, Connection!Due
  <2>6. QED BY <2>5 DEF Connection!ChannelNext
<1>4. QED BY <1>2, <1>3 DEF CheckLimits

LEMMA PushStep ==
    ASSUME OneThread, IInv, NEW a \in Actors, Push(a)
    PROVE  [Connection!ChannelNext]_(Connection!chVars)
<1> DEFINE m == actor[a].message
<1>1. m \in Messages /\ ~closing_
  BY ActorMessage DEF IInv, TypeInv, Tested, Push
<1>2. accepted' = Append(accepted, m) /\ UNCHANGED <<wire, closing_, inflight>>
  BY DEF Push, writeVars
<1>3. Connection!Take(m)
  BY <1>1, <1>2 DEF Connection!Take, Phase
<1>4. QED BY <1>1, <1>3 DEF Connection!ChannelNext

LEMMA OnWriteStep ==
    ASSUME OneThread, IInv, OnWrite \/ OnWriteError
    PROVE  [Connection!ChannelNext]_(Connection!chVars)
<1>1. TypeInv /\ Lined /\ inflight # <<>> /\ UNCHANGED accepted
  BY DEF IInv, OnWrite, OnWriteError
<1>2. /\ Head(inflight) = inflight[1] /\ Tail(inflight) = <<>>
      /\ Len(send_queue_) \in Nat /\ Len(accepted) \in Nat /\ Len(wire) \in Nat
  BY <1>1, InflightShape DEF Lined
<1>3. CASE OnWrite /\ ~closing_
  <2>1. /\ send_queue_ # <<>> /\ inflight[1] = [message |-> send_queue_[1], freed |-> FALSE]
        /\ Len(accepted) = Len(wire) + Len(send_queue_)
        /\ \A i \in 1 .. Len(send_queue_) : accepted[Len(wire) + i] = send_queue_[i]
    BY <1>1, <1>3 DEF Lined
  <2>2. Len(send_queue_) \in Nat \ {0}
    BY <1>1, <2>1, InflightShape DEF Lined
  <2>3. accepted[Len(wire) + 1] = send_queue_[1] /\ Len(wire) < Len(accepted)
    BY <1>2, <2>1, <2>2
  <2>4. wire' = Append(wire, accepted[Len(wire) + 1])
    <3>1. Head(inflight).message = send_queue_[1] /\ Head(inflight).freed = FALSE
      BY <1>2, <2>1
    <3>2. QED BY <1>3, <2>3, <3>1 DEF OnWrite
  <2>5. Phase = "open" /\ Phase' = "open"
    BY <1>3 DEF Phase, OnWrite
  <2>6. Connection!Deliver
    BY <1>1, <2>3, <2>4, <2>5 DEF Connection!Deliver, Connection!Due
  <2>7. QED BY <2>6 DEF Connection!ChannelNext
<1>4. CASE OnWrite /\ closing_
  <2>1. inflight[1].message = accepted[Len(wire) + 1]
    BY <1>1, <1>4 DEF Lined
  <2>2. \E payload \in {accepted[Len(wire) + 1], Garbage} : wire' = Append(wire, payload)
    BY <1>2, <1>4, <2>1 DEF OnWrite
  <2>3. closing_' = closing_ /\ inflight' = <<>>
    BY <1>2, <1>4 DEF OnWrite, ContinueWriting
  <2>4. Phase = "closing" /\ Phase' = "closed"
    BY <1>1, <1>4, <2>3 DEF Phase
  <2>5. Connection!Settle
    BY <1>1, <2>2, <2>4 DEF Connection!Settle
  <2>6. QED BY <2>5 DEF Connection!ChannelNext
<1>5. CASE OnWriteError
  <2>1. closing_' = TRUE /\ inflight' = <<>> /\ UNCHANGED wire
    BY <1>2, <1>5 DEF OnWriteError
  <2>2. Phase' = "closed"
    BY <2>1 DEF Phase
  <2>3. CASE closing_
    <3>1. Phase = "closing"
      BY <1>1, <2>3 DEF Phase
    <3>2. Connection!Settle
      BY <1>1, <2>1, <2>2, <3>1 DEF Connection!Settle
    <3>3. QED BY <3>2 DEF Connection!ChannelNext
  <2>4. CASE ~closing_
    <3>1. Phase = "open"
      BY <2>4 DEF Phase
    <3>2. Connection!Close
      BY <1>1, <2>1, <2>2, <3>1 DEF Connection!Close
    <3>3. QED BY <3>2 DEF Connection!ChannelNext
  <2>5. QED BY <2>3, <2>4
<1>6. QED BY <1>3, <1>4, <1>5

(* With one thread a connection implements the safety part of the Channel: *)
(* what was accepted arrives in order, each message once, none skipped,    *)
(* and after the connection starts closing at most the message under way.  *)
THEOREM ConnectionIsChannel == OneThread => (WSSpec => Connection!ChannelSafety)
<1> SUFFICES ASSUME OneThread PROVE WSSpec => Connection!ChannelSafety
  OBVIOUS
<1>1. WSInit => Connection!ChannelInit
  BY DEF WSInit, Connection!ChannelInit, Phase
<1>2. IInv /\ [WSNext]_wsVars => [Connection!ChannelNext]_(Connection!chVars)
  <2> SUFFICES ASSUME IInv, [WSNext]_wsVars
               PROVE  [Connection!ChannelNext]_(Connection!chVars)
    OBVIOUS
  <2>1. ASSUME UNCHANGED <<accepted, wire, closing_, inflight>>
        PROVE  [Connection!ChannelNext]_(Connection!chVars)
    BY <2>1, NoChannelStep
  <2>2. CASE Run \/ OnRead \/ OnReadEnd \/ CloseDone \/ Break
    BY <2>1, <2>2 DEF Run, OnRead, OnReadEnd, CloseDone, Break, queueVars, writeVars
  <2>3. ASSUME NEW a \in Senders, SendServerEvent(a)
        PROVE  UNCHANGED <<accepted, wire, closing_, inflight>>
    BY <2>3 DEF SendServerEvent, queueVars, writeVars
  <2>4. ASSUME NEW a \in Actors, TestWriting(a)
        PROVE  UNCHANGED <<accepted, wire, closing_, inflight>>
    BY <2>4 DEF TestWriting, queueVars, writeVars
  <2>5. ASSUME NEW a \in Actors, WriteNext(a)
        PROVE  [Connection!ChannelNext]_(Connection!chVars)
    <3>1. ~closing_ /\ UNCHANGED <<accepted, wire, closing_>>
      BY <2>5 DEF IInv, Tested, WriteNext, queueVars
    <3>2. UNCHANGED Phase
      BY <3>1 DEF Phase
    <3>3. QED BY <3>1, <3>2 DEF Connection!chVars
  <2>6. CASE UNCHANGED wsVars
    BY <2>1, <2>6 DEF wsVars, queueVars, writeVars
  <2>7. QED BY <2>1, <2>2, <2>3, <2>4, <2>5, <2>6, CheckLimitsStep, PushStep, OnWriteStep
            DEF WSNext, EnqueueStep
<1>3. QED BY <1>1, <1>2, OneThreadInvariant, PTL DEF WSSpec, Connection!ChannelSafety
=============================================================================

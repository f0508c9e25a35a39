-------------------------- MODULE MatchQueueProofs --------------------------
(***************************************************************************)
(* Proofs about the matching queue composed with the session manager, for  *)
(* any sets of users, connections and commands, any number of sessions and *)
(* any timeouts.                                                           *)
(***************************************************************************)
EXTENDS MatchQueue, SimulationProofs, SequenceTheorems

USE DEF Sessions

---------------------------------------------------------------------------
(* A step of the session manager other than the creation of a session      *)
(* preserves its type invariant.                                           *)
LEMMA SMStepType ==
    ASSUME SMTypeOK, SMStep
    PROVE  SMTypeOK'
<1> USE SimulationConstants, SessionManagerConstants
<1>1. ASSUME NEW s \in Sessions, StrandStep(s) PROVE SMTypeOK'
  <2>1. CASE AnnounceCreated(s)
    BY <2>1 DEF AnnounceCreated, Broadcast, SMTypeOK, Phases, mapVars, storeVars, connVars
  <2>2. CASE AnnounceStarted(s)
    BY <2>2 DEF AnnounceStarted, Broadcast, SMTypeOK, Phases, mapVars, storeVars, connVars
  <2>3. CASE HandleTick(s)
    BY <2>3 DEF HandleTick, Broadcast, SMTypeOK, Phases, mapVars, storeVars, connVars
  <2>4. CASE FinishSession(s)
    BY <2>4 DEF FinishSession, Broadcast, SMTypeOK, Phases, mapVars, storeVars, connVars
  <2>5. CASE SaveResult(s)
    BY <2>5 DEF SaveResult, SaveIfAbsent, SMTypeOK, Phases, mapVars, connVars
  <2>6. CASE RateResult(s)
    BY <2>6 DEF RateResult, SMTypeOK, Phases, mapVars, connVars
  <2>7. CASE EraseSession(s)
    BY <2>7 DEF EraseSession, SMTypeOK, Phases, storeVars, connVars
  <2>8. QED BY <1>1, <2>1, <2>2, <2>3, <2>4, <2>5, <2>6, <2>7 DEF StrandStep
<1>2. ASSUME NEW c \in Connections, Register(c) PROVE SMTypeOK'
  BY <1>2 DEF Register, SMTypeOK, strandVars, mapVars, storeVars
<1>3. ASSUME NEW c \in Connections, Unregister(c) PROVE SMTypeOK'
  BY <1>3 DEF Unregister, SMTypeOK, RequestType, strandVars, mapVars, storeVars
<1>4. ASSUME NEW c \in Connections, RunInput(c) PROVE SMTypeOK'
  <2>1. request[c] \in [session : Sessions, named : NamedSessions, command : Commands,
                        answer : {"pending"}]
    <3>1. request[c].answer = "pending" /\ request[c] \in RequestType
      BY <1>4 DEF RunInput, SMTypeOK
    <3>2. request[c] # NoRequest
      BY <3>1 DEF NoRequest
    <3>3. request[c] \notin [session : Sessions \cup {0}, named : NamedSessions, answer : Answers]
      BY <3>1 DEF Answers
    <3>4. QED BY <3>1, <3>2, <3>3 DEF RequestType
  <2>2. request' \in [Connections -> RequestType]
    BY <1>4, <2>1 DEF RunInput, SMTypeOK, RequestType, AnswerOf, Answers
  <2>3. DOMAIN simulation' = Sessions
    BY <1>4, <2>1 DEF RunInput, SMTypeOK
  <2>4. QED BY <1>4, <2>2, <2>3 DEF RunInput, SMTypeOK, mapVars, storeVars, connVars
<1>5. ASSUME NEW c \in Connections, NEW named \in NamedSessions, NEW command \in Commands,
             SubmitInput(c, named, command)
      PROVE  SMTypeOK'
  <2> DEFINE s == user_to_session_[Owner[c]]
             pending == [session |-> s, named |-> named, command |-> command, answer |-> "pending"]
             answered(a) == [session |-> s, named |-> named, answer |-> a]
  <2>1. s \in Sessions \cup {0} /\ (s \in sessions_ => s \in Sessions)
    BY DEF SMTypeOK
  <2>2. request' \in [Connections -> RequestType]
    <3>1. s \in sessions_ => pending \in RequestType
      BY <2>1 DEF RequestType
    <3>2. \A a \in Answers : answered(a) \in RequestType
      BY <2>1 DEF RequestType
    <3>3. AnswerOf(s, Owner[c], command) \in Answers /\ "session_not_found" \in Answers
      BY DEF AnswerOf, Answers
    <3> HIDE DEF s
    <3>4. \/ s \in sessions_ /\ request' = [request EXCEPT ![c] = pending]
          \/ \E a \in Answers : request' = [request EXCEPT ![c] = answered(a)]
      BY <1>5, <3>3 DEF SubmitInput, s
    <3> HIDE DEF pending, answered
    <3>5. \E r \in RequestType : request' = [request EXCEPT ![c] = r]
      BY <3>1, <3>2, <3>4
    <3>6. QED BY <3>5 DEF SMTypeOK
  <2>3. DOMAIN simulation' = Sessions
    BY <1>5 DEF SubmitInput, SMTypeOK
  <2>4. QED BY <1>5, <2>2, <2>3 DEF SubmitInput, SMTypeOK, mapVars, storeVars, connVars
<1>6. QED BY <1>1, <1>2, <1>3, <1>4, <1>5 DEF SMStep

(* So does the creation of a session for two users.                        *)
LEMMA CreateType ==
    ASSUME SMTypeOK, NEW u \in Users, NEW v \in Users, CreateSession(<<u, v>>)
    PROVE  SMTypeOK'
<1> USE SimulationConstants, SessionManagerConstants
<1>1. <<u, v>> \in Seq(Users) /\ <<u, v>>[1] = u /\ <<u, v>>[2] = v
  OBVIOUS
<1>2. next_session_id_ \in Sessions /\ next_session_id_' \in 1 .. MaxSessions + 1
  BY DEF CreateSession, SMTypeOK
<1>3. user_to_session_' \in [Users -> Sessions \cup {0}]
  BY <1>2 DEF CreateSession, SMTypeOK
<1>4. QED
  BY <1>1, <1>2, <1>3 DEF CreateSession, SMTypeOK, Phases, storeVars, connVars

---------------------------------------------------------------------------
Entry == [user : Users, left : Nat]

(* The sequence operations of the queue: what is left after one entry, or  *)
(* the first two, are removed.                                             *)
LEMMA RemoveAtProperties ==
    ASSUME NEW S, NEW q \in Seq(S), NEW i \in 1 .. Len(q)
    PROVE  /\ RemoveAt(q, i) \in Seq(S)
           /\ Len(RemoveAt(q, i)) = Len(q) - 1
           /\ \A j \in 1 .. Len(q) - 1 : RemoveAt(q, i)[j] = IF j < i THEN q[j] ELSE q[j + 1]
<1> DEFINE left  == SubSeq(q, 1, i - 1)
           right == SubSeq(q, i + 1, Len(q))
<1>0. Len(q) \in Nat /\ \A j \in 1 .. Len(q) : q[j] \in S
  BY ElementOfSeq, LenProperties
<1>1. /\ left \in Seq(S) /\ Len(left) = i - 1
      /\ \A j \in 1 .. i - 1 : left[j] = q[j]
  <2>1. \A j \in 1 .. i - 1 : q[j] \in S
    BY <1>0
  <2>2. i - 1 \in Int /\ 1 \in Int
    BY <1>0
  <2>3. QED BY <1>0, <2>1, <2>2, SubSeqProperties
<1>2. /\ right \in Seq(S) /\ Len(right) = Len(q) - i
      /\ \A j \in 1 .. Len(q) - i : right[j] = q[i + j]
  <2>1. \A j \in i + 1 .. Len(q) : q[j] \in S
    BY <1>0
  <2>2. /\ right \in Seq(S)
        /\ Len(right) = IF i + 1 <= Len(q) THEN Len(q) - (i + 1) + 1 ELSE 0
        /\ \A j \in 1 .. Len(q) - (i + 1) + 1 : right[j] = q[(i + 1) + j - 1]
    BY <1>0, <2>1, SubSeqProperties
  <2>3. QED BY <1>0, <2>2
<1>3. RemoveAt(q, i) = left \o right
  BY DEF RemoveAt
<1>4. /\ left \o right \in Seq(S)
      /\ Len(left \o right) = Len(left) + Len(right)
      /\ \A j \in 1 .. Len(left) + Len(right) :
            (left \o right)[j] = IF j <= Len(left) THEN left[j] ELSE right[j - Len(left)]
  BY <1>1, <1>2, ConcatProperties
<1> HIDE DEF left, right
<1>5. Len(RemoveAt(q, i)) = Len(q) - 1
  BY <1>0, <1>1, <1>2, <1>3, <1>4
<1>6. ASSUME NEW j \in 1 .. Len(q) - 1
      PROVE  RemoveAt(q, i)[j] = IF j < i THEN q[j] ELSE q[j + 1]
  <2>1. CASE j < i
    BY <1>0, <1>1, <1>2, <1>3, <1>4, <2>1
  <2>2. CASE j >= i
    <3>1. (left \o right)[j] = right[j - (i - 1)]
      BY <1>0, <1>1, <1>2, <1>4, <2>2
    <3>2. j - (i - 1) \in 1 .. Len(q) - i /\ i + (j - (i - 1)) = j + 1
      BY <1>0, <2>2
    <3>3. right[j - (i - 1)] = q[i + (j - (i - 1))]
      BY <1>2, <3>2
    <3>4. QED BY <1>0, <1>3, <2>2, <3>1, <3>2, <3>3
  <2>3. QED BY <1>0, <2>1, <2>2
<1>7. QED BY <1>3, <1>4, <1>5, <1>6

(* The rest of the queue after PairIfPossible took the first two.          *)
LEMMA DropTwoProperties ==
    ASSUME NEW S, NEW q \in Seq(S), Len(q) >= 2
    PROVE  /\ SubSeq(q, 3, Len(q)) \in Seq(S)
           /\ Len(SubSeq(q, 3, Len(q))) = Len(q) - 2
           /\ \A j \in 1 .. Len(q) - 2 : SubSeq(q, 3, Len(q))[j] = q[j + 2]
<1>1. Len(q) \in Nat /\ \A j \in 3 .. Len(q) : q[j] \in S
  BY ElementOfSeq, LenProperties
<1>2. /\ SubSeq(q, 3, Len(q)) \in Seq(S)
      /\ Len(SubSeq(q, 3, Len(q))) = IF 3 <= Len(q) THEN Len(q) - 3 + 1 ELSE 0
      /\ \A j \in 1 .. Len(q) - 3 + 1 : SubSeq(q, 3, Len(q))[j] = q[3 + j - 1]
  BY <1>1, SubSeqProperties
<1>3. Len(SubSeq(q, 3, Len(q))) = Len(q) - 2
  <2> DEFINE rest == SubSeq(q, 3, Len(q))
             n    == Len(q)
  <2>1. n \in Nat /\ n >= 2 /\ Len(rest) = IF 3 <= n THEN n - 3 + 1 ELSE 0
    BY <1>1, <1>2
  <2> HIDE DEF rest, n
  <2>2. Len(rest) = n - 2
    BY <2>1
  <2>3. QED BY <2>2 DEF rest, n
<1>4. ASSUME NEW j \in 1 .. Len(q) - 2
      PROVE  SubSeq(q, 3, Len(q))[j] = q[j + 2]
  <2>1. j \in 1 .. Len(q) - 3 + 1 /\ 3 + j - 1 = j + 2
    BY <1>1
  <2>2. QED BY <1>2, <2>1
<1>5. QED BY <1>2, <1>3, <1>4

(* Time passing changes no user and no position.                           *)
LEMMA AdvanceProperties ==
    ASSUME queue_ \in Seq(Entry), Advance
    PROVE  /\ queue_' \in Seq(Entry)
           /\ Len(queue_') = Len(queue_)
           /\ \A i \in 1 .. Len(queue_) : queue_'[i].user = queue_[i].user
<1>1. Len(queue_) \in Nat /\ DOMAIN queue_ = 1 .. Len(queue_)
      /\ \A i \in 1 .. Len(queue_) : queue_[i] \in Entry
  BY LenProperties, ElementOfSeq
<1>2. \A i \in 1 .. Len(queue_) :
          /\ [queue_[i] EXCEPT !.left = IF @ > 0 THEN @ - 1 ELSE 0] \in Entry
          /\ [queue_[i] EXCEPT !.left = IF @ > 0 THEN @ - 1 ELSE 0].user = queue_[i].user
  BY <1>1 DEF Entry
<1>3. queue_' = [i \in 1 .. Len(queue_) |->
                   [queue_[i] EXCEPT !.left = IF @ > 0 THEN @ - 1 ELSE 0]]
  BY <1>1 DEF Advance
<1>4. queue_' \in Seq(Entry)
  BY <1>1, <1>2, <1>3, IsASeq
<1>5. Len(queue_') = Len(queue_)
  BY <1>1, <1>3
<1>6. QED BY <1>2, <1>3, <1>4, <1>5

---------------------------------------------------------------------------
(* No time left is negative, whatever the request holds and the sum becomes.*)
LEMMA JoinExpiry ==
    ASSUME NEW timeout \in Timeouts \cup {DefaultTimeout},
           NEW left \in ExpiresIn(EffectiveTimeout(timeout))
    PROVE  left \in Nat
BY MatchQueueConstants DEF ExpiresIn, EffectiveTimeout

(* The steps of the queue preserve the type invariant.                     *)
LEMMA QueueStepType ==
    ASSUME TypeOK, QueueStep
    PROVE  TypeOK'
<1> USE SimulationConstants, SessionManagerConstants, MatchQueueConstants
<1>0. queue_ \in Seq(Entry) /\ Len(queue_) \in Nat /\ DOMAIN queue_ = 1 .. Len(queue_)
      /\ \A i \in 1 .. Len(queue_) : queue_[i] \in Entry
  BY LenProperties, ElementOfSeq DEF TypeOK, QueueTypeOK, Entry
<1>1. ASSUME UNCHANGED smVars PROVE SMTypeOK'
  BY <1>1 DEF TypeOK, SMTypeOK, smVars, strandVars, mapVars, storeVars, connVars
<1>2. ASSUME NEW u \in Users, NEW timeout \in Timeouts \cup {DefaultTimeout}, Join(u, timeout) PROVE TypeOK'
  <2>1. PICK left \in ExpiresIn(EffectiveTimeout(timeout)) :
           queue_' = Append(queue_, [user |-> u, left |-> left])
    BY <1>2 DEF Join
  <2>2. queue_' \in Seq(Entry)
    <3>1. [user |-> u, left |-> left] \in Entry
      BY JoinExpiry DEF Entry
    <3>2. QED BY <1>0, <2>1, <3>1, AppendProperties
  <2>3. timer_left' \in 0 .. TimerPeriod /\ timer' = "armed" /\ user_index_' \subseteq Users
    BY <1>2 DEF Join, MayJoin, EnsureTimer, TypeOK, QueueTypeOK
  <2>4. QED BY <1>1, <1>2, <2>2, <2>3 DEF Join, TypeOK, QueueTypeOK, Entry
<1>3. ASSUME NEW u \in Users, Cancel(u) PROVE TypeOK'
  <2>1. queue_' \in Seq(Entry)
    BY <1>0, <1>3, RemoveAtProperties DEF Cancel
  <2>2. QED BY <1>1, <1>3, <2>1 DEF Cancel, TypeOK, QueueTypeOK, Entry
<1>4. CASE OnTick
  BY <1>1, <1>4 DEF OnTick, TypeOK, QueueTypeOK
<1>5. CASE HandleTimeout
  <2>1. queue_' \in Seq(Entry)
    BY <1>0, <1>5, RemoveAtProperties DEF HandleTimeout
  <2>2. user_index_' \subseteq Users
    BY <1>5 DEF HandleTimeout, TypeOK, QueueTypeOK
  <2>3. QED BY <1>1, <1>5, <2>1, <2>2 DEF HandleTimeout, TypeOK, QueueTypeOK, Entry
<1>6. CASE TimeoutsDone
  BY <1>1, <1>6 DEF TimeoutsDone, TypeOK, QueueTypeOK
<1>7. CASE PairIfPossible
  <2>1. queue_[1] \in Entry /\ queue_[2] \in Entry
    BY <1>0, <1>7 DEF PairIfPossible
  <2>2. SMTypeOK'
    BY <1>7, <2>1, CreateType DEF PairIfPossible, TypeOK, Entry
  <2>3. queue_' \in Seq(Entry)
    BY <1>0, <1>7, DropTwoProperties DEF PairIfPossible
  <2>4. QED BY <1>7, <2>2, <2>3 DEF PairIfPossible, TypeOK, QueueTypeOK, Entry
<1>8. CASE RearmTimer
  BY <1>1, <1>8 DEF RearmTimer, TypeOK, QueueTypeOK
<1>9. CASE Advance
  <2>1. queue_' \in Seq(Entry)
    BY <1>0, <1>9, AdvanceProperties
  <2>2. timer_left' \in 0 .. TimerPeriod
    BY <1>9 DEF Advance, TypeOK, QueueTypeOK
  <2>3. QED BY <1>1, <1>9, <2>1, <2>2 DEF Advance, TypeOK, QueueTypeOK, Entry
<1>10. QED
  BY <1>2, <1>3, <1>4, <1>5, <1>6, <1>7, <1>8, <1>9 DEF QueueStep, TimerStep, QueueJoin, QueueCancel

(* The empty server is of the right type.                                 *)
LEMMA InitType == Init => TypeOK
<1> SUFFICES ASSUME Init PROVE TypeOK
  OBVIOUS
<1> USE SimulationConstants, SessionManagerConstants, MatchQueueConstants
<1>1. SMTypeOK
  BY DEF Init, SMInit, SMTypeOK, Phases, RequestType
<1>2. QueueTypeOK
  BY EmptySeq DEF Init, QueueTypeOK
<1>3. QED BY <1>1, <1>2 DEF TypeOK

(* The type invariant is inductive.                                        *)
LEMMA NextType == TypeOK /\ [Next]_vars => TypeOK'
<1> SUFFICES ASSUME TypeOK, [Next]_vars PROVE TypeOK'
  OBVIOUS
<1>1. CASE QueueStep
  BY <1>1, QueueStepType
<1>2. CASE SMStep /\ UNCHANGED queueVars
  BY <1>2, SMStepType DEF TypeOK, QueueTypeOK, queueVars
<1>3. CASE UNCHANGED vars
  BY <1>3 DEF TypeOK, SMTypeOK, QueueTypeOK, vars, smVars, queueVars, strandVars, mapVars,
              storeVars, connVars
<1>4. QED BY <1>1, <1>2, <1>3 DEF Next

(* Type correctness of the queue, the timer, the session contexts, the     *)
(* routing maps, the connections and the pending inputs.                   *)
THEOREM TypeCorrect == Spec => []TypeOK
  BY InitType, NextType, PTL DEF Spec

---------------------------------------------------------------------------
(***************************************************************************)
(* The placement of users.  Routing alone is not inductive: a session is   *)
(* created without looking at user_to_session_, and it is the queue that   *)
(* sees to it that its users are in no session.  QueuedOrPlaying alone is  *)
(* not inductive either: a user leaves the list and the index together     *)
(* only because they agree.                                                *)
(***************************************************************************)
Placement == QueueIndex /\ QueuedOrPlaying /\ Routing

(* No step of the session manager routes anybody to a session; it only     *)
(* frees the participants of the session it erases.                        *)
LEMMA SMStepRouting ==
    ASSUME SMTypeOK, Routing, SMStep
    PROVE  /\ Routing'
           /\ \A u \in Users : user_to_session_[u] = 0 => user_to_session_'[u] = 0
<1> USE SessionManagerConstants
<1>1. ASSUME NEW s \in Sessions, phase' = [phase EXCEPT ![s] = phase'[s]],
             Live(s), phase'[s] \notin {"none", "closed"}, UNCHANGED <<participants, mapVars>>
      PROVE  /\ Routing'
             /\ \A u \in Users : user_to_session_[u] = 0 => user_to_session_'[u] = 0
  <2>1. \A t \in Sessions : /\ Live(t)' <=> Live(t)
                            /\ phase'[t] = "none" <=> phase[t] = "none"
                            /\ Participant(t)' = Participant(t)
    BY <1>1 DEF Live, Participant, SMTypeOK
  <2>2. UNCHANGED <<next_session_id_, sessions_, user_to_session_>>
    BY <1>1 DEF mapVars
  <2>3. QED BY <2>1, <2>2 DEF Routing
<1>2. ASSUME NEW s \in Sessions, EraseSession(s)
      PROVE  /\ Routing'
             /\ \A u \in Users : user_to_session_[u] = 0 => user_to_session_'[u] = 0
  <2>1. \A t \in Sessions : /\ Live(t)' <=> Live(t) /\ t # s
                            /\ phase'[t] = "none" <=> phase[t] = "none"
                            /\ Participant(t)' = Participant(t)
    BY <1>2 DEF EraseSession, Live, Participant, SMTypeOK
  <2>2. /\ next_session_id_' = next_session_id_
        /\ sessions_' = sessions_ \ {s}
        /\ \A u \in Users :
              user_to_session_'[u] = IF u \in Participant(s) THEN 0 ELSE user_to_session_[u]
    BY <1>2 DEF EraseSession
  <2>3. Live(s)
    BY <1>2 DEF EraseSession, Live
  <2>4. ASSUME NEW u \in Users, NEW t \in Sessions
        PROVE  user_to_session_'[u] = t <=> Live(t)' /\ u \in Participant(t)'
    <3>1. CASE u \in Participant(s)
      <4>1. user_to_session_[u] = s /\ user_to_session_'[u] = 0 /\ t # 0
        BY <2>2, <2>3, <3>1 DEF Routing
      <4>2. QED BY <2>1, <4>1 DEF Routing
    <3>2. CASE u \notin Participant(s)
      BY <2>1, <2>2, <3>2 DEF Routing
    <3>3. QED BY <3>1, <3>2
  <2>5. sessions_' = {t \in Sessions : Live(t)'}
    BY <2>1, <2>2 DEF Routing
  <2>6. \A t \in Sessions : phase'[t] = "none" <=> t >= next_session_id_'
    BY <2>1, <2>2 DEF Routing
  <2>7. QED BY <2>2, <2>4, <2>5, <2>6 DEF Routing
<1>3. ASSUME UNCHANGED <<participants, phase, mapVars>>
      PROVE  /\ Routing'
             /\ \A u \in Users : user_to_session_[u] = 0 => user_to_session_'[u] = 0
  BY <1>3 DEF Routing, Live, Participant, mapVars
<1>4. ASSUME NEW s \in Sessions, StrandStep(s)
      PROVE  /\ Routing'
             /\ \A u \in Users : user_to_session_[u] = 0 => user_to_session_'[u] = 0
  <2>1. CASE AnnounceCreated(s)
    BY <1>1, <2>1 DEF AnnounceCreated, Live, SMTypeOK
  <2>2. CASE AnnounceStarted(s)
    BY <1>1, <2>2 DEF AnnounceStarted, Live, SMTypeOK
  <2>3. CASE HandleTick(s)
    BY <1>1, <2>3 DEF HandleTick, Live, SMTypeOK
  <2>4. CASE FinishSession(s)
    BY <1>1, <2>4 DEF FinishSession, Live, SMTypeOK
  <2>5. CASE SaveResult(s)
    BY <1>1, <2>5 DEF SaveResult, Live, SMTypeOK
  <2>6. CASE RateResult(s)
    BY <1>1, <2>6 DEF RateResult, Live, SMTypeOK
  <2>7. QED BY <1>2, <1>4, <2>1, <2>2, <2>3, <2>4, <2>5, <2>6 DEF StrandStep
<1>5. ASSUME NEW c \in Connections, Register(c) \/ Unregister(c) \/ RunInput(c)
      PROVE  UNCHANGED <<participants, phase, mapVars>>
  BY <1>5 DEF Register, Unregister, RunInput, strandVars
<1>6. ASSUME NEW c \in Connections, NEW named \in NamedSessions, NEW command \in Commands,
             SubmitInput(c, named, command)
      PROVE  UNCHANGED <<participants, phase, mapVars>>
  BY <1>6 DEF SubmitInput
<1>7. QED BY <1>3, <1>4, <1>5, <1>6 DEF SMStep

(* A session created for two free users keeps the maps in step, and routes *)
(* nobody else.                                                            *)
LEMMA CreateRouting ==
    ASSUME SMTypeOK, Routing,
           NEW u \in Users, NEW v \in Users, u # v,
           user_to_session_[u] = 0, user_to_session_[v] = 0,
           CreateSession(<<u, v>>)
    PROVE  /\ Routing'
           /\ \A w \in Users \ {u, v} : user_to_session_'[w] = user_to_session_[w]
<1> USE SessionManagerConstants
<1> DEFINE s == next_session_id_
<1>1. /\ s \in Sessions /\ s' = s + 1
      /\ phase[s] = "none" /\ phase' = [phase EXCEPT ![s] = "created"]
      /\ sessions_' = sessions_ \cup {s}
  BY DEF CreateSession, SMTypeOK, Routing
<1>2. \A w \in Users : user_to_session_'[w] = IF w \in {u, v} THEN s ELSE user_to_session_[w]
  BY DEF CreateSession, SMTypeOK
<1>3. \A w \in Users : user_to_session_[w] # s
  BY <1>1 DEF Routing, Live
<1>4. /\ participants' = [participants EXCEPT ![s] = <<u, v>>]
      /\ {<<u, v>>[i] : i \in DOMAIN <<u, v>>} = {u, v}
  BY DEF CreateSession
<1>5. \A t \in Sessions : Participant(t)' = IF t = s THEN {u, v} ELSE Participant(t)
  <2> TAKE t \in Sessions
  <2>1. CASE t = s
    <3>1. participants'[t] = <<u, v>>
      BY <1>4, <2>1 DEF SMTypeOK
    <3>2. QED BY <1>4, <2>1, <3>1 DEF Participant
  <2>2. CASE t # s
    <3>1. participants'[t] = participants[t]
      BY <1>4, <2>2 DEF SMTypeOK
    <3>2. QED BY <2>2, <3>1 DEF Participant
  <2>3. QED BY <2>1, <2>2
<1>6. \A t \in Sessions : Live(t)' <=> t = s \/ Live(t)
  BY <1>1 DEF Live, SMTypeOK
<1>7. \A t \in Sessions : phase'[t] = "none" <=> t >= s'
  <2> TAKE t \in Sessions
  <2>0. s \in Int /\ t \in Int
    BY <1>1
  <2>1. CASE t = s
    <3>1. phase'[t] = "created"
      BY <1>1, <2>1 DEF SMTypeOK
    <3>2. ~(t >= s')
      BY <1>1, <2>0, <2>1
    <3>3. QED BY <3>1, <3>2
  <2>2. CASE t # s
    <3>1. phase'[t] = phase[t]
      BY <1>1, <2>2 DEF SMTypeOK
    <3>2. phase[t] = "none" <=> t >= s
      BY DEF Routing
    <3>3. t >= s <=> t >= s'
      BY <1>1, <2>0, <2>2
    <3>4. QED BY <3>1, <3>2, <3>3
  <2>3. QED BY <2>1, <2>2
<1>8. sessions_' = {t \in Sessions : Live(t)'}
  BY <1>1, <1>6 DEF Routing
<1>9. ASSUME NEW w \in Users, NEW t \in Sessions
      PROVE  user_to_session_'[w] = t <=> Live(t)' /\ w \in Participant(t)'
  <2>1. CASE t = s
    BY <1>2, <1>3, <1>5, <1>6, <2>1
  <2>2. CASE t # s /\ w \in {u, v}
    <3>1. user_to_session_[w] = 0 /\ 0 # t
      BY <2>2
    <3>2. ~(Live(t) /\ w \in Participant(t))
      BY <3>1 DEF Routing
    <3>3. QED BY <1>2, <1>5, <1>6, <2>2, <3>2
  <2>3. CASE t # s /\ w \notin {u, v}
    BY <1>2, <1>5, <1>6, <2>3 DEF Routing
  <2>4. QED BY <2>1, <2>2, <2>3
<1>10. QED BY <1>2, <1>7, <1>8, <1>9 DEF Routing

(* Taking one entry out of the list and its user out of the index keeps    *)
(* the two in step.                                                        *)
LEMMA RemoveIndex ==
    ASSUME queue_ \in Seq(Entry), QueueIndex, NEW i \in 1 .. Len(queue_),
           queue_' = RemoveAt(queue_, i),
           user_index_' = user_index_ \ {queue_[i].user}
    PROVE  QueueIndex' /\ user_index_' \subseteq user_index_
<1> DEFINE n == Len(queue_)
<1>1. n \in Nat /\ DOMAIN queue_ = 1 .. n
  BY LenProperties
<1>2. /\ queue_' \in Seq(Entry) /\ Len(queue_') = n - 1
      /\ \A j \in 1 .. n - 1 : queue_'[j] = IF j < i THEN queue_[j] ELSE queue_[j + 1]
  BY RemoveAtProperties
<1>3. DOMAIN queue_' = 1 .. n - 1
  BY <1>2, LenProperties
<1> HIDE DEF n
<1>4. /\ user_index_ = {queue_[j].user : j \in 1 .. n}
      /\ \A j, k \in 1 .. n : queue_[j].user = queue_[k].user => j = k
  BY <1>1 DEF QueueIndex
<1>5. i \in 1 .. n
  BY DEF n
<1>6. \A j, k \in 1 .. n - 1 : queue_'[j].user = queue_'[k].user => j = k
  <2> TAKE j, k \in 1 .. n - 1
  <2> DEFINE J == IF j < i THEN j ELSE j + 1
             K == IF k < i THEN k ELSE k + 1
  <2>1. J \in 1 .. n /\ K \in 1 .. n /\ (J = K => j = k)
    BY <1>1, <1>5
  <2>2. queue_'[j] = queue_[J] /\ queue_'[k] = queue_[K]
    BY <1>2
  <2> HIDE DEF J, K
  <2>3. QED BY <1>4, <2>1, <2>2
<1>7. ASSUME NEW u \in user_index_' PROVE \E j \in 1 .. n - 1 : queue_'[j].user = u
  <2>1. PICK k \in 1 .. n : queue_[k].user = u
    BY <1>4, <1>7
  <2>2. k # i
    BY <1>7, <2>1
  <2>3. CASE k < i
    <3>1. k \in 1 .. n - 1 /\ queue_'[k] = queue_[k]
      BY <1>1, <1>2, <1>5, <2>3
    <3>2. QED BY <2>1, <3>1
  <2>4. CASE k > i
    <3>1. k - 1 \in 1 .. n - 1 /\ ~(k - 1 < i) /\ (k - 1) + 1 = k
      BY <1>1, <1>5, <2>4
    <3>2. queue_'[k - 1] = queue_[k]
      BY <1>2, <3>1
    <3>3. QED BY <2>1, <3>1, <3>2
  <2>5. QED BY <1>1, <1>5, <2>2, <2>3, <2>4
<1>8. ASSUME NEW j \in 1 .. n - 1 PROVE queue_'[j].user \in user_index_'
  <2> DEFINE J == IF j < i THEN j ELSE j + 1
  <2>1. J \in 1 .. n /\ J # i
    BY <1>1, <1>5
  <2>2. queue_'[j] = queue_[J]
    BY <1>2
  <2> HIDE DEF J
  <2>3. queue_[J].user \in user_index_ /\ queue_[J].user # queue_[i].user
    BY <1>4, <1>5, <2>1
  <2>4. QED BY <2>2, <2>3
<1>9. user_index_' = {queue_'[j].user : j \in 1 .. n - 1}
  BY <1>7, <1>8
<1>10. QED BY <1>3, <1>6, <1>9 DEF QueueIndex

(* Pairing takes the first two entries and their two distinct users.       *)
LEMMA PairIndex ==
    ASSUME queue_ \in Seq(Entry), QueueIndex, PairIfPossible
    PROVE  /\ QueueIndex' /\ user_index_' \subseteq user_index_
           /\ queue_[1] \in Entry /\ queue_[2] \in Entry
           /\ queue_[1].user # queue_[2].user
           /\ {queue_[1].user, queue_[2].user} \subseteq user_index_ \ user_index_'
<1> DEFINE n == Len(queue_)
<1>1. n \in Nat /\ n >= 2 /\ DOMAIN queue_ = 1 .. n /\ \A j \in 1 .. n : queue_[j] \in Entry
  BY LenProperties, ElementOfSeq DEF PairIfPossible
<1>2. /\ queue_' \in Seq(Entry) /\ Len(queue_') = n - 2
      /\ \A j \in 1 .. n - 2 : queue_'[j] = queue_[j + 2]
  BY <1>1, DropTwoProperties DEF PairIfPossible
<1>3. DOMAIN queue_' = 1 .. n - 2
  BY <1>2, LenProperties
<1> HIDE DEF n
<1>4. /\ user_index_ = {queue_[j].user : j \in 1 .. n}
      /\ \A j, k \in 1 .. n : queue_[j].user = queue_[k].user => j = k
  BY <1>1 DEF QueueIndex
<1>5. user_index_' = user_index_ \ {queue_[1].user, queue_[2].user}
  BY DEF PairIfPossible
<1>6. 1 \in 1 .. n /\ 2 \in 1 .. n
  BY <1>1
<1>7. \A j, k \in 1 .. n - 2 : queue_'[j].user = queue_'[k].user => j = k
  <2> TAKE j, k \in 1 .. n - 2
  <2>1. j + 2 \in 1 .. n /\ k + 2 \in 1 .. n /\ (j + 2 = k + 2 => j = k)
    BY <1>1
  <2>2. QED BY <1>2, <1>4, <2>1
<1>8. ASSUME NEW u \in user_index_' PROVE \E j \in 1 .. n - 2 : queue_'[j].user = u
  <2>1. PICK k \in 1 .. n : queue_[k].user = u
    BY <1>4, <1>5, <1>8
  <2>2. k # 1 /\ k # 2
    BY <1>5, <1>8, <2>1
  <2>3. k - 2 \in 1 .. n - 2 /\ (k - 2) + 2 = k
    BY <1>1, <2>2
  <2>4. queue_'[k - 2] = queue_[k]
    BY <1>2, <2>3
  <2>5. QED BY <2>1, <2>3, <2>4
<1>9. ASSUME NEW j \in 1 .. n - 2 PROVE queue_'[j].user \in user_index_'
  <2>1. j + 2 \in 1 .. n /\ j + 2 # 1 /\ j + 2 # 2
    BY <1>1
  <2>2. /\ queue_[j + 2].user \in user_index_
        /\ queue_[j + 2].user # queue_[1].user /\ queue_[j + 2].user # queue_[2].user
    BY <1>4, <1>6, <2>1
  <2>3. QED BY <1>2, <1>5, <2>2
<1>10. user_index_' = {queue_'[j].user : j \in 1 .. n - 2}
  BY <1>8, <1>9
<1>11. queue_[1].user # queue_[2].user
  BY <1>4, <1>6
<1>12. {queue_[1].user, queue_[2].user} \subseteq user_index_ \ user_index_'
  BY <1>4, <1>5, <1>6
<1>13. QED BY <1>1, <1>3, <1>5, <1>6, <1>7, <1>10, <1>11, <1>12 DEF QueueIndex

(* The steps of the queue keep every user in at most one place.            *)
LEMMA QueueStepPlacement ==
    ASSUME TypeOK, Placement, QueueStep
    PROVE  Placement'
<1> USE SimulationConstants DEF Placement
<1>0. /\ queue_ \in Seq(Entry) /\ Len(queue_) \in Nat /\ DOMAIN queue_ = 1 .. Len(queue_)
      /\ SMTypeOK /\ user_index_ \subseteq Users
  BY LenProperties DEF TypeOK, QueueTypeOK, Entry
<1>1. ASSUME UNCHANGED smVars, QueueIndex',
             \A u \in user_index_' : u \in user_index_ \/ user_to_session_[u] = 0
      PROVE  Placement'
  BY <1>1 DEF Routing, QueuedOrPlaying, Live, Participant, smVars, strandVars, mapVars
<1>2. ASSUME NEW u \in Users, NEW timeout \in Timeouts \cup {DefaultTimeout}, Join(u, timeout) PROVE Placement'
  <2> DEFINE n == Len(queue_)
  <2>a. PICK left \in ExpiresIn(EffectiveTimeout(timeout)) :
           queue_' = Append(queue_, [user |-> u, left |-> left])
    BY <1>2 DEF Join
  <2> DEFINE e == [user |-> u, left |-> left]
  <2>0. e \in Entry /\ e.user = u
    BY JoinExpiry DEF Entry
  <2>1. queue_' = Append(queue_, e) /\ user_index_' = user_index_ \cup {u}
        /\ u \notin user_index_ /\ user_to_session_[u] = 0
    BY <1>2, <2>a DEF Join, MayJoin, IsUserInSession
  <2> HIDE DEF e
  <2>2. /\ queue_' \in Seq(Entry) /\ Len(queue_') = n + 1 /\ queue_'[n + 1] = e
        /\ \A i \in 1 .. n : queue_'[i] = queue_[i]
    BY <1>0, <2>0, <2>1, AppendProperties
  <2>3. DOMAIN queue_' = 1 .. n + 1
    BY <2>2, LenProperties
  <2>4. n \in Nat /\ user_index_ = {queue_[j].user : j \in 1 .. n}
        /\ \A j, k \in 1 .. n : queue_[j].user = queue_[k].user => j = k
    BY <1>0 DEF QueueIndex
  <2> HIDE DEF n
  <2>5. \A j \in 1 .. n + 1 : j \in 1 .. n \/ j = n + 1
    BY <2>4
  <2>6. \A j \in 1 .. n : queue_'[j].user \in user_index_ /\ queue_'[j].user # u
    BY <2>1, <2>2, <2>4
  <2>7. \A j, k \in 1 .. n + 1 : queue_'[j].user = queue_'[k].user => j = k
    BY <2>0, <2>2, <2>4, <2>5, <2>6
  <2>8. user_index_' = {queue_'[j].user : j \in 1 .. n + 1}
    <3>1. \A j \in 1 .. n + 1 : queue_'[j].user \in user_index_'
      BY <2>0, <2>1, <2>2, <2>5, <2>6
    <3>2. ASSUME NEW w \in user_index_' PROVE \E j \in 1 .. n + 1 : queue_'[j].user = w
      <4>1. CASE w = u
        <5>1. n + 1 \in 1 .. n + 1
          BY <2>4
        <5>2. QED BY <2>0, <2>2, <4>1, <5>1
      <4>2. CASE w # u
        <5>1. PICK j \in 1 .. n : queue_[j].user = w
          BY <2>1, <2>4, <3>2, <4>2
        <5>2. j \in 1 .. n + 1 /\ queue_'[j] = queue_[j]
          BY <2>2, <2>4
        <5>3. QED BY <5>1, <5>2
      <4>3. QED BY <4>1, <4>2
    <3>3. QED BY <3>1, <3>2
  <2>9. QueueIndex'
    BY <2>3, <2>7, <2>8 DEF QueueIndex
  <2>10. UNCHANGED smVars
    BY <1>2 DEF Join
  <2>11. QED BY <1>1, <2>1, <2>9, <2>10
<1>3. ASSUME NEW u \in Users, Cancel(u) PROVE Placement'
  <2>1. PICK i \in 1 .. Len(queue_) : queue_[i].user = u /\ queue_' = RemoveAt(queue_, i)
    BY <1>0, <1>3 DEF Cancel
  <2>2. QueueIndex' /\ user_index_' \subseteq user_index_
    BY <1>0, <1>3, <2>1, RemoveIndex DEF Cancel
  <2>3. QED BY <1>1, <1>3, <2>2 DEF Cancel
<1>4. CASE OnTick
  BY <1>1, <1>4 DEF OnTick, QueueIndex
<1>5. CASE HandleTimeout
  <2>1. PICK i \in 1 .. Len(queue_) : /\ queue_' = RemoveAt(queue_, i)
                                      /\ user_index_' = user_index_ \ {queue_[i].user}
    BY <1>0, <1>5 DEF HandleTimeout
  <2>2. QueueIndex' /\ user_index_' \subseteq user_index_
    BY <1>0, <2>1, RemoveIndex
  <2>3. QED BY <1>1, <1>5, <2>2 DEF HandleTimeout
<1>6. CASE TimeoutsDone
  BY <1>1, <1>6 DEF TimeoutsDone, QueueIndex
<1>7. CASE PairIfPossible
  <2> DEFINE u == queue_[1].user
             v == queue_[2].user
  <2>1. /\ QueueIndex' /\ user_index_' \subseteq user_index_
        /\ u # v /\ {u, v} \subseteq user_index_ \ user_index_'
    BY <1>0, <1>7, PairIndex
  <2>2. u \in Users /\ v \in Users /\ user_to_session_[u] = 0 /\ user_to_session_[v] = 0
    BY <1>0, <2>1 DEF QueuedOrPlaying
  <2>3. CreateSession(<<u, v>>)
    BY <1>7 DEF PairIfPossible
  <2> HIDE DEF u, v
  <2>4. /\ Routing'
        /\ \A w \in Users \ {u, v} : user_to_session_'[w] = user_to_session_[w]
    BY <1>0, <2>1, <2>2, <2>3, CreateRouting
  <2>5. QueuedOrPlaying'
    BY <1>0, <2>1, <2>4 DEF QueuedOrPlaying
  <2>6. QED BY <2>1, <2>4, <2>5
<1>8. CASE RearmTimer
  BY <1>1, <1>8 DEF RearmTimer, QueueIndex
<1>9. CASE Advance
  <2>1. /\ queue_' \in Seq(Entry) /\ Len(queue_') = Len(queue_)
        /\ \A i \in 1 .. Len(queue_) : queue_'[i].user = queue_[i].user
    BY <1>0, <1>9, AdvanceProperties
  <2>2. DOMAIN queue_' = 1 .. Len(queue_)
    BY <2>1, LenProperties
  <2>3. UNCHANGED <<smVars, user_index_>>
    BY <1>9 DEF Advance
  <2>4. QueueIndex'
    BY <1>0, <2>1, <2>2, <2>3 DEF QueueIndex
  <2>5. QED BY <1>1, <2>3, <2>4
<1>10. QED
  BY <1>2, <1>3, <1>4, <1>5, <1>6, <1>7, <1>8, <1>9 DEF QueueStep, TimerStep, QueueJoin, QueueCancel

(* Nobody is anywhere when the server starts.                              *)
LEMMA InitPlacement == Init => Placement
<1> SUFFICES ASSUME Init PROVE Placement
  OBVIOUS
<1> USE SimulationConstants, SessionManagerConstants
<1>1. QueueIndex /\ QueuedOrPlaying
  BY DEF Init, QueueIndex, QueuedOrPlaying
<1>2. Routing
  BY DEF Init, SMInit, Routing, Live, Participant
<1>3. QED BY <1>1, <1>2 DEF Placement

(* Placement is inductive, relative to the type invariant.                 *)
LEMMA NextPlacement == TypeOK /\ Placement /\ [Next]_vars => Placement'
<1> SUFFICES ASSUME TypeOK, Placement, [Next]_vars PROVE Placement'
  OBVIOUS
<1>1. CASE QueueStep
  BY <1>1, QueueStepPlacement
<1>2. CASE SMStep /\ UNCHANGED queueVars
  <2>1. /\ Routing'
        /\ \A u \in Users : user_to_session_[u] = 0 => user_to_session_'[u] = 0
    BY <1>2, SMStepRouting DEF TypeOK, Placement
  <2>2. QueueIndex'
    BY <1>2 DEF Placement, QueueIndex, queueVars
  <2>3. QueuedOrPlaying'
    BY <1>2, <2>1 DEF Placement, QueuedOrPlaying, queueVars, TypeOK, QueueTypeOK
  <2>4. QED BY <2>1, <2>2, <2>3 DEF Placement
<1>3. CASE UNCHANGED vars
  BY <1>3 DEF Placement, QueueIndex, QueuedOrPlaying, Routing, Live, Participant, vars, smVars,
              queueVars, strandVars, mapVars
<1>4. QED BY <1>1, <1>2, <1>3 DEF Next

LEMMA PlacementCorrect == Spec => [](TypeOK /\ Placement)
<1>1. TypeOK /\ Placement /\ [Next]_vars => TypeOK' /\ Placement'
  BY NextType, NextPlacement
<1>2. QED BY <1>1, InitType, InitPlacement, PTL DEF Spec

(* The list of the queue and its index hold the same users, each once:     *)
(* the iterators kept in user_index_ stay valid.                           *)
THEOREM IndexCorrect == Spec => []QueueIndex
  BY PlacementCorrect, PTL DEF Placement

(* Nobody waits in the queue while playing.                                *)
THEOREM OnePlaceOnly == Spec => []QueuedOrPlaying
  BY PlacementCorrect, PTL DEF Placement

(* Every user is routed exactly to the one live session the user plays in, *)
(* at every point of every handler.                                        *)
THEOREM RoutingCorrect == Spec => []Routing
  BY PlacementCorrect, PTL DEF Placement

---------------------------------------------------------------------------
(***************************************************************************)
(* First come, first served.  Two users who wait keep their order for as   *)
(* long as both wait, and the later one is not put into a session before   *)
(* the earlier one is.                                                     *)
(***************************************************************************)
Before(u, v) ==
    \E i, j \in DOMAIN queue_ : i < j /\ queue_[i].user = u /\ queue_[j].user = v

NoOvertaking ==
    \A u, v \in Users : Before(u, v) =>
        /\ {u, v} \subseteq user_index_' => Before(u, v)'
        /\ user_to_session_'[v] # 0 => user_to_session_'[u] # 0

(* The places of the others move up by one behind the entry removed.       *)
LEMMA RemovalKeepsOrder ==
    ASSUME queue_ \in Seq(Entry), NEW k \in 1 .. Len(queue_),
           queue_' = RemoveAt(queue_, k),
           user_index_' = user_index_ \ {queue_[k].user},
           NEW u, NEW v, Before(u, v), {u, v} \subseteq user_index_'
    PROVE  Before(u, v)'
<1> DEFINE n == Len(queue_)
<1>1. n \in Nat /\ DOMAIN queue_ = 1 .. n
  BY LenProperties
<1>2. /\ queue_' \in Seq(Entry) /\ Len(queue_') = n - 1
      /\ \A j \in 1 .. n - 1 : queue_'[j] = IF j < k THEN queue_[j] ELSE queue_[j + 1]
  BY RemoveAtProperties
<1>3. DOMAIN queue_' = 1 .. n - 1
  BY <1>2, LenProperties
<1> HIDE DEF n
<1>4. PICK i \in 1 .. n, j \in 1 .. n : i < j /\ queue_[i].user = u /\ queue_[j].user = v
  BY <1>1 DEF Before
<1>5. i # k /\ j # k /\ k \in 1 .. n
  BY <1>4 DEF n
<1> DEFINE place(h) == IF h < k THEN h ELSE h - 1
<1>6. ASSUME NEW h \in 1 .. n, h # k
      PROVE  place(h) \in 1 .. n - 1 /\ queue_'[place(h)] = queue_[h]
  <2>1. CASE h < k
    <3>1. h \in 1 .. n - 1
      BY <1>1, <1>5, <2>1
    <3>2. QED BY <1>2, <2>1, <3>1
  <2>2. CASE h > k
    <3>1. h - 1 \in 1 .. n - 1 /\ ~(h - 1 < k) /\ (h - 1) + 1 = h
      BY <1>1, <1>5, <2>2
    <3>2. QED BY <1>2, <2>2, <3>1
  <2>3. QED BY <1>1, <1>5, <1>6, <2>1, <2>2
<1>7. place(i) < place(j)
  BY <1>1, <1>4, <1>5
<1>8. /\ place(i) \in DOMAIN queue_' /\ queue_'[place(i)].user = u
      /\ place(j) \in DOMAIN queue_' /\ queue_'[place(j)].user = v
  BY <1>3, <1>4, <1>5, <1>6
<1> HIDE DEF place
<1>9. QED BY <1>7, <1>8 DEF Before

(* Those behind the first two move up by two; nobody is before the first.  *)
LEMMA PairingKeepsOrder ==
    ASSUME queue_ \in Seq(Entry), PairIfPossible, NEW u, NEW v, Before(u, v)
    PROVE  /\ {u, v} \subseteq user_index_' => Before(u, v)'
           /\ v \in {queue_[1].user, queue_[2].user} /\ QueueIndex
                 => u \in {queue_[1].user, queue_[2].user}
<1> DEFINE n == Len(queue_)
<1>1. n \in Nat /\ n >= 2 /\ DOMAIN queue_ = 1 .. n
  BY LenProperties DEF PairIfPossible
<1>2. /\ queue_' \in Seq(Entry) /\ Len(queue_') = n - 2
      /\ \A h \in 1 .. n - 2 : queue_'[h] = queue_[h + 2]
  BY <1>1, DropTwoProperties DEF PairIfPossible
<1>3. DOMAIN queue_' = 1 .. n - 2
  BY <1>2, LenProperties
<1> HIDE DEF n
<1>4. PICK i \in 1 .. n, j \in 1 .. n : i < j /\ queue_[i].user = u /\ queue_[j].user = v
  BY <1>1 DEF Before
<1>5. ASSUME {u, v} \subseteq user_index_'
      PROVE  Before(u, v)'
  <2>1. u \notin {queue_[1].user, queue_[2].user}
    BY <1>5 DEF PairIfPossible
  <2>2. i # 1 /\ i # 2
    BY <1>4, <2>1
  <2>3. /\ i - 2 \in 1 .. n - 2 /\ j - 2 \in 1 .. n - 2 /\ i - 2 < j - 2
        /\ (i - 2) + 2 = i /\ (j - 2) + 2 = j
    BY <1>1, <1>4, <2>2
  <2>4. queue_'[i - 2] = queue_[i] /\ queue_'[j - 2] = queue_[j]
    BY <1>2, <2>3
  <2>5. QED BY <1>3, <1>4, <2>3, <2>4 DEF Before
<1>6. ASSUME v \in {queue_[1].user, queue_[2].user}, QueueIndex
      PROVE  u \in {queue_[1].user, queue_[2].user}
  <2>1. 1 \in DOMAIN queue_ /\ 2 \in DOMAIN queue_
    BY <1>1
  <2>2. j \in {1, 2}
    BY <1>1, <1>4, <1>6, <2>1 DEF QueueIndex
  <2>3. i = 1
    BY <1>1, <1>4, <2>2
  <2>4. QED BY <1>4, <2>3
<1>7. QED BY <1>5, <1>6

(* Only pairing puts a user who waits into a session.                      *)
LEMMA StepKeepsOrder ==
    ASSUME TypeOK, Placement, [Next]_vars
    PROVE  NoOvertaking
<1> SUFFICES ASSUME NEW u \in Users, NEW v \in Users, Before(u, v)
             PROVE  /\ {u, v} \subseteq user_index_' => Before(u, v)'
                    /\ user_to_session_'[v] # 0 => user_to_session_'[u] # 0
  BY DEF NoOvertaking
<1>0. /\ queue_ \in Seq(Entry) /\ Len(queue_) \in Nat /\ DOMAIN queue_ = 1 .. Len(queue_)
      /\ SMTypeOK /\ Routing /\ QueueIndex
  BY LenProperties DEF TypeOK, QueueTypeOK, Entry, Placement
<1>1. user_to_session_[v] = 0 /\ v \in user_index_
  BY DEF Before, Placement, QueueIndex, QueuedOrPlaying
<1>2. ASSUME {u, v} \subseteq user_index_' => Before(u, v)',
             UNCHANGED smVars
      PROVE  /\ {u, v} \subseteq user_index_' => Before(u, v)'
             /\ user_to_session_'[v] # 0 => user_to_session_'[u] # 0
  BY <1>1, <1>2 DEF smVars, mapVars
<1>3. ASSUME UNCHANGED queue_ PROVE Before(u, v)'
  BY <1>3 DEF Before
<1>4. CASE \E w \in Users, timeout \in Timeouts \cup {DefaultTimeout} : Join(w, timeout)
  <2>1. PICK w \in Users, timeout \in Timeouts \cup {DefaultTimeout} : Join(w, timeout)
    BY <1>4
  <2>2. PICK left \in ExpiresIn(EffectiveTimeout(timeout)) :
           queue_' = Append(queue_, [user |-> w, left |-> left])
    BY <2>1 DEF Join
  <2>3. [user |-> w, left |-> left] \in Entry
    BY JoinExpiry DEF Entry
  <2>4. /\ queue_' \in Seq(Entry) /\ Len(queue_') = Len(queue_) + 1
        /\ \A i \in 1 .. Len(queue_) : queue_'[i] = queue_[i]
    BY <1>0, <2>2, <2>3, AppendProperties
  <2>5. DOMAIN queue_ \subseteq DOMAIN queue_'
    BY <1>0, <2>4, LenProperties
  <2>6. Before(u, v)'
    BY <1>0, <2>4, <2>5 DEF Before
  <2>7. QED BY <1>2, <2>1, <2>6 DEF Join
<1>5. CASE (\E w \in Users : Cancel(w)) \/ HandleTimeout
  <2>1. PICK k \in 1 .. Len(queue_) : /\ queue_' = RemoveAt(queue_, k)
                                      /\ user_index_' = user_index_ \ {queue_[k].user}
    BY <1>0, <1>5 DEF Cancel, HandleTimeout
  <2>2. {u, v} \subseteq user_index_' => Before(u, v)'
    BY <1>0, <2>1, RemovalKeepsOrder
  <2>3. UNCHANGED smVars
    BY <1>5 DEF Cancel, HandleTimeout
  <2>4. QED BY <1>2, <2>2, <2>3
<1>6. CASE PairIfPossible
  <2> DEFINE a == queue_[1].user
             b == queue_[2].user
  <2>1. /\ {u, v} \subseteq user_index_' => Before(u, v)'
        /\ v \in {a, b} => u \in {a, b}
    BY <1>0, <1>6, PairingKeepsOrder
  <2>2. a # b /\ {a, b} \subseteq user_index_
    BY <1>0, <1>6, PairIndex
  <2>3. a \in Users /\ b \in Users /\ user_to_session_[a] = 0 /\ user_to_session_[b] = 0
    BY <2>2 DEF Placement, QueuedOrPlaying, TypeOK, QueueTypeOK
  <2>4. CreateSession(<<a, b>>)
    BY <1>6 DEF PairIfPossible
  <2> HIDE DEF a, b
  <2>5. \A w \in Users \ {a, b} : user_to_session_'[w] = user_to_session_[w]
    BY <1>0, <2>2, <2>3, <2>4, CreateRouting
  <2>6. \A w \in {a, b} : user_to_session_'[w] # 0
    <3>1. \A w \in {a, b} : user_to_session_'[w] = next_session_id_
      BY <1>0, <2>3, <2>4 DEF CreateSession, SMTypeOK
    <3>2. next_session_id_ # 0
      BY <1>0, SessionManagerConstants DEF SMTypeOK
    <3>3. QED BY <3>1, <3>2
  <2>7. QED BY <1>1, <2>1, <2>5, <2>6
<1>7. CASE OnTick \/ TimeoutsDone \/ RearmTimer
  BY <1>2, <1>3, <1>7 DEF OnTick, TimeoutsDone, RearmTimer
<1>8. CASE Advance
  <2>1. /\ queue_' \in Seq(Entry) /\ Len(queue_') = Len(queue_)
        /\ \A i \in 1 .. Len(queue_) : queue_'[i].user = queue_[i].user
    BY <1>0, <1>8, AdvanceProperties
  <2>2. DOMAIN queue_' = DOMAIN queue_
    BY <1>0, <2>1, LenProperties
  <2>3. Before(u, v)'
    BY <1>0, <2>1, <2>2 DEF Before
  <2>4. QED BY <1>2, <1>8, <2>3 DEF Advance
<1>9. CASE SMStep /\ UNCHANGED queueVars
  <2>1. user_to_session_'[v] = 0
    BY <1>0, <1>1, <1>9, SMStepRouting
  <2>2. Before(u, v)'
    BY <1>3, <1>9 DEF queueVars
  <2>3. QED BY <2>1, <2>2
<1>10. CASE UNCHANGED vars
  BY <1>2, <1>3, <1>10 DEF vars, queueVars
<1>11. QED
  BY <1>4, <1>5, <1>6, <1>7, <1>8, <1>9, <1>10 DEF Next, QueueStep, TimerStep, QueueJoin, QueueCancel

(* contract.md: those are matched who came first.  Cancellations and       *)
(* timeouts in the middle of the list, joins between two ticks, and the    *)
(* end of other sessions never let anyone overtake.                        *)
THEOREM FirstComeFirstServed == Spec => [][NoOvertaking]_vars
<1>1. TypeOK /\ Placement /\ [Next]_vars => [NoOvertaking]_vars
  BY StepKeepsOrder
<1>2. QED BY <1>1, PlacementCorrect, PTL DEF Spec

---------------------------------------------------------------------------
(* The contract of the session manager.  For the manager alone, with any   *)
(* caller that keeps it, Routing is inductive.                             *)
LEMMA SMInitCorrect == SMInit => SMTypeOK /\ Routing
<1> SUFFICES ASSUME SMInit PROVE SMTypeOK /\ Routing
  OBVIOUS
<1> USE SimulationConstants, SessionManagerConstants
<1>1. SMTypeOK
  BY DEF SMInit, SMTypeOK, Phases, RequestType
<1>2. Routing
  BY DEF SMInit, Routing, Live, Participant
<1>3. QED BY <1>1, <1>2

LEMMA SMNextCorrect == SMTypeOK /\ Routing /\ [SMNext]_smVars => SMTypeOK' /\ Routing'
<1> SUFFICES ASSUME SMTypeOK, Routing, [SMNext]_smVars PROVE SMTypeOK' /\ Routing'
  OBVIOUS
<1>1. CASE SMStep
  BY <1>1, SMStepType, SMStepRouting
<1>2. CASE CreateFreely
  <2>1. PICK u \in Users, v \in Users :
           /\ u # v /\ user_to_session_[u] = 0 /\ user_to_session_[v] = 0
           /\ CreateSession(<<u, v>>)
    BY <1>2 DEF CreateFreely, IsUserInSession
  <2>2. QED BY <2>1, CreateType, CreateRouting
<1>3. CASE UNCHANGED smVars
  BY <1>3 DEF SMTypeOK, Routing, Live, Participant, smVars, strandVars, mapVars, storeVars, connVars
<1>4. QED BY <1>1, <1>2, <1>3 DEF SMNext

(* Whoever creates the sessions, as long as it takes two distinct users    *)
(* that are in none, the manager's maps and contexts agree.                *)
THEOREM SessionManagerCorrect == SMSafety => [](SMTypeOK /\ Routing)
  BY SMInitCorrect, SMNextCorrect, PTL DEF SMSafety

(* A step of the queue is one of the session manager with such a caller.   *)
LEMMA StepKeepsContract ==
    ASSUME TypeOK, Placement, [Next]_vars
    PROVE  [SMNext]_smVars
<1>1. CASE PairIfPossible
  <2> DEFINE u == queue_[1].user
             v == queue_[2].user
  <2>1. u # v /\ u \in user_index_ /\ v \in user_index_
    BY <1>1, PairIndex DEF TypeOK, QueueTypeOK, Entry, Placement
  <2>2. u \in Users /\ v \in Users /\ user_to_session_[u] = 0 /\ user_to_session_[v] = 0
    BY <2>1 DEF Placement, QueuedOrPlaying, TypeOK, QueueTypeOK
  <2>3. CreateSession(<<u, v>>)
    BY <1>1 DEF PairIfPossible
  <2> HIDE DEF u, v
  <2>4. QED BY <2>1, <2>2, <2>3 DEF SMNext, CreateFreely, IsUserInSession
<1>2. CASE QueueStep /\ ~PairIfPossible
  BY <1>2 DEF QueueStep, TimerStep, QueueJoin, QueueCancel, Join, Cancel, OnTick, HandleTimeout,
              TimeoutsDone, RearmTimer, Advance
<1>3. CASE SMStep
  BY <1>3 DEF SMNext
<1>4. CASE UNCHANGED vars
  BY <1>4 DEF vars
<1>5. QED BY <1>1, <1>2, <1>3, <1>4 DEF Next

(* The queue is such a caller: it never pairs a user with itself or one    *)
(* that is in a session, though it looks at neither when it pairs.         *)
THEOREM ContractKept == Spec => UsesSessionManager
<1>1. Init => SMInit
  BY DEF Init
<1>2. TypeOK /\ Placement /\ [Next]_vars => [SMNext]_smVars
  BY StepKeepsContract
<1>3. QED BY <1>1, <1>2, PlacementCorrect, PTL DEF Spec, SMSafety, UsesSessionManager

---------------------------------------------------------------------------
Frozen == \A s \in Sessions : Ended(s) => simulation'[s] = simulation[s]

(* The only steps that touch a simulation are the creation of its session, *)
(* a tick, and an accepted input; none is taken for a session that has     *)
(* ended.                                                                  *)
LEMMA StepFrozen ==
    ASSUME SMTypeOK, Routing, [SMNext]_smVars
    PROVE  Frozen
<1> USE SimulationConstants, SessionManagerConstants
<1>1. ASSUME UNCHANGED simulation PROVE Frozen
  BY <1>1 DEF Frozen
<1>2. ASSUME NEW s \in Sessions, ~Ended(s), NEW value,
             simulation' = [simulation EXCEPT ![s] = value]
      PROVE  Frozen
  BY <1>2 DEF Frozen, SMTypeOK
<1>3. ASSUME NEW s \in Sessions, StrandStep(s) PROVE Frozen
  <2>1. CASE HandleTick(s)
    BY <1>2, <2>1 DEF HandleTick, Ended
  <2>2. CASE ~HandleTick(s)
    BY <1>1, <1>3, <2>2 DEF StrandStep, AnnounceCreated, AnnounceStarted, FinishSession,
                           SaveResult, RateResult, EraseSession
  <2>3. QED BY <2>1, <2>2
<1>4. ASSUME NEW c \in Connections, RunInput(c) PROVE Frozen
  <2> DEFINE s == request[c].session
  <2>1. CASE UNCHANGED simulation
    BY <1>1, <2>1
  <2>2. CASE /\ AnswerOf(s, Owner[c], request[c].command) = "ok"
             /\ simulation' = [simulation EXCEPT ![s] =
                                  EnqueueInput(@, InputOf(Owner[c], request[c].command))]
    BY <2>2 DEF AnswerOf, Frozen, SMTypeOK
  <2>3. QED BY <1>4, <2>1, <2>2 DEF RunInput
<1>5. ASSUME NEW c \in Connections, NEW named \in NamedSessions, NEW command \in Commands,
             SubmitInput(c, named, command)
      PROVE  Frozen
  <2> DEFINE s == user_to_session_[Owner[c]]
  <2>1. CASE UNCHANGED simulation
    BY <1>1, <2>1
  <2>2. CASE /\ AnswerOf(s, Owner[c], command) = "ok"
             /\ simulation' = [simulation EXCEPT ![s] = EnqueueInput(@, InputOf(Owner[c], command))]
    BY <2>2 DEF AnswerOf, Frozen, SMTypeOK
  <2>3. QED BY <1>5, <2>1, <2>2 DEF SubmitInput
<1>6. ASSUME NEW c \in Connections, Register(c) \/ Unregister(c) PROVE Frozen
  BY <1>1, <1>6 DEF Register, Unregister, strandVars
<1>7. ASSUME NEW u \in Users, NEW v \in Users, CreateSession(<<u, v>>) PROVE Frozen
  <2>1. PICK s \in Sessions : s = next_session_id_
    BY <1>7 DEF CreateSession, SMTypeOK
  <2>2. ~Ended(s)
    BY <2>1 DEF Routing, Ended
  <2>3. QED BY <1>2, <1>7, <2>1, <2>2 DEF CreateSession
<1>8. CASE CreateFreely
  BY <1>7, <1>8 DEF CreateFreely
<1>9. CASE UNCHANGED smVars
  BY <1>1, <1>9 DEF smVars, strandVars
<1>10. QED BY <1>3, <1>4, <1>5, <1>6, <1>8, <1>9 DEF SMNext, SMStep

(* A session that has ended keeps the state its result was computed from,  *)
(* whatever inputs were still on their way to its strand.                  *)
THEOREM EndedSessionIsFrozen == SMSafety => EndedIsFrozen
<1>1. SMTypeOK /\ Routing /\ [SMNext]_smVars => [Frozen]_smVars
  BY StepFrozen
<1>2. SMSafety => [][Frozen]_smVars
  BY <1>1, SessionManagerCorrect, PTL DEF SMSafety
<1>3. QED BY <1>2 DEF EndedIsFrozen, Frozen

---------------------------------------------------------------------------
(* The simulation of a session whose participants are the users of P: only *)
(* their inputs are in its buffers, and they are its players.              *)
InSession(sim, P) ==
    /\ sim = [current_tick |-> sim.current_tick, inputs_by_tick |-> sim.inputs_by_tick,
              trackers |-> sim.trackers, players |-> sim.players]
    /\ sim.current_tick \in Nat
    /\ sim.inputs_by_tick \in [TargetTicks -> Seq(InputsOf(P))]
    /\ sim.players \in [P -> Player]

LEMMA NewInSession ==
    ASSUME NEW u, NEW v
    PROVE  LET sim == AddPlayer(AddPlayer(NewSimulation, u), v)
           IN  InSession(sim, {u, v}) /\ sim.current_tick = 0
<1> DEFINE empty == [t \in TargetTicks |-> <<>>]
           trackers == [w \in Users |-> NewTracker]
           none == [w \in {} |-> NewPlayer]
           one == [w \in {u} |-> NewPlayer]
           both == [w \in {u, v} |-> NewPlayer]
           Sim(players) == [current_tick |-> 0, inputs_by_tick |-> empty,
                            trackers |-> trackers, players |-> players]
           Known(players, w) == [x \in DOMAIN players \cup {w} |->
                                   IF x \in DOMAIN players THEN players[x] ELSE NewPlayer]
<1>1. NewSimulation = Sim(none)
  BY DEF NewSimulation
<1>2. empty \in [TargetTicks -> Seq(InputsOf({u, v}))]
  OBVIOUS
<1>3. Known(none, u) = one
  OBVIOUS
<1>4. Known(one, v) = both
  OBVIOUS
<1> HIDE DEF empty, trackers
<1>5. \A players, w : AddPlayer(Sim(players), w) = Sim(Known(players, w))
  BY DEF AddPlayer
<1> HIDE DEF none, one, Known
<1>6. AddPlayer(AddPlayer(NewSimulation, u), v) = Sim(both)
  <2>1. AddPlayer(Sim(none), u) = Sim(one)
    BY <1>3, <1>5, Zenon
  <2>2. AddPlayer(Sim(one), v) = Sim(both)
    BY <1>4, <1>5, Zenon
  <2>3. QED BY <1>1, <2>1, <2>2, Zenon
<1>7. both \in [{u, v} -> Player]
  BY DEF NewPlayer, Player
<1> HIDE DEF both
<1>8. InSession(Sim(both), {u, v}) /\ Sim(both).current_tick = 0
  BY <1>2, <1>7 DEF InSession
<1> HIDE DEF Sim
<1>9. QED BY <1>6, <1>8, Zenon

LEMMA EnqueueInSession ==
    ASSUME NEW P, NEW sim, InSession(sim, P), NEW input \in InputsOf(P),
           input.target_tick \in TargetTicks
    PROVE  /\ InSession(EnqueueInput(sim, input), P)
           /\ EnqueueInput(sim, input).current_tick = sim.current_tick
<1> DEFINE t == input.target_tick
           counted == [sim.trackers EXCEPT ![input.user_id] = Count(@, input)]
           buffer == sim.inputs_by_tick
           longer == [buffer EXCEPT ![t] = Append(@, input)]
<1>1. CASE ~Accepts(sim, input)
  BY <1>1 DEF EnqueueInput
<1>2. CASE Accepts(sim, input)
  <2>1. EnqueueInput(sim, input) = [current_tick |-> sim.current_tick, inputs_by_tick |-> longer,
                                    trackers |-> counted, players |-> sim.players]
    BY <1>2 DEF EnqueueInput, InSession
  <2>2. buffer \in [TargetTicks -> Seq(InputsOf(P))]
    BY DEF InSession
  <2> HIDE DEF counted, buffer
  <2>3. longer \in [TargetTicks -> Seq(InputsOf(P))]
    <3>1. buffer[t] \in Seq(InputsOf(P))
      BY <2>2
    <3>2. Append(buffer[t], input) \in Seq(InputsOf(P))
      BY <3>1
    <3>3. QED BY <2>2, <3>2
  <2> HIDE DEF longer
  <2>4. QED BY <2>1, <2>3 DEF InSession
<1>3. QED BY <1>1, <1>2

LEMMA TickInSession ==
    ASSUME NEW P, \A u \in P : u \in Int, NEW sim, InSession(sim, P)
    PROVE  /\ InSession(TickOnce(sim), P)
           /\ TickOnce(sim).current_tick = sim.current_tick + 1
<1> DEFINE t == sim.current_tick + 1
           buffer == sim.inputs_by_tick
           after == FoldLeft(ApplyEvent, sim.players, StableSort(buffer[t]))
           emptied == [buffer EXCEPT ![t] = <<>>]
<1>1. t \in Nat
  BY DEF InSession
<1>2. CASE t \notin TargetTicks
  <2>1. TickOnce(sim) = [current_tick |-> t, inputs_by_tick |-> buffer,
                         trackers |-> sim.trackers, players |-> sim.players]
    BY <1>2 DEF TickOnce, InSession
  <2>2. QED BY <1>1, <2>1 DEF InSession
<1>3. CASE t \in TargetTicks
  <2>1. /\ TickOnce(sim) = [sim EXCEPT !.current_tick = t, !.players = after,
                                       !.inputs_by_tick[t] = <<>>]
    BY <1>3 DEF TickOnce
  <2>2. sim = [current_tick |-> sim.current_tick, inputs_by_tick |-> buffer,
               trackers |-> sim.trackers, players |-> sim.players]
    BY DEF InSession
  <2>3. buffer \in [TargetTicks -> Seq(InputsOf(P))] /\ sim.players \in [P -> Player]
    BY DEF InSession
  <2>4. after \in [P -> Player]
    <3> DEFINE seq == buffer[t]
    <3>1. seq \in Seq(InputsOf(P))
      BY <1>3, <2>3
    <3> HIDE DEF seq
    <3>2. Listed(seq, P)
      BY <3>1 DEF Listed
    <3>3. sim.players \in PlayersOf(P) /\ DOMAIN sim.players = P
      BY <2>3 DEF PlayersOf
    <3> DEFINE sorted == StableSort(seq)
    <3>4. Listed(sorted, P)
      BY <3>2, StableSortSorts
    <3>5. after = FoldLeft(ApplyEvent, sim.players, sorted)
      BY DEF seq
    <3> HIDE DEF sorted, after
    <3>6. PICK h : Applies(h, sim.players, sorted, P)
      BY <3>3, <3>4, FoldApplies
    <3> DEFINE n == Len(sorted)
               D == {i \in 0 .. n : DOMAIN h[i] = P}
    <3>7. n \in Nat /\ \A i \in 1 .. n : sorted[i].user_id \in P
      BY <3>4 DEF Listed, InputsOf
    <3>8. h[0] = sim.players /\ (\A i \in 1 .. n : h[i] = ApplyEvent(h[i - 1], sorted[i]))
          /\ after = h[n] /\ h[n] \in PlayersOf(P)
      <4>1. n \in 0 .. n
        BY <3>7
      <4>2. QED BY <3>5, <3>6, <4>1 DEF Applies
    <3> HIDE DEF n
    <3>9. 0 \in D
      BY <3>3, <3>7, <3>8
    <3>10. ASSUME NEW i \in 0 .. n, i \in D, i < n PROVE i + 1 \in D
      <4>1. i + 1 \in 1 .. n /\ (i + 1) - 1 = i /\ i + 1 \in 0 .. n
        BY <3>7, <3>10
      <4> DEFINE before == h[i]
                 input == sorted[i + 1]
      <4>2. h[i + 1] = ApplyEvent(before, input) /\ input.user_id \in P /\ DOMAIN before = P
        BY <3>7, <3>8, <3>10, <4>1
      <4> HIDE DEF before, input
      <4>3. DOMAIN h[i + 1] = DOMAIN before \cup {input.user_id}
        BY <4>2, ApplyEventAt
      <4>4. QED BY <4>1, <4>2, <4>3
    <3> HIDE DEF D
    <3>11. 0 .. n \subseteq D
      BY <3>7, <3>9, <3>10, IntervalInduction
    <3>12. DOMAIN after = P
      BY <3>7, <3>8, <3>11 DEF D
    <3>13. QED BY <3>8, <3>12 DEF PlayersOf
  <2>5. emptied \in [TargetTicks -> Seq(InputsOf(P))]
    <3>1. <<>> \in Seq(InputsOf(P))
      OBVIOUS
    <3> HIDE DEF buffer
    <3>2. QED BY <2>3, <3>1
  <2>6. TickOnce(sim) = [current_tick |-> t, inputs_by_tick |-> emptied,
                         trackers |-> sim.trackers, players |-> after]
    <3> HIDE DEF after
    <3>1. QED BY <2>1, <2>2
  <2> HIDE DEF emptied, after, t
  <2>7. QED BY <1>1, <2>4, <2>5, <2>6 DEF InSession, t
<1>4. QED BY <1>2, <1>3

---------------------------------------------------------------------------
(* A session that has been created has two participants, and its state is  *)
(* that of as many ticks as have been sent; only when all of them have     *)
(* been does it finish.                                                    *)
Playing(s) ==
    \E u, v \in Users : /\ u # v
                        /\ participants[s] = <<u, v>>
                        /\ InSession(simulation[s], {u, v})

Context(s) ==
    /\ phase[s] = "none" => participants[s] = <<>> /\ simulation[s] = NewSimulation
    /\ phase[s] # "none" => Playing(s)
    /\ simulation[s].current_tick = tick_sent[s]
    /\ phase[s] \in {"none", "created", "announced"} => tick_sent[s] = 0
    /\ phase[s] = "running" => tick_sent[s] < MaxTicks
    /\ phase[s] = "finishing" \/ Ended(s) => tick_sent[s] = MaxTicks

Contexts == \A s \in Sessions : Context(s)

LEMMA ContextKept ==
    ASSUME NEW s, Context(s),
           phase'[s] = phase[s], participants'[s] = participants[s],
           tick_sent'[s] = tick_sent[s], simulation'[s] = simulation[s]
    PROVE  Context(s)'
  BY DEF Context, Playing, Ended

(* An input that its session accepts comes from a participant.             *)
LEMMA ContextEnqueue ==
    ASSUME SMTypeOK, Contexts, NEW s \in Sessions, NEW u \in Users, NEW command \in Commands,
           AnswerOf(s, u, command) = "ok",
           simulation' = [simulation EXCEPT ![s] = EnqueueInput(@, InputOf(u, command))],
           UNCHANGED <<phase, participants, tick_sent>>
    PROVE  Contexts'
<1> DEFINE input == InputOf(u, command)
           sim == simulation[s]
<1>1. u \in Participant(s)
  BY DEF AnswerOf
<1>2. DOMAIN simulation = Sessions /\ simulation'[s] = EnqueueInput(sim, input)
  BY DEF SMTypeOK
<1>3. Context(s)
  BY DEF Contexts
<1>4. phase[s] # "none"
  BY <1>1, <1>3 DEF Context, Participant
<1>5. PICK v \in Users, w \in Users : /\ v # w /\ participants[s] = <<v, w>>
                                      /\ InSession(sim, {v, w})
  BY <1>3, <1>4 DEF Context, Playing
<1>6. u \in {v, w}
  BY <1>1, <1>5 DEF Participant
<1>7. input \in InputsOf({v, w}) /\ input.target_tick \in TargetTicks
  <2>1. input \in Inputs
    BY DEF Inputs
  <2>2. input \in InputsOf(Users) /\ input.target_tick \in TargetTicks
    BY <2>1, InputTypes
  <2>3. input.user_id = u
    BY DEF InputOf
  <2> HIDE DEF input
  <2>4. QED BY <1>6, <2>2, <2>3 DEF InputsOf
<1> HIDE DEF input, sim
<1>8. /\ InSession(EnqueueInput(sim, input), {v, w})
      /\ EnqueueInput(sim, input).current_tick = sim.current_tick
  BY <1>5, <1>7, EnqueueInSession
<1>9. Context(s)'
  <2>1. Playing(s)'
    BY <1>2, <1>5, <1>8 DEF Playing
  <2>2. QED BY <1>2, <1>3, <1>4, <1>8, <2>1 DEF Context, Ended, sim
<1>10. ASSUME NEW r \in Sessions, r # s PROVE Context(r)'
  BY <1>2, <1>10, ContextKept DEF Contexts
<1>11. QED BY <1>9, <1>10 DEF Contexts

LEMMA ContextTick ==
    ASSUME SMTypeOK, Contexts, NEW s \in Sessions, HandleTick(s)
    PROVE  Contexts'
<1> DEFINE sim == simulation[s]
           n == tick_sent[s]
<1>1. /\ DOMAIN simulation = Sessions /\ phase \in [Sessions -> Phases]
      /\ tick_sent \in [Sessions -> Nat] /\ Context(s)
  BY DEF SMTypeOK, Contexts
<1>2. /\ phase[s] = "running" /\ participants' = participants
      /\ simulation' = [simulation EXCEPT ![s] = TickOnce(@)]
      /\ tick_sent' = [tick_sent EXCEPT ![s] = @ + 1]
      /\ phase' = [phase EXCEPT ![s] = IF tick_sent'[s] >= MaxTicks THEN "finishing" ELSE "running"]
  BY DEF HandleTick
<1>3. /\ simulation'[s] = TickOnce(sim) /\ tick_sent'[s] = n + 1 /\ n \in Nat /\ n < MaxTicks
      /\ MaxTicks \in Nat /\ sim.current_tick = n
      /\ phase'[s] = IF tick_sent'[s] >= MaxTicks THEN "finishing" ELSE "running"
  BY <1>1, <1>2, SessionManagerConstants DEF Context
<1>4. PICK v \in Users, w \in Users : /\ v # w /\ participants[s] = <<v, w>>
                                      /\ InSession(sim, {v, w})
  BY <1>1, <1>2 DEF Context, Playing
<1> HIDE DEF sim, n
<1>5. InSession(TickOnce(sim), {v, w}) /\ TickOnce(sim).current_tick = n + 1
  <2>1. \A u \in {v, w} : u \in Int
    BY InputTypes
  <2>2. QED BY <1>3, <1>4, <2>1, TickInSession
<1>6. Playing(s)'
  BY <1>2, <1>3, <1>4, <1>5 DEF Playing
<1>7. Context(s)'
  <2>1. CASE n + 1 >= MaxTicks
    <3>1. tick_sent'[s] = MaxTicks /\ phase'[s] = "finishing" /\ simulation'[s].current_tick = tick_sent'[s]
      BY <1>3, <1>5, <2>1
    <3>2. QED BY <1>6, <3>1 DEF Context, Ended
  <2>2. CASE ~(n + 1 >= MaxTicks)
    <3>1. tick_sent'[s] < MaxTicks /\ phase'[s] = "running" /\ simulation'[s].current_tick = tick_sent'[s]
      BY <1>3, <1>5, <2>2
    <3>2. QED BY <1>6, <3>1 DEF Context, Ended
  <2>3. QED BY <2>1, <2>2
<1>8. ASSUME NEW r \in Sessions, r # s PROVE Context(r)'
  BY <1>1, <1>2, <1>8, ContextKept DEF Contexts
<1>9. QED BY <1>7, <1>8 DEF Contexts

LEMMA ContextCreate ==
    ASSUME SMTypeOK, Routing, Contexts, NEW u \in Users, NEW v \in Users, u # v, CreateSession(<<u, v>>)
    PROVE  Contexts'
<1>1. PICK s \in Sessions : s = next_session_id_
  BY SessionManagerConstants DEF CreateSession, SMTypeOK
<1> DEFINE both == AddPlayer(AddPlayer(simulation[s], u), v)
<1>2. phase[s] = "none" /\ Context(s)
  BY <1>1, SessionManagerConstants DEF Routing, Contexts
<1>3. /\ DOMAIN simulation = Sessions /\ DOMAIN phase = Sessions /\ DOMAIN participants = Sessions
  BY DEF SMTypeOK
<1>4. /\ participants' = [participants EXCEPT ![s] = <<u, v>>]
      /\ phase' = [phase EXCEPT ![s] = "created"]
      /\ simulation' = [simulation EXCEPT ![s] = both]
      /\ tick_sent' = tick_sent
  BY <1>1 DEF CreateSession
<1>5. simulation[s] = NewSimulation /\ tick_sent[s] = 0
  BY <1>2 DEF Context
<1>6. InSession(both, {u, v}) /\ both.current_tick = 0
  BY <1>5, NewInSession
<1> HIDE DEF both
<1>7. Context(s)'
  <2>1. phase'[s] = "created" /\ tick_sent'[s] = 0 /\ participants'[s] = <<u, v>> /\ simulation'[s] = both
    BY <1>3, <1>4, <1>5
  <2>2. Playing(s)'
    BY <1>6, <2>1 DEF Playing
  <2>3. QED BY <1>6, <2>1, <2>2 DEF Context, Ended
<1>8. ASSUME NEW r \in Sessions, r # s PROVE Context(r)'
  BY <1>3, <1>4, <1>8, ContextKept DEF Contexts
<1>9. QED BY <1>7, <1>8 DEF Contexts

LEMMA ContextsInit == SMInit => Contexts
  BY SessionManagerConstants DEF SMInit, Contexts, Context, Ended, NewSimulation

LEMMA ContextsNext ==
    ASSUME SMTypeOK, Routing, Contexts, [SMNext]_smVars
    PROVE  Contexts'
<1>0. DOMAIN phase = Sessions
  BY DEF SMTypeOK
<1>1. ASSUME NEW s \in Sessions, NEW p, phase' = [phase EXCEPT ![s] = p],
             UNCHANGED <<participants, tick_sent, simulation>>,
             phase[s] # "none", p # "none",
             \/ phase[s] = "created" /\ p = "announced"
             \/ phase[s] = "announced" /\ p = "running"
             \/ phase[s] = "finishing" /\ p = "saving"
             \/ Ended(s) /\ p \in {"rating", "erasing", "closed"}
      PROVE  Contexts'
  <2>1. Context(s) /\ phase'[s] = p
    BY <1>0, <1>1 DEF Contexts
  <2>2. Playing(s)'
    BY <1>1, <2>1 DEF Context, Playing
  <2>3. Context(s)'
    BY <1>1, <2>1, <2>2, SessionManagerConstants DEF Context, Ended
  <2>4. ASSUME NEW r \in Sessions, r # s PROVE Context(r)'
    BY <1>0, <1>1, <2>4, ContextKept DEF Contexts
  <2>5. QED BY <2>3, <2>4 DEF Contexts
<1>2. ASSUME UNCHANGED strandVars PROVE Contexts'
  BY <1>2, ContextKept DEF Contexts, strandVars
<1>3. ASSUME NEW s \in Sessions, StrandStep(s) PROVE Contexts'
  <2>1. CASE HandleTick(s)
    BY <2>1, ContextTick
  <2>2. CASE AnnounceCreated(s)
    BY <1>1, <2>2 DEF AnnounceCreated
  <2>3. CASE AnnounceStarted(s)
    BY <1>1, <2>3 DEF AnnounceStarted
  <2>4. CASE FinishSession(s)
    BY <1>1, <2>4 DEF FinishSession
  <2>5. CASE SaveResult(s)
    BY <1>1, <2>5 DEF SaveResult, Ended
  <2>6. CASE RateResult(s)
    BY <1>1, <2>6 DEF RateResult, Ended
  <2>7. CASE EraseSession(s)
    BY <1>1, <2>7 DEF EraseSession, Ended
  <2>8. QED BY <1>3, <2>1, <2>2, <2>3, <2>4, <2>5, <2>6, <2>7 DEF StrandStep
<1>4. ASSUME NEW c \in Connections, RunInput(c) PROVE Contexts'
  <2> DEFINE s == request[c].session
             command == request[c].command
  <2>1. s \in Sessions /\ command \in Commands
    BY <1>4 DEF RunInput, SMTypeOK, RequestType, NoRequest, Answers
  <2>2. Owner[c] \in Users
    BY SessionManagerConstants
  <2>3. CASE AnswerOf(s, Owner[c], command) = "ok"
    BY <1>4, <2>1, <2>2, <2>3, ContextEnqueue DEF RunInput
  <2>4. CASE AnswerOf(s, Owner[c], command) # "ok"
    BY <1>2, <1>4, <2>4 DEF RunInput, strandVars
  <2>5. QED BY <2>3, <2>4
<1>5. ASSUME NEW c \in Connections, NEW named \in NamedSessions, NEW command \in Commands,
             SubmitInput(c, named, command)
      PROVE  Contexts'
  <2> DEFINE s == user_to_session_[Owner[c]]
  <2>1. UNCHANGED <<participants, phase, tick_sent>>
    BY <1>5 DEF SubmitInput
  <2>2. CASE UNCHANGED simulation
    BY <1>2, <2>1, <2>2 DEF strandVars
  <2>3. CASE /\ s \in sessions_ /\ AnswerOf(s, Owner[c], command) = "ok"
             /\ simulation' = [simulation EXCEPT ![s] = EnqueueInput(@, InputOf(Owner[c], command))]
    <3>1. s \in Sessions /\ Owner[c] \in Users
      BY <2>3, SessionManagerConstants DEF SMTypeOK
    <3>2. QED BY <2>1, <2>3, <3>1, ContextEnqueue
  <2>4. QED BY <1>5, <2>2, <2>3 DEF SubmitInput
<1>6. ASSUME NEW c \in Connections, Register(c) \/ Unregister(c) PROVE Contexts'
  BY <1>2, <1>6 DEF Register, Unregister
<1>7. CASE CreateFreely
  BY <1>7, ContextCreate DEF CreateFreely
<1>8. CASE UNCHANGED smVars
  BY <1>2, <1>8 DEF smVars
<1>9. QED BY <1>3, <1>4, <1>5, <1>6, <1>7, <1>8 DEF SMNext, SMStep

---------------------------------------------------------------------------
(* FinishSession's loop over a snapshot of two players.                    *)
LEMMA WinnerOf ==
    ASSUME NEW snapshot, NEW p, NEW q, snapshot.players = <<p, q>>,
           p.position \in Int, q.position \in Int
    PROVE  Winner(snapshot) = IF q.position > p.position THEN q.userId ELSE p.userId
<1> DEFINE seq == snapshot.players
           X == {p, q}
           S == {1, 2}
           F == [i \in S |-> [y \in X |-> IF seq[i].position > y.position THEN seq[i] ELSE y]]
           pick == [s \in SUBSET S |-> Max(s)]
           Folds(g) == g = [s \in SUBSET S |->
                               IF s = {} THEN p
                               ELSE LET best == g[s \ {Max(s)}]
                                        next == seq[Max(s)]
                                    IN  IF next.position > best.position THEN next ELSE best]
           f == CHOOSE g : Folds(g)
<1>1. seq[1] = p /\ seq[2] = q /\ DOMAIN seq = S
  OBVIOUS
<1>2. Max({1}) = 1 /\ Max({1, 2}) = 2 /\ Max({2}) = 2
  <2>1. {1} \subseteq Int /\ 1 \in {1} /\ \A y \in {1} : 1 >= y
    OBVIOUS
  <2>2. {1, 2} \subseteq Int /\ 2 \in {1, 2} /\ \A y \in {1, 2} : 2 >= y
    OBVIOUS
  <2>3. {2} \subseteq Int /\ 2 \in {2} /\ \A y \in {2} : 2 >= y
    OBVIOUS
  <2>4. QED BY <2>1, <2>2, <2>3, MaxIs
<1>3. SUBSET S = {{}, {1}, {2}, {1, 2}}
  OBVIOUS
<1>4. \E g : Folds(g)
  <2>1. IsFiniteSet(S)
    <3>1. IsFiniteSet({1}) /\ S = {1} \cup {2}
      BY FS_Singleton
    <3>2. QED BY <3>1, FS_AddElement
  <2>2. \A s \in SUBSET S : s # {} => pick[s] \in s
    BY <1>2, <1>3
  <2>3. \A i \in S : \A y \in X : F[i][y] \in X
    BY <1>1
  <2>4. \A s \in SUBSET S : pick[s] = Max(s)
    OBVIOUS
  <2>5. p \in X
    OBVIOUS
  <2>6. \A i \in S : \A y \in X : F[i][y] = IF seq[i].position > y.position THEN seq[i] ELSE y
    OBVIOUS
  <2> HIDE DEF F, pick, X, S
  <2>7. CanFold(F, p, pick, S, X)
    BY <2>1, <2>2, <2>3, <2>5 DEF CanFold
  <2>8. PICK g : IsFold(g, F, p, pick, S, X)
    BY <2>7, FoldExists
  <2>9. /\ g \in [SUBSET S -> X]
        /\ \A s \in SUBSET S : g[s] = FoldStep(g, F, p, pick, s)
    BY <2>8 DEF IsFold
  <2>10. ASSUME NEW s \in SUBSET S, s # {}
         PROVE  g[s] = IF seq[Max(s)].position > g[s \ {Max(s)}].position
                       THEN seq[Max(s)] ELSE g[s \ {Max(s)}]
    <3>1. Max(s) \in S /\ s \ {Max(s)} \in SUBSET S
      BY <2>2, <2>4, <2>10
    <3>2. g[s] = F[Max(s)][g[s \ {Max(s)}]]
      BY <2>4, <2>9, <2>10 DEF FoldStep
    <3>3. g[s \ {Max(s)}] \in X
      BY <2>9, <3>1
    <3>4. QED BY <2>6, <3>1, <3>2, <3>3
  <2>11. ASSUME NEW s \in SUBSET S, s = {} PROVE g[s] = p
    BY <2>9, <2>11 DEF FoldStep
  <2>12. Folds(g)
    BY <2>9, <2>10, <2>11
  <2> HIDE DEF Folds
  <2>13. QED BY <2>12
<1>5. Folds(f)
  <2> HIDE DEF Folds
  <2>1. QED BY <1>4
<1>6. Winner(snapshot) = f[S].userId
  BY <1>1 DEF Winner, FoldLeft, MapThenFoldSet
<1> HIDE DEF f, seq
<1>7. /\ f[{}] = p
      /\ \A s \in SUBSET S : s # {} =>
            f[s] = IF seq[Max(s)].position > f[s \ {Max(s)}].position
                   THEN seq[Max(s)] ELSE f[s \ {Max(s)}]
  BY <1>5
<1> HIDE DEF Folds
<1>8. f[{1}] = p
  <2>1. {1} \in SUBSET S /\ {1} # {} /\ {1} \ {1} = {}
    OBVIOUS
  <2>2. f[{1}] = IF seq[1].position > f[{}].position THEN seq[1] ELSE f[{}]
    BY <1>2, <1>7, <2>1
  <2>3. QED BY <1>1, <1>7, <2>2
<1>9. f[S] = IF q.position > p.position THEN q ELSE p
  <2>1. S \in SUBSET S /\ S # {} /\ S \ {2} = {1}
    OBVIOUS
  <2>2. f[S] = IF seq[2].position > f[{1}].position THEN seq[2] ELSE f[{1}]
    BY <1>2, <1>7, <2>1
  <2>3. QED BY <1>1, <1>8, <2>2
<1>10. QED BY <1>6, <1>9

(* The result of a match between a and b: a draw goes to a, the lower id.  *)
LEMMA WinnerOfTwo ==
    ASSUME NEW a \in Nat, NEW b \in Nat, a < b,
           NEW sim, sim.players \in [{a, b} -> Player]
    PROVE  Winner(Snapshot(sim)) =
             IF sim.players[b].position > sim.players[a].position THEN b ELSE a
<1> DEFINE users == DOMAIN sim.players
           precedes == {p \in users \X users : p[1] < p[2]}
           ids == InOrder(users, precedes)
           of(u) == [userId |-> u, position |-> sim.players[u].position,
                     lastSequence |-> sim.players[u].last_sequence]
           seq == Snapshot(sim).players
<1>1. users = {a, b}
  OBVIOUS
<1>2. IsFiniteSet(users) /\ Cardinality(users) = 2
  <2>1. IsFiniteSet({a}) /\ Cardinality({a}) = 1 /\ b \notin {a} /\ users = {a} \cup {b}
    <3>1. b # a
      OBVIOUS
    <3>2. IsFiniteSet({a}) /\ Cardinality({a}) = 1
      BY FS_Singleton
    <3>3. QED BY <1>1, <3>1, <3>2
  <2>2. IsFiniteSet({a} \cup {b}) /\ Cardinality({a} \cup {b}) = Cardinality({a}) + 1
    BY <2>1, FS_AddElement
  <2>3. QED BY <2>1, <2>2
<1>3. StrictOrder(users, precedes)
  BY <1>1 DEF StrictOrder
<1>4. \A x, y : <<x, y>> \in precedes => x \in Nat /\ y \in Nat /\ x < y
  BY <1>1
<1>5. seq = [i \in DOMAIN ids |-> of(ids[i])]
  BY DEF Snapshot
<1> HIDE DEF users, precedes
<1>6. Lists(ids, users, precedes)
  BY <1>2, <1>3, InOrderLists
<1> HIDE DEF ids, of, seq
<1>7. DOMAIN ids = {1, 2} /\ ids[1] \in {a, b} /\ ids[2] \in {a, b} /\ ids[1] < ids[2]
  <2>1. DOMAIN ids = 1 .. 2 /\ 1 \in 1 .. 2 /\ 2 \in 1 .. 2 /\ 1 .. 2 = {1, 2}
    BY <1>2, <1>6 DEF Lists
  <2>2. ids[1] \in users /\ ids[2] \in users /\ <<ids[1], ids[2]>> \in precedes
    BY <1>2, <1>6, <2>1 DEF Lists
  <2>3. QED BY <1>1, <1>4, <2>1, <2>2
<1>8. ids[1] = a /\ ids[2] = b
  BY <1>7
<1>9. seq = <<of(a), of(b)>>
  BY <1>5, <1>7, <1>8
<1>10. sim.players[a].position \in Int /\ sim.players[b].position \in Int
  <2>1. sim.players[a] \in Player /\ sim.players[b] \in Player
    OBVIOUS
  <2>2. QED BY <2>1 DEF Player
<1> DEFINE snapshot == Snapshot(sim)
           p == of(a)
           q == of(b)
<1>11. /\ snapshot.players = <<p, q>> /\ p.position = sim.players[a].position
       /\ q.position = sim.players[b].position /\ p.userId = a /\ q.userId = b
  BY <1>9 DEF of, seq
<1> HIDE DEF snapshot, p, q
<1>12. Winner(snapshot) = IF q.position > p.position THEN q.userId ELSE p.userId
  BY <1>10, <1>11, WinnerOf
<1>13. QED BY <1>11, <1>12 DEF snapshot

---------------------------------------------------------------------------
(* What ApplyMatchResult does to the wins and losses of the entries.       *)
Scores(entry) ==
    /\ entry = [rating |-> entry.rating, wins |-> entry.wins, losses |-> entry.losses]
    /\ entry.wins \in Nat /\ entry.losses \in Nat

AllScores(entries) == \A u \in DOMAIN entries : Scores(entries[u])

LEMMA EnsureUserScores ==
    ASSUME NEW e, AllScores(e), NEW u
    PROVE  /\ AllScores(EnsureUser(e, u))
           /\ DOMAIN EnsureUser(e, u) = DOMAIN e \cup {u}
           /\ \A v : GetSummary(EnsureUser(e, u), v) = GetSummary(e, v)
<1> DEFINE k == EnsureUser(e, u)
           D == DOMAIN e
<1>1. DOMAIN k = D \cup {u} /\ \A v \in D \cup {u} : k[v] = IF v \in D THEN e[v] ELSE NewEntry
  BY DEF EnsureUser
<1> HIDE DEF k
<1>2. Scores(NewEntry)
  BY DEF Scores, NewEntry
<1>3. QED BY <1>1, <1>2 DEF AllScores, GetSummary, k

LEMMA MatchResultScores ==
    ASSUME NEW e, AllScores(e), NEW w, NEW l, w # l
    PROVE  /\ AllScores(ApplyMatchResult(e, w, l))
           /\ \A v : /\ GetSummary(ApplyMatchResult(e, w, l), v).wins
                          = GetSummary(e, v).wins + IF v = w THEN 1 ELSE 0
                     /\ GetSummary(ApplyMatchResult(e, w, l), v).losses
                          = GetSummary(e, v).losses + IF v = l THEN 1 ELSE 0
<1> DEFINE first == EnsureUser(e, w)
           k  == EnsureUser(first, l)
           D  == DOMAIN k
           xw == ExpectedScore(k[w].rating, k[l].rating)
           xl == ExpectedScore(k[l].rating, k[w].rating)
           r  == ApplyMatchResult(e, w, l)
<1>1. /\ AllScores(k) /\ w \in D /\ l \in D
      /\ \A v : GetSummary(k, v) = GetSummary(e, v)
  <2>1. /\ AllScores(first) /\ w \in DOMAIN first
        /\ \A v : GetSummary(first, v) = GetSummary(e, v)
    BY EnsureUserScores
  <2> HIDE DEF first
  <2>2. /\ AllScores(k) /\ D = DOMAIN first \cup {l}
        /\ \A v : GetSummary(k, v) = GetSummary(first, v)
    BY <2>1, EnsureUserScores
  <2>3. QED BY <2>1, <2>2
<1>2. r = [k EXCEPT ![w] = Won(@, xw), ![l] = Lost(@, xl)]
  BY DEF ApplyMatchResult
<1> HIDE DEF k, xw, xl, r
<1>3. DOMAIN r = D /\ r[w] = Won(k[w], xw) /\ r[l] = Lost(k[l], xl) /\ \A v \in D \ {w, l} : r[v] = k[v]
  BY <1>1, <1>2
<1>4. ASSUME NEW x, Scores(x), NEW n
      PROVE  /\ Scores(Won(x, n)) /\ Won(x, n).wins = x.wins + 1 /\ Won(x, n).losses = x.losses
             /\ Scores(Lost(x, n)) /\ Lost(x, n).wins = x.wins /\ Lost(x, n).losses = x.losses + 1
  <2> DEFINE y == ApplyElo(x.rating, n, 1)
             z == ApplyElo(x.rating, n, 0)
             won == Won(x, n)
             lost == Lost(x, n)
  <2>1. won = [rating |-> y, wins |-> x.wins + 1, losses |-> x.losses]
    <3>1. won = [x EXCEPT !.rating = y, !.wins = x.wins + 1]
      BY DEF Won
    <3> HIDE DEF y, won
    <3>2. QED BY <1>4, <3>1 DEF Scores
  <2>2. lost = [rating |-> z, wins |-> x.wins, losses |-> x.losses + 1]
    <3>1. lost = [x EXCEPT !.rating = z, !.losses = x.losses + 1]
      BY DEF Lost
    <3> HIDE DEF z, lost
    <3>2. QED BY <1>4, <3>1 DEF Scores
  <2> HIDE DEF y, z
  <2>3. x.wins \in Nat /\ x.losses \in Nat
    BY <1>4 DEF Scores
  <2>4. QED BY <2>1, <2>2, <2>3 DEF Scores
<1>5. Scores(k[w]) /\ Scores(k[l]) /\ \A v \in D : Scores(k[v])
  BY <1>1 DEF AllScores
<1>6. /\ Scores(r[w]) /\ r[w].wins = k[w].wins + 1 /\ r[w].losses = k[w].losses
      /\ Scores(r[l]) /\ r[l].wins = k[l].wins /\ r[l].losses = k[l].losses + 1
  BY <1>3, <1>4, <1>5
<1>7. AllScores(r)
  BY <1>3, <1>5, <1>6 DEF AllScores
<1>8. ASSUME NEW v
      PROVE  /\ GetSummary(r, v).wins = GetSummary(k, v).wins + IF v = w THEN 1 ELSE 0
             /\ GetSummary(r, v).losses = GetSummary(k, v).losses + IF v = l THEN 1 ELSE 0
  <2>1. GetSummary(k, v).wins \in Nat /\ GetSummary(k, v).losses \in Nat
    BY <1>5 DEF GetSummary, NewEntry, Scores
  <2>2. CASE v \in {w, l}
    BY <1>1, <1>3, <1>6, <2>1, <2>2 DEF GetSummary
  <2>3. CASE v \notin {w, l}
    <3>1. GetSummary(r, v) = GetSummary(k, v)
      BY <1>3, <2>3 DEF GetSummary
    <3>2. QED BY <2>1, <2>3, <3>1
  <2>4. QED BY <2>2, <2>3
<1>9. QED BY <1>1, <1>7, <1>8 DEF r

---------------------------------------------------------------------------
RecordOf(pair, sim) ==
    LET snapshot == Snapshot(sim)
    IN  [user1_id |-> pair[1], user2_id |-> pair[2],
         winner_user_id |-> Winner(snapshot), tick_count |-> snapshot.tick,
         snapshot |-> snapshot]

LEMMA ResultRecordIs == \A s : ResultRecord(s) = RecordOf(participants[s], simulation[s])
  BY DEF ResultRecord, RecordOf

(* w has moved farthest, or as far as its opponent and has the lower id.   *)
Best(players, w) ==
    \A u \in DOMAIN players \ {w} :
        \/ players[u].position < players[w].position
        \/ players[u].position = players[w].position /\ w < u

LEMMA RecordFacts ==
    ASSUME NEW u \in Users, NEW v \in Users, u # v, NEW sim, InSession(sim, {u, v}),
           NEW record, record = RecordOf(<<u, v>>, sim)
    PROVE  /\ record.user1_id = u /\ record.user2_id = v
           /\ record.snapshot = Snapshot(sim) /\ record.tick_count = sim.current_tick
           /\ DOMAIN sim.players = {u, v}
           /\ record.winner_user_id \in {u, v}
           /\ Best(sim.players, record.winner_user_id)
<1>1. u \in Nat /\ v \in Nat
  BY SimulationConstants
<1>2. sim.players \in [{u, v} -> Player]
  BY DEF InSession
<1>3. PICK a \in Nat, b \in Nat : a < b /\ {u, v} = {a, b}
  <2>1. CASE u < v
    BY <1>1, <2>1
  <2>2. CASE v < u
    BY <1>1, <2>2
  <2>3. QED BY <1>1, <2>1, <2>2
<1> DEFINE pa == sim.players[a].position
           pb == sim.players[b].position
           w == Winner(Snapshot(sim))
<1>4. w = IF pb > pa THEN b ELSE a
  BY <1>2, <1>3, WinnerOfTwo
<1>5. pa \in Int /\ pb \in Int
  <2>1. sim.players[a] \in Player /\ sim.players[b] \in Player
    BY <1>2, <1>3
  <2>2. QED BY <2>1 DEF Player
<1>6. Snapshot(sim).tick = sim.current_tick
  BY DEF Snapshot
<1> HIDE DEF w
<1>7. /\ record.user1_id = u /\ record.user2_id = v /\ record.snapshot = Snapshot(sim)
      /\ record.tick_count = sim.current_tick /\ record.winner_user_id = w
  BY <1>6 DEF RecordOf, w
<1>8. DOMAIN sim.players = {u, v} /\ DOMAIN sim.players = {a, b}
  BY <1>2, <1>3
<1>9. w \in {u, v} /\ Best(sim.players, w)
  <2>1. CASE pb > pa
    <3>1. w = b /\ DOMAIN sim.players \ {w} = {a}
      BY <1>3, <1>4, <1>8, <2>1
    <3>2. QED BY <1>3, <1>5, <2>1, <3>1 DEF Best
  <2>2. CASE ~(pb > pa)
    <3>1. w = a /\ DOMAIN sim.players \ {w} = {b}
      BY <1>3, <1>4, <1>8, <2>2
    <3>2. QED BY <1>3, <1>5, <2>2, <3>1 DEF Best
  <2>3. QED BY <2>1, <2>2
<1>10. QED BY <1>7, <1>8, <1>9

---------------------------------------------------------------------------
(* The stores: a record is that of the simulation of its session, which no *)
(* longer changes.                                                         *)
Stored ==
    /\ DOMAIN records_ = {s \in Sessions : phase[s] \in {"rating", "erasing", "closed"}}
    /\ \A s \in DOMAIN records_ : records_[s] = RecordOf(participants[s], simulation[s])
    /\ AllScores(entries_)

(* A record that has been stored names two users and one of them as winner.*)
LEMMA StoredRecord ==
    ASSUME Contexts, Stored, NEW s \in DOMAIN records_
    PROVE  LET r == records_[s]
           IN  /\ r.user1_id # r.user2_id /\ r.user1_id \in Users /\ r.user2_id \in Users
               /\ {r.user1_id, r.user2_id} = Participant(s)
               /\ r.winner_user_id \in {r.user1_id, r.user2_id}
               /\ LoserId(r) \in Users /\ LoserId(r) # r.winner_user_id
               /\ r.snapshot = Snapshot(simulation[s]) /\ r.tick_count = MaxTicks
               /\ DOMAIN simulation[s].players = {r.user1_id, r.user2_id}
               /\ Best(simulation[s].players, r.winner_user_id)
<1>1. s \in Sessions /\ phase[s] \in {"rating", "erasing", "closed"}
      /\ records_[s] = RecordOf(participants[s], simulation[s])
  BY DEF Stored
<1>2. Context(s)
  BY <1>1 DEF Contexts
<1>3. PICK u \in Users, v \in Users : u # v /\ participants[s] = <<u, v>>
                                      /\ InSession(simulation[s], {u, v})
  BY <1>1, <1>2 DEF Context, Playing
<1>4. simulation[s].current_tick = MaxTicks
  BY <1>1, <1>2 DEF Context, Ended
<1> DEFINE r == records_[s]
           sim == simulation[s]
<1>5. r = RecordOf(<<u, v>>, sim) /\ InSession(sim, {u, v}) /\ sim.current_tick = MaxTicks
  BY <1>1, <1>3, <1>4
<1>6. Participant(s) = {u, v}
  BY <1>3 DEF Participant
<1> HIDE DEF r, sim
<1>7. /\ r.user1_id = u /\ r.user2_id = v
      /\ r.snapshot = Snapshot(sim) /\ r.tick_count = sim.current_tick
      /\ DOMAIN sim.players = {u, v}
      /\ r.winner_user_id \in {u, v}
      /\ Best(sim.players, r.winner_user_id)
  BY <1>3, <1>5, RecordFacts
<1>8. LoserId(r) \in {u, v} /\ LoserId(r) # r.winner_user_id
  BY <1>3, <1>7 DEF LoserId
<1>9. QED BY <1>3, <1>5, <1>6, <1>7, <1>8 DEF r, sim

Wins(u)   == {s \in RatedSessions : records_[s].winner_user_id = u}
Losses(u) == {s \in RatedSessions : LoserId(records_[s]) = u}

Counts == \A u \in Users : /\ GetSummary(entries_, u).wins = Cardinality(Wins(u))
                           /\ GetSummary(entries_, u).losses = Cardinality(Losses(u))

LEMMA StoresKept ==
    ASSUME Stored, Counts, Frozen, UNCHANGED <<records_, entries_>>,
           \A s \in Sessions :
              /\ phase'[s] \in {"rating", "erasing", "closed"} <=> phase[s] \in {"rating", "erasing", "closed"}
              /\ phase'[s] = "rating" <=> phase[s] = "rating"
              /\ Ended(s) => participants'[s] = participants[s]
    PROVE  Stored' /\ Counts'
<1>1. \A s \in DOMAIN records_ : s \in Sessions /\ Ended(s)
  BY DEF Stored, Ended
<1>2. \A s \in DOMAIN records_ : participants'[s] = participants[s] /\ simulation'[s] = simulation[s]
  BY <1>1 DEF Frozen
<1>3. Stored'
  BY <1>2 DEF Stored
<1>4. RatedSessions' = RatedSessions
  BY <1>1 DEF RatedSessions
<1>5. Counts'
  BY <1>4 DEF Counts, Wins, Losses
<1>6. QED BY <1>3, <1>5

LEMMA StoresSave ==
    ASSUME SMTypeOK, Contexts, Stored, Counts, NEW s \in Sessions, SaveResult(s)
    PROVE  Stored' /\ Counts'
<1>1. /\ phase[s] = "saving" /\ s \notin DOMAIN records_ /\ DOMAIN phase = Sessions
      /\ records_' = SaveIfAbsent(records_, s, ResultRecord(s))
      /\ entries_' = entries_ /\ participants' = participants /\ simulation' = simulation
  BY DEF SaveResult, Stored, SMTypeOK
<1>2. phase' = [phase EXCEPT ![s] = "rating"]
  BY <1>1 DEF SaveResult
<1> DEFINE record == RecordOf(participants[s], simulation[s])
<1>3. ResultRecord(s) = record
  BY ResultRecordIs
<1> HIDE DEF record
<1>4. /\ DOMAIN records_' = DOMAIN records_ \cup {s}
      /\ records_'[s] = record
      /\ \A r \in DOMAIN records_ : r # s /\ records_'[r] = records_[r]
  BY <1>1, <1>3 DEF SaveIfAbsent
<1>5. Stored'
  <2>1. DOMAIN records_' = {r \in Sessions : phase'[r] \in {"rating", "erasing", "closed"}}
    BY <1>1, <1>2, <1>4 DEF Stored
  <2>2. ASSUME NEW r \in DOMAIN records_' PROVE records_'[r] = RecordOf(participants[r], simulation[r])
    <3>1. CASE r = s
      BY <1>4, <3>1 DEF record
    <3>2. CASE r # s
      BY <1>4, <2>2, <3>2 DEF Stored
    <3>3. QED BY <3>1, <3>2
  <2>3. QED BY <1>1, <2>1, <2>2 DEF Stored
<1>6. RatedSessions' = RatedSessions /\ \A r \in RatedSessions : records_'[r] = records_[r]
  <2>1. \A r \in DOMAIN records_ : r \in Sessions /\ r # s
    BY <1>4 DEF Stored
  <2>2. QED BY <1>1, <1>2, <1>4, <2>1 DEF RatedSessions
<1>7. Counts'
  <2>1. \A u : Wins(u)' = Wins(u) /\ Losses(u)' = Losses(u)
    BY <1>6 DEF Wins, Losses
  <2>2. QED BY <1>1, <2>1 DEF Counts
<1>8. QED BY <1>5, <1>7

LEMMA SessionsFinite == IsFiniteSet(Sessions)
<1>1. 1 \in Int /\ MaxSessions \in Int
  BY SessionManagerConstants
<1>2. QED BY <1>1, FS_Interval, Zenon DEF Sessions

LEMMA StoresRate ==
    ASSUME SMTypeOK, Contexts, Stored, Counts, NEW s \in Sessions, RateResult(s)
    PROVE  Stored' /\ Counts'
<1> DEFINE w == records_[s].winner_user_id
           l == LoserId(records_[s])
<1>1. /\ phase[s] = "rating" /\ DOMAIN phase = Sessions
      /\ phase' = [phase EXCEPT ![s] = "erasing"]
      /\ entries_' = ApplyMatchResult(entries_, w, l)
      /\ records_' = records_ /\ participants' = participants /\ simulation' = simulation
  BY DEF RateResult, SMTypeOK
<1>2. s \in DOMAIN records_ /\ AllScores(entries_)
  BY <1>1 DEF Stored
<1>3. w # l
  BY <1>2, StoredRecord
<1> HIDE DEF w, l
<1>4. /\ AllScores(entries_')
      /\ \A u : /\ GetSummary(entries_', u).wins = GetSummary(entries_, u).wins + IF u = w THEN 1 ELSE 0
                /\ GetSummary(entries_', u).losses = GetSummary(entries_, u).losses + IF u = l THEN 1 ELSE 0
  BY <1>1, <1>2, <1>3, MatchResultScores
<1>5. Stored'
  <2>1. DOMAIN records_ = {r \in Sessions : phase'[r] \in {"rating", "erasing", "closed"}}
    BY <1>1 DEF Stored
  <2>2. \A r \in DOMAIN records_ : records_[r] = RecordOf(participants[r], simulation[r])
    BY DEF Stored
  <2>3. QED BY <1>1, <1>4, <2>1, <2>2 DEF Stored
<1>6. RatedSessions' = RatedSessions \cup {s} /\ s \notin RatedSessions
  <2>1. DOMAIN records_ \subseteq Sessions
    BY DEF Stored
  <2>2. QED BY <1>1, <1>2, <2>1 DEF RatedSessions
<1>7. ASSUME NEW u \in Users
      PROVE  /\ GetSummary(entries_', u).wins = Cardinality(Wins(u)')
             /\ GetSummary(entries_', u).losses = Cardinality(Losses(u)')
  <2> DEFINE W == Wins(u)
             L == Losses(u)
  <2>1. /\ Wins(u)' = IF u = w THEN W \cup {s} ELSE W
        /\ Losses(u)' = IF u = l THEN L \cup {s} ELSE L
    BY <1>1, <1>6 DEF Wins, Losses, w, l
  <2>2. s \notin W /\ s \notin L /\ W \subseteq Sessions /\ L \subseteq Sessions
    <3>1. RatedSessions \subseteq Sessions
      BY DEF RatedSessions, Stored
    <3>2. QED BY <1>6, <3>1 DEF Wins, Losses
  <2>3. /\ GetSummary(entries_, u).wins = Cardinality(W)
        /\ GetSummary(entries_, u).losses = Cardinality(L)
    BY DEF Counts
  <2> HIDE DEF W, L
  <2>4. IsFiniteSet(W) /\ IsFiniteSet(L)
    BY <2>2, SessionsFinite, FS_Subset
  <2>5. /\ Cardinality(W) \in Nat /\ Cardinality(W \cup {s}) = Cardinality(W) + 1
        /\ Cardinality(L) \in Nat /\ Cardinality(L \cup {s}) = Cardinality(L) + 1
    BY <2>2, <2>4, FS_AddElement, FS_CardinalityType
  <2>6. GetSummary(entries_', u).wins = Cardinality(Wins(u)')
    <3>1. CASE u = w
      BY <1>4, <2>1, <2>3, <2>5, <3>1
    <3>2. CASE u # w
      BY <1>4, <2>1, <2>3, <2>5, <3>2
    <3>3. QED BY <3>1, <3>2
  <2>7. GetSummary(entries_', u).losses = Cardinality(Losses(u)')
    <3>1. CASE u = l
      BY <1>4, <2>1, <2>3, <2>5, <3>1
    <3>2. CASE u # l
      BY <1>4, <2>1, <2>3, <2>5, <3>2
    <3>3. QED BY <3>1, <3>2
  <2>8. QED BY <2>6, <2>7
<1>8. Counts'
  BY <1>7 DEF Counts
<1>9. QED BY <1>5, <1>8

LEMMA StoresInit == SMInit => Stored /\ Counts
<1> SUFFICES ASSUME SMInit PROVE Stored /\ Counts
  OBVIOUS
<1>1. DOMAIN records_ = {} /\ DOMAIN entries_ = {} /\ \A s \in Sessions : phase[s] = "none"
  BY DEF SMInit
<1>2. Stored
  BY <1>1 DEF Stored, AllScores
<1>3. \A u : Wins(u) = {} /\ Losses(u) = {}
  BY <1>1 DEF Wins, Losses, RatedSessions
<1>4. Cardinality({}) = 0
  BY FS_EmptySet
<1>5. Counts
  BY <1>1, <1>3, <1>4 DEF Counts, GetSummary, NewEntry
<1>6. QED BY <1>2, <1>5

LEMMA StoresNext ==
    ASSUME SMTypeOK, Routing, Contexts, Stored, Counts, Frozen, [SMNext]_smVars
    PROVE  Stored' /\ Counts'
<1>0. DOMAIN phase = Sessions /\ DOMAIN participants = Sessions
  BY DEF SMTypeOK
<1>1. ASSUME UNCHANGED <<participants, phase, records_, entries_>>
      PROVE  Stored' /\ Counts'
  BY <1>1, StoresKept
<1>2. ASSUME NEW s \in Sessions, NEW p, phase' = [phase EXCEPT ![s] = p],
             UNCHANGED <<participants, records_, entries_>>,
             \/ {phase[s], p} \subseteq {"none", "created", "announced", "running", "finishing", "saving"}
             \/ {phase[s], p} \subseteq {"erasing", "closed"}
      PROVE  Stored' /\ Counts'
  <2>1. \A r \in Sessions :
              /\ phase'[r] \in {"rating", "erasing", "closed"} <=> phase[r] \in {"rating", "erasing", "closed"}
              /\ phase'[r] = "rating" <=> phase[r] = "rating"
    BY <1>0, <1>2
  <2>2. QED BY <1>2, <2>1, StoresKept
<1>3. ASSUME NEW s \in Sessions, StrandStep(s) PROVE Stored' /\ Counts'
  <2>1. CASE AnnounceCreated(s)
    BY <1>2, <2>1 DEF AnnounceCreated, storeVars
  <2>2. CASE AnnounceStarted(s)
    BY <1>2, <2>2 DEF AnnounceStarted, storeVars
  <2>3. CASE HandleTick(s)
    BY <1>2, <2>3 DEF HandleTick, storeVars
  <2>4. CASE FinishSession(s)
    BY <1>2, <2>4 DEF FinishSession, storeVars
  <2>5. CASE SaveResult(s)
    BY <2>5, StoresSave
  <2>6. CASE RateResult(s)
    BY <2>6, StoresRate
  <2>7. CASE EraseSession(s)
    BY <1>2, <2>7 DEF EraseSession, storeVars
  <2>8. QED BY <1>3, <2>1, <2>2, <2>3, <2>4, <2>5, <2>6, <2>7 DEF StrandStep
<1>4. ASSUME NEW c \in Connections, NEW named, NEW command,
             \/ RunInput(c) \/ SubmitInput(c, named, command) \/ Register(c) \/ Unregister(c)
      PROVE  Stored' /\ Counts'
  BY <1>1, <1>4 DEF RunInput, SubmitInput, Register, Unregister, storeVars, strandVars
<1>5. ASSUME NEW u \in Users, NEW v \in Users, CreateSession(<<u, v>>) PROVE Stored' /\ Counts'
  <2>1. PICK s \in Sessions : s = next_session_id_
    BY <1>5, SessionManagerConstants DEF CreateSession, SMTypeOK
  <2>2. phase[s] = "none"
    BY <2>1, SessionManagerConstants DEF Routing
  <2>3. /\ participants' = [participants EXCEPT ![s] = <<u, v>>]
        /\ phase' = [phase EXCEPT ![s] = "created"]
        /\ UNCHANGED <<records_, entries_>>
    BY <1>5, <2>1 DEF CreateSession, storeVars
  <2>4. \A r \in Sessions :
              /\ phase'[r] \in {"rating", "erasing", "closed"} <=> phase[r] \in {"rating", "erasing", "closed"}
              /\ phase'[r] = "rating" <=> phase[r] = "rating"
              /\ Ended(r) => participants'[r] = participants[r]
    BY <1>0, <2>2, <2>3 DEF Ended
  <2>5. QED BY <2>3, <2>4, StoresKept
<1>6. CASE CreateFreely
  BY <1>5, <1>6 DEF CreateFreely
<1>7. CASE UNCHANGED smVars
  BY <1>1, <1>7 DEF smVars, strandVars, storeVars
<1>8. QED BY <1>3, <1>4, <1>6, <1>7 DEF SMNext, SMStep

LEMMA ResultsHold ==
    ASSUME Contexts, Stored, Counts
    PROVE  ResultIsFinal /\ ResultOnce
<1>1. ResultIsFinal
  <2> SUFFICES ASSUME NEW s \in DOMAIN records_
               PROVE  LET r == records_[s]
                          players == simulation[s].players
                      IN  /\ r.snapshot = Snapshot(simulation[s])
                          /\ r.tick_count = MaxTicks
                          /\ DOMAIN players = {r.user1_id, r.user2_id}
                          /\ Best(players, r.winner_user_id)
    BY DEF ResultIsFinal, Best
  <2>1. QED BY StoredRecord
<1>2. ResultOnce
  BY DEF ResultOnce, Stored, Counts, Wins, Losses
<1>3. QED BY <1>1, <1>2

---------------------------------------------------------------------------
(* The rank of the last event that a session has sent. *)
LastRank(s) ==
    IF phase[s] \in {"none", "created"} THEN 0
    ELSE IF phase[s] = "announced" THEN CreatedRank
    ELSE IF phase[s] \in {"running", "finishing"} THEN StateRank(tick_sent[s])
    ELSE EndedRank

(* A user's sessions follow one another. *)
OneAfterAnother ==
    \A r, s \in Sessions, u \in Users :
        r < s /\ u \in Participant(r) /\ u \in Participant(s) => phase[r] = "closed"

(* The last event sent on c is the last one of its session, and no later   *)
(* session of its user has sent one.                                       *)
UpToDate(c) ==
    \E s \in Sessions :
        /\ seen[c] = [session |-> s, rank |-> LastRank(s)]
        /\ Owner[c] \in Participant(s)
        /\ \A r \in Sessions : r > s /\ Owner[c] \in Participant(r) => LastRank(r) = 0

Current(c) == connections_[Owner[c]] = c

Sent ==
    \A c \in Connections :
        /\ Current(c) => c \in open
        /\ c \notin open => seen[c] = NoEvent
        /\ Current(c) /\ seen[c] # NoEvent => UpToDate(c)

InTurn(c) ==
    LET old == seen[c]
        new == seen'[c]
    IN  old # NoEvent /\ new # NoEvent /\ new # old =>
          \/ new.session = old.session /\ new.rank = old.rank + 1
          \/ new.session > old.session /\ old.rank = EndedRank /\ new.rank = CreatedRank

AllInTurn == \A c \in Connections : InTurn(c)

LEMMA BroadcastInTurn ==
    ASSUME SMTypeOK, Contexts, OneAfterAnother, Sent,
           NEW s \in Sessions, Live(s), NEW rank \in Int, Broadcast(s, rank),
           LastRank(s)' = rank, rank = LastRank(s) + 1,
           \A r \in Sessions \ {s} : LastRank(r)' = LastRank(r),
           UNCHANGED <<participants, connections_, open>>
    PROVE  Sent' /\ AllInTurn
<1>1. \A r : Participant(r)' = Participant(r)
  BY DEF Participant
<1>2. Owner \in [Connections -> Users]
  BY SessionManagerConstants
<1>3. ASSUME NEW c \in Connections, Current(c), Owner[c] \in Participant(s)
      PROVE  InTurn(c) /\ UpToDate(c)'
  <2> DEFINE u == Owner[c]
  <2>1. u \in Users /\ phase[s] # "closed"
    BY <1>2 DEF Live
  <2>2. seen'[c] = [session |-> s, rank |-> rank]
    BY <1>3 DEF Broadcast, Current
  <2>3. ASSUME NEW r \in Sessions, r > s, u \in Participant(r) PROVE FALSE
    BY <1>3, <2>1, <2>3 DEF OneAfterAnother
  <2>4. UpToDate(c)'
    BY <1>1, <1>3, <2>2, <2>3 DEF UpToDate
  <2>5. ASSUME seen[c] # NoEvent
        PROVE  \/ seen'[c].session = seen[c].session /\ seen'[c].rank = seen[c].rank + 1
               \/ /\ seen'[c].session > seen[c].session
                  /\ seen[c].rank = EndedRank /\ seen'[c].rank = CreatedRank
    <3>1. PICK old \in Sessions :
             /\ seen[c] = [session |-> old, rank |-> LastRank(old)]
             /\ u \in Participant(old)
             /\ \A r \in Sessions : r > old /\ u \in Participant(r) => LastRank(r) = 0
      BY <1>3, <2>5 DEF Sent, UpToDate
    <3>2. CASE old = s
      BY <2>2, <3>1, <3>2
    <3>3. CASE old < s
      <4>1. LastRank(s) = 0
        BY <1>3, <3>1, <3>3
      <4>2. phase[old] = "closed"
        BY <1>3, <2>1, <3>1, <3>3 DEF OneAfterAnother
      <4>3. LastRank(old) = EndedRank
        BY <4>2 DEF LastRank
      <4>4. QED BY <2>2, <3>1, <3>3, <4>1, <4>3 DEF CreatedRank
    <3>4. CASE old > s
      BY <2>3, <3>1, <3>4
    <3>5. QED BY <3>2, <3>3, <3>4
  <2>6. QED BY <2>4, <2>5 DEF InTurn
<1>4. ASSUME NEW c \in Connections, ~(Current(c) /\ Owner[c] \in Participant(s))
      PROVE  seen'[c] = seen[c]
  BY <1>4 DEF Broadcast, Current
<1>5. ASSUME NEW c \in Connections, Current(c), Owner[c] \notin Participant(s), seen[c] # NoEvent
      PROVE  UpToDate(c)'
  <2>1. PICK old \in Sessions :
           /\ seen[c] = [session |-> old, rank |-> LastRank(old)]
           /\ Owner[c] \in Participant(old)
           /\ \A r \in Sessions : r > old /\ Owner[c] \in Participant(r) => LastRank(r) = 0
    BY <1>5 DEF Sent, UpToDate
  <2>2. \A r \in Sessions : Owner[c] \in Participant(r) => LastRank(r)' = LastRank(r)
    BY <1>5
  <2>3. /\ seen'[c] = [session |-> old, rank |-> LastRank(old)']
        /\ Owner[c] \in Participant(old)'
        /\ \A r \in Sessions : r > old /\ Owner[c] \in Participant(r)' => LastRank(r)' = 0
    BY <1>1, <1>4, <1>5, <2>1, <2>2
  <2>4. QED BY <2>3 DEF UpToDate
<1>6. \A c \in Connections : Current(c)' <=> Current(c)
  BY DEF Current
<1>7. Sent'
  <2> SUFFICES ASSUME NEW c \in Connections
               PROVE  /\ Current(c)' => c \in open'
                      /\ c \notin open' => seen'[c] = NoEvent
                      /\ Current(c)' /\ seen'[c] # NoEvent => UpToDate(c)'
    BY DEF Sent
  <2>1. Current(c)' => c \in open'
    BY <1>6 DEF Sent
  <2>2. c \notin open' => seen'[c] = NoEvent
    BY <1>4, <1>6 DEF Sent
  <2>3. Current(c)' /\ seen'[c] # NoEvent => UpToDate(c)'
    BY <1>3, <1>4, <1>5, <1>6
  <2>4. QED BY <2>1, <2>2, <2>3
<1>8. AllInTurn
  BY <1>3, <1>4 DEF AllInTurn, InTurn
<1>9. QED BY <1>7, <1>8

(* Steps that send nothing. *)
LEMMA QuietInTurn ==
    ASSUME Contexts, Sent, UNCHANGED <<connections_, open, seen>>,
           \A r \in Sessions : LastRank(r)' = LastRank(r),
           \A r \in Sessions : /\ Participant(r) \subseteq Participant(r)'
                               /\ LastRank(r) # 0 => Participant(r)' = Participant(r)
    PROVE  Sent' /\ AllInTurn
<1>1. AllInTurn
  BY DEF AllInTurn, InTurn
<1>2. ASSUME NEW c \in Connections, UpToDate(c) PROVE UpToDate(c)'
  <2>1. PICK s \in Sessions :
           /\ seen[c] = [session |-> s, rank |-> LastRank(s)]
           /\ Owner[c] \in Participant(s)
           /\ \A r \in Sessions : r > s /\ Owner[c] \in Participant(r) => LastRank(r) = 0
    BY <1>2 DEF UpToDate
  <2>2. Owner[c] \in Participant(s)'
    BY <2>1
  <2>3. QED BY <2>1, <2>2 DEF UpToDate
<1>3. QED BY <1>1, <1>2 DEF Sent, Current

LEMMA SentInit == SMInit => Sent /\ OneAfterAnother
<1> SUFFICES ASSUME SMInit PROVE Sent /\ OneAfterAnother
  OBVIOUS
<1>1. /\ \A u \in Users : connections_[u] = NoConnection
      /\ \A c \in Connections : seen[c] = NoEvent
      /\ \A s \in Sessions : participants[s] = <<>>
  BY DEF SMInit
<1>2. \A c \in Connections : Owner[c] \in Users /\ c # NoConnection
  BY SessionManagerConstants
<1>3. QED BY <1>1, <1>2 DEF Sent, Current, OneAfterAnother, Participant

LEMMA SentNext ==
    ASSUME SMTypeOK, Routing, Contexts, Contexts', OneAfterAnother, Sent, [SMNext]_smVars
    PROVE  OneAfterAnother' /\ Sent' /\ AllInTurn
<1>0. /\ DOMAIN phase = Sessions /\ DOMAIN participants = Sessions /\ DOMAIN tick_sent = Sessions
      /\ DOMAIN simulation = Sessions /\ connections_ \in [Users -> Connections \cup {NoConnection}]
      /\ \A s \in Sessions : tick_sent[s] \in Nat
  BY DEF SMTypeOK
<1>1. ASSUME NEW s \in Sessions, NEW p, phase' = [phase EXCEPT ![s] = p], phase[s] # "closed",
             UNCHANGED participants
      PROVE  OneAfterAnother'
  BY <1>0, <1>1 DEF OneAfterAnother, Participant
<1>2. ASSUME UNCHANGED <<phase, participants>>
      PROVE  OneAfterAnother'
  BY <1>2 DEF OneAfterAnother, Participant
<1>3. ASSUME UNCHANGED <<phase, participants, tick_sent, connections_, open, seen>>
      PROVE  Sent' /\ AllInTurn
  <2>1. \A r \in Sessions : LastRank(r)' = LastRank(r) /\ Participant(r)' = Participant(r)
    BY <1>3 DEF LastRank, Participant
  <2>2. QED BY <1>3, <2>1, QuietInTurn
<1>4. ASSUME NEW s \in Sessions, Ended(s), NEW p \in {"rating", "erasing", "closed"},
             phase' = [phase EXCEPT ![s] = p],
             UNCHANGED <<participants, tick_sent, connections_, open, seen>>
      PROVE  Sent' /\ AllInTurn
  <2>1. \A r \in Sessions : LastRank(r)' = LastRank(r)
    BY <1>0, <1>4 DEF LastRank, Ended
  <2>2. \A r \in Sessions : Participant(r)' = Participant(r)
    BY <1>4 DEF Participant
  <2>3. QED BY <1>4, <2>1, <2>2, QuietInTurn
<1>5. ASSUME NEW s \in Sessions, StrandStep(s) PROVE OneAfterAnother' /\ Sent' /\ AllInTurn
  <2>1. CASE AnnounceCreated(s)
    <3>1. /\ phase[s] = "created" /\ phase' = [phase EXCEPT ![s] = "announced"]
          /\ Broadcast(s, CreatedRank) /\ UNCHANGED <<participants, tick_sent, connections_, open>>
      BY <2>1 DEF AnnounceCreated, connVars
    <3>2. /\ LastRank(s) = 0 /\ LastRank(s)' = CreatedRank /\ CreatedRank = 0 + 1
          /\ \A r \in Sessions \ {s} : LastRank(r)' = LastRank(r)
      BY <1>0, <3>1 DEF LastRank, CreatedRank
    <3>3. Live(s) /\ CreatedRank \in Int
      BY <3>1 DEF Live, CreatedRank
    <3>4. QED BY <1>1, <3>1, <3>2, <3>3, BroadcastInTurn
  <2>2. CASE AnnounceStarted(s)
    <3>1. /\ phase[s] = "announced" /\ phase' = [phase EXCEPT ![s] = "running"]
          /\ Broadcast(s, StartedRank) /\ UNCHANGED <<participants, tick_sent, connections_, open>>
      BY <2>2 DEF AnnounceStarted, connVars
    <3>2. tick_sent[s] = 0
      BY <3>1 DEF Contexts, Context
    <3>3. /\ LastRank(s) = 1 /\ LastRank(s)' = StartedRank /\ StartedRank = 1 + 1
          /\ \A r \in Sessions \ {s} : LastRank(r)' = LastRank(r)
      BY <1>0, <3>1, <3>2 DEF LastRank, CreatedRank, StartedRank, StateRank
    <3>4. Live(s) /\ StartedRank \in Int
      BY <3>1 DEF Live, StartedRank
    <3>5. QED BY <1>1, <3>1, <3>3, <3>4, BroadcastInTurn
  <2>3. CASE HandleTick(s)
    <3> DEFINE rank == StateRank(simulation'[s].current_tick)
    <3>1. /\ phase[s] = "running" /\ UNCHANGED <<participants, connections_, open>>
          /\ phase' = [phase EXCEPT ![s] = IF tick_sent'[s] >= MaxTicks THEN "finishing" ELSE "running"]
          /\ tick_sent' = [tick_sent EXCEPT ![s] = @ + 1]
          /\ Broadcast(s, rank)
      BY <2>3 DEF HandleTick, connVars
    <3>2. simulation'[s].current_tick = tick_sent'[s]
      BY DEF Contexts, Context
    <3>3. tick_sent[s] \in Nat /\ tick_sent'[s] = tick_sent[s] + 1 /\ phase'[s] \in {"running", "finishing"}
          /\ phase'[s] \notin {"none", "created"} /\ phase'[s] # "announced"
      BY <1>0, <3>1
    <3>4. LastRank(s) = StateRank(tick_sent[s]) /\ LastRank(s)' = StateRank(tick_sent'[s])
      BY <3>1, <3>3 DEF LastRank
    <3>5. LastRank(s)' = rank /\ rank = LastRank(s) + 1 /\ rank \in Int
      BY <3>2, <3>3, <3>4 DEF StateRank
    <3>6. \A r \in Sessions \ {s} : LastRank(r)' = LastRank(r)
      BY <1>0, <3>1 DEF LastRank
    <3>7. Live(s)
      BY <3>1 DEF Live
    <3> HIDE DEF rank
    <3>8. Sent' /\ AllInTurn
      BY <3>1, <3>5, <3>6, <3>7, BroadcastInTurn
    <3>9. OneAfterAnother'
      BY <1>1, <3>1
    <3>10. QED BY <3>8, <3>9
  <2>4. CASE FinishSession(s)
    <3>1. /\ phase[s] = "finishing" /\ phase' = [phase EXCEPT ![s] = "saving"]
          /\ Broadcast(s, EndedRank) /\ UNCHANGED <<participants, tick_sent, connections_, open>>
      BY <2>4 DEF FinishSession, connVars
    <3>2. tick_sent[s] = MaxTicks
      BY <3>1 DEF Contexts, Context
    <3>3. /\ LastRank(s) = 2 + MaxTicks /\ LastRank(s)' = EndedRank
          /\ \A r \in Sessions \ {s} : LastRank(r)' = LastRank(r)
      BY <1>0, <3>1, <3>2 DEF LastRank, StateRank
    <3>4. Live(s) /\ EndedRank \in Int /\ EndedRank = (2 + MaxTicks) + 1
      BY <3>1, SessionManagerConstants DEF Live, EndedRank
    <3>5. QED BY <1>1, <3>1, <3>3, <3>4, BroadcastInTurn
  <2>5. CASE SaveResult(s)
    <3>1. PICK p \in {"rating", "erasing", "closed"} : phase' = [phase EXCEPT ![s] = p]
      BY <2>5 DEF SaveResult
    <3>2. phase[s] = "saving" /\ UNCHANGED <<participants, tick_sent, connections_, open, seen>>
      BY <2>5 DEF SaveResult, connVars
    <3>3. Ended(s) /\ phase[s] # "closed"
      BY <3>2 DEF Ended
    <3>4. QED BY <1>1, <1>4, <3>1, <3>2, <3>3
  <2>6. CASE RateResult(s)
    BY <1>1, <1>4, <2>6 DEF RateResult, Ended, connVars
  <2>7. CASE EraseSession(s)
    BY <1>1, <1>4, <2>7 DEF EraseSession, Ended, connVars
  <2>8. QED BY <1>5, <2>1, <2>2, <2>3, <2>4, <2>5, <2>6, <2>7 DEF StrandStep
<1>6. ASSUME NEW c \in Connections, NEW named, NEW command,
             RunInput(c) \/ SubmitInput(c, named, command)
      PROVE  OneAfterAnother' /\ Sent' /\ AllInTurn
  BY <1>2, <1>3, <1>6 DEF RunInput, SubmitInput, connVars
<1>7. ASSUME NEW d \in Connections, Register(d) \/ Unregister(d)
      PROVE  OneAfterAnother' /\ Sent' /\ AllInTurn
  <2>1. UNCHANGED <<participants, phase, tick_sent, simulation>> /\ Owner \in [Connections -> Users]
    BY <1>7, SessionManagerConstants DEF Register, Unregister, strandVars
  <2>2. ASSUME NEW c \in Connections, UpToDate(c), seen'[c] = seen[c] PROVE UpToDate(c)'
    BY <2>1, <2>2 DEF UpToDate, LastRank, Participant
  <2>3. ASSUME NEW c \in Connections
        PROVE  /\ Current(c)' => c \in open'
               /\ c \notin open' => seen'[c] = NoEvent
               /\ Current(c)' /\ seen'[c] # NoEvent => Current(c) /\ seen'[c] = seen[c]
               /\ seen'[c] = seen[c] \/ seen'[c] = NoEvent
    <3>1. CASE Register(d)
      BY <1>0, <2>1, <3>1 DEF Register, Sent, Current
    <3>2. CASE Unregister(d)
      <4>1. /\ open' = open \ {d}
            /\ connections_' = [connections_ EXCEPT ![Owner[d]] = IF @ = d THEN NoConnection ELSE @]
            /\ seen' = [seen EXCEPT ![d] = NoEvent] /\ DOMAIN seen = Connections
        BY <3>2 DEF Unregister, SMTypeOK
      <4>2. Current(c)' => Current(c) /\ c # d
        BY <1>0, <2>1, <4>1, SessionManagerConstants DEF Current
      <4>3. QED BY <4>1, <4>2 DEF Sent
    <3>3. QED BY <1>7, <3>1, <3>2
  <2>4. Sent' /\ AllInTurn
    BY <2>2, <2>3 DEF Sent, AllInTurn, InTurn
  <2>5. QED BY <1>2, <2>1, <2>4
<1>8. ASSUME NEW u \in Users, NEW v \in Users, ~IsUserInSession(u), ~IsUserInSession(v),
             CreateSession(<<u, v>>)
      PROVE  OneAfterAnother' /\ Sent' /\ AllInTurn
  <2>1. PICK s \in Sessions : s = next_session_id_
    BY <1>8, SessionManagerConstants DEF CreateSession, SMTypeOK
  <2>2. phase[s] = "none" /\ \A r \in Sessions : r >= s <=> phase[r] = "none"
    BY <2>1, SessionManagerConstants DEF Routing
  <2>3. \A r \in Sessions : phase[r] = "none" => Participant(r) = {}
    BY DEF Contexts, Context, Participant
  <2>4. /\ participants' = [participants EXCEPT ![s] = <<u, v>>]
        /\ phase' = [phase EXCEPT ![s] = "created"]
        /\ UNCHANGED <<tick_sent, connections_, open, seen>>
    BY <1>8, <2>1 DEF CreateSession, connVars
  <2>5. /\ Participant(s)' = {u, v}
        /\ \A r \in Sessions \ {s} : Participant(r)' = Participant(r) /\ phase'[r] = phase[r]
    BY <1>0, <2>4 DEF Participant
  <2>6. ASSUME NEW r \in Sessions, NEW w \in Users, w \in {u, v}, w \in Participant(r)
        PROVE  phase[r] = "closed"
    <3>1. user_to_session_[w] = 0 /\ r # 0
      BY <1>8, <2>6 DEF IsUserInSession
    <3>2. ~Live(r)
      BY <2>6, <3>1 DEF Routing
    <3>3. QED BY <2>3, <2>6, <3>2 DEF Live
  <2>7. OneAfterAnother'
    <3> SUFFICES ASSUME NEW q \in Sessions, NEW r \in Sessions, NEW w \in Users,
                        q < r, w \in Participant(q)', w \in Participant(r)'
                 PROVE  phase'[q] = "closed"
      BY DEF OneAfterAnother
    <3>1. CASE q = s
      <4>1. phase[r] = "none" /\ r # s
        BY <2>2, <3>1
      <4>2. QED BY <2>3, <2>5, <4>1
    <3>2. CASE r = s
      BY <2>5, <2>6, <3>2
    <3>3. CASE q # s /\ r # s
      BY <2>5, <3>3 DEF OneAfterAnother
    <3>4. QED BY <3>1, <3>2, <3>3
  <2>8. /\ \A r \in Sessions : LastRank(r)' = LastRank(r)
        /\ LastRank(s) = 0
    BY <1>0, <2>2, <2>4 DEF LastRank
  <2>9. \A r \in Sessions : /\ Participant(r) \subseteq Participant(r)'
                            /\ LastRank(r) # 0 => Participant(r)' = Participant(r)
    BY <2>2, <2>3, <2>5, <2>8
  <2>10. Sent' /\ AllInTurn
    BY <2>4, <2>8, <2>9, QuietInTurn
  <2>11. QED BY <2>7, <2>10
<1>9. CASE CreateFreely
  BY <1>8, <1>9 DEF CreateFreely
<1>10. CASE UNCHANGED smVars
  BY <1>2, <1>3, <1>10 DEF smVars, strandVars, connVars
<1>11. QED BY <1>5, <1>6, <1>7, <1>9, <1>10 DEF SMNext, SMStep

---------------------------------------------------------------------------
(***************************************************************************)
(* What is stored and what is sent is not inductive alone: that a record   *)
(* stays the one of the final state needs the simulations to be frozen,    *)
(* that two users play it and one wins needs the contexts, and that events *)
(* come in turn needs a user's sessions to follow one another.             *)
(***************************************************************************)
SessionInv ==
    /\ SMTypeOK
    /\ Routing
    /\ Contexts
    /\ Stored
    /\ Counts
    /\ OneAfterAnother
    /\ Sent

(* The inductive invariant of the session manager, with any caller that    *)
(* keeps its contract.                                                     *)
THEOREM SessionInvariant == SMSafety => []SessionInv
<1>1. SMInit => SessionInv
  BY SMInitCorrect, ContextsInit, StoresInit, SentInit DEF SessionInv
<1>2. SessionInv /\ [SMNext]_smVars => SessionInv'
  <2> SUFFICES ASSUME SessionInv, [SMNext]_smVars PROVE SessionInv'
    OBVIOUS
  <2>1. SMTypeOK /\ Routing /\ Contexts /\ Stored /\ Counts /\ OneAfterAnother /\ Sent
    BY DEF SessionInv
  <2>2. SMTypeOK' /\ Routing' /\ Frozen /\ Contexts'
    BY <2>1, SMNextCorrect, StepFrozen, ContextsNext
  <2>3. Stored' /\ Counts'
    BY <2>1, <2>2, StoresNext
  <2>4. OneAfterAnother' /\ Sent'
    BY <2>1, <2>2, SentNext
  <2>5. QED BY <2>2, <2>3, <2>4 DEF SessionInv
<1>3. QED BY <1>1, <1>2, PTL DEF SMSafety

(* FinishSession's snapshot and winner are those of the last tick when     *)
(* they are stored, for any inputs, and the lower user id wins a draw.     *)
THEOREM FinalStateIsStored == SMSafety => []ResultIsFinal
<1>1. SessionInv => ResultIsFinal
  BY ResultsHold DEF SessionInv
<1>2. QED BY <1>1, SessionInvariant, PTL

(* FinalizeResult stores and rates every session that ends once, before    *)
(* its participants may play again.                                        *)
THEOREM OneResultPerSession == SMSafety => []ResultOnce
<1>1. SessionInv => ResultOnce
  BY ResultsHold DEF SessionInv
<1>2. QED BY <1>1, SessionInvariant, PTL

(* BroadcastToParticipants sends a connection the events of its user's     *)
(* sessions in order, without a gap or a repetition, however connections   *)
(* come, go and replace each other.                                        *)
THEOREM EventsInOrder == SMSafety => EventOrder
<1>1. SessionInv /\ SessionInv' /\ [SMNext]_smVars => [AllInTurn]_smVars
  BY SentNext DEF SessionInv
<1>2. SMSafety => [][AllInTurn]_smVars
  BY <1>1, SessionInvariant, PTL DEF SMSafety
<1>3. QED BY <1>2 DEF EventOrder, AllInTurn, InTurn

---------------------------------------------------------------------------
(***************************************************************************)
(* What has happened stays: the number of a session is never given to      *)
(* another one, a session that has ended does not go on and one that is    *)
(* closed does not come back, a result that was stored is neither replaced *)
(* nor lost, and no win or loss is taken back.                             *)
(***************************************************************************)
SessionsKept ==
    \A s \in Sessions :
        /\ s < next_session_id_ => s < next_session_id_' /\ participants'[s] = participants[s]
        /\ tick_sent[s] <= tick_sent'[s]
        /\ Ended(s) => Ended(s)'
        /\ phase[s] = "closed" => phase'[s] = "closed"

ResultsKept ==
    /\ \A s \in DOMAIN records_ : s \in DOMAIN records_' /\ records_'[s] = records_[s]
    /\ \A u \in Users :
          /\ GetSummary(entries_, u).wins <= GetSummary(entries_', u).wins
          /\ GetSummary(entries_, u).losses <= GetSummary(entries_', u).losses

HistoryKept == SessionsKept /\ ResultsKept

LEMMA ScoreTypes ==
    ASSUME NEW e, AllScores(e), NEW u
    PROVE  GetSummary(e, u).wins \in Nat /\ GetSummary(e, u).losses \in Nat
  BY DEF AllScores, Scores, GetSummary, NewEntry

LEMMA StepKeepsHistory ==
    ASSUME SessionInv, [SMNext]_smVars
    PROVE  HistoryKept
<1> SUFFICES ResultsKept /\ SessionsKept
  BY DEF HistoryKept
<1>0. SMTypeOK /\ Routing /\ Contexts /\ Stored
  BY DEF SessionInv
<1>1. ASSUME UNCHANGED storeVars PROVE ResultsKept
  <2>1. \A u \in Users : GetSummary(entries_, u).wins \in Nat /\ GetSummary(entries_, u).losses \in Nat
    BY <1>0, ScoreTypes DEF Stored
  <2>2. records_' = records_ /\ entries_' = entries_
    BY <1>1 DEF storeVars
  <2>3. QED BY <2>1, <2>2 DEF ResultsKept
<1>2. \A s \in Sessions : tick_sent[s] \in Nat /\ next_session_id_ \in Nat
  BY <1>0, SessionManagerConstants DEF SMTypeOK
<1>3. ASSUME UNCHANGED <<participants, next_session_id_, phase, tick_sent>> PROVE SessionsKept
  BY <1>2, <1>3 DEF SessionsKept, Ended
<1>4. ASSUME NEW s \in Sessions, NEW p, phase' = [phase EXCEPT ![s] = p], phase[s] # "closed",
             Ended(s) => p \in {"saving", "rating", "erasing", "closed"},
             UNCHANGED <<participants, next_session_id_, tick_sent>>
      PROVE  SessionsKept
  BY <1>0, <1>2, <1>4 DEF SessionsKept, Ended, SMTypeOK
<1>5. ASSUME NEW s \in Sessions, StrandStep(s) PROVE ResultsKept /\ SessionsKept
  <2>1. CASE AnnounceCreated(s) \/ AnnounceStarted(s) \/ FinishSession(s) \/ EraseSession(s)
    <3>1. UNCHANGED storeVars
      BY <2>1 DEF AnnounceCreated, AnnounceStarted, FinishSession, EraseSession
    <3>2. /\ UNCHANGED <<participants, next_session_id_, tick_sent>>
          /\ phase[s] # "closed"
          /\ \E p : phase' = [phase EXCEPT ![s] = p] /\ (Ended(s) => p \in {"saving", "rating", "erasing", "closed"})
      BY <2>1 DEF AnnounceCreated, AnnounceStarted, FinishSession, EraseSession, mapVars, Ended
    <3>3. QED BY <1>1, <1>4, <3>1, <3>2
  <2>2. CASE HandleTick(s)
    <3>1. UNCHANGED storeVars /\ UNCHANGED <<participants, next_session_id_>> /\ ~Ended(s)
      BY <2>2 DEF HandleTick, mapVars, Ended
    <3>2. \A t \in Sessions \ {s} : phase'[t] = phase[t] /\ tick_sent'[t] = tick_sent[t]
      BY <1>0, <2>2 DEF HandleTick, SMTypeOK
    <3>3. tick_sent'[s] = tick_sent[s] + 1 /\ phase[s] # "closed"
      BY <1>0, <2>2 DEF HandleTick, SMTypeOK
    <3>4. SessionsKept
      BY <1>2, <3>1, <3>2, <3>3 DEF SessionsKept, Ended
    <3>5. QED BY <1>1, <3>1, <3>4
  <2>3. CASE SaveResult(s)
    <3>1. SessionsKept
      <4>1. /\ UNCHANGED <<participants, next_session_id_, tick_sent>>
            /\ phase[s] # "closed"
            /\ \E p : phase' = [phase EXCEPT ![s] = p] /\ p \in {"rating", "erasing"}
        BY <2>3 DEF SaveResult, mapVars
      <4>2. QED BY <1>4, <4>1
    <3>2. entries_' = entries_ /\ records_' = SaveIfAbsent(records_, s, ResultRecord(s))
      BY <2>3 DEF SaveResult
    <3>3. \A r \in DOMAIN records_ : r \in DOMAIN records_' /\ records_'[r] = records_[r]
      BY <3>2 DEF SaveIfAbsent
    <3>4. \A u \in Users : GetSummary(entries_, u).wins \in Nat /\ GetSummary(entries_, u).losses \in Nat
      BY <1>0, ScoreTypes DEF Stored
    <3>5. QED BY <3>1, <3>2, <3>3, <3>4 DEF ResultsKept
  <2>4. CASE RateResult(s)
    <3>1. SessionsKept
      <4>1. /\ UNCHANGED <<participants, next_session_id_, tick_sent>>
            /\ phase[s] # "closed"
            /\ phase' = [phase EXCEPT ![s] = "erasing"]
        BY <2>4 DEF RateResult, mapVars
      <4>2. QED BY <1>4, <4>1
    <3>2. PICK w, l : w = records_[s].winner_user_id /\ l = LoserId(records_[s])
      OBVIOUS
    <3>3. records_' = records_ /\ entries_' = ApplyMatchResult(entries_, w, l)
      BY <2>4, <3>2 DEF RateResult
    <3>4. w # l
      <4>1. s \in DOMAIN records_
        BY <1>0, <2>4 DEF RateResult, Stored
      <4>2. QED BY <1>0, <3>2, <4>1, StoredRecord
    <3>5. AllScores(entries_)
      BY <1>0 DEF Stored
    <3>6. \A u : /\ GetSummary(entries_', u).wins = GetSummary(entries_, u).wins + IF u = w THEN 1 ELSE 0
                 /\ GetSummary(entries_', u).losses = GetSummary(entries_, u).losses + IF u = l THEN 1 ELSE 0
      BY <3>3, <3>4, <3>5, MatchResultScores
    <3>7. \A u \in Users : GetSummary(entries_, u).wins \in Nat /\ GetSummary(entries_, u).losses \in Nat
      BY <3>5, ScoreTypes
    <3>8. ResultsKept
      BY <3>3, <3>6, <3>7 DEF ResultsKept
    <3>9. QED BY <3>1, <3>8
  <2>5. QED BY <1>5, <2>1, <2>2, <2>3, <2>4 DEF StrandStep
<1>6. ASSUME NEW c \in Connections, Register(c) \/ Unregister(c) \/ RunInput(c)
      PROVE  ResultsKept /\ SessionsKept
  <2>1. UNCHANGED storeVars /\ UNCHANGED <<participants, next_session_id_, phase, tick_sent>>
    BY <1>6 DEF Register, Unregister, RunInput, strandVars, mapVars
  <2>2. QED BY <1>1, <1>3, <2>1
<1>7. ASSUME NEW c \in Connections, NEW named \in NamedSessions, NEW command \in Commands,
             SubmitInput(c, named, command)
      PROVE  ResultsKept /\ SessionsKept
  <2>1. UNCHANGED storeVars /\ UNCHANGED <<participants, next_session_id_, phase, tick_sent>>
    BY <1>7 DEF SubmitInput, mapVars
  <2>2. QED BY <1>1, <1>3, <2>1
<1>8. ASSUME NEW u \in Users, NEW v \in Users, CreateSession(<<u, v>>)
      PROVE  ResultsKept /\ SessionsKept
  <2>1. UNCHANGED storeVars /\ tick_sent' = tick_sent /\ next_session_id_' = next_session_id_ + 1
    BY <1>8 DEF CreateSession
  <2>2. PICK s \in Sessions : s = next_session_id_
    BY <1>0, <1>8 DEF CreateSession, SMTypeOK
  <2>3. \A t \in Sessions \ {s} : phase'[t] = phase[t] /\ participants'[t] = participants[t]
    BY <1>0, <1>8, <2>2 DEF CreateSession, SMTypeOK
  <2>4. phase[s] = "none" /\ ~(s < next_session_id_)
    BY <1>0, <2>2 DEF Routing
  <2>5. SessionsKept
    BY <1>2, <2>1, <2>2, <2>3, <2>4 DEF SessionsKept, Ended
  <2>6. QED BY <1>1, <2>1, <2>5
<1>9. CASE CreateFreely
  BY <1>8, <1>9 DEF CreateFreely
<1>10. CASE UNCHANGED smVars
  <2>1. UNCHANGED storeVars /\ UNCHANGED <<participants, next_session_id_, phase, tick_sent>>
    BY <1>10 DEF smVars, strandVars, mapVars, storeVars, connVars
  <2>2. QED BY <1>1, <1>3, <2>1
<1>11. QED BY <1>5, <1>6, <1>7, <1>9, <1>10 DEF SMNext, SMStep

(* Nothing that FinishSession, FinalizeResult or the creation of a later   *)
(* session does undoes what a session has come to: GetResult and the       *)
(* leaderboard answer from a history that only grows.                      *)
THEOREM HistoryIsKept == SMSafety => [][HistoryKept]_smVars
<1>1. SessionInv /\ [SMNext]_smVars => [HistoryKept]_smVars
  BY StepKeepsHistory
<1>2. QED BY <1>1, SessionInvariant, PTL DEF SMSafety

---------------------------------------------------------------------------
(***************************************************************************)
(* Threads.  A session that is being played takes two users, so there are  *)
(* at most half as many as users, and each occupies at most one thread;    *)
(* a connection occupies at most one, with the input that it waits for.    *)
(***************************************************************************)
EnoughThreads ==
    /\ IsFiniteSet(Users) /\ IsFiniteSet(Connections)
    /\ 2 * (Workers - Cardinality(Connections)) > Cardinality(Users)

LiveSessions == {s \in Sessions : Live(s)}

(* Two users to every session: the first and the second players of the     *)
(* sessions that are being played are as many different users each.        *)
LEMMA TwoUsersEach ==
    ASSUME IsFiniteSet(Users), Routing, Contexts
    PROVE  /\ IsFiniteSet(LiveSessions)
           /\ 2 * Cardinality(LiveSessions) <= Cardinality(Users)
<1> DEFINE A == {participants[s][1] : s \in LiveSessions}
           B == {participants[s][2] : s \in LiveSessions}
           first  == [s \in LiveSessions |-> participants[s][1]]
           second == [s \in LiveSessions |-> participants[s][2]]
<1>1. \A s \in LiveSessions :
         /\ participants[s][1] \in Users /\ participants[s][2] \in Users
         /\ participants[s][1] # participants[s][2]
         /\ user_to_session_[participants[s][1]] = s
         /\ user_to_session_[participants[s][2]] = s
  <2> TAKE s \in LiveSessions
  <2>1. s \in Sessions /\ Live(s) /\ Playing(s)
    BY DEF LiveSessions, Contexts, Context, Live
  <2>2. PICK u \in Users, v \in Users : u # v /\ participants[s] = <<u, v>>
    BY <2>1 DEF Playing
  <2>3. u \in Participant(s) /\ v \in Participant(s)
    BY <2>2 DEF Participant
  <2>4. user_to_session_[u] = s /\ user_to_session_[v] = s
    BY <2>1, <2>3 DEF Routing
  <2>5. QED BY <2>2, <2>4
<1>2. IsFiniteSet(LiveSessions)
  <2>1. LiveSessions \in SUBSET Sessions
    BY DEF LiveSessions
  <2>2. QED BY <2>1, SessionsFinite, FS_Subset
<1>3. IsFiniteSet(A) /\ Cardinality(A) = Cardinality(LiveSessions)
  <2>1. first \in Bijection(LiveSessions, A)
    BY <1>1 DEF Bijection, Injection, Surjection, IsInjective
  <2> HIDE DEF first, A
  <2>2. ExistsBijection(LiveSessions, A)
    BY <2>1 DEF ExistsBijection
  <2>3. QED BY <1>2, <2>2, FS_Bijection
<1>4. IsFiniteSet(B) /\ Cardinality(B) = Cardinality(LiveSessions)
  <2>1. second \in Bijection(LiveSessions, B)
    BY <1>1 DEF Bijection, Injection, Surjection, IsInjective
  <2> HIDE DEF second, B
  <2>2. ExistsBijection(LiveSessions, B)
    BY <2>1 DEF ExistsBijection
  <2>3. QED BY <1>2, <2>2, FS_Bijection
<1>5. A \cap B = {} /\ A \cup B \subseteq Users
  BY <1>1
<1> HIDE DEF A, B, first, second
<1>6. Cardinality(A \cup B) = Cardinality(A) + Cardinality(B)
  <2>1. Cardinality(A \cup B) = Cardinality(A) + Cardinality(B) - Cardinality(A \cap B)
    BY <1>3, <1>4, FS_Union
  <2>2. Cardinality(A \cap B) = 0
    BY <1>5, FS_EmptySet
  <2>3. Cardinality(A) \in Nat /\ Cardinality(B) \in Nat
    BY <1>3, <1>4, FS_CardinalityType
  <2>4. QED BY <2>1, <2>2, <2>3
<1>7. Cardinality(A \cup B) <= Cardinality(Users)
  BY <1>5, FS_Subset
<1>8. Cardinality(LiveSessions) \in Nat /\ Cardinality(Users) \in Nat
  BY <1>2, FS_CardinalityType
<1>9. QED BY <1>2, <1>3, <1>4, <1>6, <1>7, <1>8

LEMMA ThreadLeft ==
    ASSUME EnoughThreads, Routing, Contexts
    PROVE  FreeWorker
<1> DEFINE H == {s \in Sessions : HandlerRunning(s) \/ phase[s] = "created"}
           P == {c \in Connections : request[c].answer = "pending"}
           h == Cardinality(H)
           p == Cardinality(P)
           n == Cardinality(LiveSessions)
           c == Cardinality(Connections)
<1>1. /\ IsFiniteSet(LiveSessions) /\ 2 * n <= Cardinality(Users)
      /\ IsFiniteSet(Connections) /\ 2 * (Workers - c) > Cardinality(Users)
  BY TwoUsersEach DEF EnoughThreads
<1>2. H \in SUBSET LiveSessions /\ P \in SUBSET Connections
  BY DEF HandlerRunning, LiveSessions, Live
<1>3. h <= n /\ p <= c
  BY <1>1, <1>2, FS_Subset
<1>4. h \in Nat /\ p \in Nat /\ n \in Nat /\ c \in Nat
  <2>1. IsFiniteSet(H) /\ IsFiniteSet(P)
    BY <1>1, <1>2, FS_Subset
  <2>2. QED BY <1>1, <2>1, FS_CardinalityType
<1>5. Workers \in Nat /\ Cardinality(Users) \in Nat
  BY SessionManagerConstants, FS_CardinalityType DEF EnoughThreads
<1>6. FreeWorker <=> h + p < Workers
  BY DEF FreeWorker
<1> HIDE DEF h, p, n, c
<1>7. QED BY <1>1, <1>3, <1>4, <1>5, <1>6

(* SubmitInput makes a thread wait for the session's strand.  With a       *)
(* thread for every connection and for half of the users, and one more, a  *)
(* thread is always left: no tick, no input and no timer of the queue is   *)
(* ever kept from running by those that wait.                              *)
THEOREM AThreadIsLeft ==
    EnoughThreads => /\ SMSafety => []FreeWorker
                     /\ Spec => []FreeWorker
<1> SUFFICES ASSUME EnoughThreads
             PROVE  /\ SMSafety => []FreeWorker
                    /\ Spec => []FreeWorker
  OBVIOUS
<1>1. SessionInv => FreeWorker
  BY ThreadLeft DEF SessionInv
<1>2. SMSafety => []FreeWorker
  BY <1>1, SessionInvariant, PTL
<1>3. QED BY <1>2, ContractKept, PTL DEF UsesSessionManager

---------------------------------------------------------------------------
(* All of this holds of the sessions that the matching queue creates.      *)
THEOREM QueuedSessionsKeepTheirPromises ==
    Spec => /\ [](ResultIsFinal /\ ResultOnce)
            /\ EndedIsFrozen /\ EventOrder
            /\ [][HistoryKept]_smVars
BY ContractKept, FinalStateIsStored, OneResultPerSession, EndedSessionIsFrozen, EventsInOrder,
   HistoryIsKept, PTL
   DEF UsesSessionManager

---------------------------------------------------------------------------
(***************************************************************************)
(* The refinement of MatchLifecycle.                                       *)
(***************************************************************************)
UsersOf(queue) == [i \in DOMAIN queue |-> queue[i].user]

WinnerOfSession(s) == IF s \in DOMAIN records_ THEN records_[s].winner_user_id ELSE 0

LEMMA UsersOfType ==
    ASSUME NEW q \in Seq(Entry)
    PROVE  /\ UsersOf(q) \in Seq(Users) /\ Len(UsersOf(q)) = Len(q)
           /\ \A i \in 1 .. Len(q) : UsersOf(q)[i] = q[i].user
<1>1. Len(q) \in Nat /\ DOMAIN q = 1 .. Len(q) /\ \A i \in 1 .. Len(q) : q[i] \in Entry
  OBVIOUS
<1>2. \A i \in 1 .. Len(q) : q[i].user \in Users
  BY <1>1 DEF Entry
<1>3. UsersOf(q) \in [1 .. Len(q) -> Users]
  BY <1>1, <1>2 DEF UsersOf
<1>4. QED BY <1>1, <1>3 DEF UsersOf

LEMMA SameUsers ==
    ASSUME NEW q \in Seq(Entry), NEW w \in Seq(Users), Len(w) = Len(q),
           \A i \in 1 .. Len(q) : w[i] = q[i].user
    PROVE  UsersOf(q) = w
<1>1. DOMAIN q = 1 .. Len(q) /\ DOMAIN w = 1 .. Len(q) /\ Len(q) \in Nat
  OBVIOUS
<1>2. w = [i \in 1 .. Len(q) |-> w[i]]
  BY <1>1
<1>3. QED BY <1>1, <1>2 DEF UsersOf

LEMMA UsersOfAppend ==
    ASSUME NEW q \in Seq(Entry), NEW e \in Entry
    PROVE  UsersOf(Append(q, e)) = Append(UsersOf(q), e.user)
<1> DEFINE longer == Append(q, e)
           w == Append(UsersOf(q), e.user)
<1>1. e.user \in Users
  BY DEF Entry
<1>2. /\ longer \in Seq(Entry) /\ Len(longer) = Len(q) + 1 /\ Len(q) \in Nat
      /\ \A i \in 1 .. Len(q) : longer[i] = q[i]
      /\ longer[Len(q) + 1] = e
  OBVIOUS
<1>3. /\ w \in Seq(Users) /\ Len(w) = Len(q) + 1
      /\ \A i \in 1 .. Len(q) : w[i] = UsersOf(q)[i]
      /\ w[Len(q) + 1] = e.user
  BY <1>1, UsersOfType
<1>4. \A i \in 1 .. Len(q) : UsersOf(q)[i] = q[i].user
  BY UsersOfType
<1> HIDE DEF longer, w
<1>5. \A i \in 1 .. Len(longer) : w[i] = longer[i].user
  BY <1>2, <1>3, <1>4
<1>6. UsersOf(longer) = w
  BY <1>2, <1>3, <1>5, SameUsers
<1>7. QED BY <1>6 DEF longer, w

LEMMA UsersOfRemove ==
    ASSUME NEW q \in Seq(Entry), NEW i \in 1 .. Len(q)
    PROVE  UsersOf(RemoveAt(q, i)) = RemoveAt(UsersOf(q), i)
<1> DEFINE less == RemoveAt(q, i)
           u == UsersOf(q)
           w == RemoveAt(u, i)
<1>1. /\ less \in Seq(Entry) /\ Len(less) = Len(q) - 1
      /\ \A j \in 1 .. Len(q) - 1 : less[j] = IF j < i THEN q[j] ELSE q[j + 1]
  BY RemoveAtProperties
<1>2. u \in Seq(Users) /\ Len(u) = Len(q) /\ \A j \in 1 .. Len(q) : u[j] = q[j].user
  BY UsersOfType
<1> HIDE DEF u, less
<1>3. /\ w \in Seq(Users) /\ Len(w) = Len(q) - 1
      /\ \A j \in 1 .. Len(q) - 1 : w[j] = IF j < i THEN u[j] ELSE u[j + 1]
  BY <1>2, RemoveAtProperties
<1> HIDE DEF w
<1>4. Len(q) \in Nat
  OBVIOUS
<1>5. ASSUME NEW j \in 1 .. Len(less) PROVE w[j] = less[j].user
  <2>1. j \in 1 .. Len(q) - 1 /\ j \in 1 .. Len(q) /\ j + 1 \in 1 .. Len(q)
    BY <1>1, <1>4
  <2>2. CASE j < i
    BY <1>1, <1>2, <1>3, <2>1, <2>2
  <2>3. CASE ~(j < i)
    BY <1>1, <1>2, <1>3, <2>1, <2>3
  <2>4. QED BY <2>2, <2>3
<1>6. UsersOf(less) = w
  BY <1>1, <1>3, <1>5, SameUsers
<1>7. QED BY <1>6 DEF less, w, u

LEMMA UsersOfDropTwo ==
    ASSUME NEW q \in Seq(Entry), Len(q) >= 2
    PROVE  UsersOf(SubSeq(q, 3, Len(q))) = SubSeq(UsersOf(q), 3, Len(UsersOf(q)))
<1> DEFINE less == SubSeq(q, 3, Len(q))
           u == UsersOf(q)
           w == SubSeq(u, 3, Len(u))
<1>1. /\ less \in Seq(Entry) /\ Len(less) = Len(q) - 2
      /\ \A j \in 1 .. Len(q) - 2 : less[j] = q[j + 2]
  BY DropTwoProperties
<1>2. u \in Seq(Users) /\ Len(u) = Len(q) /\ \A j \in 1 .. Len(q) : u[j] = q[j].user
  BY UsersOfType
<1> HIDE DEF u, less
<1>3. /\ w \in Seq(Users) /\ Len(w) = Len(q) - 2
      /\ \A j \in 1 .. Len(q) - 2 : w[j] = u[j + 2]
  BY <1>2, DropTwoProperties
<1> HIDE DEF w
<1>4. Len(q) \in Nat
  OBVIOUS
<1>5. ASSUME NEW j \in 1 .. Len(less) PROVE w[j] = less[j].user
  <2>1. j \in 1 .. Len(q) - 2 /\ j + 2 \in 1 .. Len(q)
    BY <1>1, <1>4
  <2>2. QED BY <1>1, <1>2, <1>3, <2>1
<1>6. UsersOf(less) = w
  BY <1>1, <1>3, <1>5, SameUsers
<1>7. QED BY <1>6 DEF less, w, u

---------------------------------------------------------------------------
QueueInv == TypeOK /\ Placement /\ SessionInv

LEMMA QueueInvariant == Spec => []QueueInv
<1>1. Spec => []SessionInv
  BY ContractKept, SessionInvariant, PTL DEF UsesSessionManager
<1>2. QED BY <1>1, PlacementCorrect, PTL DEF QueueInv

(* Each step of the queue takes the step of the lifecycle of its name.     *)
LEMMA SameLifecycle ==
    ASSUME UsersOf(queue_)' = UsersOf(queue_),
           \A s \in Sessions : Participant(s)' = Participant(s),
           UNCHANGED <<records_, sessions_>>
    PROVE  UNCHANGED Lifecycle!lifecycleVars
  BY DEF Lifecycle!lifecycleVars, UsersOf

LEMMA JoinArrives ==
    ASSUME QueueInv, NEW u \in Users, QueueJoin(u)
    PROVE  Lifecycle!LifecycleNext
<1>1. queue_ \in Seq(Entry) /\ QueueIndex /\ Routing
  BY DEF QueueInv, TypeOK, QueueTypeOK, Entry, Placement
<1>2. PICK left \in Nat : queue_' = Append(queue_, [user |-> u, left |-> left])
  BY JoinExpiry DEF QueueJoin, Join
<1>3. u \notin user_index_ /\ user_to_session_[u] = 0 /\ UNCHANGED smVars
  BY DEF QueueJoin, Join, MayJoin, IsUserInSession
<1> DEFINE e == [user |-> u, left |-> left]
<1>4. e \in Entry /\ e.user = u
  BY DEF Entry
<1> HIDE DEF e
<1>5. UsersOf(queue_)' = Append(UsersOf(queue_), u)
  BY <1>1, <1>2, <1>4, UsersOfAppend DEF e, UsersOf
<1>6. ~Lifecycle!IsWaiting(u)
  BY <1>1, <1>3 DEF Lifecycle!IsWaiting, QueueIndex
<1>7. ~Lifecycle!IsPlaying(u)
  BY <1>1, <1>3 DEF Lifecycle!IsPlaying, Routing
<1>8. Lifecycle!Arrive(u)
  BY <1>3, <1>5, <1>6, <1>7 DEF Lifecycle!Arrive, UsersOf, smVars, strandVars, mapVars, storeVars, Participant
<1>9. QED BY <1>8 DEF Lifecycle!LifecycleNext

LEMMA RemovalLeaves ==
    ASSUME QueueInv, NEW i \in DOMAIN queue_, queue_' = RemoveAt(queue_, i), UNCHANGED smVars
    PROVE  Lifecycle!LifecycleNext
<1>1. queue_ \in Seq(Entry) /\ DOMAIN queue_ = 1 .. Len(queue_)
  BY LenProperties DEF QueueInv, TypeOK, QueueTypeOK, Entry
<1>2. UsersOf(queue_)' = RemoveAt(UsersOf(queue_), i)
  BY <1>1, UsersOfRemove DEF UsersOf
<1>3. i \in DOMAIN UsersOf(queue_)
  BY DEF UsersOf
<1>4. Lifecycle!Leave(i)
  BY <1>2 DEF Lifecycle!Leave, UsersOf, RemoveAt, smVars, strandVars, mapVars, storeVars, Participant
<1>5. QED BY <1>3, <1>4 DEF Lifecycle!LifecycleNext, UsersOf

LEMMA PairPairs ==
    ASSUME QueueInv, PairIfPossible
    PROVE  Lifecycle!LifecycleNext
<1> DEFINE w == UsersOf(queue_)
           u == queue_[1].user
           v == queue_[2].user
<1>1. queue_ \in Seq(Entry) /\ SMTypeOK /\ Routing /\ Contexts
  BY DEF QueueInv, TypeOK, QueueTypeOK, Entry, Placement, SessionInv
<1>2. Len(queue_) \in Nat /\ Len(queue_) >= 2
  BY <1>1 DEF PairIfPossible
<1>3. w[1] = u /\ w[2] = v /\ Len(w) >= 2
  BY <1>1, <1>2, UsersOfType
<1>4. PICK s \in Sessions : s = next_session_id_
  BY <1>1, SessionManagerConstants DEF PairIfPossible, CreateSession, SMTypeOK
<1>5. /\ queue_' = SubSeq(queue_, 3, Len(queue_))
      /\ participants' = [participants EXCEPT ![s] = <<u, v>>]
      /\ sessions_' = sessions_ \cup {s} /\ records_' = records_
  BY <1>4 DEF PairIfPossible, CreateSession, storeVars
<1>6. UsersOf(queue_)' = SubSeq(w, 3, Len(w))
  BY <1>1, <1>2, <1>5, UsersOfDropTwo DEF UsersOf
<1>7. Participant(s) = {} /\ DOMAIN participants = Sessions
  <2>1. phase[s] = "none"
    BY <1>1, <1>4, SessionManagerConstants DEF Routing
  <2>2. QED BY <1>1, <2>1 DEF Contexts, Context, Participant, SMTypeOK
<1>8. /\ Participant(s)' = {u, v}
      /\ \A r \in Sessions \ {s} : Participant(r)' = Participant(r)
  BY <1>5, <1>7 DEF Participant
<1>9. [r \in Sessions |-> Participant(r)'] = [[r \in Sessions |-> Participant(r)] EXCEPT ![s] = {w[1], w[2]}]
  BY <1>3, <1>8
<1> HIDE DEF u, v
<1>10. Lifecycle!Pair(s)
  BY <1>3, <1>5, <1>6, <1>7, <1>9 DEF Lifecycle!Pair, UsersOf
<1>11. QED BY <1>10 DEF Lifecycle!LifecycleNext

(* SaveResult records, EraseSession finishes; the other steps of a strand  *)
(* are not seen.                                                           *)
LEMMA SaveRecords ==
    ASSUME QueueInv, NEW s \in Sessions, SaveResult(s), UNCHANGED queueVars
    PROVE  Lifecycle!LifecycleNext
<1> DEFINE sim == simulation[s]
           record == RecordOf(participants[s], sim)
           p == record.winner_user_id
<1>1. SMTypeOK /\ Routing /\ Stored /\ Context(s)
  BY DEF QueueInv, SessionInv, Contexts
<1>2. phase[s] = "saving" /\ s \notin DOMAIN records_ /\ s \in sessions_
  BY <1>1 DEF SaveResult, Stored, Routing, Live
<1>3. records_' = SaveIfAbsent(records_, s, record)
      /\ UNCHANGED <<participants, sessions_, queue_>>
  BY ResultRecordIs DEF SaveResult, mapVars, queueVars
<1>4. p \in Participant(s)
  <2>1. PICK u \in Users, v \in Users : u # v /\ participants[s] = <<u, v>> /\ InSession(sim, {u, v})
    BY <1>1, <1>2 DEF Context, Playing
  <2>2. record = RecordOf(<<u, v>>, sim)
    BY <2>1
  <2> HIDE DEF sim, record
  <2>3. p \in {u, v}
    BY <2>1, <2>2, RecordFacts
  <2>4. QED BY <2>1, <2>3 DEF Participant
<1> HIDE DEF record, p
<1>5. /\ WinnerOfSession(s) = 0 /\ WinnerOfSession(s)' = p
      /\ \A r \in Sessions \ {s} : WinnerOfSession(r)' = WinnerOfSession(r)
  BY <1>2, <1>3 DEF WinnerOfSession, SaveIfAbsent, p
<1>6. [r \in Sessions |-> WinnerOfSession(r)'] = [[r \in Sessions |-> WinnerOfSession(r)] EXCEPT ![s] = p]
  BY <1>5
<1>7. \A r \in Sessions : Participant(r)' = Participant(r)
  BY <1>3 DEF Participant
<1>8. Lifecycle!Record(s)
  BY <1>2, <1>3, <1>4, <1>5, <1>6, <1>7 DEF Lifecycle!Record, WinnerOfSession
<1>9. QED BY <1>8 DEF Lifecycle!LifecycleNext

LEMMA EraseFinishes ==
    ASSUME QueueInv, NEW s \in Sessions, EraseSession(s), UNCHANGED queueVars
    PROVE  Lifecycle!LifecycleNext
<1>1. Routing /\ Stored /\ Contexts
  BY DEF QueueInv, SessionInv
<1>2. phase[s] = "erasing" /\ s \in DOMAIN records_ /\ s \in sessions_
  BY <1>1 DEF EraseSession, Stored, Routing, Live
<1>3. records_[s].winner_user_id # 0
  <2>1. records_[s].winner_user_id \in Users
    BY <1>1, <1>2, StoredRecord
  <2>2. QED BY <2>1, SimulationConstants
<1>4. sessions_' = sessions_ \ {s} /\ UNCHANGED <<participants, records_, queue_>>
  BY DEF EraseSession, storeVars, queueVars
<1>5. \A r \in Sessions : Participant(r)' = Participant(r)
  BY <1>4 DEF Participant
<1>6. Lifecycle!Finish(s)
  BY <1>2, <1>3, <1>4, <1>5 DEF Lifecycle!Finish
<1>7. QED BY <1>6 DEF Lifecycle!LifecycleNext

LEMMA StepLives ==
    ASSUME QueueInv, [Next]_vars
    PROVE  [Lifecycle!LifecycleNext]_(Lifecycle!lifecycleVars)
<1>1. ASSUME UNCHANGED <<queue_, participants, records_, sessions_>>
      PROVE  UNCHANGED Lifecycle!lifecycleVars
  BY <1>1, SameLifecycle DEF UsersOf, Participant
<1>2. CASE QueueStep
  <2>1. CASE \E u \in Users : QueueJoin(u)
    BY <2>1, JoinArrives
  <2>2. CASE \E u \in Users : QueueCancel(u)
    BY <2>2, RemovalLeaves DEF QueueCancel, Cancel
  <2>3. CASE HandleTimeout
    BY <2>3, RemovalLeaves DEF HandleTimeout
  <2>4. CASE PairIfPossible
    BY <2>4, PairPairs
  <2>5. CASE OnTick \/ TimeoutsDone \/ RearmTimer
    BY <1>1, <2>5 DEF OnTick, TimeoutsDone, RearmTimer, smVars, strandVars, mapVars, storeVars
  <2>6. CASE Advance
    <3>1. queue_ \in Seq(Entry)
      BY DEF QueueInv, TypeOK, QueueTypeOK, Entry
    <3>2. /\ queue_' \in Seq(Entry) /\ Len(queue_') = Len(queue_)
          /\ \A i \in 1 .. Len(queue_) : queue_'[i].user = queue_[i].user
      BY <2>6, <3>1, AdvanceProperties
    <3>3. UsersOf(queue_') = UsersOf(queue_)
      BY <3>1, <3>2, UsersOfType, SameUsers
    <3>4. UNCHANGED <<participants, records_, sessions_>>
      BY <2>6 DEF Advance, smVars, strandVars, mapVars, storeVars
    <3>5. QED BY <3>3, <3>4, SameLifecycle DEF Participant
  <2>7. QED BY <1>2, <2>1, <2>2, <2>3, <2>4, <2>5, <2>6 DEF QueueStep, TimerStep
<1>3. ASSUME NEW s \in Sessions, StrandStep(s), UNCHANGED queueVars
      PROVE  [Lifecycle!LifecycleNext]_(Lifecycle!lifecycleVars)
  <2>1. CASE SaveResult(s)
    BY <1>3, <2>1, SaveRecords
  <2>2. CASE EraseSession(s)
    BY <1>3, <2>2, EraseFinishes
  <2>3. CASE AnnounceCreated(s) \/ AnnounceStarted(s) \/ HandleTick(s) \/ FinishSession(s) \/ RateResult(s)
    <3>1. UNCHANGED <<queue_, participants, records_, sessions_>>
      BY <1>3, <2>3 DEF AnnounceCreated, AnnounceStarted, HandleTick, FinishSession, RateResult,
                        queueVars, mapVars, storeVars
    <3>2. QED BY <1>1, <3>1
  <2>4. QED BY <1>3, <2>1, <2>2, <2>3 DEF StrandStep
<1>4. ASSUME NEW c \in Connections, NEW named, NEW command, UNCHANGED queueVars,
             Register(c) \/ Unregister(c) \/ RunInput(c) \/ SubmitInput(c, named, command)
      PROVE  UNCHANGED Lifecycle!lifecycleVars
  BY <1>1, <1>4 DEF Register, Unregister, RunInput, SubmitInput, queueVars, strandVars, mapVars, storeVars
<1>5. CASE UNCHANGED vars
  BY <1>1, <1>5 DEF vars, smVars, queueVars, strandVars, mapVars, storeVars
<1>6. CASE SMStep /\ UNCHANGED queueVars
  BY <1>3, <1>4, <1>6 DEF SMStep
<1>7. QED BY <1>2, <1>5, <1>6 DEF Next

(* The queue, the sessions and the stores together implement the safety    *)
(* part of MatchLifecycle: the two longest waiting are paired, a match is  *)
(* recorded once with one of its players as the winner, and only then are  *)
(* its players free.                                                       *)
THEOREM LifecycleImplemented == Spec => Lifecycle!LifecycleSafety
<1>1. Init => Lifecycle!LifecycleInit
  <2> SUFFICES ASSUME Init PROVE Lifecycle!LifecycleInit
    OBVIOUS
  <2>1. queue_ = <<>> /\ sessions_ = {} /\ DOMAIN records_ = {} /\ \A s \in Sessions : Participant(s) = {}
    BY DEF Init, SMInit, Participant
  <2>2. QED BY <2>1 DEF Lifecycle!LifecycleInit
<1>2. QueueInv /\ [Next]_vars => [Lifecycle!LifecycleNext]_(Lifecycle!lifecycleVars)
  BY StepLives
<1>3. QED BY <1>1, <1>2, QueueInvariant, PTL DEF Spec, Lifecycle!LifecycleSafety
=============================================================================

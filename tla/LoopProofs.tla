----------------------------- MODULE LoopProofs -----------------------------
(***************************************************************************)
(* Proofs about one simulation driven by inputs and ticks in any order,    *)
(* for any users, commands, limits and number of ticks: types, the buffer, *)
(* the replay and the bounded move.                                        *)
(***************************************************************************)
EXTENDS SimulationLoop, SimulationProofs

---------------------------------------------------------------------------
Tracker == [last_sequence : Nat, per_tick_count : [TargetTicks -> 0 .. MaxInputsPerTickPerUser]]

SimType == [current_tick   : 0 .. MaxTicks,
            inputs_by_tick : [TargetTicks -> Seq(Inputs)],
            trackers       : [Users -> Tracker],
            players        : PlayersOf(Users)]

AcceptedFor(u, t) == {i \in accepted : i.user_id = u /\ i.target_tick = t}

(* Every accepted input keeps ValidateInput's range.                       *)
InRange == \A i \in accepted : i.delta \in -MaxDelta .. MaxDelta

(* A user's tracker has seen every accepted input of the user.             *)
Tracked == \A i \in accepted : i.sequence <= sim.trackers[i.user_id].last_sequence

(* A tracker counts the accepted inputs of its user for a tick.            *)
Counted == \A u \in Users, t \in TargetTicks :
               Cardinality(AcceptedFor(u, t)) <= sim.trackers[u].per_tick_count[t]

(***************************************************************************)
(* The buffer alone is not inductive: that EnqueueInput appends an input   *)
(* that is not there yet follows from Tracked, as it asks for a greater    *)
(* sequence.  The replay needs the buffer, which is what TickOnce applies. *)
(***************************************************************************)
LoopInv ==
    /\ sim \in SimType
    /\ accepted \subseteq Inputs
    /\ IsFiniteSet(accepted)
    /\ InRange
    /\ Tracked
    /\ Counted
    /\ BufferIsTheFuture
    /\ DeterministicReplay

(* What a simulation's members are. *)
LEMMA SimFields ==
    ASSUME sim \in SimType
    PROVE  /\ sim.current_tick \in 0 .. MaxTicks
           /\ sim.inputs_by_tick \in [TargetTicks -> Seq(Inputs)]
           /\ sim.trackers \in [Users -> Tracker]
           /\ sim.players \in PlayersOf(Users)
  BY DEF SimType

LEMMA BufferIsListed ==
    ASSUME sim \in SimType, NEW t \in TargetTicks
    PROVE  Listed(sim.inputs_by_tick[t], Users)
<1> DEFINE q == sim.inputs_by_tick[t]
<1>1. q \in Seq(Inputs)
  BY SimFields
<1> HIDE DEF q
<1>2. DOMAIN q = 1 .. Len(q) /\ Len(q) \in Nat /\ \A i \in 1 .. Len(q) : q[i] \in Inputs
  BY <1>1
<1>3. QED BY <1>2, InputTypes DEF Listed, q

---------------------------------------------------------------------------
(* The sum that Replay forms, as a sum of SetInduction.                    *)
Moved(S) == MapThenSumSet(LAMBDA i : i.delta, S)

DeltasOf(S) == [i \in S |-> i.delta]

LEMMA MovedIsSum ==
    ASSUME NEW S, IsFiniteSet(S), \A i \in S : i.delta \in Int
    PROVE  \E g : Sums(g, DeltasOf(S), S) /\ Moved(S) = g[S]
<1> DEFINE Adds(g) == g = [s \in SUBSET S |-> IF s = {} THEN 0 ELSE One(s).delta + g[s \ {One(s)}]]
           h == CHOOSE g : Adds(g)
<1>1. \A s \in SUBSET S : s # {} => DeltasOf(S)[One(s)] = One(s).delta
  BY DEF DeltasOf, One
<1>2. \A g : Adds(g) <=> Sums(g, DeltasOf(S), S)
  BY <1>1 DEF Sums
<1>3. \E g : Sums(g, DeltasOf(S), S)
  <2>1. \A i \in S : DeltasOf(S)[i] \in Int
    BY DEF DeltasOf
  <2>2. QED BY <2>1, SumsExist
<1>4. Adds(h)
  <2>1. \E g : Adds(g)
    BY <1>2, <1>3
  <2> HIDE DEF Adds
  <2>2. QED BY <2>1
<1>5. Moved(S) = h[S]
  BY DEF Moved, MapThenSumSet, MapThenFoldSet, One
<1> HIDE DEF Adds, h
<1>6. QED BY <1>2, <1>4, <1>5

LEMMA MovedEmpty == Moved({}) = 0
<1>1. IsFiniteSet({})
  BY FS_EmptySet
<1>2. PICK g : Sums(g, DeltasOf({}), {}) /\ Moved({}) = g[{}]
  BY <1>1, MovedIsSum
<1>3. QED BY <1>2 DEF Sums

LEMMA MovedAdd ==
    ASSUME NEW S, IsFiniteSet(S), \A i \in S : i.delta \in Int, NEW x, x.delta \in Int, x \notin S
    PROVE  /\ Moved(S) \in Int
           /\ Moved(S \cup {x}) = Moved(S) + x.delta
<1> DEFINE T == S \cup {x}
<1>1. IsFiniteSet(T) /\ S \in SUBSET T /\ T \ {x} = S /\ x \in T /\ \A i \in T : i.delta \in Int
  BY FS_AddElement
<1> HIDE DEF T
<1>2. PICK g : Sums(g, DeltasOf(T), T) /\ Moved(T) = g[T]
  BY <1>1, MovedIsSum
<1>3. PICK h : Sums(h, DeltasOf(S), S) /\ Moved(S) = h[S]
  BY MovedIsSum
<1>4. /\ \A i \in T : DeltasOf(T)[i] \in Int
      /\ \A i \in S : DeltasOf(S)[i] = DeltasOf(T)[i]
      /\ DeltasOf(T)[x] = x.delta
  BY <1>1 DEF DeltasOf
<1>5. g[S] = h[S]
  BY <1>1, <1>2, <1>3, <1>4, SumsAgree
<1>6. TakesAny(g, DeltasOf(T), T)
  BY <1>1, <1>2, <1>4, SumTakes
<1>7. g[T] = x.delta + g[S] /\ g[S] \in Int
  BY <1>1, <1>4, <1>6 DEF TakesAny
<1>8. QED BY <1>2, <1>3, <1>5, <1>7 DEF T

---------------------------------------------------------------------------
(* Replay as a function of the inputs that are due alone. *)
ReplayOf(S) ==
    LET lastTick == Max({i.target_tick : i \in S})
    IN  IF S = {} THEN NewPlayer
        ELSE [position      |-> MapThenSumSet(LAMBDA i : i.delta, S),
              last_sequence |-> Max({i.sequence : i \in {j \in S : j.target_tick = lastTick}})]

LEMMA ReplayIs == \A u : Replay(u) = ReplayOf(Due(u))
  BY DEF Replay, ReplayOf

LEMMA ReplayIsPrimed == \A u : Replay(u)' = ReplayOf(Due(u)')
<1>1. (\A u : Replay(u) = ReplayOf(Due(u)))'
  BY ReplayIs, PTL
<1>2. QED BY <1>1

LEMMA LoopInitInv == LoopInit => LoopInv
<1> SUFFICES ASSUME LoopInit PROVE LoopInv
  OBVIOUS
<1>1. /\ sim.current_tick = 0 /\ accepted = {}
      /\ sim.inputs_by_tick = [t \in TargetTicks |-> <<>>]
      /\ sim.trackers = [u \in Users |-> NewTracker]
      /\ sim.players = [u \in {} |-> NewPlayer]
  BY DEF LoopInit, NewSimulation
<1>2. sim \in SimType
  <2>1. 0 \in 0 .. MaxTicks
    BY LoopConstants
  <2>2. [t \in TargetTicks |-> <<>>] \in [TargetTicks -> Seq(Inputs)]
    OBVIOUS
  <2>3. NewTracker \in Tracker
    BY SimulationConstants DEF NewTracker, Tracker
  <2>4. [u \in {} |-> NewPlayer] \in PlayersOf(Users)
    <3>1. [u \in {} |-> NewPlayer] \in [{} -> Player]
      OBVIOUS
    <3>2. QED BY <3>1 DEF PlayersOf
  <2>5. QED BY <2>1, <2>2, <2>3, <2>4 DEF LoopInit, NewSimulation, SimType
<1>3. \A u, t : AcceptedFor(u, t) = {}
  BY <1>1 DEF AcceptedFor
<1>4. Counted
  <2>1. \A u \in Users, t \in TargetTicks : sim.trackers[u].per_tick_count[t] = 0
    BY <1>1 DEF NewTracker
  <2>2. QED BY <1>3, <2>1, FS_EmptySet DEF Counted
<1>5. BufferIsTheFuture
  <2>1. \A t \in TargetTicks : sim.inputs_by_tick[t] = <<>>
    BY <1>1
  <2>2. ToSet(<<>>) = {} /\ IsInjective(<<>>)
    BY DEF ToSet, IsInjective
  <2>3. QED BY <1>1, <2>1, <2>2 DEF BufferIsTheFuture
<1>6. DeterministicReplay
  <2>1. \A u \in Users : Due(u) = {}
    BY <1>1 DEF Due
  <2>2. QED BY <1>1, <2>1 DEF DeterministicReplay, Replay
<1>7. QED BY <1>1, <1>2, <1>4, <1>5, <1>6, FS_EmptySet DEF LoopInv, InRange, Tracked

LEMMA AddInv ==
    ASSUME LoopInv, NEW u \in Users, Add(u)
    PROVE  LoopInv'
<1> DEFINE D == DOMAIN sim.players \cup {u}
           known == [v \in D |-> IF v \in DOMAIN sim.players THEN sim.players[v] ELSE NewPlayer]
<1>1. sim \in SimType
  BY DEF LoopInv
<1>2. sim' = [sim EXCEPT !.players = known] /\ accepted' = accepted
  BY DEF Add, AddPlayer
<1>3. known \in PlayersOf(Users)
  <2>1. DOMAIN sim.players \in SUBSET Users /\ \A v \in DOMAIN sim.players : sim.players[v] \in Player
    BY <1>1, SimFields DEF PlayersOf
  <2>2. NewPlayer \in Player /\ D \in SUBSET Users
    BY <2>1 DEF NewPlayer, Player
  <2>3. known \in [D -> Player]
    BY <2>1, <2>2
  <2>4. QED BY <2>2, <2>3 DEF PlayersOf
<1>4. \A v : PlayerOf(known, v) = PlayerOf(sim.players, v)
  BY DEF PlayerOf
<1> HIDE DEF known
<1>5. /\ sim' \in SimType
      /\ sim'.players = known /\ sim'.current_tick = sim.current_tick
      /\ sim'.inputs_by_tick = sim.inputs_by_tick /\ sim'.trackers = sim.trackers
  BY <1>1, <1>2, <1>3 DEF SimType
<1>6. Tracked' /\ Counted' /\ InRange' /\ BufferIsTheFuture'
  BY <1>2, <1>5 DEF LoopInv, Tracked, Counted, InRange, BufferIsTheFuture, AcceptedFor
<1>7. DeterministicReplay'
  <2>1. \A v \in Users : Replay(v)' = Replay(v)
    <3>1. \A v \in Users : Due(v)' = Due(v)
      BY <1>2, <1>5 DEF Due
    <3>2. QED BY <3>1, ReplayIs, ReplayIsPrimed
  <2>2. \A v \in Users : PlayerOf(sim.players, v) = Replay(v)
    BY DEF LoopInv, DeterministicReplay, PlayerOf
  <2>3. \A v \in Users : PlayerOf(sim'.players, v) = Replay(v)'
    BY <1>4, <1>5, <2>1, <2>2
  <2>4. QED BY <2>3 DEF DeterministicReplay, PlayerOf
<1>8. QED BY <1>2, <1>5, <1>6, <1>7 DEF LoopInv

(* An accepted input is new, is for a tick to come, and is counted.        *)
LEMMA EnqueueInv ==
    ASSUME LoopInv, NEW input \in Inputs, Enqueue(input)
    PROVE  LoopInv'
<1> DEFINE u == input.user_id
           t == input.target_tick
           tracker == sim.trackers[u]
           counted == Count(tracker, input)
<1>1. /\ sim \in SimType /\ accepted \subseteq Inputs /\ IsFiniteSet(accepted)
      /\ InRange /\ Tracked /\ Counted /\ BufferIsTheFuture /\ DeterministicReplay
  BY DEF LoopInv
<1>2. CASE ~Accepts(sim, input)
  <2>1. sim' = sim /\ accepted' = accepted
    BY <1>2 DEF Enqueue, EnqueueInput
  <2>2. \A v : Due(v)' = Due(v)
    BY <2>1 DEF Due
  <2>3. DeterministicReplay'
    BY <1>1, <2>1, <2>2, ReplayIs, ReplayIsPrimed DEF DeterministicReplay
  <2>4. QED
    BY <1>1, <2>1, <2>3 DEF LoopInv, InRange, Tracked, Counted, BufferIsTheFuture, AcceptedFor
<1>3. CASE Accepts(sim, input)
  <2>1. /\ u \in Users /\ t \in TargetTicks /\ t \in Int
        /\ input.sequence \in Nat /\ input.delta \in Int
    BY InputTypes DEF InputsOf
  <2>2. /\ sim.current_tick \in 0 .. MaxTicks
        /\ sim.inputs_by_tick \in [TargetTicks -> Seq(Inputs)]
        /\ sim.trackers \in [Users -> Tracker]
        /\ sim.players \in PlayersOf(Users)
    BY <1>1, SimFields
  <2>3. /\ tracker \in Tracker /\ tracker.last_sequence \in Nat
        /\ tracker.per_tick_count \in [TargetTicks -> 0 .. MaxInputsPerTickPerUser]
    BY <2>1, <2>2 DEF Tracker
  <2>4. /\ ~(t <= sim.current_tick)
        /\ input.delta \in -MaxDelta .. MaxDelta
        /\ ~(input.sequence <= tracker.last_sequence)
        /\ ~(tracker.per_tick_count[t] >= MaxInputsPerTickPerUser)
    BY <1>3 DEF Accepts, ValidateInput
  <2>5. t > sim.current_tick /\ input.sequence > tracker.last_sequence
        /\ tracker.per_tick_count[t] \in 0 .. MaxInputsPerTickPerUser
        /\ tracker.per_tick_count[t] < MaxInputsPerTickPerUser
    BY <2>1, <2>2, <2>3, <2>4, SimulationConstants
  <2>6. input \notin accepted
    <3>1. input \in accepted => input.sequence <= tracker.last_sequence
      BY <1>1 DEF Tracked
    <3>2. QED BY <2>4, <3>1
  <2>7. accepted' = accepted \cup {input}
    BY <1>3 DEF Enqueue
  <2> DEFINE trackers == [sim.trackers EXCEPT ![u] = counted]
             buffers == [sim.inputs_by_tick EXCEPT ![t] = Append(@, input)]
  <2>8. sim' = [sim EXCEPT !.trackers[u] = counted, !.inputs_by_tick[t] = Append(@, input)]
    BY <1>3 DEF Enqueue, EnqueueInput
  <2>9. /\ sim'.current_tick = sim.current_tick
        /\ sim'.players = sim.players
        /\ sim'.trackers = trackers
        /\ sim'.inputs_by_tick = buffers
        /\ sim' = [current_tick |-> sim.current_tick, inputs_by_tick |-> buffers,
                   trackers |-> trackers, players |-> sim.players]
    <3> HIDE DEF counted, u, t
    <3>1. sim = [current_tick |-> sim.current_tick, inputs_by_tick |-> sim.inputs_by_tick,
                 trackers |-> sim.trackers, players |-> sim.players]
      BY <1>1 DEF SimType
    <3>2. QED BY <2>8, <3>1
  <2>10. counted \in Tracker
    <3> DEFINE c == tracker.per_tick_count
    <3>1. c \in [TargetTicks -> 0 .. MaxInputsPerTickPerUser] /\ c[t] + 1 \in 0 .. MaxInputsPerTickPerUser
      BY <2>3, <2>5, SimulationConstants
    <3> HIDE DEF c
    <3>2. [c EXCEPT ![t] = @ + 1] \in [TargetTicks -> 0 .. MaxInputsPerTickPerUser]
      BY <2>1, <3>1
    <3>3. QED BY <2>1, <3>2 DEF Tracker, Count, c
  <2>11. \A v \in Users : trackers[v] = IF v = u THEN counted ELSE sim.trackers[v]
    <3> HIDE DEF counted
    <3>1. QED BY <2>2
  <2>12. \A s \in TargetTicks : buffers[s] = IF s = t THEN Append(sim.inputs_by_tick[t], input)
                                             ELSE sim.inputs_by_tick[s]
    BY <2>2
  <2>13. sim' \in SimType
    <3>1. trackers \in [Users -> Tracker]
      <4> HIDE DEF counted
      <4>1. QED BY <2>2, <2>10
    <3>2. Append(sim.inputs_by_tick[t], input) \in Seq(Inputs)
      BY <2>1, <2>2
    <3>3. buffers \in [TargetTicks -> Seq(Inputs)]
      BY <2>1, <2>2, <3>2
    <3> HIDE DEF trackers, buffers
    <3>4. QED BY <2>2, <2>9, <3>1, <3>3 DEF SimType
  <2> HIDE DEF trackers, buffers
  <2>14. IsFiniteSet(accepted') /\ accepted' \subseteq Inputs
    BY <1>1, <2>7, FS_AddElement
  <2>15. InRange'
    BY <1>1, <2>4, <2>7 DEF InRange
  <2>16. Tracked'
    <3>1. \A i \in accepted : i.user_id \in Users /\ i.sequence \in Nat
      BY <1>1, InputTypes DEF InputsOf
    <3>2. ASSUME NEW i \in accepted' PROVE i.sequence <= trackers[i.user_id].last_sequence
      <4>1. CASE i = input
        BY <2>1, <2>11, <4>1 DEF Count
      <4>2. CASE i \in accepted /\ i.user_id = u
        <5>1. i.sequence <= tracker.last_sequence
          BY <1>1, <4>2 DEF Tracked
        <5>2. trackers[i.user_id].last_sequence = input.sequence
          BY <2>1, <2>11, <4>2 DEF Count
        <5>3. i.sequence \in Nat
          BY <3>1, <4>2
        <5>4. QED BY <2>1, <2>3, <2>5, <5>1, <5>2, <5>3
      <4>3. CASE i \in accepted /\ i.user_id # u
        BY <1>1, <2>11, <3>1, <4>3 DEF Tracked
      <4>4. QED BY <2>7, <4>1, <4>2, <4>3
    <3>3. QED BY <2>9, <3>2 DEF Tracked
  <2>17. Counted'
    <3>1. ASSUME NEW v \in Users, NEW s \in TargetTicks
          PROVE  Cardinality(AcceptedFor(v, s)') <= trackers[v].per_tick_count[s]
      <4>0. /\ IsFiniteSet(AcceptedFor(v, s)) /\ Cardinality(AcceptedFor(v, s)) \in Nat
            /\ Cardinality(AcceptedFor(v, s)) <= sim.trackers[v].per_tick_count[s]
        <5>1. AcceptedFor(v, s) \in SUBSET accepted
          BY DEF AcceptedFor
        <5>2. QED BY <1>1, <5>1, FS_Subset, FS_CardinalityType DEF Counted
      <4>1. CASE v = u /\ s = t
        <5>1. AcceptedFor(v, s)' = AcceptedFor(v, s) \cup {input} /\ input \notin AcceptedFor(v, s)
          BY <2>6, <2>7, <4>1 DEF AcceptedFor
        <5>2. Cardinality(AcceptedFor(v, s)') = Cardinality(AcceptedFor(v, s)) + 1
          BY <4>0, <5>1, FS_AddElement
        <5>3. trackers[v].per_tick_count[s] = tracker.per_tick_count[t] + 1
          <6>1. counted.per_tick_count[t] = tracker.per_tick_count[t] + 1
            BY <2>1, <2>3 DEF Count
          <6>2. QED BY <2>1, <2>11, <4>1, <6>1
        <5>4. Cardinality(AcceptedFor(v, s)) <= tracker.per_tick_count[t]
          BY <4>0, <4>1
        <5>5. tracker.per_tick_count[t] \in Int
          BY <2>5
        <5> HIDE DEF tracker
        <5>6. QED BY <4>0, <5>2, <5>3, <5>4, <5>5
      <4>2. CASE ~(v = u /\ s = t)
        <5>1. AcceptedFor(v, s)' = AcceptedFor(v, s)
          BY <2>7, <4>2 DEF AcceptedFor
        <5>2. trackers[v].per_tick_count[s] = sim.trackers[v].per_tick_count[s]
          <6>1. CASE v # u
            BY <2>11, <6>1
          <6>2. CASE v = u /\ s # t
            <7>1. counted.per_tick_count[s] = tracker.per_tick_count[s]
              BY <2>3, <6>2 DEF Count
            <7>2. QED BY <2>11, <6>2, <7>1
          <6>3. QED BY <4>2, <6>1, <6>2
        <5>3. QED BY <4>0, <5>1, <5>2
      <4>3. QED BY <4>1, <4>2
    <3>2. QED BY <2>9, <3>1 DEF Counted
  <2>18. BufferIsTheFuture'
    <3>1. ASSUME NEW s \in TargetTicks
          PROVE  /\ ToSet(buffers[s]) = {i \in accepted' : i.target_tick = s /\ s > sim.current_tick}
                 /\ IsInjective(buffers[s])
      <4> DEFINE q == sim.inputs_by_tick[s]
      <4>1. /\ ToSet(q) = {i \in accepted : i.target_tick = s /\ s > sim.current_tick}
            /\ IsInjective(q)
        BY <1>1 DEF BufferIsTheFuture
      <4>2. q \in Seq(Inputs)
        BY <2>2
      <4>3. CASE s # t
        BY <2>7, <2>12, <4>1, <4>3
      <4>4. CASE s = t
        <5> HIDE DEF q
        <5> DEFINE n == Len(q)
                   r == Append(q, input)
        <5>1. n \in Nat /\ DOMAIN q = 1 .. n /\ \A i \in 1 .. n : q[i] \in ToSet(q)
          BY <4>2 DEF ToSet
        <5>2. DOMAIN r = 1 .. n + 1 /\ r[n + 1] = input /\ \A i \in 1 .. n : r[i] = q[i]
          BY <4>2
        <5> HIDE DEF n, r
        <5>3. 1 .. n + 1 = (1 .. n) \cup {n + 1} /\ n + 1 \notin 1 .. n
          BY <5>1
        <5>4. ToSet(r) = ToSet(q) \cup {input}
          BY <5>1, <5>2, <5>3 DEF ToSet
        <5>5. input \notin ToSet(q)
          BY <2>6, <4>1
        <5>6. IsInjective(r)
          BY <4>1, <5>1, <5>2, <5>3, <5>5 DEF IsInjective
        <5>7. buffers[s] = r
          BY <2>12, <4>4 DEF q, r
        <5>8. ToSet(r) = {i \in accepted' : i.target_tick = s /\ s > sim.current_tick}
          BY <2>5, <2>7, <4>1, <4>4, <5>4
        <5>9. QED BY <5>6, <5>7, <5>8
      <4>5. QED BY <4>3, <4>4
    <3>2. QED BY <2>9, <3>1 DEF BufferIsTheFuture
  <2>19. DeterministicReplay'
    <3>1. \A v : Due(v)' = Due(v)
      BY <2>4, <2>7, <2>9 DEF Due
    <3>2. QED BY <1>1, <2>9, <3>1, ReplayIs, ReplayIsPrimed DEF DeterministicReplay
  <2>20. QED BY <2>13, <2>14, <2>15, <2>16, <2>17, <2>18, <2>19 DEF LoopInv
<1>4. QED BY <1>2, <1>3

---------------------------------------------------------------------------
LEMMA TimesMonotone == \A a, b, c \in Nat : b <= c => a * b <= a * c /\ a * b \in Nat
<1> SUFFICES ASSUME NEW a \in Nat, NEW b \in Nat, NEW c \in Nat, b <= c
             PROVE  a * b <= a * c /\ a * b \in Nat
  OBVIOUS
<1>1. PICK d \in Nat : c = b + d
  <2>1. c - b \in Nat /\ c = b + (c - b)
    OBVIOUS
  <2>2. QED BY <2>1
<1>2. a * c = a * b + a * d /\ a * d \in Nat /\ a * b \in Nat
  BY <1>1
<1>3. QED BY <1>2

Within(d, k) == d \in -(MaxDelta * k) .. MaxDelta * k

LEMMA WithinGrows ==
    ASSUME NEW d \in Int, NEW k \in Nat, Within(d, k), NEW e \in -MaxDelta .. MaxDelta
    PROVE  Within(d + e, k + 1)
<1>1. MaxDelta \in Nat /\ MaxDelta * (k + 1) = MaxDelta * k + MaxDelta /\ MaxDelta * k \in Nat
  BY SimulationConstants
<1> DEFINE m == MaxDelta * k
           m1 == MaxDelta * (k + 1)
<1>2. m \in Nat /\ m1 = m + MaxDelta /\ d \in -m .. m /\ MaxDelta \in Nat
  BY <1>1 DEF Within
<1> HIDE DEF m, m1
<1>3. d + e \in -m1 .. m1
  BY <1>2
<1>4. QED BY <1>3 DEF Within, m1

(* What has become of u once the first i inputs of the tick are applied:   *)
(* p is u's state then, q the one before the tick, N the inputs of u among *)
(* these i, and D those that were due before.                              *)
Applied(p, q, N, D) ==
    /\ p.position = Moved(D \cup N)
    /\ Within(p.position - q.position, Cardinality(N))
    /\ N = {} => p.last_sequence = q.last_sequence
    /\ N # {} => /\ \E x \in N : x.sequence = p.last_sequence
                 /\ \A x \in N : x.sequence <= p.last_sequence

(* TickOnce applies the accepted inputs of the tick, and no other, once.   *)
LEMMA TickApplies ==
    ASSUME LoopInv, NEW t \in TargetTicks, t = sim.current_tick + 1, NEW u \in Users,
           NEW after, after = FoldLeft(ApplyEvent, sim.players, StableSort(sim.inputs_by_tick[t]))
    PROVE  /\ after \in PlayersOf(Users)
           /\ DOMAIN sim.players \subseteq DOMAIN after
           /\ Applied(PlayerOf(after, u), PlayerOf(sim.players, u), AcceptedFor(u, t), Due(u))
<1> DEFINE buffer == sim.inputs_by_tick[t]
           sorted == StableSort(buffer)
           n == Len(buffer)
           D == Due(u)
           q == PlayerOf(sim.players, u)
<1>1. /\ sim \in SimType /\ accepted \subseteq Inputs /\ IsFiniteSet(accepted) /\ InRange
      /\ sim.current_tick \in Nat /\ t \in Int /\ t > sim.current_tick
      /\ sim.players \in PlayersOf(Users)
      /\ \A v \in Users : v \in Int
  <2>1. sim \in SimType /\ accepted \subseteq Inputs /\ IsFiniteSet(accepted) /\ InRange
    BY DEF LoopInv
  <2>2. sim.current_tick \in Nat /\ sim.players \in PlayersOf(Users)
    BY <2>1, SimFields, LoopConstants
  <2>3. QED BY <2>1, <2>2, InputTypes
<1>2. Listed(buffer, Users)
  BY <1>1, BufferIsListed
<1>3. /\ ToSet(buffer) = {i \in accepted : i.target_tick = t}
      /\ IsInjective(buffer)
  BY <1>1 DEF LoopInv, BufferIsTheFuture
<1> HIDE DEF buffer
<1>4. Listed(sorted, Users) /\ \E order : Sorts(order, sorted, buffer)
  BY <1>1, <1>2, StableSortSorts
<1>5. PICK order : Sorts(order, sorted, buffer)
  BY <1>4
<1>6. n \in Nat /\ DOMAIN buffer = 1 .. n
  BY <1>2 DEF Listed
<1>7. Len(sorted) = n
  BY <1>5 DEF Sorts
<1> HIDE DEF sorted
<1>8. Distinct(sorted)
  <2> SUFFICES ASSUME NEW i \in 1 .. n, NEW j \in 1 .. n, sorted[i] = sorted[j] PROVE i = j
    BY <1>7 DEF Distinct
  <2>1. /\ order[i] \in 1 .. n /\ order[j] \in 1 .. n
        /\ buffer[order[i]] = buffer[order[j]]
    BY <1>5 DEF Sorts
  <2>2. order[i] = order[j]
    BY <1>3, <1>6, <2>1 DEF IsInjective
  <2>3. QED BY <1>5, <2>2 DEF Sorts
<1>9. Ascending(sorted)
  BY <1>5, <1>7 DEF Sorts, Ascending
<1>10. PICK h : Applies(h, sim.players, sorted, Users)
  BY <1>1, <1>4, FoldApplies
<1>11. /\ h[0] = sim.players /\ h[n] = after
       /\ \A i \in 0 .. n : h[i] \in PlayersOf(Users)
  BY <1>7, <1>10 DEF Applies, sorted, buffer
<1>12. \A i \in 1 .. n : sorted[i] \in InputsOf(Users) /\ sorted[i] \in accepted /\ sorted[i].target_tick = t
  <2> SUFFICES ASSUME NEW i \in 1 .. n
               PROVE  sorted[i] \in accepted /\ sorted[i].target_tick = t
    BY <1>4, <1>7 DEF Listed
  <2>1. sorted[i] = buffer[order[i]] /\ order[i] \in 1 .. n
    BY <1>5 DEF Sorts
  <2>2. sorted[i] \in ToSet(buffer)
    BY <1>6, <2>1 DEF ToSet
  <2>3. QED BY <1>3, <2>2
<1>13. \A i \in accepted : i.target_tick = t => \E j \in 1 .. n : sorted[j] = i
  <2> SUFFICES ASSUME NEW i \in accepted, i.target_tick = t PROVE \E j \in 1 .. n : sorted[j] = i
    OBVIOUS
  <2>1. i \in ToSet(buffer)
    BY <1>3
  <2>2. PICK k \in 1 .. n : buffer[k] = i
    BY <1>6, <2>1 DEF ToSet
  <2>3. PICK j \in 1 .. n : order[j] = k
    BY <1>5 DEF Sorts
  <2>4. QED BY <1>5, <2>2, <2>3 DEF Sorts
<1> HIDE DEF n
<1>14. From(sorted, u, n) = AcceptedFor(u, t)
  BY <1>12, <1>13 DEF From, AcceptedFor
<1>15. \A i \in 0 .. n : From(sorted, u, i) \subseteq AcceptedFor(u, t)
  BY <1>6, <1>12 DEF From, AcceptedFor
<1>16. /\ D \subseteq accepted /\ \A i \in D : ~(i.target_tick = t)
  BY <1>1 DEF Due
<1>17. \A i \in accepted : i.delta \in Int /\ i.delta \in -MaxDelta .. MaxDelta
  BY <1>1, InputTypes DEF InputsOf, InRange
<1> DEFINE N(i) == From(sorted, u, i)
           p(i) == PlayerOf(h[i], u)
           Upto(i) == Applied(p(i), q, N(i), D) /\ DOMAIN sim.players \subseteq DOMAIN h[i]
           U == {i \in Nat : i <= n => Upto(i)}
<1>18. \A i \in 0 .. n : /\ N(i) \subseteq accepted /\ IsFiniteSet(N(i)) /\ Cardinality(N(i)) \in Nat
                         /\ D \cup N(i) \subseteq accepted /\ IsFiniteSet(D \cup N(i))
  <2>1. \A i \in 0 .. n : N(i) \subseteq accepted
    BY <1>15 DEF AcceptedFor
  <2>2. QED BY <1>1, <1>16, <2>1, FS_Subset, FS_CardinalityType
<1>19. \A i \in 0 .. n : p(i).position \in Int /\ p(i).last_sequence \in Nat
  BY <1>11, PlayerOfType
<1>20. 0 \in U
  <2>1. N(0) = {}
    BY DEF From
  <2>2. p(0) = q
    BY <1>11
  <2>3. q.position = Moved(D \cup {})
    <3>1. q = ReplayOf(D)
      BY ReplayIs DEF LoopInv, DeterministicReplay, PlayerOf
    <3>2. CASE D = {}
      <4>1. q.position = 0
        BY <3>1, <3>2 DEF ReplayOf, NewPlayer
      <4>2. QED BY <3>2, <4>1, MovedEmpty
    <3>3. CASE D # {}
      <4>1. q.position = Moved(D)
        BY <3>1, <3>3 DEF ReplayOf, Moved
      <4>2. D \cup {} = D
        OBVIOUS
      <4>3. QED BY <4>1, <4>2
    <3>4. QED BY <3>2, <3>3
  <2>4. Within(q.position - q.position, Cardinality({}))
    <3>1. q.position \in Int
      BY <1>1, PlayerOfType
    <3>2. q.position - q.position = 0 /\ Cardinality({}) = 0
      BY <3>1, FS_EmptySet
    <3>3. Within(0, 0)
      <4>1. MaxDelta * 0 = 0
        BY SimulationConstants
      <4>2. QED BY <4>1 DEF Within
    <3>4. QED BY <3>2, <3>3
  <2> HIDE DEF N, p, q, D
  <2>5. Applied(p(0), q, N(0), D)
    BY <2>1, <2>2, <2>3, <2>4 DEF Applied
  <2>6. QED BY <1>11, <2>5
<1>21. ASSUME NEW k \in U PROVE k + 1 \in U
  <2> DEFINE i == k + 1
  <2>1. i \in Nat /\ k \in Nat
    OBVIOUS
  <2>2. SUFFICES ASSUME i <= n PROVE Upto(i)
    BY <2>1
  <2>3. i \in 1 .. n /\ i \in 0 .. n /\ k \in 0 .. n /\ i - 1 = k /\ k <= n
    BY <1>6, <2>1, <2>2
  <2>4. Upto(k)
    BY <1>21, <2>3
  <2> HIDE DEF i
  <2> DEFINE x == sorted[i]
  <2>5. /\ x.user_id = u =>
             /\ N(i) = N(k) \cup {x}
             /\ x \notin N(k)
             /\ p(i).position = p(k).position + x.delta
             /\ p(i).last_sequence = x.sequence
             /\ \A y \in N(k) : y.sequence <= x.sequence
        /\ x.user_id # u => N(i) = N(k) /\ p(i) = p(k)
        /\ DOMAIN h[k] \subseteq DOMAIN h[i]
    <3>1. i \in 1 .. Len(sorted)
      BY <1>7, <2>3
    <3>2. Stepped(h, sorted, u, i)
      BY <1>1, <1>4, <1>8, <1>9, <1>10, <3>1, StepAt
    <3>3. QED BY <2>3, <3>2 DEF Stepped
  <2>6. x \in accepted /\ x.target_tick = t /\ x \notin D /\ x.delta \in Int /\ x.delta \in -MaxDelta .. MaxDelta
        /\ x.sequence \in Nat
    <3>1. x \in accepted /\ x.target_tick = t /\ x \in InputsOf(Users)
      BY <1>12, <2>3
    <3>2. x.sequence \in Nat
      BY <3>1 DEF InputsOf
    <3>3. QED BY <1>16, <1>17, <3>1, <3>2
  <2>7. /\ IsFiniteSet(N(k)) /\ Cardinality(N(k)) \in Nat
        /\ IsFiniteSet(D \cup N(k)) /\ D \cup N(k) \subseteq accepted
        /\ p(k).position \in Int /\ p(i).position \in Int /\ q.position \in Int
    BY <1>1, <1>18, <1>19, <2>3, PlayerOfType
  <2> HIDE DEF N, p, q, D, x
  <2>8. Applied(p(k), q, N(k), D) /\ DOMAIN sim.players \subseteq DOMAIN h[k]
    BY <2>4
  <2>9. CASE x.user_id = u
    <3>1. p(i).position = Moved(D \cup N(i))
      <4>1. x \notin D \cup N(k)
        BY <2>5, <2>6, <2>9
      <4>2. \A y \in D \cup N(k) : y.delta \in Int
        BY <1>17, <2>7
      <4>3. Moved((D \cup N(k)) \cup {x}) = Moved(D \cup N(k)) + x.delta
        BY <2>6, <2>7, <4>1, <4>2, MovedAdd
      <4>4. (D \cup N(k)) \cup {x} = D \cup N(i)
        BY <2>5, <2>9
      <4>5. p(k).position = Moved(D \cup N(k))
        BY <2>8 DEF Applied
      <4>6. QED BY <2>5, <2>9, <4>3, <4>4, <4>5
    <3>2. Within(p(i).position - q.position, Cardinality(N(i)))
      <4>1. Cardinality(N(i)) = Cardinality(N(k)) + 1
        BY <2>5, <2>7, <2>9, FS_AddElement
      <4> DEFINE d == p(k).position - q.position
                 c == Cardinality(N(k))
      <4>2. d \in Int /\ c \in Nat /\ Within(d, c)
        BY <2>7, <2>8 DEF Applied
      <4>3. p(i).position - q.position = d + x.delta
        BY <2>5, <2>6, <2>7, <2>9
      <4> HIDE DEF d, c
      <4>4. Within(d + x.delta, c + 1)
        BY <2>6, <4>2, WithinGrows
      <4>5. QED BY <4>1, <4>3, <4>4 DEF c
    <3>3. x \in N(i) /\ x.sequence = p(i).last_sequence /\ \A y \in N(i) : y.sequence <= p(i).last_sequence
      BY <2>5, <2>6, <2>9
    <3>4. Applied(p(i), q, N(i), D)
      BY <3>1, <3>2, <3>3 DEF Applied
    <3>5. QED BY <2>5, <2>8, <3>4
  <2>10. CASE x.user_id # u
    BY <2>5, <2>8, <2>10
  <2>11. QED BY <2>9, <2>10
<1>22. U \in SUBSET Nat
  OBVIOUS
<1> HIDE DEF U
<1>23. U = Nat
  BY <1>20, <1>21, <1>22, NatSetInduction
<1>24. Upto(n)
  <2>1. n \in U
    BY <1>6, <1>23
  <2> HIDE DEF Upto
  <2>2. QED BY <1>6, <2>1 DEF U
<1>25. QED BY <1>6, <1>11, <1>14, <1>24

(* What the inputs of the tick have made of u is what the replay of all    *)
(* the inputs that are due by now makes of u.                              *)
LEMMA AppliedIsReplay ==
    ASSUME NEW t \in Int, NEW D, NEW N, NEW p \in Player, NEW q \in Player,
           \A i \in D : i.target_tick \in Int /\ i.target_tick < t,
           \A i \in N : i.target_tick = t /\ i.sequence \in Int,
           q = ReplayOf(D), Applied(p, q, N, D)
    PROVE  p = ReplayOf(D \cup N)
<1>1. /\ p = [position |-> p.position, last_sequence |-> p.last_sequence]
      /\ q = [position |-> q.position, last_sequence |-> q.last_sequence]
      /\ p.last_sequence \in Int
  BY DEF Player
<1>2. CASE N = {}
  <2>1. D \cup N = D /\ p.position = Moved(D) /\ p.last_sequence = q.last_sequence
    BY <1>2 DEF Applied
  <2>2. q.position = Moved(D)
    <3>1. CASE D = {}
      <4>1. q.position = 0
        BY <3>1 DEF ReplayOf, NewPlayer
      <4>2. QED BY <3>1, <4>1, MovedEmpty
    <3>2. CASE D # {}
      BY <3>2 DEF ReplayOf, Moved
    <3>3. QED BY <3>1, <3>2
  <2>3. p = q
    BY <1>1, <2>1, <2>2
  <2>4. QED BY <2>1, <2>3
<1>3. CASE N # {}
  <2> DEFINE S == D \cup N
             ticks == {i.target_tick : i \in S}
             last == {i.sequence : i \in {j \in S : j.target_tick = Max(ticks)}}
  <2>1. Max(ticks) = t
    <3>1. ticks \subseteq Int /\ t \in ticks /\ \A y \in ticks : t >= y
      BY <1>3
    <3> HIDE DEF ticks
    <3>2. QED BY <3>1, MaxIs
  <2> HIDE DEF ticks
  <2>2. {j \in S : j.target_tick = Max(ticks)} = N
    BY <2>1
  <2>3. last = {i.sequence : i \in N}
    BY <2>2
  <2>4. Max(last) = p.last_sequence
    <3>1. last \subseteq Int /\ p.last_sequence \in last /\ \A y \in last : p.last_sequence >= y
      BY <1>1, <1>3, <2>3 DEF Applied
    <3> HIDE DEF last
    <3>2. QED BY <3>1, MaxIs
  <2>5. S # {} /\ p.position = Moved(S)
    BY <1>3 DEF Applied
  <2>6. ReplayOf(S) = [position |-> Moved(S), last_sequence |-> Max(last)]
    BY <2>5 DEF ReplayOf, Moved, ticks
  <2> HIDE DEF S, last
  <2>7. p = ReplayOf(S)
    BY <1>1, <2>4, <2>5, <2>6
  <2>8. QED BY <2>7 DEF S
<1>4. QED BY <1>2, <1>3

After == FoldLeft(ApplyEvent, sim.players, StableSort(sim.inputs_by_tick[sim.current_tick + 1]))

(* Where TickOnce leads. *)
LEMMA TickFields ==
    ASSUME sim \in SimType, Tick
    PROVE  LET t == sim.current_tick + 1 IN
           /\ t \in Int /\ t \in 0 .. MaxTicks /\ accepted' = accepted
           /\ sim'.current_tick = t /\ sim'.trackers = sim.trackers
           /\ t \notin TargetTicks => /\ sim'.players = sim.players
                                      /\ sim'.inputs_by_tick = sim.inputs_by_tick
           /\ t \in TargetTicks => /\ sim'.players = After
                                   /\ sim'.inputs_by_tick = [sim.inputs_by_tick EXCEPT ![t] = <<>>]
           /\ sim' = [current_tick |-> t, inputs_by_tick |-> sim'.inputs_by_tick,
                      trackers |-> sim.trackers, players |-> sim'.players]
<1> DEFINE t == sim.current_tick + 1
           after == FoldLeft(ApplyEvent, sim.players, StableSort(sim.inputs_by_tick[t]))
           empty == [sim.inputs_by_tick EXCEPT ![t] = <<>>]
<1>1. sim.current_tick \in 0 .. MaxTicks /\ sim.current_tick < MaxTicks /\ accepted' = accepted
  BY SimFields DEF Tick
<1>2. t \in Int /\ t \in 0 .. MaxTicks
  BY <1>1, LoopConstants
<1>3. sim = [current_tick |-> sim.current_tick, inputs_by_tick |-> sim.inputs_by_tick,
             trackers |-> sim.trackers, players |-> sim.players]
  BY DEF SimType
<1>4. sim' = IF t \in TargetTicks
             THEN [sim EXCEPT !.current_tick = t, !.players = after, !.inputs_by_tick[t] = <<>>]
             ELSE [sim EXCEPT !.current_tick = t]
  BY DEF Tick, TickOnce
<1>5. After = after
  BY DEF After
<1> HIDE DEF t, after
<1>6. CASE t \in TargetTicks
  <2>1. sim' = [current_tick |-> t, inputs_by_tick |-> empty,
                trackers |-> sim.trackers, players |-> after]
    BY <1>3, <1>4, <1>6
  <2> HIDE DEF empty
  <2>2. QED BY <1>1, <1>2, <1>5, <1>6, <2>1 DEF t, empty
<1>7. CASE t \notin TargetTicks
  <2>1. sim' = [current_tick |-> t, inputs_by_tick |-> sim.inputs_by_tick,
                trackers |-> sim.trackers, players |-> sim.players]
    BY <1>3, <1>4, <1>7
  <2>2. QED BY <1>1, <1>2, <1>7, <2>1 DEF t
<1>8. QED BY <1>6, <1>7

LEMMA TickInv ==
    ASSUME LoopInv, Tick
    PROVE  LoopInv'
<1> DEFINE t == sim.current_tick + 1
<1>1. /\ sim \in SimType /\ accepted \subseteq Inputs /\ IsFiniteSet(accepted)
      /\ InRange /\ Tracked /\ Counted /\ BufferIsTheFuture
      /\ \A u \in Users : PlayerOf(sim.players, u) = ReplayOf(Due(u))
  BY ReplayIs DEF LoopInv, DeterministicReplay, PlayerOf
<1>2. /\ t \in Int /\ t \in 0 .. MaxTicks /\ accepted' = accepted
      /\ sim'.current_tick = t /\ sim'.trackers = sim.trackers
      /\ t \notin TargetTicks => sim'.players = sim.players /\ sim'.inputs_by_tick = sim.inputs_by_tick
      /\ t \in TargetTicks => /\ sim'.players = After
                              /\ sim'.inputs_by_tick = [sim.inputs_by_tick EXCEPT ![t] = <<>>]
      /\ sim' = [current_tick |-> t, inputs_by_tick |-> sim'.inputs_by_tick,
                 trackers |-> sim.trackers, players |-> sim'.players]
  BY <1>1, TickFields
<1>3. /\ sim.current_tick \in Int /\ sim.inputs_by_tick \in [TargetTicks -> Seq(Inputs)]
      /\ sim.trackers \in [Users -> Tracker] /\ sim.players \in PlayersOf(Users)
  BY <1>1, SimFields, LoopConstants
<1>4. \A i \in accepted : i.target_tick \in Int /\ i.target_tick \in TargetTicks /\ i.sequence \in Int
  BY <1>1, InputTypes DEF InputsOf
<1>5. \A u : Due(u)' = Due(u) \cup AcceptedFor(u, t)
  <2>1. \A i \in accepted : i.target_tick <= t <=> i.target_tick <= sim.current_tick \/ i.target_tick = t
    BY <1>3, <1>4
  <2>2. QED BY <1>2, <2>1 DEF Due, AcceptedFor
<1>6. After = FoldLeft(ApplyEvent, sim.players, StableSort(sim.inputs_by_tick[t]))
  BY DEF After
<1>7. ASSUME t \in TargetTicks, NEW u \in Users
      PROVE  After \in PlayersOf(Users) /\ PlayerOf(After, u) = ReplayOf(Due(u)')
  <2>1. /\ After \in PlayersOf(Users)
        /\ Applied(PlayerOf(After, u), PlayerOf(sim.players, u), AcceptedFor(u, t), Due(u))
    BY <1>2, <1>6, <1>7, TickApplies
  <2>2. /\ PlayerOf(After, u) \in Player /\ PlayerOf(sim.players, u) \in Player
    BY <1>3, <2>1, PlayerOfType
  <2>3. /\ \A i \in Due(u) : i.target_tick \in Int /\ i.target_tick < t
        /\ \A i \in AcceptedFor(u, t) : i.target_tick = t /\ i.sequence \in Int
    BY <1>3, <1>4 DEF Due, AcceptedFor
  <2> HIDE DEF t
  <2>4. PlayerOf(After, u) = ReplayOf(Due(u) \cup AcceptedFor(u, t))
    BY <1>1, <1>2, <2>1, <2>2, <2>3, AppliedIsReplay
  <2>5. QED BY <1>5, <2>1, <2>4
<1> HIDE DEF t
<1>8. sim' \in SimType
  <2>1. sim'.inputs_by_tick \in [TargetTicks -> Seq(Inputs)]
    <3> DEFINE b == sim.inputs_by_tick
    <3>1. b \in [TargetTicks -> Seq(Inputs)]
      BY <1>3
    <3>2. \/ sim'.inputs_by_tick = b
          \/ t \in TargetTicks /\ sim'.inputs_by_tick = [b EXCEPT ![t] = <<>>]
      BY <1>2
    <3>3. <<>> \in Seq(Inputs)
      OBVIOUS
    <3> HIDE DEF b
    <3>4. QED BY <3>1, <3>2, <3>3
  <2>2. sim'.players \in PlayersOf(Users)
    <3>1. CASE t \notin TargetTicks
      BY <1>2, <1>3, <3>1
    <3>2. CASE t \in TargetTicks /\ Users # {}
      BY <1>2, <1>7, <3>2
    <3>3. CASE t \in TargetTicks /\ Users = {}
      <4>1. sim.inputs_by_tick[t] \in Seq(Inputs) /\ Inputs = {}
        BY <1>3, <3>3 DEF Inputs
      <4>2. Listed(sim.inputs_by_tick[t], Users)
        BY <1>1, <3>3, BufferIsListed
      <4>3. QED BY <1>2, <1>3, <1>6, <3>3, <4>2, InputTypes, StableSortSorts, FoldType
    <3>4. QED BY <3>1, <3>2, <3>3
  <2>3. QED BY <1>2, <1>3, <2>1, <2>2 DEF SimType
<1>9. InRange' /\ Tracked' /\ Counted'
  BY <1>1, <1>2 DEF InRange, Tracked, Counted, AcceptedFor
<1>10. BufferIsTheFuture'
  <2>1. ASSUME NEW s \in TargetTicks
        PROVE  /\ ToSet(sim'.inputs_by_tick[s]) = {i \in accepted : i.target_tick = s /\ s > t}
               /\ IsInjective(sim'.inputs_by_tick[s])
    <3>1. s \in Int /\ (s > t <=> s > sim.current_tick /\ s # t)
      BY <1>3, InputTypes DEF t
    <3>2. /\ ToSet(sim.inputs_by_tick[s]) = {i \in accepted : i.target_tick = s /\ s > sim.current_tick}
          /\ IsInjective(sim.inputs_by_tick[s])
      BY <1>1 DEF BufferIsTheFuture
    <3>3. CASE s = t
      <4>1. sim'.inputs_by_tick[s] = <<>>
        BY <1>2, <1>3, <3>3
      <4>2. ToSet(<<>>) = {} /\ IsInjective(<<>>)
        BY DEF ToSet, IsInjective
      <4>3. QED BY <3>1, <3>3, <4>1, <4>2
    <3>4. CASE s # t
      <4>1. sim'.inputs_by_tick[s] = sim.inputs_by_tick[s]
        BY <1>2, <1>3, <3>4
      <4>2. QED BY <3>1, <3>2, <3>4, <4>1
    <3>5. QED BY <3>3, <3>4
  <2>2. QED BY <1>2, <2>1 DEF BufferIsTheFuture
<1>11. DeterministicReplay'
  <2>1. ASSUME NEW u \in Users PROVE PlayerOf(sim'.players, u) = ReplayOf(Due(u)')
    <3>1. CASE t \in TargetTicks
      BY <1>2, <1>7, <3>1
    <3>2. CASE t \notin TargetTicks
      <4>1. AcceptedFor(u, t) = {}
        BY <1>4, <3>2 DEF AcceptedFor
      <4>2. Due(u)' = Due(u)
        BY <1>5, <4>1
      <4>3. QED BY <1>1, <1>2, <3>2, <4>2
    <3>3. QED BY <3>1, <3>2
  <2>2. QED BY <2>1, ReplayIsPrimed DEF DeterministicReplay, PlayerOf
<1>12. QED BY <1>1, <1>2, <1>8, <1>9, <1>10, <1>11 DEF LoopInv

LEMMA NextInv == LoopInv /\ [LoopNext]_loopVars => LoopInv'
<1> SUFFICES ASSUME LoopInv, [LoopNext]_loopVars PROVE LoopInv'
  OBVIOUS
<1>1. ASSUME NEW input \in Inputs, Enqueue(input) PROVE LoopInv'
  BY <1>1, EnqueueInv
<1>2. CASE Tick
  BY <1>2, TickInv
<1>3. ASSUME NEW u \in Users, Add(u) PROVE LoopInv'
  BY <1>3, AddInv
<1>4. CASE UNCHANGED loopVars
  <2>1. sim' = sim /\ accepted' = accepted
    BY <1>4 DEF loopVars
  <2>2. DeterministicReplay'
    <3>1. ASSUME NEW u \in Users PROVE Due(u)' = Due(u)
      BY <2>1 DEF Due
    <3>2. \A u \in Users : PlayerOf(sim.players, u) = ReplayOf(Due(u))
      BY ReplayIs DEF LoopInv, DeterministicReplay, PlayerOf
    <3>3. \A u \in Users : PlayerOf(sim'.players, u) = ReplayOf(Due(u)')
      BY <2>1, <3>1, <3>2
    <3>4. QED BY <3>3, ReplayIsPrimed DEF DeterministicReplay, PlayerOf
  <2>3. QED BY <2>1, <2>2 DEF LoopInv, InRange, Tracked, Counted, BufferIsTheFuture, AcceptedFor
<1>5. QED BY <1>1, <1>2, <1>3, <1>4 DEF LoopNext

(* The inductive invariant, for any interleaving of EnqueueInput, TickOnce *)
(* and AddPlayer.                                                          *)
THEOREM LoopInvariant == LoopSpec => []LoopInv
<1>1. LoopInit => LoopInv
  BY LoopInitInv
<1>2. LoopInv /\ [LoopNext]_loopVars => LoopInv'
  BY NextInv
<1>3. QED BY <1>1, <1>2, PTL DEF LoopSpec

(* The members of Simulation keep their types, and ValidateInput's limit   *)
(* bounds what a tracker counts.                                           *)
THEOREM TypeCorrect == LoopSpec => []LoopTypeOK
<1>1. LoopInv => LoopTypeOK
  <2> SUFFICES ASSUME LoopInv PROVE LoopTypeOK
    OBVIOUS
  <2>1. sim \in SimType /\ accepted \subseteq Inputs
    BY DEF LoopInv
  <2>2. QED BY <2>1, SimFields DEF LoopTypeOK, Tracker, PlayersOf, Player
<1>2. QED BY <1>1, LoopInvariant, PTL

(* EnqueueInput and TickOnce neither lose, duplicate nor leave behind an   *)
(* accepted input, whatever the arrival order and the target ticks.        *)
THEOREM BufferCorrect == LoopSpec => []BufferIsTheFuture
<1>1. LoopInv => BufferIsTheFuture
  BY DEF LoopInv
<1>2. QED BY <1>1, LoopInvariant, PTL

(* The determinism of the tick loop: the players TickOnce has made are the *)
(* replay of the accepted inputs, for any number of users and commands.    *)
THEOREM ReplayIsDeterministic == LoopSpec => []DeterministicReplay
<1>1. LoopInv => DeterministicReplay
  BY DEF LoopInv
<1>2. QED BY <1>1, LoopInvariant, PTL

---------------------------------------------------------------------------
LittleMove ==
    \A u \in DOMAIN sim.players :
        LET d == sim'.players[u].position - sim.players[u].position
        IN  d \in -(MaxDelta * MaxInputsPerTickPerUser) .. MaxDelta * MaxInputsPerTickPerUser

LEMMA KeptMoveIsLittle ==
    ASSUME sim \in SimType, \A u \in DOMAIN sim.players : sim'.players[u] = sim.players[u]
    PROVE  LittleMove
<1> DEFINE m == MaxDelta * MaxInputsPerTickPerUser
<1>1. m \in Nat
  BY SimulationConstants, TimesMonotone
<1>2. ASSUME NEW u \in DOMAIN sim.players
      PROVE  sim'.players[u].position - sim.players[u].position = 0
  <2>1. sim.players[u] \in Player
    BY SimFields DEF PlayersOf
  <2>2. sim.players[u].position \in Int
    BY <2>1 DEF Player
  <2>3. QED BY <2>2
<1> HIDE DEF m
<1>3. 0 \in -m .. m
  BY <1>1
<1>4. QED BY <1>2, <1>3 DEF LittleMove, m

(* The tick applies at most as many inputs of u as u's tracker has counted *)
(* for it.                                                                 *)
LEMMA TickMovesLittle ==
    ASSUME LoopInv, Tick
    PROVE  LittleMove
<1> DEFINE t == sim.current_tick + 1
<1>1. sim \in SimType /\ accepted \subseteq Inputs /\ IsFiniteSet(accepted) /\ Counted
  BY DEF LoopInv
<1>2. /\ t \notin TargetTicks => sim'.players = sim.players
      /\ t \in TargetTicks => sim'.players = After
  BY <1>1, TickFields
<1>3. CASE t \notin TargetTicks
  BY <1>1, <1>2, <1>3, KeptMoveIsLittle
<1>4. CASE t \in TargetTicks
  <2> DEFINE m == MaxDelta * MaxInputsPerTickPerUser
  <2>1. After = FoldLeft(ApplyEvent, sim.players, StableSort(sim.inputs_by_tick[t]))
    BY DEF After
  <2>2. ASSUME NEW u \in DOMAIN sim.players
        PROVE  After[u].position - sim.players[u].position \in -m .. m
    <3> DEFINE p == PlayerOf(After, u)
               q == PlayerOf(sim.players, u)
               k == Cardinality(AcceptedFor(u, t))
    <3>1. sim.players \in PlayersOf(Users) /\ u \in Users
      BY <1>1, SimFields DEF PlayersOf
    <3>2. /\ After \in PlayersOf(Users) /\ DOMAIN sim.players \subseteq DOMAIN After
          /\ Applied(p, q, AcceptedFor(u, t), Due(u))
      BY <1>4, <2>1, <3>1, TickApplies
    <3>3. p = After[u] /\ q = sim.players[u]
      BY <3>2 DEF PlayerOf
    <3>4. p.position \in Int /\ q.position \in Int
      <4>1. p \in Player /\ q \in Player
        BY <3>1, <3>2, PlayerOfType
      <4>2. QED BY <4>1 DEF Player
    <3>5. k \in Nat /\ k <= MaxInputsPerTickPerUser
      <4>1. AcceptedFor(u, t) \subseteq accepted
        BY DEF AcceptedFor
      <4>2. k \in Nat
        BY <1>1, <4>1, FS_Subset, FS_CardinalityType
      <4>3. k <= sim.trackers[u].per_tick_count[t]
        BY <1>4, <3>1, <1>1 DEF Counted
      <4>4. sim.trackers[u].per_tick_count[t] \in 0 .. MaxInputsPerTickPerUser
        BY <1>1, <1>4, <3>1, SimFields DEF Tracker
      <4>5. QED BY <4>2, <4>3, <4>4, SimulationConstants
    <3>6. Within(p.position - q.position, k)
      BY <3>2 DEF Applied
    <3> HIDE DEF p, q, k
    <3>7. MaxDelta * k \in Nat /\ MaxDelta * k <= m /\ m \in Nat
      BY <3>5, SimulationConstants, TimesMonotone
    <3> DEFINE d == p.position - q.position
               w == MaxDelta * k
    <3>8. d \in Int /\ d \in -w .. w /\ w \in Nat /\ w <= m /\ m \in Nat
      BY <3>4, <3>6, <3>7 DEF Within
    <3> HIDE DEF d, w, m
    <3>9. d \in -m .. m
      BY <3>8
    <3>10. QED BY <3>3, <3>9 DEF d
  <2>3. QED BY <1>2, <1>4, <2>2 DEF LittleMove
<1>5. QED BY <1>3, <1>4

LEMMA StepMovesLittle == LoopInv /\ [LoopNext]_loopVars => [LittleMove]_sim
<1> SUFFICES ASSUME LoopInv, [LoopNext]_loopVars, sim' # sim PROVE LittleMove
  OBVIOUS
<1>1. sim \in SimType
  BY DEF LoopInv
<1>2. sim = [current_tick |-> sim.current_tick, inputs_by_tick |-> sim.inputs_by_tick,
             trackers |-> sim.trackers, players |-> sim.players]
  BY <1>1 DEF SimType
<1>3. ASSUME NEW input \in Inputs, Enqueue(input) PROVE LittleMove
  <2>1. sim' = EnqueueInput(sim, input)
    BY <1>3 DEF Enqueue
  <2>2. EnqueueInput(sim, input).players = sim.players
    BY <1>2 DEF EnqueueInput
  <2>3. QED BY <1>1, <2>1, <2>2, KeptMoveIsLittle
<1>4. CASE Tick
  BY <1>4, TickMovesLittle
<1>5. ASSUME NEW u \in Users, Add(u) PROVE LittleMove
  <2> DEFINE known == [v \in DOMAIN sim.players \cup {u} |->
                          IF v \in DOMAIN sim.players THEN sim.players[v] ELSE NewPlayer]
  <2>1. sim' = [sim EXCEPT !.players = known]
    BY <1>5 DEF Add, AddPlayer
  <2>2. \A v \in DOMAIN sim.players : known[v] = sim.players[v]
    OBVIOUS
  <2> HIDE DEF known
  <2>3. sim'.players = known
    BY <1>2, <2>1
  <2>4. QED BY <1>1, <2>2, <2>3, KeptMoveIsLittle
<1>6. QED BY <1>3, <1>4, <1>5 DEF LoopNext, loopVars

(* The limits of ValidateInput bound what one TickOnce does to a player,   *)
(* whatever MaxDelta, the limit per tick and the inputs queued before.     *)
THEOREM MoveIsBounded == LoopSpec => BoundedMove
<1>1. LoopInv /\ [LoopNext]_loopVars => [LittleMove]_sim
  BY StepMovesLittle
<1>2. QED BY <1>1, LoopInvariant, PTL DEF LoopSpec, BoundedMove, LittleMove
=============================================================================

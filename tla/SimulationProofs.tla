-------------------------- MODULE SimulationProofs --------------------------
(***************************************************************************)
(* Lemmas about the operators of Simulation, for any users, commands and   *)
(* limits: what sorting returns, what the fold over the sorted inputs of a *)
(* tick does to the players, and what EnqueueInput and TickOnce keep.      *)
(***************************************************************************)
EXTENDS Simulation, SetInduction

---------------------------------------------------------------------------
Player == [position : Int, last_sequence : Nat]

(* What players_ may hold when only users of P send inputs.                *)
PlayersOf(P) == UNION {[D -> Player] : D \in SUBSET P}

InputsOf(P) == [user_id : P, sequence : Nat, target_tick : Int, delta : Int]

Listed(seq, P) == /\ DOMAIN seq = 1 .. Len(seq) /\ Len(seq) \in Nat
                  /\ \A i \in 1 .. Len(seq) : seq[i] \in InputsOf(P)

LEMMA ApplyEventType ==
    ASSUME NEW P, NEW players \in PlayersOf(P), NEW input \in InputsOf(P)
    PROVE  ApplyEvent(players, input) \in PlayersOf(P)
<1> DEFINE old == IF input.user_id \in DOMAIN players THEN players[input.user_id] ELSE NewPlayer
           D == DOMAIN players \cup {input.user_id}
<1>1. /\ input.user_id \in P /\ input.delta \in Int /\ input.sequence \in Nat
      /\ DOMAIN players \in SUBSET P /\ \A v \in DOMAIN players : players[v] \in Player
  BY DEF InputsOf, PlayersOf
<1>2. old \in Player
  BY <1>1 DEF NewPlayer, Player
<1>3. D \in SUBSET P
  BY <1>1
<1>4. [position |-> old.position + input.delta, last_sequence |-> input.sequence] \in Player
  BY <1>1, <1>2 DEF Player
<1>5. ApplyEvent(players, input) =
        [v \in D |-> IF v = input.user_id
                     THEN [position |-> old.position + input.delta, last_sequence |-> input.sequence]
                     ELSE players[v]]
  BY DEF ApplyEvent
<1> HIDE DEF old
<1>6. ApplyEvent(players, input) \in [D -> Player]
  BY <1>1, <1>4, <1>5
<1>7. QED BY <1>3, <1>6 DEF PlayersOf

(* h holds the states of the players as the inputs are applied one by one. *)
Applies(h, players, seq, P) ==
    /\ h[0] = players
    /\ \A i \in 0 .. Len(seq) : h[i] \in PlayersOf(P)
    /\ \A i \in 1 .. Len(seq) : h[i] = ApplyEvent(h[i - 1], seq[i])
    /\ h[Len(seq)] = FoldLeft(ApplyEvent, players, seq)

LEMMA FoldApplies ==
    ASSUME NEW P, NEW players \in PlayersOf(P), NEW seq, Listed(seq, P)
    PROVE  \E h : Applies(h, players, seq, P)
<1> DEFINE n == Len(seq)
           S == DOMAIN seq
           X == PlayersOf(P)
           F == [i \in S |-> [y \in X |-> ApplyEvent(y, seq[i])]]
           pick == [s \in SUBSET S |-> Max(s)]
           Folds(g) == g = [s \in SUBSET S |-> IF s = {} THEN players
                                               ELSE ApplyEvent(g[s \ {Max(s)}], seq[Max(s)])]
           f == CHOOSE g : Folds(g)
<1>1. n \in Nat /\ S = 1 .. n /\ \A i \in S : seq[i] \in InputsOf(P)
  BY DEF Listed
<1>2. IsFiniteSet(S)
  <2>1. 1 \in Int /\ n \in Int
    BY <1>1
  <2>2. IsFiniteSet(1 .. n)
    BY <2>1, FS_Interval, Zenon
  <2>3. QED BY <1>1, <2>2
<1>3. \A s \in SUBSET S : s # {} => Max(s) \in s /\ \A y \in s : Max(s) >= y
  <2> SUFFICES ASSUME NEW s \in SUBSET S, s # {}
               PROVE  \E x \in s : \A y \in s : x >= y
    BY DEF Max
  <2> DEFINE G == {T \in SUBSET S : T = {} \/ \E x \in T : \A y \in T : x >= y}
  <2>1. ASSUME NEW T \in SUBSET S, NEW z \in S, T \in G, z \notin T PROVE T \cup {z} \in G
    <3>1. CASE T = {}
      BY <1>1, <3>1
    <3>2. CASE T # {}
      <4>1. PICK x \in T : \A y \in T : x >= y
        BY <2>1, <3>2
      <4>2. x \in Int /\ z \in Int /\ \A y \in T : y \in Int
        BY <1>1
      <4>3. CASE x >= z
        BY <4>1, <4>2, <4>3
      <4>4. CASE z >= x
        BY <4>1, <4>2, <4>4
      <4>5. QED BY <4>2, <4>3, <4>4
    <3>3. QED BY <3>1, <3>2
  <2>2. IsFiniteSet(s)
    BY <1>2, FS_Subset
  <2>3. \A T \in SUBSET s, z \in s : T \in G /\ z \notin T => T \cup {z} \in G
    BY <2>1
  <2>4. {} \in G
    OBVIOUS
  <2> HIDE DEF G
  <2>5. s \in G
    BY <2>2, <2>3, <2>4, FiniteSetInduction
  <2>6. QED BY <2>5 DEF G
<1>4. \A i \in S : \A y \in X : F[i][y] = ApplyEvent(y, seq[i]) /\ F[i][y] \in X
  BY <1>1, ApplyEventType
<1>5. \A s \in SUBSET S : pick[s] = Max(s)
  OBVIOUS
<1> HIDE DEF F, pick, X
<1>6. CanFold(F, players, pick, S, X)
  BY <1>2, <1>3, <1>4, <1>5 DEF CanFold, X
<1>7. PICK g : IsFold(g, F, players, pick, S, X)
  BY <1>6, FoldExists
<1>8. /\ \A s \in SUBSET S : g[s] \in X
      /\ \A s \in SUBSET S : g[s] = FoldStep(g, F, players, pick, s)
      /\ g \in [SUBSET S -> X]
  BY <1>7 DEF IsFold
<1> HIDE DEF S
<1>9. \A s \in SUBSET S : g[s] = IF s = {} THEN players ELSE ApplyEvent(g[s \ {Max(s)}], seq[Max(s)])
  <2> TAKE s \in SUBSET S
  <2>1. CASE s = {}
    BY <1>8, <2>1 DEF FoldStep
  <2>2. CASE s # {}
    <3>1. Max(s) \in S /\ s \ {Max(s)} \in SUBSET S
      BY <1>3, <2>2
    <3>2. g[s] = F[Max(s)][g[s \ {Max(s)}]]
      BY <1>5, <1>8, <2>2 DEF FoldStep
    <3>3. QED BY <1>4, <1>8, <2>2, <3>1, <3>2
  <2>3. QED BY <2>1, <2>2
<1>10. Folds(g)
  BY <1>8, <1>9
<1>11. Folds(f)
  <2> HIDE DEF Folds
  <2>1. QED BY <1>10
<1>12. FoldLeft(ApplyEvent, players, seq) = f[S]
  BY DEF FoldLeft, MapThenFoldSet, S
<1> HIDE DEF f
<1>13. /\ f[{}] = players
       /\ \A s \in SUBSET S : s # {} => f[s] = ApplyEvent(f[s \ {Max(s)}], seq[Max(s)])
  BY <1>11
<1> HIDE DEF Folds
<1> DEFINE h == [i \in 0 .. n |-> f[1 .. i]]
<1> HIDE DEF n
<1>14. ASSUME NEW i \in 1 .. n PROVE h[i] = ApplyEvent(h[i - 1], seq[i])
  <2>1. 1 .. i \in SUBSET S /\ 1 .. i # {} /\ i \in 1 .. i
    BY <1>1
  <2>2. Max(1 .. i) = i
    <3>1. Max(1 .. i) \in 1 .. i /\ Max(1 .. i) >= i
      BY <1>3, <2>1
    <3>2. QED BY <1>1, <3>1
  <2>3. (1 .. i) \ {i} = 1 .. i - 1
    BY <1>1
  <2>4. i - 1 \in 0 .. n /\ i \in 0 .. n
    BY <1>1
  <2>5. QED BY <1>13, <2>1, <2>2, <2>3, <2>4
<1>15. h[0] = players
  <2>1. 0 \in 0 .. n /\ 1 .. 0 = {}
    BY <1>1
  <2>2. QED BY <1>13, <2>1
<1>16. h[n] = FoldLeft(ApplyEvent, players, seq)
  <2>1. n \in 0 .. n
    BY <1>1
  <2>2. QED BY <1>1, <1>12, <2>1
<1> HIDE DEF h
<1>17. \A i \in 0 .. n : h[i] \in PlayersOf(P)
  <2> DEFINE U == {i \in Nat : i <= n => h[i] \in PlayersOf(P)}
  <2>1. 0 \in U
    BY <1>15
  <2>2. ASSUME NEW i \in U PROVE i + 1 \in U
    <3>1. i + 1 \in Nat
      OBVIOUS
    <3>2. SUFFICES ASSUME i + 1 <= n PROVE h[i + 1] \in PlayersOf(P)
      BY <3>1
    <3>3. i + 1 \in 1 .. n /\ (i + 1) - 1 = i /\ i <= n
      BY <1>1, <3>2
    <3>4. h[i] \in PlayersOf(P) /\ seq[i + 1] \in InputsOf(P) /\ h[i + 1] = ApplyEvent(h[i], seq[i + 1])
      BY <1>1, <1>14, <2>2, <3>3
    <3>5. QED BY <3>4, ApplyEventType
  <2>3. U \in SUBSET Nat
    OBVIOUS
  <2> HIDE DEF U
  <2>4. U = Nat
    BY <2>1, <2>2, <2>3, NatSetInduction
  <2>5. QED BY <1>1, <2>4 DEF U
<1>18. Applies(h, players, seq, P)
  BY <1>14, <1>15, <1>16, <1>17 DEF Applies, n
<1>19. QED BY <1>18

---------------------------------------------------------------------------
(* sorted is seq in the order given by order, and no input comes after one *)
(* that EventBefore puts behind it.                                        *)
Sorts(order, sorted, seq) ==
    /\ Len(sorted) = Len(seq)
    /\ \A i \in 1 .. Len(seq) : order[i] \in 1 .. Len(seq) /\ sorted[i] = seq[order[i]]
    /\ \A j \in 1 .. Len(seq) : \E i \in 1 .. Len(seq) : order[i] = j
    /\ \A i, j \in 1 .. Len(seq) : order[i] = order[j] => i = j
    /\ \A i, j \in 1 .. Len(seq) : i < j => ~EventBefore(sorted[j], sorted[i])

LEMMA InputNumbers ==
    ASSUME NEW P, \A u \in P : u \in Int, NEW input \in InputsOf(P)
    PROVE  input.sequence \in Int /\ input.user_id \in Int
<1>1. input.sequence \in Nat /\ input.user_id \in P
  BY DEF InputsOf
<1>2. QED BY <1>1

LEMMA PrecedesIsStrict ==
    ASSUME NEW P, \A u \in P : u \in Int, NEW seq, Listed(seq, P)
    PROVE  StrictOrder(DOMAIN seq, Precedes(seq))
<1> DEFINE n == Len(seq)
           S == DOMAIN seq
           Before(i, j) == \/ EventBefore(seq[i], seq[j])
                           \/ ~EventBefore(seq[j], seq[i]) /\ i < j
<1>1. n \in Nat /\ S = 1 .. n
  BY DEF Listed
<1>2. \A i \in S : seq[i].sequence \in Int /\ seq[i].user_id \in Int /\ i \in Int
  <2> HIDE DEF n
  <2>1. \A i \in S : seq[i] \in InputsOf(P)
    BY DEF Listed
  <2>2. QED BY <1>1, <2>1, InputNumbers
<1>3. \A i, j \in S : <<i, j>> \in Precedes(seq) <=> Before(i, j)
  BY DEF Precedes
<1> HIDE DEF S
<1>4. \A i \in S : ~Before(i, i)
  BY <1>2 DEF EventBefore
<1>5. \A i, j \in S : i = j \/ Before(i, j) \/ Before(j, i)
  BY <1>2 DEF EventBefore
<1>6. ASSUME NEW i \in S, NEW j \in S, NEW k \in S, Before(i, j), Before(j, k)
      PROVE  Before(i, k)
  <2> DEFINE a == seq[i]
             b == seq[j]
             c == seq[k]
  <2>1. /\ a.sequence \in Int /\ a.user_id \in Int /\ b.sequence \in Int /\ b.user_id \in Int
        /\ c.sequence \in Int /\ c.user_id \in Int /\ i \in Int /\ j \in Int /\ k \in Int
    BY <1>2
  <2>2. /\ EventBefore(a, b) \/ (~EventBefore(b, a) /\ i < j)
        /\ EventBefore(b, c) \/ (~EventBefore(c, b) /\ j < k)
    BY <1>6
  <2> HIDE DEF a, b, c
  <2>3. EventBefore(a, c) \/ (~EventBefore(c, a) /\ i < k)
    BY <2>1, <2>2 DEF EventBefore
  <2>4. QED BY <2>3 DEF a, b, c
<1> HIDE DEF Before
<1>7. StrictOrder(S, Precedes(seq))
  BY <1>3, <1>4, <1>5, <1>6 DEF StrictOrder
<1>8. QED BY <1>7 DEF S

LEMMA StableSortSorts ==
    ASSUME NEW P, \A u \in P : u \in Int, NEW seq, Listed(seq, P)
    PROVE  /\ Listed(StableSort(seq), P)
           /\ \E order : Sorts(order, StableSort(seq), seq)
<1> DEFINE n == Len(seq)
           S == DOMAIN seq
           order == InOrder(S, Precedes(seq))
           sorted == StableSort(seq)
<1>1. n \in Nat /\ S = 1 .. n /\ \A i \in S : seq[i] \in InputsOf(P)
  BY DEF Listed
<1>2. IsFiniteSet(1 .. n) /\ Cardinality(1 .. n) = n
  <2>1. 1 \in Int /\ n \in Int
    BY <1>1
  <2>2. IsFiniteSet(1 .. n) /\ Cardinality(1 .. n) = IF 1 > n THEN 0 ELSE n - 1 + 1
    BY <2>1, FS_Interval, Zenon
  <2>3. QED BY <1>1, <2>2
<1>3. StrictOrder(S, Precedes(seq))
  BY PrecedesIsStrict
<1>4. Lists(order, S, Precedes(seq))
  BY <1>1, <1>2, <1>3, InOrderLists
<1> HIDE DEF n
<1>5. /\ \A i \in 1 .. n : order[i] \in 1 .. n
      /\ \A j \in 1 .. n : \E i \in 1 .. n : order[i] = j
      /\ \A i, j \in 1 .. n : i < j => <<order[i], order[j]>> \in Precedes(seq)
  BY <1>1, <1>2, <1>4 DEF Lists
<1>6. sorted = [i \in 1 .. n |-> seq[order[i]]]
  BY <1>1 DEF StableSort
<1> HIDE DEF order, sorted, S
<1>7. \A i \in 1 .. n : sorted[i] = seq[order[i]] /\ sorted[i] \in InputsOf(P)
  BY <1>1, <1>5, <1>6
<1>8. DOMAIN sorted = 1 .. n /\ Len(sorted) = n
  BY <1>1, <1>6
<1>9. \A i, j \in 1 .. n : order[i] = order[j] => i = j
  <2> SUFFICES ASSUME NEW i \in 1 .. n, NEW j \in 1 .. n, order[i] = order[j], i # j PROVE FALSE
    OBVIOUS
  <2>1. <<order[i], order[i]>> \in Precedes(seq)
    <3>1. i < j \/ j < i
      BY <1>1
    <3>2. CASE i < j
      BY <1>5, <3>2
    <3>3. CASE j < i
      BY <1>5, <3>3
    <3>4. QED BY <3>1, <3>2, <3>3
  <2>2. QED BY <1>1, <1>3, <1>5, <2>1 DEF StrictOrder
<1>10. ASSUME NEW i \in 1 .. n, NEW j \in 1 .. n, i < j
       PROVE  ~EventBefore(sorted[j], sorted[i])
  <2>1. <<order[i], order[j]>> \in Precedes(seq) /\ order[i] \in S /\ order[j] \in S
    BY <1>1, <1>5, <1>10
  <2>2. \/ EventBefore(seq[order[i]], seq[order[j]])
        \/ ~EventBefore(seq[order[j]], seq[order[i]])
    BY <2>1 DEF Precedes
  <2>3. /\ seq[order[i]].sequence \in Int /\ seq[order[i]].user_id \in Int
        /\ seq[order[j]].sequence \in Int /\ seq[order[j]].user_id \in Int
    BY <1>1, <2>1, InputNumbers
  <2> DEFINE a == seq[order[i]]
             b == seq[order[j]]
  <2>4. a = sorted[i] /\ b = sorted[j]
    BY <1>7
  <2> HIDE DEF a, b
  <2>5. ~EventBefore(b, a)
    BY <2>2, <2>3 DEF EventBefore, a, b
  <2>6. QED BY <2>4, <2>5
<1>11. Sorts(order, sorted, seq)
  BY <1>5, <1>7, <1>8, <1>9, <1>10 DEF Sorts, n
<1>12. Listed(sorted, P)
  BY <1>1, <1>7, <1>8 DEF Listed
<1>13. QED BY <1>11, <1>12 DEF sorted

---------------------------------------------------------------------------
(* A number that Narrow returns is one, so every input is an input.        *)
LEMMA NarrowType == \A n \in Int : Narrow(n) \in Int
<1>1. 2^IntBits \in Int /\ 2^IntBits > 0 /\ 2^(IntBits - 1) \in Int
  BY SimulationConstants
<1> DEFINE w == 2^IntBits
           h == 2^(IntBits - 1)
<1> HIDE DEF w, h
<1>2. \A n \in Int : ((n + h) % w) - h \in Int
  BY <1>1 DEF w, h
<1>3. QED BY <1>2 DEF Narrow, w, h

LEMMA InputTypes ==
    /\ \A i \in Inputs : i \in InputsOf(Users) /\ i.target_tick \in TargetTicks
    /\ TargetTicks \subseteq Int
    /\ \A u \in Users : u \in Int
<1>1. \A c \in Commands : /\ c.sequence \in Nat
                          /\ Narrow(c.target_tick) \in Int /\ Narrow(c.delta) \in Int
  BY NarrowType, SimulationConstants
<1>2. \A u \in Users, c \in Commands : InputOf(u, c) \in InputsOf(Users)
  BY <1>1 DEF InputOf, InputsOf
<1>3. \A u \in Users, c \in Commands : InputOf(u, c).target_tick \in TargetTicks
  BY DEF InputOf, TargetTicks
<1>4. TargetTicks \subseteq Int
  BY <1>1 DEF TargetTicks
<1>5. \A u \in Users : u \in Int
  BY SimulationConstants
<1>6. QED BY <1>2, <1>3, <1>4, <1>5 DEF Inputs

LEMMA MaxIs ==
    ASSUME NEW S, S \subseteq Int, NEW x \in S, \A y \in S : x >= y
    PROVE  Max(S) = x
<1>1. Max(S) \in S /\ \A y \in S : Max(S) >= y
  BY DEF Max
<1>2. Max(S) \in Int /\ x \in Int /\ Max(S) >= x /\ x >= Max(S)
  BY <1>1
<1>3. QED BY <1>2

---------------------------------------------------------------------------
PlayerOf(players, u) == IF u \in DOMAIN players THEN players[u] ELSE NewPlayer

LEMMA PlayerOfType ==
    ASSUME NEW P, NEW players \in PlayersOf(P), NEW u
    PROVE  /\ PlayerOf(players, u) \in Player
           /\ PlayerOf(players, u).position \in Int /\ PlayerOf(players, u).last_sequence \in Nat
<1>1. \A v \in DOMAIN players : players[v] \in Player
  BY DEF PlayersOf
<1>2. PlayerOf(players, u) \in Player
  BY <1>1 DEF PlayerOf, NewPlayer, Player
<1>3. QED BY <1>2 DEF Player

LEMMA ApplyEventAt ==
    ASSUME NEW players, NEW input, NEW u
    PROVE  /\ DOMAIN ApplyEvent(players, input) = DOMAIN players \cup {input.user_id}
           /\ PlayerOf(ApplyEvent(players, input), u) =
                IF u = input.user_id
                THEN [position      |-> PlayerOf(players, u).position + input.delta,
                      last_sequence |-> input.sequence]
                ELSE PlayerOf(players, u)
<1> DEFINE D == DOMAIN players \cup {input.user_id}
           after == ApplyEvent(players, input)
           moved == [position      |-> PlayerOf(players, input.user_id).position + input.delta,
                     last_sequence |-> input.sequence]
<1>1. after = [v \in D |-> IF v = input.user_id THEN moved ELSE players[v]]
  BY DEF ApplyEvent, PlayerOf
<1> HIDE DEF after, moved
<1>2. DOMAIN after = D /\ \A v \in D : after[v] = IF v = input.user_id THEN moved ELSE players[v]
  BY <1>1
<1>3. CASE u = input.user_id
  BY <1>2, <1>3 DEF PlayerOf, after, moved
<1>4. CASE u # input.user_id
  BY <1>2, <1>4 DEF PlayerOf, after
<1>5. QED BY <1>2, <1>3, <1>4 DEF after

(* The inputs of u among the first i.                                      *)
From(seq, u, i) == {seq[j] : j \in {k \in 1 .. i : seq[k].user_id = u}}

Distinct(seq) == \A i, j \in 1 .. Len(seq) : seq[i] = seq[j] => i = j

Ascending(seq) == \A i, j \in 1 .. Len(seq) : i < j => ~EventBefore(seq[j], seq[i])

(* Along the sorted inputs of a tick, an input of u moves u and puts its   *)
(* sequence, which is the greatest one so far, in the place of the last;   *)
(* an input of another user leaves u alone.                                *)
Stepped(h, seq, u, i) ==
    /\ seq[i].user_id = u =>
         /\ From(seq, u, i) = From(seq, u, i - 1) \cup {seq[i]}
         /\ seq[i] \notin From(seq, u, i - 1)
         /\ PlayerOf(h[i], u).position = PlayerOf(h[i - 1], u).position + seq[i].delta
         /\ PlayerOf(h[i], u).last_sequence = seq[i].sequence
         /\ \A x \in From(seq, u, i - 1) : x.sequence <= seq[i].sequence
    /\ seq[i].user_id # u =>
         /\ From(seq, u, i) = From(seq, u, i - 1)
         /\ PlayerOf(h[i], u) = PlayerOf(h[i - 1], u)
    /\ DOMAIN h[i - 1] \subseteq DOMAIN h[i]

LEMMA StepAt ==
    ASSUME NEW P, \A u \in P : u \in Int, NEW players \in PlayersOf(P), NEW seq, Listed(seq, P),
           Distinct(seq), Ascending(seq), NEW h, Applies(h, players, seq, P),
           NEW u, NEW i \in 1 .. Len(seq)
    PROVE  Stepped(h, seq, u, i)
<1> DEFINE n == Len(seq)
<1>1. n \in Nat /\ \A k \in 1 .. n : seq[k] \in InputsOf(P)
  BY DEF Listed
<1>2. h[i] = ApplyEvent(h[i - 1], seq[i])
  BY DEF Applies
<1>3. /\ DOMAIN h[i] = DOMAIN h[i - 1] \cup {seq[i].user_id}
      /\ PlayerOf(h[i], u) = IF u = seq[i].user_id
                             THEN [position      |-> PlayerOf(h[i - 1], u).position + seq[i].delta,
                                   last_sequence |-> seq[i].sequence]
                             ELSE PlayerOf(h[i - 1], u)
  <2> DEFINE before == h[i - 1]
             input == seq[i]
  <2> HIDE DEF before, input
  <2>1. /\ DOMAIN ApplyEvent(before, input) = DOMAIN before \cup {input.user_id}
        /\ PlayerOf(ApplyEvent(before, input), u) =
             IF u = input.user_id
             THEN [position      |-> PlayerOf(before, u).position + input.delta,
                   last_sequence |-> input.sequence]
             ELSE PlayerOf(before, u)
    BY ApplyEventAt
  <2>2. h[i] = ApplyEvent(before, input)
    BY <1>2 DEF before, input
  <2>3. QED BY <2>1, <2>2 DEF before, input
<1> HIDE DEF n
<1>4. i \in 1 .. n /\ 1 .. i = (1 .. i - 1) \cup {i} /\ \A k \in 1 .. i - 1 : k \in 1 .. n /\ k < i
  BY <1>1 DEF n
<1>5. ASSUME seq[i].user_id = u
      PROVE  /\ From(seq, u, i) = From(seq, u, i - 1) \cup {seq[i]}
             /\ seq[i] \notin From(seq, u, i - 1)
             /\ \A x \in From(seq, u, i - 1) : x.sequence <= seq[i].sequence
  <2>1. From(seq, u, i) = From(seq, u, i - 1) \cup {seq[i]}
    BY <1>4, <1>5 DEF From
  <2>2. seq[i] \notin From(seq, u, i - 1)
    <3>1. \A k \in 1 .. i - 1 : seq[k] # seq[i]
      BY <1>1, <1>4 DEF Distinct, n
    <3>2. QED BY <3>1 DEF From
  <2>3. ASSUME NEW k \in 1 .. i - 1, seq[k].user_id = u PROVE seq[k].sequence <= seq[i].sequence
    <3>1. ~EventBefore(seq[i], seq[k])
      BY <1>4 DEF Ascending, n
    <3>2. seq[i].sequence \in Int /\ seq[k].sequence \in Int
      BY <1>1, <1>4, InputNumbers
    <3>3. QED BY <3>1, <3>2 DEF EventBefore
  <2>4. QED BY <2>1, <2>2, <2>3 DEF From
<1>6. ASSUME seq[i].user_id # u PROVE From(seq, u, i) = From(seq, u, i - 1)
  BY <1>4, <1>6 DEF From
<1>7. QED BY <1>3, <1>5, <1>6 DEF Stepped

(* The players after a tick. *)
LEMMA FoldType ==
    ASSUME NEW P, \A u \in P : u \in Int, NEW players \in PlayersOf(P), NEW seq, Listed(seq, P)
    PROVE  FoldLeft(ApplyEvent, players, StableSort(seq)) \in PlayersOf(P)
<1> DEFINE sorted == StableSort(seq)
<1>1. Listed(sorted, P)
  BY StableSortSorts
<1> HIDE DEF sorted
<1>2. PICK h : Applies(h, players, sorted, P)
  BY <1>1, FoldApplies
<1>3. Len(sorted) \in 0 .. Len(sorted)
  BY <1>1 DEF Listed
<1>4. QED BY <1>2, <1>3 DEF Applies, sorted
=============================================================================

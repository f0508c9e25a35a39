---------------------------- MODULE SetInduction ----------------------------
(***************************************************************************)
(* Induction, with the set of the numbers (or of the finite sets) that the *)
(* statement holds of in the place of the statement, and what follows from *)
(* it about folds, sums and sorting.                                       *)
(***************************************************************************)
EXTENDS Sorting, Integers, FiniteSets, FiniteSetTheorems, WellFoundedInduction, TLAPS

(* A set that holds 0 and, with a number, the next one, is that of all     *)
(* numbers: otherwise there is a least number that it lacks.               *)
LEMMA NatSetInduction ==
    ASSUME NEW T \in SUBSET Nat, 0 \in T, \A n \in T : n + 1 \in T
    PROVE  T = Nat
<1> SUFFICES ASSUME Nat \ T # {} PROVE FALSE
  OBVIOUS
<1> DEFINE R == OpToRel(<, Nat)
<1>1. \A a, b \in Nat : <<a, b>> \in R <=> a < b
  BY DEF OpToRel
<1>2. IsWellFoundedOn(R, Nat) /\ Nat \ T \subseteq Nat
  BY NatLessThanWellFounded
<1> HIDE DEF R
<1>3. PICK x \in Nat \ T : \A y \in Nat \ T : ~(<<y, x>> \in R)
  BY <1>2, WFMin
<1>4. x \in Nat /\ x # 0 /\ x - 1 \in Nat /\ x - 1 < x
  OBVIOUS
<1>5. x - 1 \in T
  BY <1>1, <1>3, <1>4
<1>6. (x - 1) + 1 \in T
  BY <1>5
<1>7. QED BY <1>4, <1>6

(* The same up to a bound. *)
LEMMA IntervalInduction ==
    ASSUME NEW n \in Nat, NEW T, 0 \in T, \A i \in 0 .. n : i \in T /\ i < n => i + 1 \in T
    PROVE  0 .. n \subseteq T
<1> DEFINE U == {i \in Nat : i <= n => i \in T}
<1>1. U \in SUBSET Nat /\ 0 \in U
  OBVIOUS
<1>2. \A i \in U : i + 1 \in U
  OBVIOUS
<1> HIDE DEF U
<1>3. U = Nat
  BY <1>1, <1>2, NatSetInduction
<1>4. QED BY <1>3 DEF U

(* A family of sets that holds the empty set and, with a set, that set and *)
(* one element of S more, holds S if S is finite.                          *)
LEMMA FiniteSetInduction ==
    ASSUME NEW S, IsFiniteSet(S), NEW F, {} \in F,
           \A T \in SUBSET S, x \in S : T \in F /\ x \notin T => T \cup {x} \in F
    PROVE  S \in F
<1> DEFINE U == {n \in Nat : \A T \in SUBSET S : Cardinality(T) = n => T \in F}
<1>1. \A T \in SUBSET S : IsFiniteSet(T) /\ Cardinality(T) \in Nat
  BY FS_Subset, FS_CardinalityType
<1>2. 0 \in U
  BY <1>1, FS_EmptySet
<1>3. ASSUME NEW n \in U PROVE n + 1 \in U
  <2>1. SUFFICES ASSUME NEW T \in SUBSET S, Cardinality(T) = n + 1
                 PROVE  T \in F
    OBVIOUS
  <2>2. PICK x \in T : TRUE
    BY <1>1, <2>1, FS_EmptySet
  <2>3. Cardinality(T \ {x}) = n
    BY <1>1, <2>1, <2>2, FS_RemoveElement
  <2>4. T \ {x} \in F /\ x \notin T \ {x} /\ T \ {x} \in SUBSET S /\ x \in S
    BY <2>2, <2>3
  <2>5. (T \ {x}) \cup {x} \in F
    BY <2>4
  <2>6. (T \ {x}) \cup {x} = T
    BY <2>2
  <2>7. QED BY <2>5, <2>6
<1>4. U \in SUBSET Nat
  OBVIOUS
<1> HIDE DEF U
<1>5. U = Nat
  BY <1>2, <1>3, <1>4, NatSetInduction
<1>6. QED BY <1>1, <1>5 DEF U

---------------------------------------------------------------------------
(* Folds.  A fold over a finite set takes the elements in an order given   *)
(* by pick; g[s] is its value for s.                                       *)
FoldStep(g, F, base, pick, s) == IF s = {} THEN base ELSE F[pick[s]][g[s \ {pick[s]}]]

CanFold(F, base, pick, S, X) ==
    /\ IsFiniteSet(S)
    /\ \A s \in SUBSET S : s # {} => pick[s] \in s
    /\ base \in X
    /\ \A x \in S : \A y \in X : F[x][y] \in X

IsFold(g, F, base, pick, S, X) ==
    /\ g \in [SUBSET S -> X]
    /\ \A s \in SUBSET S : g[s] = FoldStep(g, F, base, pick, s)

LEMMA FoldExists ==
    ASSUME NEW F, NEW base, NEW pick, NEW S, NEW X, CanFold(F, base, pick, S, X)
    PROVE  \E g : IsFold(g, F, base, pick, S, X)
<1> USE DEF CanFold
<1> DEFINE UpTo(n) == {s \in SUBSET S : Cardinality(s) <= n}
           Partial(g, n) == g \in [UpTo(n) -> X] /\ \A s \in UpTo(n) : g[s] = FoldStep(g, F, base, pick, s)
           U == {n \in Nat : \E g : Partial(g, n)}
<1>1. \A s \in SUBSET S : /\ IsFiniteSet(s) /\ Cardinality(s) \in Nat
                          /\ (Cardinality(s) = 0 <=> s = {})
                          /\ Cardinality(s) <= Cardinality(S)
  BY FS_Subset, FS_CardinalityType, FS_EmptySet
<1>2. 0 \in U
  <2> DEFINE g == [s \in UpTo(0) |-> base]
  <2>1. \A s \in UpTo(0) : s = {}
    BY <1>1
  <2>2. Partial(g, 0)
    BY <2>1 DEF FoldStep
  <2>3. QED BY <2>2
<1>3. ASSUME NEW n \in U PROVE n + 1 \in U
  <2>1. PICK g : Partial(g, n)
    OBVIOUS
  <2>0. n \in Nat /\ n + 1 \in Nat
    OBVIOUS
  <2> DEFINE h == [s \in UpTo(n + 1) |-> FoldStep(g, F, base, pick, s)]
  <2>2. \A s \in UpTo(n) : s \in UpTo(n + 1) /\ g[s] = FoldStep(g, F, base, pick, s)
    BY <1>1, <2>0, <2>1
  <2>3. \A s \in UpTo(n) : h[s] = g[s]
    BY <2>2
  <2>4. \A s \in UpTo(n + 1) : s # {} => pick[s] \in S /\ s \ {pick[s]} \in UpTo(n)
    <3>1. SUFFICES ASSUME NEW s \in UpTo(n + 1), s # {}
                   PROVE  pick[s] \in S /\ s \ {pick[s]} \in UpTo(n)
      OBVIOUS
    <3>2. pick[s] \in s
      BY <3>1
    <3>3. Cardinality(s \ {pick[s]}) = Cardinality(s) - 1
      BY <1>1, <3>2, FS_RemoveElement
    <3>4. Cardinality(s) \in Nat /\ Cardinality(s) <= n + 1 /\ n \in Nat
      BY <1>1
    <3>5. QED BY <3>2, <3>3, <3>4
  <2>5. \A s \in UpTo(n + 1) : FoldStep(g, F, base, pick, s) = FoldStep(h, F, base, pick, s)
    BY <2>3, <2>4 DEF FoldStep
  <2>6. \A s \in UpTo(n + 1) : FoldStep(g, F, base, pick, s) \in X
    BY <2>1, <2>4 DEF FoldStep
  <2> HIDE DEF UpTo
  <2>7. h \in [UpTo(n + 1) -> X] /\ \A s \in UpTo(n + 1) : h[s] = FoldStep(h, F, base, pick, s)
    BY <2>5, <2>6
  <2>8. \E i : Partial(i, n + 1)
    <3> HIDE DEF h
    <3>1. Partial(h, n + 1)
      BY <2>7
    <3>2. QED BY <3>1
  <2> HIDE DEF Partial
  <2>9. QED BY <2>0, <2>8
<1>4. U \in SUBSET Nat
  OBVIOUS
<1> HIDE DEF U
<1>5. Cardinality(S) \in U
  <2>1. U = Nat
    BY <1>2, <1>3, <1>4, NatSetInduction
  <2>2. QED BY <1>1, <2>1
<1>6. UpTo(Cardinality(S)) = SUBSET S
  BY <1>1
<1>7. PICK g : Partial(g, Cardinality(S))
  BY <1>5 DEF U
<1>8. QED BY <1>6, <1>7 DEF IsFold

---------------------------------------------------------------------------
(* Sums over a finite set, as MapThenSumSet forms them: Sums(g, f, S) says *)
(* that g[s] is the sum of f over s, for all s up to S.                    *)
One(s) == CHOOSE x \in s : TRUE

Sums(g, f, S) ==
    g = [s \in SUBSET S |-> IF s = {} THEN 0 ELSE f[One(s)] + g[s \ {One(s)}]]

TakesAny(g, f, S) ==
    \A s \in SUBSET S : g[s] \in Int /\ \A x \in s : g[s] = f[x] + g[s \ {x}]

LEMMA SumsExist ==
    ASSUME NEW S, IsFiniteSet(S), NEW f, \A x \in S : f[x] \in Int
    PROVE  \E g : Sums(g, f, S)
<1> DEFINE F == [x \in S |-> [y \in Int |-> f[x] + y]]
           pick == [s \in SUBSET S |-> One(s)]
<1>1. \A s \in SUBSET S : s # {} => One(s) \in s
  BY DEF One
<1>2. \A s \in SUBSET S : s # {} => pick[s] \in s
  BY <1>1
<1>3. \A x \in S, y \in Int : F[x][y] = f[x] + y /\ F[x][y] \in Int
  OBVIOUS
<1> HIDE DEF F
<1>4. \A s \in SUBSET S : pick[s] = One(s)
  OBVIOUS
<1> HIDE DEF pick
<1>5. PICK g : IsFold(g, F, 0, pick, S, Int)
  <2>1. CanFold(F, 0, pick, S, Int)
    BY <1>2, <1>3 DEF CanFold
  <2>2. QED BY <2>1, FoldExists
<1>a. /\ \A s \in SUBSET S : g[s] \in Int
      /\ \A s \in SUBSET S : g[s] = FoldStep(g, F, 0, pick, s)
      /\ g \in [SUBSET S -> Int]
  BY <1>5 DEF IsFold
<1>6. \A s \in SUBSET S : g[s] = IF s = {} THEN 0 ELSE f[One(s)] + g[s \ {One(s)}]
  <2> TAKE s \in SUBSET S
  <2>1. CASE s = {}
    BY <1>a, <2>1 DEF FoldStep
  <2>2. CASE s # {}
    <3>1. One(s) \in S /\ s \ {One(s)} \in SUBSET S
      BY <1>1, <2>2
    <3>2. g[s] = F[One(s)][g[s \ {One(s)}]]
      BY <1>4, <1>a, <2>2 DEF FoldStep
    <3>3. QED BY <1>3, <1>a, <2>2, <3>1, <3>2
  <2>3. QED BY <2>1, <2>2
<1>7. g = [s \in SUBSET S |-> IF s = {} THEN 0 ELSE f[One(s)] + g[s \ {One(s)}]]
  BY <1>6, <1>a
<1>8. QED BY <1>7 DEF Sums

(* Any element may be taken first. *)
LEMMA SumTakes ==
    ASSUME NEW S, IsFiniteSet(S), NEW f, \A x \in S : f[x] \in Int, NEW g, Sums(g, f, S)
    PROVE  TakesAny(g, f, S)
<1> DEFINE P(s) == g[s] \in Int /\ \A x \in s : g[s] = f[x] + g[s \ {x}]
           U == {n \in Nat : \A s \in SUBSET S : Cardinality(s) <= n => P(s)}
           V(s) == IF s = {} THEN 0 ELSE f[One(s)] + g[s \ {One(s)}]
<1>1. \A s \in SUBSET S : /\ IsFiniteSet(s) /\ Cardinality(s) \in Nat
                          /\ (Cardinality(s) = 0 <=> s = {})
                          /\ Cardinality(s) <= Cardinality(S)
  BY FS_Subset, FS_CardinalityType, FS_EmptySet
<1>2. \A s \in SUBSET S : g[s] = V(s)
  BY DEF Sums
<1>3. g[{}] = 0 /\ P({})
  <2>1. {} \in SUBSET S /\ V({}) = 0
    OBVIOUS
  <2>2. g[{}] = 0
    BY <1>2, <2>1
  <2>3. QED BY <2>2
<1>4. 0 \in U
  BY <1>1, <1>3
<1>5. ASSUME NEW n \in U PROVE n + 1 \in U
  <2>1. n \in Nat /\ n + 1 \in Nat
    OBVIOUS
  <2>2. SUFFICES ASSUME NEW s \in SUBSET S, Cardinality(s) <= n + 1, s # {}
                 PROVE  P(s)
    <3> HIDE DEF P
    <3>1. QED BY <1>3, <2>1
  <2> DEFINE c == One(s)
  <2>3. c \in s
    BY <2>2 DEF One
  <2>4. g[s] = f[c] + g[s \ {c}]
    BY <1>2, <2>2
  <2> HIDE DEF c
  <2>5. \A x \in s : s \ {x} \in SUBSET S /\ Cardinality(s \ {x}) <= n
    <3>1. \A x \in s : Cardinality(s \ {x}) = Cardinality(s) - 1
      BY <1>1, FS_RemoveElement
    <3>2. QED BY <1>1, <2>2, <3>1
  <2>6. \A x \in s : P(s \ {x})
    BY <1>5, <2>5
  <2>7. f[c] \in Int /\ g[s] \in Int
    <3>1. c \in S /\ g[s \ {c}] \in Int
      BY <2>3, <2>6
    <3>2. QED BY <2>4, <3>1
  <2>8. ASSUME NEW x \in s PROVE g[s] = f[x] + g[s \ {x}]
    <3>1. CASE x = c
      BY <2>4, <3>1
    <3>2. CASE x # c
      <4>1. g[s \ {c}] = f[x] + g[(s \ {c}) \ {x}]
        BY <2>3, <2>6, <3>2
      <4>2. g[s \ {x}] = f[c] + g[(s \ {x}) \ {c}]
        BY <2>3, <2>6, <3>2
      <4>3. (s \ {x}) \ {c} = (s \ {c}) \ {x}
        OBVIOUS
      <4>4. g[(s \ {c}) \ {x}] \in Int
        <5>1. (s \ {c}) \ {x} \in SUBSET S /\ Cardinality((s \ {c}) \ {x}) <= Cardinality(s \ {c})
          BY <1>1, FS_Subset
        <5>2. Cardinality((s \ {c}) \ {x}) <= n
          BY <1>1, <2>3, <2>5, <5>1
        <5>3. QED BY <1>5, <5>1, <5>2
      <4>5. f[x] \in Int
        BY <2>8
      <4> DEFINE rest == g[(s \ {c}) \ {x}]
      <4>6. g[s] = f[c] + (f[x] + rest) /\ g[s \ {x}] = f[c] + rest
        BY <2>4, <4>1, <4>2, <4>3
      <4> HIDE DEF rest
      <4>7. QED BY <2>7, <4>4, <4>5, <4>6 DEF rest
    <3>3. QED BY <3>1, <3>2
  <2>9. QED BY <2>7, <2>8
<1>6. U \in SUBSET Nat
  OBVIOUS
<1> HIDE DEF U
<1>7. Cardinality(S) \in U
  <2>1. U = Nat
    BY <1>4, <1>5, <1>6, NatSetInduction
  <2>2. QED BY <1>1, <2>1
<1>8. \A s \in SUBSET S : P(s)
  BY <1>1, <1>7 DEF U
<1>9. QED BY <1>8 DEF TakesAny

(* The sum over T is the same in any function with the values of f there.  *)
LEMMA SumsAgree ==
    ASSUME NEW S, IsFiniteSet(S), NEW f, \A x \in S : f[x] \in Int, NEW g, Sums(g, f, S),
           NEW T \in SUBSET S, NEW e, NEW h, Sums(h, e, T), \A x \in T : e[x] = f[x]
    PROVE  g[T] = h[T]
<1> DEFINE F == {s \in SUBSET T : g[s] = h[s]}
<1>1. IsFiniteSet(T) /\ \A x \in T : e[x] \in Int
  BY FS_Subset
<1>2. TakesAny(g, f, S) /\ TakesAny(h, e, T)
  BY <1>1, SumTakes
<1>3. {} \in F
  BY DEF Sums
<1>4. \A s \in SUBSET T, x \in T : s \in F /\ x \notin s => s \cup {x} \in F
  <2>1. SUFFICES ASSUME NEW s \in SUBSET T, NEW x \in T, s \in F, x \notin s
                 PROVE  g[s \cup {x}] = h[s \cup {x}]
    OBVIOUS
  <2>2. (s \cup {x}) \ {x} = s
    BY <2>1
  <2>3. g[s \cup {x}] = f[x] + g[s]
    BY <1>2, <2>2 DEF TakesAny
  <2>4. h[s \cup {x}] = e[x] + h[s]
    BY <1>2, <2>2 DEF TakesAny
  <2>5. QED BY <2>1, <2>3, <2>4
<1>5. T \in F
  <2> HIDE DEF F
  <2>1. QED BY <1>1, <1>3, <1>4, FiniteSetInduction
<1>6. QED BY <1>5

---------------------------------------------------------------------------
StrictOrder(S, precedes) ==
    /\ \A x \in S : <<x, x>> \notin precedes
    /\ \A x, y \in S : x = y \/ <<x, y>> \in precedes \/ <<y, x>> \in precedes
    /\ \A x, y, z \in S : <<x, y>> \in precedes /\ <<y, z>> \in precedes => <<x, z>> \in precedes

(* order lists S in ascending order. *)
Lists(order, S, precedes) ==
    /\ DOMAIN order = 1 .. Cardinality(S)
    /\ \A i \in 1 .. Cardinality(S) : order[i] \in S
    /\ \A x \in S : \E i \in 1 .. Cardinality(S) : order[i] = x
    /\ \A i, j \in 1 .. Cardinality(S) : i < j => <<order[i], order[j]>> \in precedes

(* The number of elements before x numbers the elements of S from 0 on.    *)
LEMMA OrderExists ==
    ASSUME NEW S, IsFiniteSet(S), NEW precedes, StrictOrder(S, precedes)
    PROVE  \E order : order \in [1 .. Cardinality(S) -> S] /\ Lists(order, S, precedes)
<1> DEFINE n == Cardinality(S)
           Before(x) == {y \in S : <<y, x>> \in precedes}
           rank == [x \in S |-> Cardinality(Before(x))]
           order == [i \in 1 .. n |-> CHOOSE x \in S : Cardinality(Before(x)) = i - 1]
<1>1. n \in Nat
  BY FS_CardinalityType
<1>2. \A x \in S : IsFiniteSet(Before(x)) /\ Cardinality(Before(x)) \in Nat
  BY FS_Subset, FS_CardinalityType
<1>3. ASSUME NEW x \in S PROVE rank[x] \in 0 .. n - 1
  <2>1. Before(x) \subseteq S /\ Before(x) # S
    BY DEF StrictOrder
  <2>2. Cardinality(Before(x)) <= n /\ Cardinality(Before(x)) # n
    BY <2>1, FS_Subset
  <2>3. QED BY <1>1, <1>2, <2>2
<1>4. ASSUME NEW x \in S, NEW y \in S, <<x, y>> \in precedes PROVE rank[x] < rank[y]
  <2>1. Before(x) \subseteq Before(y) /\ x \in Before(y) /\ x \notin Before(x)
    BY <1>4 DEF StrictOrder
  <2>2. Cardinality(Before(x)) <= Cardinality(Before(y))
        /\ Cardinality(Before(x)) # Cardinality(Before(y))
    BY <1>2, <2>1, FS_Subset
  <2>3. QED BY <1>2, <2>2
<1>5. \A x, y \in S : rank[x] = rank[y] => x = y
  <2> SUFFICES ASSUME NEW x \in S, NEW y \in S, rank[x] = rank[y] PROVE x = y
    OBVIOUS
  <2> HIDE DEF rank
  <2>1. ~(rank[x] < rank[y]) /\ ~(rank[y] < rank[x])
    BY <1>3
  <2>2. QED BY <1>4, <2>1 DEF StrictOrder
<1>6. IsFiniteSet(0 .. n - 1) /\ Cardinality(0 .. n - 1) = n
  <2>1. 0 \in Int /\ n - 1 \in Int
    BY <1>1
  <2>2. IsFiniteSet(0 .. n - 1) /\ Cardinality(0 .. n - 1) = IF 0 > n - 1 THEN 0 ELSE (n - 1) - 0 + 1
    BY <2>1, FS_Interval, Zenon
  <2>3. QED BY <1>1, <2>2
<1> HIDE DEF Before, rank
<1>7. \A k \in 0 .. n - 1 : \E x \in S : rank[x] = k
  <2>1. DOMAIN rank = S
    BY DEF rank
  <2>2. rank \in [S -> 0 .. n - 1]
    BY <1>3 DEF rank
  <2>3. rank \in Injection(S, 0 .. n - 1)
    BY <1>5, <2>1, <2>2 DEF Injection, IsInjective
  <2>4. rank \in Surjection(S, 0 .. n - 1)
    BY <1>6, <2>3, FS_Injection
  <2>5. QED BY <2>4 DEF Surjection
<1>8. DOMAIN order = 1 .. n
  OBVIOUS
<1>9. ASSUME NEW i \in 1 .. n PROVE order[i] \in S /\ rank[order[i]] = i - 1
  <2>1. i - 1 \in 0 .. n - 1
    BY <1>1
  <2>2. \A x \in S : rank[x] = Cardinality(Before(x))
    BY DEF rank
  <2>3. PICK x \in S : Cardinality(Before(x)) = i - 1
    BY <1>7, <2>1, <2>2
  <2>4. order[i] = CHOOSE y \in S : Cardinality(Before(y)) = i - 1
    OBVIOUS
  <2> HIDE DEF order
  <2>5. order[i] \in S /\ Cardinality(Before(order[i])) = i - 1
    BY <2>3, <2>4
  <2>6. QED BY <2>2, <2>5
<1> HIDE DEF order, n
<1>10. ASSUME NEW x \in S PROVE \E i \in 1 .. n : order[i] = x
  <2>1. rank[x] + 1 \in 1 .. n /\ (rank[x] + 1) - 1 = rank[x]
    BY <1>1, <1>3
  <2>2. order[rank[x] + 1] = x
    BY <1>5, <1>9, <2>1
  <2>3. QED BY <2>1, <2>2
<1>11. ASSUME NEW i \in 1 .. n, NEW j \in 1 .. n, i < j
       PROVE  <<order[i], order[j]>> \in precedes
  <2>1. rank[order[i]] < rank[order[j]]
    BY <1>1, <1>9, <1>11
  <2>2. order[i] # order[j] /\ ~(rank[order[j]] < rank[order[i]])
    BY <1>3, <1>9, <2>1
  <2>3. QED BY <1>4, <1>9, <2>2 DEF StrictOrder
<1>12. order \in [1 .. n -> S]
  BY <1>8, <1>9 DEF order
<1>13. QED BY <1>8, <1>9, <1>10, <1>11, <1>12 DEF Lists, n

(* No element comes twice in an ascending sequence as long as S, so none   *)
(* is missing.                                                             *)
LEMMA InOrderLists ==
    ASSUME NEW S, IsFiniteSet(S), NEW precedes, StrictOrder(S, precedes)
    PROVE  Lists(InOrder(S, precedes), S, precedes)
<1> DEFINE n == Cardinality(S)
           Ascends(order) == \A i, j \in DOMAIN order : i < j => <<order[i], order[j]>> \in precedes
           order == InOrder(S, precedes)
<1>1. n \in Nat
  BY FS_CardinalityType
<1>2. \E q \in [1 .. n -> S] : Ascends(q)
  <2>1. PICK q : q \in [1 .. n -> S] /\ Lists(q, S, precedes)
    BY OrderExists
  <2>2. DOMAIN q = 1 .. n
    BY <2>1
  <2>3. Ascends(q)
    BY <2>1, <2>2 DEF Lists
  <2>4. QED BY <2>1, <2>3
<1>3. order = CHOOSE q \in [1 .. n -> S] : Ascends(q)
  BY DEF InOrder
<1> HIDE DEF order, Ascends, n
<1>4. order \in [1 .. n -> S] /\ Ascends(order)
  BY <1>2, <1>3
<1>5. \A i, j \in 1 .. n : i < j => <<order[i], order[j]>> \in precedes
  BY <1>4 DEF Ascends
<1>6. ASSUME NEW i \in 1 .. n, NEW j \in 1 .. n, order[i] = order[j] PROVE i = j
  <2>1. <<order[i], order[i]>> \notin precedes
    BY <1>4 DEF StrictOrder
  <2>2. ~(i < j) /\ ~(j < i)
    BY <1>5, <1>6, <2>1
  <2>3. QED BY <1>1, <2>2
<1>7. order \in Injection(1 .. n, S)
  BY <1>4, <1>6 DEF Injection, IsInjective
<1>8. Cardinality(1 .. n) = n
  <2>1. 1 \in Int /\ n \in Int
    BY <1>1
  <2>2. Cardinality(1 .. n) = IF 1 > n THEN 0 ELSE n - 1 + 1
    BY <2>1, FS_Interval, Zenon
  <2>3. QED BY <1>1, <2>2
<1>9. order \in Surjection(1 .. n, S)
  BY <1>7, <1>8, FS_Injection DEF n
<1>10. \A x \in S : \E i \in 1 .. n : order[i] = x
  BY <1>9 DEF Surjection
<1>11. QED BY <1>4, <1>5, <1>10 DEF Lists, n, order

(* The k-th element listed has k - 1 before it. *)
LEMMA ListedRank ==
    ASSUME NEW S, IsFiniteSet(S), NEW precedes, StrictOrder(S, precedes),
           NEW order, Lists(order, S, precedes), NEW k \in 1 .. Cardinality(S)
    PROVE  Cardinality({y \in S : <<y, order[k]>> \in precedes}) = k - 1
<1> DEFINE n == Cardinality(S)
           B == {y \in S : <<y, order[k]>> \in precedes}
           first == [i \in 1 .. k - 1 |-> order[i]]
<1>1. n \in Nat /\ k \in 1 .. n
  BY FS_CardinalityType
<1> HIDE DEF n
<1>2. /\ \A i \in 1 .. n : order[i] \in S
      /\ \A x \in S : \E i \in 1 .. n : order[i] = x
      /\ \A i, j \in 1 .. n : i < j => <<order[i], order[j]>> \in precedes
  BY DEF Lists, n
<1>3. \A x \in S : <<x, x>> \notin precedes
  BY DEF StrictOrder
<1>4. \A i \in 1 .. k - 1 : i \in 1 .. n /\ first[i] = order[i] /\ order[i] \in B
  BY <1>1, <1>2
<1>5. ASSUME NEW i \in 1 .. k - 1, NEW j \in 1 .. k - 1, first[i] = first[j] PROVE i = j
  <2>1. i \in 1 .. n /\ j \in 1 .. n /\ order[i] = order[j] /\ order[i] \in S
    BY <1>2, <1>4, <1>5
  <2> HIDE DEF first
  <2>2. ~(i < j) /\ ~(j < i)
    BY <1>2, <1>3, <2>1
  <2>3. QED BY <1>1, <2>1, <2>2
<1>6. ASSUME NEW y \in B PROVE \E i \in 1 .. k - 1 : first[i] = y
  <2>1. PICK i \in 1 .. n : order[i] = y
    BY <1>2
  <2>2. <<order[i], order[k]>> \in precedes /\ order[i] \in S /\ order[k] \in S
    BY <1>1, <1>2, <2>1
  <2>3. i # k
    BY <1>3, <2>2
  <2>4. <<order[k], order[i]>> \notin precedes
    BY <1>3, <2>2 DEF StrictOrder
  <2>5. ~(k < i)
    BY <1>1, <1>2, <2>4
  <2>6. i \in 1 .. k - 1
    BY <1>1, <2>3, <2>5
  <2>7. QED BY <1>4, <2>1, <2>6
<1>7. first \in [1 .. k - 1 -> B]
  BY <1>4
<1>8. first \in Injection(1 .. k - 1, B) /\ first \in Surjection(1 .. k - 1, B)
  <2> HIDE DEF first, B
  <2>1. QED BY <1>5, <1>6, <1>7 DEF Injection, IsInjective, Surjection
<1>9. ExistsBijection(1 .. k - 1, B)
  <2> HIDE DEF first, B
  <2>1. QED BY <1>8 DEF ExistsBijection, Bijection
<1>10. IsFiniteSet(1 .. k - 1) /\ Cardinality(1 .. k - 1) = k - 1
  <2>1. 1 \in Int /\ k - 1 \in Int
    BY <1>1
  <2>2. /\ IsFiniteSet(1 .. k - 1)
        /\ Cardinality(1 .. k - 1) = IF 1 > k - 1 THEN 0 ELSE (k - 1) - 1 + 1
    BY <2>1, FS_Interval, Zenon
  <2>3. QED BY <1>1, <2>2
<1> HIDE DEF B
<1>11. Cardinality(B) = k - 1
  BY <1>9, <1>10, FS_Bijection
<1>12. QED BY <1>11 DEF B
=============================================================================

------------------------ MODULE ResultServiceProofs ------------------------
(***************************************************************************)
(* Proofs about ResultService, for any users, threads and match results:   *)
(* types, RatedExactlyOnce, ZeroSum and the pages of the leaderboard.      *)
(***************************************************************************)
EXTENDS ResultService, SetInduction

---------------------------------------------------------------------------
(* MapThenSumSet adds the ratings up in an order that it chooses: Total is *)
(* a sum of SetInduction.                                                  *)
Total(f, S) == MapThenSumSet(LAMBDA u : f[u].rating, S)

RatingsOf(f, S) == [u \in S |-> f[u].rating]

Rational(f, S) == \A u \in S : f[u].rating \in Int

LEMMA TotalIsSum ==
    ASSUME NEW f, NEW S, IsFiniteSet(S), Rational(f, S)
    PROVE  \E g : Sums(g, RatingsOf(f, S), S) /\ Total(f, S) = g[S]
<1> DEFINE Adds(g) == g = [s \in SUBSET S |-> IF s = {} THEN 0 ELSE f[One(s)].rating + g[s \ {One(s)}]]
           h == CHOOSE g : Adds(g)
<1>1. \A s \in SUBSET S : s # {} => RatingsOf(f, S)[One(s)] = f[One(s)].rating
  BY DEF RatingsOf, One
<1>2. \A g : Adds(g) <=> Sums(g, RatingsOf(f, S), S)
  BY <1>1 DEF Sums
<1>3. \E g : Sums(g, RatingsOf(f, S), S)
  <2>1. \A u \in S : RatingsOf(f, S)[u] \in Int
    BY DEF RatingsOf, Rational
  <2>2. QED BY <2>1, SumsExist
<1>4. Adds(h)
  <2>1. \E g : Adds(g)
    BY <1>2, <1>3
  <2> HIDE DEF Adds
  <2>2. QED BY <2>1
<1>5. Total(f, S) = h[S]
  BY DEF Total, MapThenSumSet, MapThenFoldSet, One
<1> HIDE DEF Adds, h
<1>6. QED BY <1>2, <1>4, <1>5

LEMMA TotalEmpty == \A f : Total(f, {}) = 0
<1> SUFFICES ASSUME NEW f PROVE Total(f, {}) = 0
  OBVIOUS
<1>1. Rational(f, {}) /\ IsFiniteSet({})
  BY FS_EmptySet DEF Rational
<1>2. PICK g : Sums(g, RatingsOf(f, {}), {}) /\ Total(f, {}) = g[{}]
  BY <1>1, TotalIsSum
<1>3. QED BY <1>2 DEF Sums

LEMMA TotalAgrees ==
    ASSUME NEW f, NEW e, NEW S, IsFiniteSet(S), Rational(f, S),
           \A u \in S : e[u].rating = f[u].rating
    PROVE  Total(e, S) = Total(f, S)
<1>1. Rational(e, S) /\ S \in SUBSET S
  BY DEF Rational
<1>2. PICK g : Sums(g, RatingsOf(f, S), S) /\ Total(f, S) = g[S]
  BY TotalIsSum
<1>3. PICK h : Sums(h, RatingsOf(e, S), S) /\ Total(e, S) = h[S]
  BY <1>1, TotalIsSum
<1>4. /\ \A u \in S : RatingsOf(f, S)[u] \in Int
      /\ \A u \in S : RatingsOf(e, S)[u] = RatingsOf(f, S)[u]
  BY DEF RatingsOf, Rational
<1>5. g[S] = h[S]
  BY <1>1, <1>2, <1>3, <1>4, SumsAgree
<1>6. QED BY <1>2, <1>3, <1>5

LEMMA TotalTakes ==
    ASSUME NEW f, NEW S, IsFiniteSet(S), Rational(f, S), NEW x \in S
    PROVE  /\ Total(f, S \ {x}) \in Int
           /\ Total(f, S) = f[x].rating + Total(f, S \ {x})
<1> DEFINE T == S \ {x}
<1>1. T \in SUBSET S /\ IsFiniteSet(T) /\ Rational(f, T)
  BY FS_Subset DEF Rational
<1>2. PICK g : Sums(g, RatingsOf(f, S), S) /\ Total(f, S) = g[S]
  BY TotalIsSum
<1> HIDE DEF T
<1>3. PICK h : Sums(h, RatingsOf(f, T), T) /\ Total(f, T) = h[T]
  BY <1>1, TotalIsSum
<1>4. /\ \A u \in S : RatingsOf(f, S)[u] \in Int
      /\ \A u \in T : RatingsOf(f, T)[u] = RatingsOf(f, S)[u]
      /\ RatingsOf(f, S)[x] = f[x].rating
  BY <1>1 DEF RatingsOf, Rational
<1>5. g[T] = h[T]
  BY <1>1, <1>2, <1>3, <1>4, SumsAgree
<1>6. TakesAny(g, RatingsOf(f, S), S)
  BY <1>2, <1>4, SumTakes
<1>7. g[S] = f[x].rating + g[T] /\ g[T] \in Int
  BY <1>1, <1>4, <1>6 DEF TakesAny, T
<1>8. QED BY <1>2, <1>3, <1>5, <1>7 DEF T

---------------------------------------------------------------------------
(* The thresholds are symmetric about -1/2, so that what one player is     *)
(* expected to gain the other is expected not to.                          *)
LEMMA EloIsSymmetric ==
    /\ DOMAIN EloThreshold = 1 .. 32
    /\ \A k \in 1 .. 32 : /\ EloThreshold[k] \in Int
                          /\ EloThreshold[33 - k] = -EloThreshold[k] - 1
<1>1. DOMAIN EloThreshold = 1 .. 32
  BY DEF EloThreshold
<1>2. /\ EloThreshold[1] = 719 /\ EloThreshold[2] = 523 /\ EloThreshold[3] = 428 /\ EloThreshold[4] = 364
       /\ EloThreshold[5] = 314 /\ EloThreshold[6] = 273 /\ EloThreshold[7] = 237 /\ EloThreshold[8] = 205
       /\ EloThreshold[9] = 176 /\ EloThreshold[10] = 149 /\ EloThreshold[11] = 124 /\ EloThreshold[12] = 100
       /\ EloThreshold[13] = 77 /\ EloThreshold[14] = 54 /\ EloThreshold[15] = 32 /\ EloThreshold[16] = 10
       /\ EloThreshold[17] = -11 /\ EloThreshold[18] = -33 /\ EloThreshold[19] = -55 /\ EloThreshold[20] = -78
       /\ EloThreshold[21] = -101 /\ EloThreshold[22] = -125 /\ EloThreshold[23] = -150 /\ EloThreshold[24] = -177
       /\ EloThreshold[25] = -206 /\ EloThreshold[26] = -238 /\ EloThreshold[27] = -274 /\ EloThreshold[28] = -315
       /\ EloThreshold[29] = -365 /\ EloThreshold[30] = -429 /\ EloThreshold[31] = -524 /\ EloThreshold[32] = -720
  BY DEF EloThreshold
<1> SUFFICES ASSUME NEW k \in 1 .. 32
             PROVE  EloThreshold[k] \in Int /\ EloThreshold[33 - k] = -EloThreshold[k] - 1
  BY <1>1
<1>3. \/ k = 1 \/ k = 2 \/ k = 3 \/ k = 4 \/ k = 5 \/ k = 6 \/ k = 7 \/ k = 8
       \/ k = 9 \/ k = 10 \/ k = 11 \/ k = 12 \/ k = 13 \/ k = 14 \/ k = 15 \/ k = 16
       \/ k = 17 \/ k = 18 \/ k = 19 \/ k = 20 \/ k = 21 \/ k = 22 \/ k = 23 \/ k = 24
       \/ k = 25 \/ k = 26 \/ k = 27 \/ k = 28 \/ k = 29 \/ k = 30 \/ k = 31 \/ k = 32
  OBVIOUS
<1>4. QED BY <1>2, <1>3

LEMMA ExpectationsSumUp ==
    \A a, b \in Int : /\ ExpectedScore(a, b) \in Nat
                      /\ ExpectedScore(a, b) + ExpectedScore(b, a) = KFactor
<1> SUFFICES ASSUME NEW a \in Int, NEW b \in Int
             PROVE  /\ ExpectedScore(a, b) \in Nat
                    /\ ExpectedScore(a, b) + ExpectedScore(b, a) = KFactor
  OBVIOUS
<1> DEFINE A == {k \in 1 .. 32 : b - a <= EloThreshold[k]}
           B == {k \in 1 .. 32 : a - b <= EloThreshold[k]}
           f == [k \in B |-> 33 - k]
<1>1. ExpectedScore(a, b) = Cardinality(A) /\ ExpectedScore(b, a) = Cardinality(B)
  BY EloIsSymmetric DEF ExpectedScore
<1>2. IsFiniteSet(1 .. 32) /\ Cardinality(1 .. 32) = 32
  <2>1. 1 \in Int /\ 32 \in Int
    OBVIOUS
  <2>2. IsFiniteSet(1 .. 32) /\ Cardinality(1 .. 32) = IF 1 > 32 THEN 0 ELSE 32 - 1 + 1
    BY <2>1, FS_Interval, Zenon
  <2>3. QED BY <2>2
<1>3. A \subseteq 1 .. 32 /\ B \subseteq 1 .. 32
  OBVIOUS
<1>4. IsFiniteSet(A) /\ IsFiniteSet(B) /\ Cardinality(A) \in Nat /\ Cardinality(B) \in Nat
  BY <1>2, <1>3, FS_Subset, FS_CardinalityType
<1>5. \A k \in 1 .. 32 : k \in B <=> 33 - k \notin A
  <2> SUFFICES ASSUME NEW k \in 1 .. 32
               PROVE  k \in B <=> 33 - k \notin A
    OBVIOUS
  <2>1. EloThreshold[k] \in Int /\ EloThreshold[33 - k] = -EloThreshold[k] - 1
    BY EloIsSymmetric
  <2>2. 33 - k \in 1 .. 32
    OBVIOUS
  <2>3. a - b <= EloThreshold[k] <=> ~(b - a <= -EloThreshold[k] - 1)
    BY <2>1
  <2>4. QED BY <2>1, <2>2, <2>3
<1>6. f \in Bijection(B, (1 .. 32) \ A)
  <2> HIDE DEF A, B
  <2>1. f \in [B -> (1 .. 32) \ A]
    BY <1>3, <1>5
  <2>2. \A k, m \in B : f[k] = f[m] => k = m
    BY <1>3
  <2>3. \A k \in (1 .. 32) \ A : \E m \in B : f[m] = k
    <3> SUFFICES ASSUME NEW k \in (1 .. 32) \ A
                 PROVE  33 - k \in B /\ f[33 - k] = k
      OBVIOUS
    <3>1. 33 - k \in 1 .. 32 /\ 33 - (33 - k) = k
      OBVIOUS
    <3>2. 33 - k \in B
      BY <1>5, <3>1
    <3>3. QED BY <3>1, <3>2
  <2> HIDE DEF f
  <2>4. QED BY <2>1, <2>2, <2>3 DEF Bijection, Injection, Surjection, IsInjective
<1> HIDE DEF A, B, f
<1>7. Cardinality(B) = Cardinality((1 .. 32) \ A)
  <2>1. ExistsBijection(B, (1 .. 32) \ A)
    BY <1>6 DEF ExistsBijection
  <2>2. QED BY <1>4, <2>1, FS_Bijection
<1>8. Cardinality((1 .. 32) \ A) = 32 - Cardinality(A)
  <2>1. Cardinality((1 .. 32) \ A) = Cardinality(1 .. 32) - Cardinality((1 .. 32) \cap A)
    BY <1>2, FS_Difference
  <2>2. (1 .. 32) \cap A = A
    BY <1>3
  <2>3. QED BY <1>2, <2>1, <2>2
<1>9. QED BY <1>1, <1>4, <1>7, <1>8 DEF KFactor

---------------------------------------------------------------------------
(* What the operations of RatingService do to its entries.                 *)
Entries == [rating : Int, wins : Nat, losses : Nat]

EntriesTyped(e) ==
    /\ IsFiniteSet(DOMAIN e)
    /\ DOMAIN e \subseteq Users
    /\ \A u \in DOMAIN e : e[u] \in Entries

Balanced(e) == Total(e, DOMAIN e) = InitialRating * Cardinality(DOMAIN e)

LEMMA NewEntryTyped == NewEntry \in Entries /\ InitialRating \in Int
BY DEF NewEntry, Entries, InitialRating

LEMMA EnsureUserKeeps ==
    ASSUME NEW e, EntriesTyped(e), NEW u \in Users
    PROVE  /\ EntriesTyped(EnsureUser(e, u))
           /\ DOMAIN EnsureUser(e, u) = DOMAIN e \cup {u}
           /\ \A v \in Users : GetSummary(EnsureUser(e, u), v) = GetSummary(e, v)
           /\ Balanced(e) => Balanced(EnsureUser(e, u))
<1> DEFINE k == EnsureUser(e, u)
           D == DOMAIN e
<1>1. DOMAIN k = D \cup {u} /\ \A v \in D \cup {u} : k[v] = IF v \in D THEN e[v] ELSE NewEntry
  BY DEF EnsureUser
<1> HIDE DEF k
<1>2. EntriesTyped(k)
  <2>1. IsFiniteSet(D \cup {u})
    BY FS_AddElement DEF EntriesTyped
  <2>2. QED BY <1>1, <2>1, NewEntryTyped DEF EntriesTyped
<1>3. \A v \in Users : GetSummary(k, v) = GetSummary(e, v)
  BY <1>1 DEF GetSummary
<1>4. ASSUME Balanced(e) PROVE Balanced(k)
  <2>1. CASE u \in D
    <3>1. DOMAIN k = D
      BY <1>1, <2>1
    <3>2. Rational(e, D) /\ \A v \in D : k[v].rating = e[v].rating
      BY <1>1 DEF Rational, EntriesTyped, Entries
    <3>3. Total(k, D) = Total(e, D)
      BY <3>2, TotalAgrees DEF EntriesTyped
    <3>4. QED BY <1>4, <3>1, <3>3 DEF Balanced
  <2>2. CASE u \notin D
    <3> DEFINE E == D \cup {u}
    <3>1. IsFiniteSet(D) /\ IsFiniteSet(E) /\ u \in E
      BY FS_AddElement DEF EntriesTyped
    <3>2. Rational(e, D) /\ Rational(k, E) /\ \A v \in D : k[v].rating = e[v].rating
      BY <1>1, <1>2 DEF Rational, EntriesTyped, Entries
    <3>3. E \ {u} = D
      BY <2>2
    <3>4. Total(k, D) = Total(e, D)
      BY <3>1, <3>2, TotalAgrees
    <3> HIDE DEF E
    <3>5. Total(k, E \ {u}) \in Int /\ Total(k, E) = k[u].rating + Total(k, E \ {u})
      BY <3>1, <3>2, TotalTakes
    <3>6. k[u].rating = InitialRating
      BY <1>1, <2>2 DEF NewEntry
    <3>7. Cardinality(D) \in Nat /\ Cardinality(E) = Cardinality(D) + 1
      <4>1. Cardinality(D) \in Nat
        BY <3>1, FS_CardinalityType
      <4>2. QED BY <2>2, <3>1, <4>1, FS_AddElement DEF E
    <3>8. Total(k, E) = 1000 + 1000 * Cardinality(D)
      BY <1>4, <3>3, <3>4, <3>5, <3>6 DEF Balanced, InitialRating
    <3>9. Total(k, E) = 1000 * Cardinality(E)
      BY <3>7, <3>8
    <3>10. QED BY <1>1, <3>9 DEF Balanced, InitialRating, E
  <2>3. QED BY <2>1, <2>2
<1>5. QED BY <1>1, <1>2, <1>3, <1>4 DEF k

LEMMA EntryChanges ==
    ASSUME NEW x \in Entries, NEW n \in Int
    PROVE  /\ Won(x, n) = [rating |-> x.rating + (32 - n), wins |-> x.wins + 1, losses |-> x.losses]
           /\ Lost(x, n) = [rating |-> x.rating + (0 - n), wins |-> x.wins, losses |-> x.losses + 1]
<1> DEFINE y == Won(x, n)
           z == Lost(x, n)
<1>1. y = Won(x, n) /\ z = Lost(x, n)
  OBVIOUS
<1>2. ApplyElo(x.rating, n, 1) = x.rating + (32 - n) /\ ApplyElo(x.rating, n, 0) = x.rating + (0 - n)
  BY DEF ApplyElo, KFactor, Entries
<1> HIDE DEF y, z
<1>3. y = [rating |-> ApplyElo(x.rating, n, 1), wins |-> x.wins + 1, losses |-> x.losses]
  BY <1>1 DEF Won, Entries
<1>4. z = [rating |-> ApplyElo(x.rating, n, 0), wins |-> x.wins, losses |-> x.losses + 1]
  BY <1>1 DEF Lost, Entries
<1>5. QED BY <1>1, <1>2, <1>3, <1>4

(* The winner gains what the loser loses.                                  *)
LEMMA MatchResultKeeps ==
    ASSUME NEW e, EntriesTyped(e), NEW w \in Users, NEW l \in Users, w # l
    PROVE  /\ EntriesTyped(ApplyMatchResult(e, w, l))
           /\ \A v \in Users :
                 /\ GetSummary(ApplyMatchResult(e, w, l), v).wins
                      = GetSummary(e, v).wins + IF v = w THEN 1 ELSE 0
                 /\ GetSummary(ApplyMatchResult(e, w, l), v).losses
                      = GetSummary(e, v).losses + IF v = l THEN 1 ELSE 0
           /\ Balanced(e) => Balanced(ApplyMatchResult(e, w, l))
<1> DEFINE k  == EnsureUser(EnsureUser(e, w), l)
           D  == DOMAIN k
           xw == ExpectedScore(k[w].rating, k[l].rating)
           xl == ExpectedScore(k[l].rating, k[w].rating)
           r  == ApplyMatchResult(e, w, l)
<1>1. /\ EntriesTyped(k) /\ w \in D /\ l \in D
      /\ \A v \in Users : GetSummary(k, v) = GetSummary(e, v)
      /\ Balanced(e) => Balanced(k)
  <2>1. /\ EntriesTyped(EnsureUser(e, w)) /\ w \in DOMAIN EnsureUser(e, w)
        /\ \A v \in Users : GetSummary(EnsureUser(e, w), v) = GetSummary(e, v)
        /\ Balanced(e) => Balanced(EnsureUser(e, w))
    BY EnsureUserKeeps
  <2>2. /\ EntriesTyped(k) /\ D = DOMAIN EnsureUser(e, w) \cup {l}
        /\ \A v \in Users : GetSummary(k, v) = GetSummary(EnsureUser(e, w), v)
        /\ Balanced(EnsureUser(e, w)) => Balanced(k)
    BY <2>1, EnsureUserKeeps
  <2>3. QED BY <2>1, <2>2
<1>2. r = [k EXCEPT ![w] = Won(@, xw), ![l] = Lost(@, xl)]
  BY DEF ApplyMatchResult
<1>3. D \subseteq Users /\ IsFiniteSet(D) /\ \A v \in D : k[v] \in Entries
  BY <1>1 DEF EntriesTyped
<1>4. xw \in Nat /\ xl \in Nat /\ xw + xl = 32
  BY <1>1, <1>3, ExpectationsSumUp DEF Entries, KFactor
<1> HIDE DEF k, xw, xl, r
<1>5. DOMAIN r = D /\ r[w] = Won(k[w], xw) /\ r[l] = Lost(k[l], xl) /\ \A v \in D \ {w, l} : r[v] = k[v]
  BY <1>1, <1>2
<1>6. /\ r[w] = [rating |-> k[w].rating + (32 - xw), wins |-> k[w].wins + 1, losses |-> k[w].losses]
      /\ r[l] = [rating |-> k[l].rating + (0 - xl), wins |-> k[l].wins, losses |-> k[l].losses + 1]
  BY <1>1, <1>3, <1>4, <1>5, EntryChanges
<1>7. EntriesTyped(r)
  <2>1. r[w] \in Entries /\ r[l] \in Entries
    BY <1>1, <1>3, <1>4, <1>6 DEF Entries
  <2>2. QED BY <1>3, <1>5, <2>1 DEF EntriesTyped
<1>8. \A v \in Users : /\ GetSummary(r, v).wins = GetSummary(k, v).wins + IF v = w THEN 1 ELSE 0
                       /\ GetSummary(r, v).losses = GetSummary(k, v).losses + IF v = l THEN 1 ELSE 0
  <2> SUFFICES ASSUME NEW v \in Users
               PROVE  /\ GetSummary(r, v).wins = GetSummary(k, v).wins + IF v = w THEN 1 ELSE 0
                      /\ GetSummary(r, v).losses = GetSummary(k, v).losses + IF v = l THEN 1 ELSE 0
    OBVIOUS
  <2>1. GetSummary(k, v) \in Entries
    BY <1>3, NewEntryTyped DEF GetSummary
  <2>2. CASE v \in {w, l}
    BY <1>1, <1>3, <1>5, <1>6, <2>1, <2>2 DEF GetSummary, Entries
  <2>3. CASE v \notin {w, l}
    BY <1>5, <2>1, <2>3 DEF GetSummary, Entries
  <2>4. QED BY <2>2, <2>3
<1>9. ASSUME Balanced(k) PROVE Balanced(r)
  <2> DEFINE R == (D \ {w}) \ {l}
  <2>1. Rational(k, D) /\ Rational(r, D) /\ Rational(k, D \ {w}) /\ Rational(r, D \ {w})
    BY <1>3, <1>5, <1>7 DEF Rational, EntriesTyped, Entries
  <2>2. IsFiniteSet(D \ {w}) /\ l \in D \ {w} /\ IsFiniteSet(R)
    BY <1>1, <1>3, FS_Subset
  <2>3. Total(k, D) = k[w].rating + Total(k, D \ {w}) /\ Total(r, D) = r[w].rating + Total(r, D \ {w})
    BY <1>1, <1>3, <2>1, TotalTakes
  <2>4. /\ Total(k, D \ {w}) = k[l].rating + Total(k, R) /\ Total(k, R) \in Int
        /\ Total(r, D \ {w}) = r[l].rating + Total(r, R)
    BY <2>1, <2>2, TotalTakes
  <2>5. Total(r, R) = Total(k, R)
    <3>1. Rational(k, R) /\ \A v \in R : r[v].rating = k[v].rating
      BY <1>5, <2>1 DEF Rational
    <3>2. QED BY <2>2, <3>1, TotalAgrees
  <2>6. k[w].rating \in Int /\ k[l].rating \in Int
    BY <1>1, <1>3 DEF Entries
  <2>7. r[w].rating = k[w].rating + (32 - xw) /\ r[l].rating = k[l].rating + (0 - xl)
    BY <1>6
  <2>8. Total(r, D) = Total(k, D)
    BY <1>4, <2>3, <2>4, <2>5, <2>6, <2>7
  <2>9. QED BY <1>5, <1>9, <2>8 DEF Balanced
<1>10. QED BY <1>1, <1>7, <1>8, <1>9 DEF r

---------------------------------------------------------------------------
(* The invariant.  A call that is past Save has stored its result, and no  *)
(* other call has the same one: two results in the hands of two calls are  *)
(* rated one by one, each once.                                            *)
CallStates ==
    {Idle} \cup [pc : {"save"}, record : Matches]
           \cup [pc : {"ensure"}, record : Matches, todo : Seq(Users)]

StoresTyped ==
    /\ IsFiniteSet(DOMAIN records_)
    /\ \A s \in DOMAIN records_ : records_[s] \in Matches /\ records_[s].session_id = s
    /\ EntriesTyped(entries_)
    /\ call \in [Callers -> CallStates]

CallsStored ==
    \A c \in Callers : call[c].pc = "ensure" =>
        /\ call[c].record.session_id \in DOMAIN records_
        /\ records_[call[c].record.session_id] = call[c].record

CallsDiffer ==
    \A c, d \in Callers :
        /\ call[c].pc = "ensure" /\ call[d].pc = "ensure"
        /\ call[c].record.session_id = call[d].record.session_id
        => c = d

RatedInv ==
    StoresTyped /\ CallsStored /\ CallsDiffer /\ RatedExactlyOnce /\ Balanced(entries_)

Stay == \A u \in Users : GetSummary(entries_', u) = GetSummary(entries_, u)

LEMMA RatedStays ==
    ASSUME RatedExactlyOnce, Rated' = Rated, \A s \in Rated : records_'[s] = records_[s], Stay
    PROVE  RatedExactlyOnce'
<1> SUFFICES ASSUME NEW u \in Users
             PROVE  /\ GetSummary(entries_', u).wins = Cardinality({s \in Rated' : records_'[s].winner_user_id = u})
                    /\ GetSummary(entries_', u).losses = Cardinality({s \in Rated' : LoserId(records_'[s]) = u})
  BY DEF RatedExactlyOnce
<1>1. {s \in Rated' : records_'[s].winner_user_id = u} = {s \in Rated : records_[s].winner_user_id = u}
  OBVIOUS
<1>2. {s \in Rated' : LoserId(records_'[s]) = u} = {s \in Rated : LoserId(records_[s]) = u}
  OBVIOUS
<1>3. QED BY <1>1, <1>2 DEF RatedExactlyOnce, Stay

LEMMA IdleCall == Idle.pc = "idle" /\ Idle \in CallStates
BY DEF Idle, CallStates

LEMMA InvInit == ResultInit => RatedInv
<1> SUFFICES ASSUME ResultInit PROVE RatedInv
  OBVIOUS
<1>1. DOMAIN records_ = {} /\ DOMAIN entries_ = {} /\ \A c \in Callers : call[c] = Idle
  BY DEF ResultInit
<1>2. StoresTyped
  BY <1>1, FS_EmptySet, IdleCall DEF ResultInit, StoresTyped, EntriesTyped
<1>3. CallsStored /\ CallsDiffer
  BY <1>1, IdleCall DEF CallsStored, CallsDiffer
<1>4. RatedExactlyOnce
  <2> SUFFICES ASSUME NEW u \in Users
               PROVE  /\ GetSummary(entries_, u).wins = Cardinality({s \in Rated : records_[s].winner_user_id = u})
                      /\ GetSummary(entries_, u).losses = Cardinality({s \in Rated : LoserId(records_[s]) = u})
    BY DEF RatedExactlyOnce
  <2>1. {s \in Rated : records_[s].winner_user_id = u} = {} /\ {s \in Rated : LoserId(records_[s]) = u} = {}
    BY <1>1 DEF Rated
  <2>2. GetSummary(entries_, u) = NewEntry
    BY <1>1 DEF GetSummary
  <2>3. QED BY <2>1, <2>2, FS_EmptySet DEF NewEntry
<1>5. Balanced(entries_)
  <2>1. Total(entries_, {}) = 0 /\ Cardinality({}) = 0
    BY TotalEmpty, FS_EmptySet
  <2>2. Total(entries_, DOMAIN entries_) = InitialRating * Cardinality(DOMAIN entries_)
    BY <1>1, <2>1 DEF InitialRating
  <2>3. QED BY <2>2 DEF Balanced
<1>6. QED BY <1>2, <1>3, <1>4, <1>5 DEF RatedInv

(* Only Save and Rate change which results are rated and which are being   *)
(* rated; the calls of the other threads go on as they were.               *)
LEMMA FinalizeKeeps ==
    ASSUME RatedInv, NEW c \in Callers, NEW m \in Matches, FinalizeResult(c, m)
    PROVE  RatedInv'
<1> USE DEF RatedInv
<1>1. call' = [call EXCEPT ![c] = [pc |-> "save", record |-> m]] /\ UNCHANGED <<records_, entries_>>
  BY DEF FinalizeResult
<1>2. call[c].pc = "idle" /\ [pc |-> "save", record |-> m] \in CallStates
  BY IdleCall DEF FinalizeResult, CallStates
<1>3. \A d \in Callers : call'[d] = IF d = c THEN [pc |-> "save", record |-> m] ELSE call[d]
  BY <1>1 DEF StoresTyped
<1>4. StoresTyped'
  BY <1>1, <1>2 DEF StoresTyped
<1>5. \A d \in Callers : call'[d].pc = "ensure" => d # c /\ call'[d] = call[d]
  BY <1>3
<1>6. CallsStored' /\ CallsDiffer'
  BY <1>1, <1>5 DEF CallsStored, CallsDiffer
<1>7. \A s : BeingRated(s)' <=> BeingRated(s)
  BY <1>2, <1>3 DEF BeingRated
<1>8. RatedExactlyOnce'
  BY <1>1, <1>7, RatedStays DEF Rated, Stay
<1>9. Balanced(entries_)'
  BY <1>1
<1>10. QED BY <1>4, <1>6, <1>8, <1>9

LEMMA SaveKeeps ==
    ASSUME RatedInv, NEW c \in Callers, Save(c)
    PROVE  RatedInv'
<1> USE DEF RatedInv
<1> DEFINE m == call[c].record
           id == m.session_id
           next == [pc |-> "ensure", record |-> m,
                    todo |-> <<m.user1_id, m.user2_id, m.user1_id, m.user2_id>>]
<1>1. /\ call[c].pc = "save"
      /\ records_' = SaveIfAbsent(records_, id, m)
      /\ call' = [call EXCEPT ![c] = IF id \in DOMAIN records_ THEN Idle ELSE next]
      /\ entries_' = entries_
  BY DEF Save
<1>2. m \in Matches /\ next \in CallStates
  <2>1. m \in Matches
    BY <1>1, IdleCall DEF StoresTyped, CallStates
  <2>2. m.user1_id \in Users /\ m.user2_id \in Users
    BY <2>1, ResultServiceConstants
  <2>3. QED BY <2>1, <2>2 DEF CallStates
<1>3. next.pc = "ensure" /\ next.record = m
  OBVIOUS
<1> HIDE DEF m, next
<1>4. call \in [Callers -> CallStates] /\ IsFiniteSet(DOMAIN records_)
  BY DEF StoresTyped
<1>5. Balanced(entries_)'
  BY <1>1
<1>6. CASE id \in DOMAIN records_
  <2>1. \A s \in DOMAIN records_ : records_'[s] = records_[s]
    BY <1>1 DEF SaveIfAbsent
  <2>2. DOMAIN records_' = DOMAIN records_
    BY <1>1, <1>6 DEF SaveIfAbsent
  <2>3. \A d \in Callers : call'[d] = IF d = c THEN Idle ELSE call[d]
    BY <1>1, <1>4, <1>6
  <2>4. call' \in [Callers -> CallStates]
    BY <1>1, <1>4, <1>6, IdleCall
  <2>5. StoresTyped'
    BY <1>1, <2>1, <2>2, <2>4 DEF StoresTyped
  <2>6. \A d \in Callers : call'[d].pc = "ensure" => d # c /\ call'[d] = call[d]
    BY <2>3, IdleCall
  <2>7. CallsStored' /\ CallsDiffer'
    BY <2>1, <2>2, <2>6 DEF CallsStored, CallsDiffer
  <2>8. \A s : BeingRated(s)' <=> BeingRated(s)
    BY <1>1, <2>3, <2>6 DEF BeingRated
  <2>9. Rated' = Rated /\ \A s \in Rated : records_'[s] = records_[s]
    BY <2>1, <2>2, <2>8 DEF Rated
  <2>10. RatedExactlyOnce'
    BY <1>1, <2>9, RatedStays DEF Stay
  <2>11. QED BY <1>5, <2>5, <2>7, <2>10
<1>7. CASE id \notin DOMAIN records_
  <2>1. /\ DOMAIN records_' = DOMAIN records_ \cup {id} /\ records_'[id] = m
        /\ \A s \in DOMAIN records_ : records_'[s] = records_[s]
    BY <1>1, <1>7 DEF SaveIfAbsent
  <2>2. \A d \in Callers : call'[d] = IF d = c THEN next ELSE call[d]
    BY <1>1, <1>4, <1>7
  <2>3. call' \in [Callers -> CallStates]
    BY <1>1, <1>2, <1>4, <1>7
  <2>4. StoresTyped'
    <3>1. IsFiniteSet(DOMAIN records_')
      BY <1>4, <2>1, FS_AddElement
    <3>2. EntriesTyped(entries_')
      BY <1>1 DEF StoresTyped
    <3>3. \A s \in DOMAIN records_' : records_'[s] \in Matches /\ records_'[s].session_id = s
      BY <1>2, <2>1 DEF StoresTyped
    <3>4. QED BY <2>3, <3>1, <3>2, <3>3 DEF StoresTyped
  <2>5. \A d \in Callers \ {c} : call'[d] = call[d] /\ (call[d].pc = "ensure" => call[d].record.session_id # id)
    BY <1>7, <2>2 DEF CallsStored
  <2>6. call'[c].pc = "ensure" /\ call'[c].record = m
    BY <1>3, <2>2
  <2>7. CallsStored'
    BY <2>1, <2>5, <2>6 DEF CallsStored
  <2>8. CallsDiffer'
    BY <2>5, <2>6 DEF CallsDiffer
  <2>9. \A s \in DOMAIN records_ : BeingRated(s)' <=> BeingRated(s)
    BY <1>1, <1>7, <2>5, <2>6 DEF BeingRated
  <2>10. \A s : s = id => BeingRated(s)'
    BY <2>6 DEF BeingRated
  <2>11. Rated' = Rated /\ \A s \in Rated : records_'[s] = records_[s]
    BY <2>1, <2>9, <2>10 DEF Rated
  <2>12. RatedExactlyOnce'
    BY <1>1, <2>11, RatedStays DEF Stay
  <2>13. QED BY <1>5, <2>4, <2>7, <2>8, <2>12
<1>8. QED BY <1>6, <1>7

LEMMA EnsureKeeps ==
    ASSUME RatedInv, NEW c \in Callers, Ensure(c)
    PROVE  RatedInv'
<1> USE DEF RatedInv
<1> DEFINE u == Head(call[c].todo)
           next == [call[c] EXCEPT !.todo = Tail(@)]
<1>1. /\ call[c].pc = "ensure" /\ call[c].todo # <<>>
      /\ entries_' = EnsureUser(entries_, u)
      /\ call' = [call EXCEPT ![c] = next]
      /\ records_' = records_
  BY DEF Ensure
<1>2. call \in [Callers -> CallStates] /\ EntriesTyped(entries_)
  BY DEF StoresTyped
<1>3. call[c] \in [pc : {"ensure"}, record : Matches, todo : Seq(Users)]
  BY <1>1, <1>2, IdleCall DEF CallStates
<1>4. u \in Users /\ Tail(call[c].todo) \in Seq(Users)
  <2>1. call[c].todo \in Seq(Users)
    BY <1>3
  <2>2. QED BY <1>1, <2>1
<1>5. next \in CallStates /\ next.pc = "ensure" /\ next.record = call[c].record
  <2>0. next = [call[c] EXCEPT !.todo = Tail(@)]
    OBVIOUS
  <2> HIDE DEF next
  <2>1. next = [pc |-> "ensure", record |-> call[c].record, todo |-> Tail(call[c].todo)]
    BY <1>3, <2>0
  <2>2. QED BY <1>3, <1>4, <2>1 DEF CallStates
<1> HIDE DEF u, next
<1>6. \A d \in Callers : call'[d].pc = call[d].pc /\ (call[d].pc = "ensure" => call'[d].record = call[d].record)
  BY <1>1, <1>2, <1>5
<1>7. EntriesTyped(entries_') /\ Balanced(entries_') /\ Stay
  BY <1>1, <1>2, <1>4, EnsureUserKeeps DEF Stay
<1>8. call' \in [Callers -> CallStates]
  BY <1>1, <1>2, <1>5
<1>9. StoresTyped'
  BY <1>1, <1>7, <1>8 DEF StoresTyped
<1>10. CallsStored' /\ CallsDiffer'
  BY <1>1, <1>6 DEF CallsStored, CallsDiffer
<1>11. \A s : BeingRated(s)' <=> BeingRated(s)
  BY <1>6 DEF BeingRated
<1>12. Rated' = Rated /\ \A s \in Rated : records_'[s] = records_[s]
  BY <1>1, <1>11 DEF Rated
<1>13. RatedExactlyOnce'
  BY <1>7, <1>12, RatedStays
<1>14. QED BY <1>7, <1>9, <1>10, <1>13

LEMMA RateKeeps ==
    ASSUME RatedInv, NEW c \in Callers, Rate(c)
    PROVE  RatedInv'
<1> USE DEF RatedInv
<1>0. PICK m : m = call[c].record
  OBVIOUS
<1>1. PICK id : id = m.session_id
  OBVIOUS
<1>2. PICK l : l = LoserId(m)
  OBVIOUS
<1>3. /\ call[c].pc = "ensure"
      /\ entries_' = ApplyMatchResult(entries_, m.winner_user_id, l)
      /\ call' = [call EXCEPT ![c] = Idle]
      /\ records_' = records_
  BY <1>0, <1>2 DEF Rate
<1>4. /\ call \in [Callers -> CallStates] /\ EntriesTyped(entries_)
      /\ IsFiniteSet(DOMAIN records_)
  BY DEF StoresTyped
<1>5. m \in Matches
  BY <1>0, <1>3, <1>4, IdleCall DEF CallStates
<1>6. m.winner_user_id \in Users /\ l \in Users /\ m.winner_user_id # l
  BY <1>2, <1>5, ResultServiceConstants DEF LoserId
<1>7. id \in DOMAIN records_ /\ records_[id] = m
  BY <1>0, <1>1, <1>3 DEF CallsStored
<1>8. /\ EntriesTyped(entries_') /\ Balanced(entries_')
      /\ \A v \in Users :
            /\ GetSummary(entries_', v).wins
                 = GetSummary(entries_, v).wins + IF v = m.winner_user_id THEN 1 ELSE 0
            /\ GetSummary(entries_', v).losses
                 = GetSummary(entries_, v).losses + IF v = l THEN 1 ELSE 0
  BY <1>3, <1>4, <1>6, MatchResultKeeps
<1>9. \A d \in Callers : call'[d] = IF d = c THEN Idle ELSE call[d]
  BY <1>3, <1>4
<1>10. call' \in [Callers -> CallStates]
  BY <1>3, <1>4, IdleCall
<1>11. StoresTyped'
  BY <1>3, <1>8, <1>10 DEF StoresTyped
<1>12. \A d \in Callers : call'[d].pc = "ensure" => d # c /\ call'[d] = call[d]
  BY <1>9, IdleCall
<1>13. CallsStored' /\ CallsDiffer'
  BY <1>3, <1>12 DEF CallsStored, CallsDiffer
<1>14. BeingRated(id) /\ \A s : BeingRated(s)' <=> BeingRated(s) /\ s # id
  <2>1. \A d \in Callers : call[d].pc = "ensure" /\ call[d].record.session_id = id => d = c
    BY <1>0, <1>1, <1>3 DEF CallsDiffer
  <2>2. \A d \in Callers \ {c} : call'[d] = call[d]
    BY <1>9
  <2>3. QED BY <1>0, <1>1, <1>3, <1>12, <2>1, <2>2 DEF BeingRated
<1>15. id \notin Rated /\ Rated' = Rated \cup {id} /\ IsFiniteSet(Rated)
  <2>1. IsFiniteSet(Rated)
    BY <1>4, FS_Subset DEF Rated
  <2>2. QED BY <1>3, <1>7, <1>14, <2>1 DEF Rated
<1>16. RatedExactlyOnce'
  <2> SUFFICES ASSUME NEW u \in Users
               PROVE  /\ GetSummary(entries_', u).wins = Cardinality({s \in Rated' : records_'[s].winner_user_id = u})
                      /\ GetSummary(entries_', u).losses = Cardinality({s \in Rated' : LoserId(records_'[s]) = u})
    BY DEF RatedExactlyOnce
  <2> DEFINE Won_ == {s \in Rated : records_[s].winner_user_id = u}
             Lost_ == {s \in Rated : LoserId(records_[s]) = u}
  <2>1. GetSummary(entries_, u).wins = Cardinality(Won_) /\ GetSummary(entries_, u).losses = Cardinality(Lost_)
    BY DEF RatedExactlyOnce
  <2>2. {s \in Rated' : records_'[s].winner_user_id = u} = IF u = m.winner_user_id THEN Won_ \cup {id} ELSE Won_
    BY <1>3, <1>7, <1>15
  <2>3. {s \in Rated' : LoserId(records_'[s]) = u} = IF u = l THEN Lost_ \cup {id} ELSE Lost_
    BY <1>2, <1>3, <1>7, <1>15
  <2>4. IsFiniteSet(Won_) /\ IsFiniteSet(Lost_) /\ id \notin Won_ /\ id \notin Lost_
    BY <1>15, FS_Subset
  <2> HIDE DEF Won_, Lost_
  <2>5. /\ Cardinality(Won_) \in Nat /\ Cardinality(Won_ \cup {id}) = Cardinality(Won_) + 1
        /\ Cardinality(Lost_) \in Nat /\ Cardinality(Lost_ \cup {id}) = Cardinality(Lost_) + 1
    BY <2>4, FS_AddElement, FS_CardinalityType
  <2>6. /\ GetSummary(entries_', u).wins = Cardinality(Won_) + IF u = m.winner_user_id THEN 1 ELSE 0
        /\ GetSummary(entries_', u).losses = Cardinality(Lost_) + IF u = l THEN 1 ELSE 0
    BY <1>8, <2>1
  <2>7. GetSummary(entries_', u).wins = Cardinality({s \in Rated' : records_'[s].winner_user_id = u})
    <3>1. CASE u = m.winner_user_id
      BY <2>2, <2>5, <2>6, <3>1
    <3>2. CASE u # m.winner_user_id
      <4>1. {s \in Rated' : records_'[s].winner_user_id = u} = Won_
        BY <2>2, <3>2
      <4>2. GetSummary(entries_', u).wins = Cardinality(Won_)
        BY <2>5, <2>6, <3>2
      <4>3. QED BY <4>1, <4>2
    <3>3. QED BY <3>1, <3>2
  <2>8. GetSummary(entries_', u).losses = Cardinality({s \in Rated' : LoserId(records_'[s]) = u})
    <3>1. CASE u = l
      BY <2>3, <2>5, <2>6, <3>1
    <3>2. CASE u # l
      <4>1. {s \in Rated' : LoserId(records_'[s]) = u} = Lost_
        BY <2>3, <3>2
      <4>2. GetSummary(entries_', u).losses = Cardinality(Lost_)
        BY <2>5, <2>6, <3>2
      <4>3. QED BY <4>1, <4>2
    <3>3. QED BY <3>1, <3>2
  <2>9. QED BY <2>7, <2>8
<1>17. QED BY <1>8, <1>11, <1>13, <1>16

LEMMA LoginKeeps ==
    ASSUME RatedInv, NEW u \in Users, Login(u)
    PROVE  RatedInv'
<1> USE DEF RatedInv
<1>1. entries_' = EnsureUser(entries_, u) /\ records_' = records_ /\ call' = call
  BY DEF Login
<1>2. EntriesTyped(entries_') /\ Balanced(entries_') /\ Stay
  BY <1>1, EnsureUserKeeps DEF Stay, StoresTyped
<1>3. StoresTyped' /\ CallsStored' /\ CallsDiffer' /\ Rated' = Rated
  BY <1>1, <1>2 DEF StoresTyped, CallsStored, CallsDiffer, Rated, BeingRated
<1>4. RatedExactlyOnce'
  BY <1>1, <1>2, <1>3, RatedStays
<1>5. QED BY <1>2, <1>3, <1>4

LEMMA InvNext == RatedInv /\ [ResultNext]_resultVars => RatedInv'
<1> SUFFICES ASSUME RatedInv, [ResultNext]_resultVars
             PROVE  RatedInv'
  OBVIOUS
<1>1. ASSUME NEW c \in Callers, NEW m \in Matches, FinalizeResult(c, m) PROVE RatedInv'
  BY <1>1, FinalizeKeeps
<1>2. ASSUME NEW c \in Callers, Save(c) PROVE RatedInv'
  BY <1>2, SaveKeeps
<1>3. ASSUME NEW c \in Callers, Ensure(c) PROVE RatedInv'
  BY <1>3, EnsureKeeps
<1>4. ASSUME NEW c \in Callers, Rate(c) PROVE RatedInv'
  BY <1>4, RateKeeps
<1>5. ASSUME NEW u \in Users, Login(u) PROVE RatedInv'
  BY <1>5, LoginKeeps
<1>6. CASE UNCHANGED resultVars
  <2>1. records_' = records_ /\ entries_' = entries_ /\ call' = call
    BY <1>6 DEF resultVars
  <2>2. StoresTyped' /\ CallsStored' /\ CallsDiffer' /\ Rated' = Rated /\ Balanced(entries_)'
    BY <2>1 DEF RatedInv, StoresTyped, CallsStored, CallsDiffer, Rated, BeingRated
  <2>3. RatedExactlyOnce'
    BY <2>1, <2>2, RatedStays DEF RatedInv, Stay
  <2>4. QED BY <2>2, <2>3 DEF RatedInv
<1>7. QED BY <1>1, <1>2, <1>3, <1>4, <1>5, <1>6 DEF ResultNext

---------------------------------------------------------------------------
(* The leaderboard. *)
LEMMA MinOfTwo == \A a, b \in Int : Min({a, b}) = IF a <= b THEN a ELSE b
BY DEF Min

LEMMA MaxOfTwo == \A a, b \in Int : Max({a, b}) = IF a <= b THEN b ELSE a
BY DEF Max

LEMMA SliceEnds ==
    ASSUME NEW start \in Nat, NEW size \in Nat, NEW total \in Nat
    PROVE  /\ start < total =>
                 LET end == Min({start + size, total})
                 IN  /\ end \in Nat /\ end <= total
                     /\ end - start \in Nat /\ end - start <= size
                     /\ end - start = Min({size, Max({total - start, 0})})
           /\ ~(start < total) => Min({size, Max({total - start, 0})}) = 0
<1>1. CASE start < total
  <2>1. Max({total - start, 0}) = total - start /\ total - start \in Int
    BY <1>1, MaxOfTwo
  <2>2. CASE start + size <= total
    <3>1. size <= total - start
      BY <2>2
    <3>2. Min({start + size, total}) = start + size /\ Min({size, total - start}) = size
      BY <2>1, <2>2, <3>1, MinOfTwo
    <3>3. Min({size, Max({total - start, 0})}) = size
      BY <2>1, <3>2
    <3>4. start + size \in Nat /\ (start + size) - start = size /\ size <= size
      OBVIOUS
    <3>5. QED BY <1>1, <2>2, <3>2, <3>3, <3>4
  <2>3. CASE ~(start + size <= total)
    <3>1. ~(size <= total - start)
      BY <2>3
    <3>2. Min({start + size, total}) = total /\ Min({size, total - start}) = total - start
      BY <2>1, <2>3, <3>1, MinOfTwo
    <3>3. QED BY <1>1, <2>1, <2>3, <3>2
  <2>4. QED BY <2>2, <2>3
<1>2. CASE ~(start < total)
  <2>1. Max({total - start, 0}) = 0
    BY <1>2, MaxOfTwo
  <2>2. Min({size, 0}) = 0
    BY MinOfTwo
  <2>3. QED BY <1>2, <2>1, <2>2
<1>3. QED BY <1>1, <1>2

(* What does not reach 2^SizeBits is a size_t as it is. *)
LEMMA SizeTFits ==
    /\ 2 ^ SizeBits \in Nat \ {0}
    /\ \A n \in Nat : n < 2 ^ SizeBits => SizeT(n) = n
    /\ \A n \in Int : SizeT(n) \in Nat /\ SizeT(n) < 2 ^ SizeBits
    /\ \A n \in Nat : SizeT(n) <= n
<1> DEFINE M == 2 ^ SizeBits
<1>1. M \in Nat \ {0} /\ \A n : SizeT(n) = n % M
  BY ResultsConstants DEF SizeT
<1> HIDE DEF M
<1>2. /\ \A n \in Nat : n < M => n % M = n
      /\ \A n \in Int : n % M \in Nat /\ n % M < M
      /\ \A n \in Nat : n % M <= n
  BY <1>1
<1>3. QED BY <1>1, <1>2 DEF M

(* RanksBefore: rating and user id together leave no tie. *)
RankPairs(e) == {p \in (DOMAIN e) \X (DOMAIN e) : RanksBefore(e, p[1], p[2])}

LEMMA RankingLists ==
    ASSUME NEW e, EntriesTyped(e)
    PROVE  /\ StrictOrder(DOMAIN e, RankPairs(e))
           /\ Lists(Ranking(e), DOMAIN e, RankPairs(e))
<1> DEFINE D == DOMAIN e
<1>1. ASSUME NEW u \in D PROVE u \in Int /\ e[u].rating \in Int
  <2>1. u \in Users /\ e[u] \in Entries
    BY DEF EntriesTyped
  <2>2. u \in Int
    BY <2>1, ResultServiceConstants
  <2>3. QED BY <2>1, <2>2 DEF Entries
<1>2. \A u, v \in D : <<u, v>> \in RankPairs(e) <=> RanksBefore(e, u, v)
  BY DEF RankPairs
<1>3. \A u \in D : ~RanksBefore(e, u, u)
  BY <1>1 DEF RanksBefore
<1>4. \A u, v \in D : u = v \/ RanksBefore(e, u, v) \/ RanksBefore(e, v, u)
  BY <1>1 DEF RanksBefore
<1>5. \A u, v, w \in D : RanksBefore(e, u, v) /\ RanksBefore(e, v, w) => RanksBefore(e, u, w)
  BY <1>1 DEF RanksBefore
<1> HIDE DEF D
<1>6. StrictOrder(D, RankPairs(e))
  BY <1>2, <1>3, <1>4, <1>5 DEF StrictOrder
<1>7. Ranking(e) = InOrder(D, RankPairs(e))
  BY DEF Ranking, RankPairs, D
<1>8. Lists(Ranking(e), D, RankPairs(e))
  BY <1>6, <1>7, InOrderLists DEF EntriesTyped, D
<1>9. QED BY <1>6, <1>8 DEF D

(* shown is the ranking after the first start users, up to size entries. *)
Slices(shown, e, start, size) ==
    /\ DOMAIN shown = 1 .. Len(shown)
    /\ Len(shown) = Min({size, Max({Cardinality(DOMAIN e) - start, 0})})
    /\ \A i \in DOMAIN shown :
          /\ i \in 1 .. size /\ start + i \in 1 .. Cardinality(DOMAIN e)
          /\ shown[i] = Ranking(e)[start + i]

(* GetLeaderboard returns it, unless the end of the page wraps around. *)
LEMMA PageIsSlice ==
    ASSUME NEW e, EntriesTyped(e), NEW page \in Nat, NEW size \in Nat,
           NEW start \in Nat, start = (page - 1) * size, start + size < 2 ^ SizeBits
    PROVE  Slices(GetLeaderboard(e, page, size), e, start, size)
<1> DEFINE total == Cardinality(DOMAIN e)
           items == Ranking(e)
           end == Min({start + size, total})
           slice == SubSeq(items, start + 1, end)
           shown == GetLeaderboard(e, page, size)
<1>1. total \in Nat
  BY FS_CardinalityType DEF EntriesTyped
<1>2. DOMAIN items = 1 .. total
  BY RankingLists DEF Lists
<1>3. Len(items) = total
  BY <1>1, <1>2
<1>4. SizeT(start) = start /\ SizeT(start + size) = start + size
  BY SizeTFits
<1>5. shown = IF start < total THEN slice ELSE <<>>
  BY <1>3, <1>4 DEF GetLeaderboard
<1> HIDE DEF items, end, shown, total
<1>7. CASE start < total
  <2>1. end \in Nat /\ end <= total /\ end - start \in Nat /\ end - start <= size
        /\ end - start = Min({size, Max({total - start, 0})})
    BY <1>1, <1>7, SliceEnds DEF end
  <2>2. DOMAIN slice = 1 .. end - start
    BY <1>1, <1>2, <2>1
  <2>3. \A i \in 1 .. end - start : slice[i] = items[start + i]
    BY <1>1, <1>2, <2>1
  <2>4. Len(slice) = end - start
    BY <2>1, <2>2
  <2>5. \A i \in 1 .. end - start : i \in 1 .. size /\ start + i \in 1 .. total
    BY <1>1, <2>1
  <2>6. shown = slice
    BY <1>5, <1>7
  <2> HIDE DEF slice
  <2>7. QED BY <2>1, <2>2, <2>3, <2>4, <2>5, <2>6 DEF Slices, items, shown, total
<1>8. CASE ~(start < total)
  <2>1. shown = <<>>
    BY <1>5, <1>8
  <2>2. Min({size, Max({total - start, 0})}) = 0
    BY <1>1, <1>8, SliceEnds
  <2>3. QED BY <2>1, <2>2 DEF Slices, shown, total
<1>9. QED BY <1>7, <1>8

(* A page whose offset, wrapped around or not, lies behind all users is    *)
(* empty.                                                                  *)
LEMMA PageBehindAll ==
    ASSUME NEW e, EntriesTyped(e), NEW page \in Int, NEW size \in Int,
           SizeT((page - 1) * size) >= Cardinality(DOMAIN e)
    PROVE  GetLeaderboard(e, page, size) = <<>>
<1> DEFINE total == Cardinality(DOMAIN e)
           start == SizeT((page - 1) * size)
<1>1. total \in Nat
  BY FS_CardinalityType DEF EntriesTyped
<1>2. DOMAIN Ranking(e) = 1 .. total
  BY RankingLists DEF Lists
<1>3. Len(Ranking(e)) = total
  BY <1>1, <1>2
<1>4. start \in Nat
  <2>1. (page - 1) * size \in Int
    OBVIOUS
  <2>2. QED BY <2>1, SizeTFits
<1>5. ~(start < Len(Ranking(e)))
  <2> HIDE DEF start
  <2>1. start >= total
    BY DEF start
  <2>2. QED BY <1>1, <1>3, <1>4, <2>1
<1>6. QED BY <1>5 DEF GetLeaderboard

(* No page that is asked for shows the first users again because its       *)
(* offset wraps around size_t: it ends before that, or what is left of the *)
(* offset still lies behind all users.  A size has no minus sign.          *)
OffsetsFit ==
    /\ IsFiniteSet(Users)
    /\ MaxPageSize < 2 ^ SizeBits
    /\ \A size \in PageSizes, page \in Pages :
          InRange(page, size) =>
             LET first == (ParsePositiveInt(page) - 1) * size
             IN  /\ size > 0
                 /\ first + size < 2 ^ SizeBits \/ SizeT(first) >= Cardinality(Users)

LEMMA ParsedNumbers ==
    ASSUME NEW n \in Int
    PROVE  /\ ParsePositiveInt(n) \in Nat
           /\ n \in 1 .. 2 ^ SizeBits - 1 => ParsePositiveInt(n) = n
           /\ n > 0 /\ ParsePositiveInt(n) >= 1 => ParsePositiveInt(n) = n
<1> DEFINE M == 2 ^ SizeBits
<1>1. /\ M \in Nat \ {0} /\ \A k \in Nat : k < M => SizeT(k) = k
      /\ \A k \in Int : SizeT(k) \in Nat
  BY SizeTFits
<1>2. ParsePositiveInt(n) = IF n \in -(M - 1) .. M - 1 THEN SizeT(n) ELSE 0
  BY DEF ParsePositiveInt
<1> HIDE DEF M
<1>3. CASE n \in -(M - 1) .. M - 1
  BY <1>1, <1>2, <1>3 DEF M
<1>4. CASE n \notin -(M - 1) .. M - 1
  <2>1. n \notin 1 .. M - 1 /\ ParsePositiveInt(n) = 0
    BY <1>1, <1>2, <1>4
  <2>2. QED BY <2>1 DEF M
<1>5. QED BY <1>3, <1>4

LEMMA PagesSlice ==
    ASSUME OffsetsFit, EntriesTyped(entries_)
    PROVE  PagesSliceTheRanking
<1> SUFFICES ASSUME NEW size \in PageSizes, NEW page \in Pages
             PROVE  /\ page \in 1 .. 2 ^ SizeBits - 1 /\ size \in 1 .. MaxPageSize => InRange(page, size)
                    /\ InRange(page, size) =>
                         LET shown   == ParsePositiveInt(page)
                             entries == GetLeaderboard(entries_, shown, size)
                             first   == (shown - 1) * size
                             total   == Cardinality(DOMAIN entries_)
                         IN  /\ size \in 1 .. MaxPageSize
                             /\ Len(entries) = Min({size, Max({total - first, 0})})
                             /\ \A i \in DOMAIN entries :
                                   Cardinality(BetterThan(entries[i])) + 1 = ShownRank(shown, size, i)
  BY DEF PagesSliceTheRanking
<1>1. page \in Int /\ size \in Int /\ MaxPageSize \in Nat
  BY ResultServiceConstants
<1>2. page \in 1 .. 2 ^ SizeBits - 1 /\ size \in 1 .. MaxPageSize => InRange(page, size)
  <2> SUFFICES ASSUME page \in 1 .. 2 ^ SizeBits - 1, size \in 1 .. MaxPageSize
               PROVE  InRange(page, size)
    OBVIOUS
  <2>1. size \in 1 .. 2 ^ SizeBits - 1
    BY <1>1, SizeTFits DEF OffsetsFit
  <2>2. ParsePositiveInt(page) = page /\ ParsePositiveInt(size) = size
    BY <1>1, <2>1, ParsedNumbers
  <2>3. QED BY <1>1, <2>2 DEF InRange
<1> SUFFICES ASSUME InRange(page, size)
             PROVE  LET shown   == ParsePositiveInt(page)
                        entries == GetLeaderboard(entries_, shown, size)
                        first   == (shown - 1) * size
                        total   == Cardinality(DOMAIN entries_)
                    IN  /\ size \in 1 .. MaxPageSize
                        /\ Len(entries) = Min({size, Max({total - first, 0})})
                        /\ \A i \in DOMAIN entries :
                              Cardinality(BetterThan(entries[i])) + 1 = ShownRank(shown, size, i)
  BY <1>2
<1>3. PICK shown : shown = ParsePositiveInt(page)
  OBVIOUS
<1>4. PICK first : first = (shown - 1) * size
  OBVIOUS
<1>5. PICK total : total = Cardinality(DOMAIN entries_)
  OBVIOUS
<1>6. shown \in Nat /\ shown >= 1 /\ size \in 1 .. MaxPageSize /\ size \in Nat
  <2>1. shown \in Nat /\ shown >= 1 /\ ParsePositiveInt(size) \in 1 .. MaxPageSize
    BY <1>1, <1>3, ParsedNumbers DEF InRange
  <2>2. size > 0
    BY DEF OffsetsFit
  <2>3. ParsePositiveInt(size) = size
    BY <1>1, <2>1, <2>2, ParsedNumbers
  <2>4. QED BY <1>1, <2>1, <2>3
<1>7. first \in Nat
  <2>1. shown - 1 \in Nat /\ size \in Nat
    BY <1>6
  <2>2. (shown - 1) * size \in Nat
    BY <2>1
  <2>3. QED BY <1>4, <2>2
<1>8. total \in Nat /\ total <= Cardinality(Users) /\ Cardinality(Users) \in Nat
  BY <1>5, FS_Subset, FS_CardinalityType DEF OffsetsFit, EntriesTyped
<1>9. PICK entries : entries = GetLeaderboard(entries_, shown, size)
  OBVIOUS
<1>10. /\ Len(entries) = Min({size, Max({total - first, 0})})
       /\ \A i \in DOMAIN entries :
             Cardinality(BetterThan(entries[i])) + 1 = ShownRank(shown, size, i)
  <2>1. first + size < 2 ^ SizeBits \/ SizeT(first) >= Cardinality(Users)
    BY <1>3, <1>4 DEF OffsetsFit
  <2>2. CASE first + size < 2 ^ SizeBits
    <3>0. Slices(GetLeaderboard(entries_, shown, size), entries_, first, size)
      BY <1>4, <1>6, <1>7, <2>2, PageIsSlice
    <3>1. /\ Len(entries) = Min({size, Max({total - first, 0})})
          /\ \A i \in DOMAIN entries : /\ i \in 1 .. size
                                       /\ first + i \in 1 .. total
                                       /\ entries[i] = Ranking(entries_)[first + i]
      BY <1>5, <1>9, <3>0 DEF Slices
    <3>2. ASSUME NEW i \in DOMAIN entries
          PROVE  Cardinality(BetterThan(entries[i])) + 1 = ShownRank(shown, size, i)
      <4>1. PICK k \in 1 .. total : k = first + i
        BY <3>1
      <4>2. i \in Int /\ k \in Nat /\ k < 2 ^ SizeBits
        <5>1. i \in Int /\ i <= size /\ k \in Nat
          <6>1. i \in 1 .. size /\ size \in Nat
            BY <1>6, <3>1
          <6>2. k \in Nat
            BY <1>8, <4>1
          <6>3. QED BY <6>1, <6>2
        <5>2. 2 ^ SizeBits \in Nat
          BY SizeTFits
        <5>3. QED BY <1>6, <1>7, <2>2, <4>1, <5>1, <5>2
      <4>3. ShownRank(shown, size, i) = k
        <5>1. ShownRank(shown, size, i) = SizeT(k)
          BY <1>4, <4>1 DEF ShownRank
        <5>2. QED BY <4>2, <5>1, SizeTFits
      <4>4. BetterThan(entries[i]) = {v \in DOMAIN entries_ : <<v, Ranking(entries_)[k]>> \in RankPairs(entries_)}
        <5>1. Ranking(entries_)[k] \in DOMAIN entries_
          BY <1>5, RankingLists DEF Lists
        <5>2. entries[i] = Ranking(entries_)[k]
          BY <3>1, <4>1
        <5>3. QED BY <5>1, <5>2 DEF BetterThan, RankPairs
      <4>5. Cardinality({v \in DOMAIN entries_ : <<v, Ranking(entries_)[k]>> \in RankPairs(entries_)}) = k - 1
        BY <1>5, RankingLists, ListedRank DEF EntriesTyped
      <4>6. QED BY <4>2, <4>3, <4>4, <4>5
    <3>3. QED BY <3>1, <3>2
  <2>3. CASE SizeT(first) >= Cardinality(Users)
    <3>1. SizeT(first) \in Nat /\ SizeT(first) <= first
      BY <1>7, SizeTFits
    <3>2. SizeT(first) >= total /\ ~(first < total)
      BY <1>7, <1>8, <2>3, <3>1
    <3>3. entries = <<>>
      BY <1>4, <1>5, <1>6, <1>9, <3>2, PageBehindAll
    <3>4. Min({size, Max({total - first, 0})}) = 0
      BY <1>6, <1>7, <1>8, <3>2, SliceEnds
    <3>5. QED BY <3>3, <3>4
  <2>4. QED BY <2>1, <2>2, <2>3
<1>11. QED BY <1>3, <1>4, <1>5, <1>6, <1>9, <1>10

(* Leafing through the pages of one size shows every user once: an entry   *)
(* that has been rated is on one page, and on no other that does not wrap  *)
(* around.                                                                 *)
Shows(page, size, u) ==
    \E i \in DOMAIN GetLeaderboard(entries_, page, size) :
        GetLeaderboard(entries_, page, size)[i] = u

OnOnePage ==
    \A size \in 1 .. MaxPageSize, u \in DOMAIN entries_ :
        \E page \in Nat \ {0} :
            /\ Shows(page, size, u)
            /\ \A other \in Nat \ {0} :
                  other * size < 2 ^ SizeBits /\ Shows(other, size, u) => other = page

(* The k-th of a list cut into pages is on a page, and on one only.        *)
LEMMA PageOfRank ==
    ASSUME NEW size \in Nat \ {0}, NEW k \in Nat \ {0}
    PROVE  \E page \in Nat \ {0}, i \in 1 .. size : k = (page - 1) * size + i
<1> DEFINE q == (k - 1) \div size
           r == (k - 1) % size
<1>1. q \in Nat /\ r \in 0 .. size - 1 /\ k - 1 = q * size + r
  OBVIOUS
<1> HIDE DEF q, r
<1>2. q + 1 \in Nat \ {0} /\ r + 1 \in 1 .. size /\ (q + 1) - 1 = q
  BY <1>1
<1>3. k = q * size + (r + 1)
  <2>1. q * size \in Int
    BY <1>1
  <2>2. QED BY <1>1, <2>1
<1>4. QED BY <1>2, <1>3

LEMMA OnlyPageOfRank ==
    ASSUME NEW size \in Nat \ {0}, NEW p \in Nat \ {0}, NEW q \in Nat \ {0},
           NEW i \in 1 .. size, NEW j \in 1 .. size,
           (p - 1) * size + i = (q - 1) * size + j
    PROVE  p = q
<1>1. ASSUME NEW a \in Nat \ {0}, NEW b \in Nat \ {0}, NEW m \in 1 .. size, NEW n \in 1 .. size, a < b
      PROVE  (a - 1) * size + m < (b - 1) * size + n
  <2>1. (a - 1) * size \in Int /\ (b - a) * size \in Int /\ (b - 1) * size \in Int
    OBVIOUS
  <2>2. (b - 1) * size = (a - 1) * size + (b - a) * size
    OBVIOUS
  <2>3. (b - a) * size >= size
    BY <1>1
  <2>4. QED BY <2>1, <2>2, <2>3
<1>2. (p - 1) * size + i \in Int
  OBVIOUS
<1>3. ~(p < q) /\ ~(q < p)
  BY <1>1, <1>2
<1>4. QED BY <1>3

(* The first page after all users does not wrap around. *)
UsersFit == IsFiniteSet(Users) /\ Cardinality(Users) + MaxPageSize < 2 ^ SizeBits

LEMMA OnePageEach ==
    ASSUME UsersFit, EntriesTyped(entries_)
    PROVE  OnOnePage
<1> SUFFICES ASSUME NEW size \in 1 .. MaxPageSize, NEW u \in DOMAIN entries_
             PROVE  \E page \in Nat \ {0} :
                       /\ Shows(page, size, u)
                       /\ \A other \in Nat \ {0} :
                             other * size < 2 ^ SizeBits /\ Shows(other, size, u) => other = page
  BY DEF OnOnePage
<1>1. /\ size \in Nat \ {0} /\ size <= MaxPageSize /\ MaxPageSize \in Nat
      /\ 2 ^ SizeBits \in Nat /\ IsFiniteSet(DOMAIN entries_)
  BY ResultServiceConstants, SizeTFits DEF EntriesTyped
<1>2. PICK total : total = Cardinality(DOMAIN entries_)
  OBVIOUS
<1>3. total \in Nat /\ total + MaxPageSize < 2 ^ SizeBits
  <2>1. total \in Nat /\ Cardinality(Users) \in Nat /\ total <= Cardinality(Users)
    BY <1>2, FS_Subset, FS_CardinalityType DEF UsersFit, EntriesTyped
  <2>2. QED BY <1>1, <2>1 DEF UsersFit
<1>4. PICK items : items = Ranking(entries_)
  OBVIOUS
<1>5. /\ StrictOrder(DOMAIN entries_, RankPairs(entries_))
      /\ Lists(items, DOMAIN entries_, RankPairs(entries_))
  BY <1>4, RankingLists
<1>6. PICK k \in 1 .. total : items[k] = u
  BY <1>2, <1>5 DEF Lists
<1>7. \A m \in 1 .. total : items[m] = u => m = k
  <2> SUFFICES ASSUME NEW m \in 1 .. total, items[m] = u PROVE m = k
    OBVIOUS
  <2>1. <<u, u>> \notin RankPairs(entries_)
    BY <1>5 DEF StrictOrder
  <2>2. ~(m < k) /\ ~(k < m)
    BY <1>2, <1>5, <1>6, <2>1 DEF Lists
  <2>3. QED BY <1>3, <2>2
<1>8. k \in Nat \ {0}
  BY <1>3
<1>9. PICK page \in Nat \ {0}, i \in 1 .. size : k = (page - 1) * size + i
  BY <1>1, <1>8, PageOfRank
<1>10. Shows(page, size, u)
  <2>1. PICK start : start = (page - 1) * size
    OBVIOUS
  <2>2. start \in Nat
    <3>1. page - 1 \in Nat /\ size \in Nat
      BY <1>1
    <3>2. (page - 1) * size \in Nat
      BY <3>1
    <3>3. QED BY <2>1, <3>2
  <2>3. k = start + i /\ i \in Nat /\ start < k /\ i <= size
    BY <1>1, <1>9, <2>1, <2>2
  <2>4. start + size < 2 ^ SizeBits
    BY <1>1, <1>3, <2>2, <2>3
  <2>5. PICK shown : shown = GetLeaderboard(entries_, page, size)
    OBVIOUS
  <2>6. Slices(shown, entries_, start, size)
    BY <1>1, <2>1, <2>2, <2>4, <2>5, PageIsSlice
  <2>7. i \in 1 .. Len(shown)
    <3>1. total - start \in Nat /\ i <= total - start
      BY <1>3, <2>2, <2>3
    <3>2. Len(shown) = Min({size, Max({total - start, 0})})
      BY <1>2, <2>6 DEF Slices
    <3>3. Max({total - start, 0}) = total - start
      BY <3>1, MaxOfTwo
    <3>4. Len(shown) = Min({size, total - start})
      BY <3>2, <3>3
    <3>5. PICK left : left = total - start
      OBVIOUS
    <3>6. Min({size, left}) = IF size <= left THEN size ELSE left
      BY <1>1, <3>1, <3>5, MinOfTwo
    <3>7. Len(shown) = size \/ Len(shown) = left
      BY <3>4, <3>5, <3>6
    <3>8. QED BY <1>1, <2>3, <3>1, <3>5, <3>7
  <2>8. i \in DOMAIN shown /\ shown[i] = u
    BY <1>4, <1>6, <2>3, <2>6, <2>7 DEF Slices
  <2>9. QED BY <2>5, <2>8 DEF Shows
<1>11. ASSUME NEW other \in Nat \ {0}, other * size < 2 ^ SizeBits, Shows(other, size, u)
       PROVE  other = page
  <2>1. PICK start : start = (other - 1) * size
    OBVIOUS
  <2>2. start \in Nat /\ start + size < 2 ^ SizeBits
    <3>1. other - 1 \in Nat /\ size \in Nat
      BY <1>1
    <3>2. (other - 1) * size \in Nat /\ (other - 1) * size + size = other * size
      BY <3>1
    <3>3. QED BY <1>11, <2>1, <3>2
  <2>3. PICK shown : shown = GetLeaderboard(entries_, other, size)
    OBVIOUS
  <2>4. Slices(shown, entries_, start, size)
    BY <1>1, <2>1, <2>2, <2>3, PageIsSlice
  <2>5. PICK j \in DOMAIN shown : shown[j] = u
    BY <1>11, <2>3 DEF Shows
  <2>6. j \in 1 .. size /\ start + j \in 1 .. total /\ items[start + j] = u
    BY <1>2, <1>4, <2>4, <2>5 DEF Slices
  <2>7. start + j = k
    BY <1>7, <2>6
  <2>8. (other - 1) * size + j = (page - 1) * size + i
    BY <1>9, <2>1, <2>7
  <2>9. QED BY <1>1, <2>6, <2>8, OnlyPageOfRank
<1>12. QED BY <1>10, <1>11

---------------------------------------------------------------------------
(* Whatever the threads, their order and what they submit again, the       *)
(* invariant holds.                                                        *)
THEOREM ResultInvariant == ResultSpec => []RatedInv
<1>1. ResultInit => RatedInv
  BY InvInit
<1>2. RatedInv /\ [ResultNext]_resultVars => RatedInv'
  BY InvNext
<1>3. QED BY <1>1, <1>2, PTL DEF ResultSpec

(* ResultRepository holds submitted results under their own session and    *)
(* RatingService entries of registered users, whose counters are numbers.  *)
THEOREM TypeCorrect == ResultSpec => []ResultTypeOK
<1>1. RatedInv => ResultTypeOK
  <2> SUFFICES ASSUME RatedInv PROVE ResultTypeOK
    OBVIOUS
  <2>1. \A c \in Callers : call[c] \in CallStates
    BY DEF RatedInv, StoresTyped
  <2>2. \A c \in Callers : \/ call[c] = Idle
                           \/ call[c].pc \in {"save", "ensure"} /\ call[c].record \in Matches
    BY <2>1 DEF CallStates
  <2>3. QED BY <2>2 DEF RatedInv, StoresTyped, EntriesTyped, Entries, ResultTypeOK
<1>2. QED BY <1>1, ResultInvariant, PTL

(* SaveIfAbsent lets one of the calls that finalise a session through, and *)
(* that one rates it: wins and losses count the rated results.             *)
THEOREM RatedOnce == ResultSpec => []RatedExactlyOnce
<1>1. RatedInv => RatedExactlyOnce
  BY DEF RatedInv
<1>2. QED BY <1>1, ResultInvariant, PTL

(* The rounded Elo arithmetic of ApplyMatchResult moves points between two *)
(* users and makes none.                                                   *)
THEOREM RatingsAreZeroSum == ResultSpec => []ZeroSum
<1>1. RatedInv => ZeroSum
  BY DEF RatedInv, Balanced, Total, ZeroSum
<1>2. QED BY <1>1, ResultInvariant, PTL

(* Every page of the leaderboard that is asked for shows the users ranked  *)
(* (page - 1) * size + 1 to page * size, best first, each beside its rank, *)
(* whatever the ratings, as long as no offset wraps around onto them.      *)
THEOREM PagesCorrect == OffsetsFit => (ResultSpec => []PagesSliceTheRanking)
<1> SUFFICES ASSUME OffsetsFit PROVE ResultSpec => []PagesSliceTheRanking
  OBVIOUS
<1>1. RatedInv => PagesSliceTheRanking
  BY PagesSlice DEF RatedInv, StoresTyped
<1>2. QED BY <1>1, ResultInvariant, PTL

(* GetLeaderboard neither repeats a user on another page of the same size  *)
(* nor leaves one out, in any state of the ratings.                        *)
THEOREM EveryUserOnOnePage == UsersFit => (ResultSpec => []OnOnePage)
<1> SUFFICES ASSUME UsersFit PROVE ResultSpec => []OnOnePage
  OBVIOUS
<1>1. RatedInv => OnOnePage
  BY OnePageEach DEF RatedInv, StoresTyped
<1>2. QED BY <1>1, ResultInvariant, PTL
=============================================================================

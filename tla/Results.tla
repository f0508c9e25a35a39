------------------------------ MODULE Results ------------------------------
(***************************************************************************)
(* The in-memory stores a finished session is written to, as operators on  *)
(* their contents: ResultRepository (result_repository.cpp) and            *)
(* RatingService (rating.cpp).  Each member function holds its object's    *)
(* mutex from beginning to end, so each is one operator.                   *)
(***************************************************************************)
EXTENDS Integers, Sequences, FiniteSets, SequencesExt, Sorting

CONSTANT SizeBits             \* width of std::size_t

ASSUME ResultsConstants == SizeBits \in Nat /\ 2 ^ SizeBits \in Nat \ {0}

InitialRating == 1000

---------------------------------------------------------------------------
(* ResultRepository: records_ is a function from session ids to records.   *)
SaveIfAbsent(records, id, record) ==
    [s \in DOMAIN records \cup {id} |->
        IF s \in DOMAIN records THEN records[s] ELSE record]

LoserId(record) ==
    IF record.winner_user_id = record.user1_id THEN record.user2_id ELSE record.user1_id

---------------------------------------------------------------------------
(* RatingService: entries_ is a function from user ids to entries.  User   *)
(* names are left out.                                                     *)
NewEntry == [rating |-> InitialRating, wins |-> 0, losses |-> 0]

EnsureUser(entries, u) ==
    [v \in DOMAIN entries \cup {u} |->
        IF v \in DOMAIN entries THEN entries[v] ELSE NewEntry]

(* GetSummary; GET /api/profile shows a user without an entry as a new one. *)
GetSummary(entries, u) == IF u \in DOMAIN entries THEN entries[u] ELSE NewEntry

(***************************************************************************)
(* ExpectedScore(a, b) = 1 / (1 + 10^((b - a) / 400)), here in points: the *)
(* integer nearest to K * ExpectedScore(a, b), K = 32.  That product is    *)
(* above k - 1/2, and so rounds to at least k, just when b - a is at most  *)
(* EloThreshold[k], the floor of 400 * log10(32 / (k - 1/2) - 1).  It is   *)
(* never within 0.0007 of a rounding boundary for ratings up to 4000       *)
(* apart, far more than the error of double arithmetic, so rounding the    *)
(* product here and rounding the new rating in ApplyElo agree.             *)
(***************************************************************************)
KFactor == 32

EloThreshold ==
    << 719,  523,  428,  364,  314,  273,  237,  205,
       176,  149,  124,  100,   77,   54,   32,   10,
       -11,  -33,  -55,  -78, -101, -125, -150, -177,
      -206, -238, -274, -315, -365, -429, -524, -720 >>

ExpectedScore(rating_a, rating_b) ==
    Cardinality({k \in DOMAIN EloThreshold : rating_b - rating_a <= EloThreshold[k]})

ApplyElo(rating, expected, score) == rating + (KFactor * score - expected)

(* The entry of the winner and of the loser of a match.                    *)
Won(entry, expected) == [entry EXCEPT !.rating = ApplyElo(@, expected, 1), !.wins = @ + 1]

Lost(entry, expected) == [entry EXCEPT !.rating = ApplyElo(@, expected, 0), !.losses = @ + 1]

(* Faulty ApplyMatchResults: the loser is charged a win; the loser's       *)
(* expectation is computed from the winner's new rating.                   *)
LoserChargedAWin(entries, winner, loser) ==
    LET known == EnsureUser(EnsureUser(entries, winner), loser)
    IN  [known EXCEPT ![winner].wins = @ + 1, ![loser].wins = @ - 1]

ExpectationFromNewRating(entries, winner, loser) ==
    LET known == EnsureUser(EnsureUser(entries, winner), loser)
        expected_winner == ExpectedScore(known[winner].rating, known[loser].rating)
        new_rating == ApplyElo(known[winner].rating, expected_winner, 1)
        expected_loser == ExpectedScore(known[loser].rating, new_rating)
    IN  [known EXCEPT ![winner] = Won(@, expected_winner), ![loser] = Lost(@, expected_loser)]

(* Both expectations are computed before either rating changes.            *)
ApplyMatchResult(entries, winner, loser) ==
    LET known == EnsureUser(EnsureUser(entries, winner), loser)
        expected_winner == ExpectedScore(known[winner].rating, known[loser].rating)
        expected_loser  == ExpectedScore(known[loser].rating, known[winner].rating)
    IN  [known EXCEPT ![winner] = Won(@, expected_winner), ![loser] = Lost(@, expected_loser)]

---------------------------------------------------------------------------
(* The order GetLeaderboard sorts by: rating descending, then id.          *)
RanksBefore(entries, a, b) ==
    \/ entries[a].rating > entries[b].rating
    \/ entries[a].rating = entries[b].rating /\ a < b

Ranking(entries) ==
    LET users == DOMAIN entries
    IN  InOrder(users, {p \in users \X users : RanksBefore(entries, p[1], p[2])})

SizeT(n) == n % (2 ^ SizeBits)

(* A faulty GetLeaderboard: pages counted from 0.                          *)
PagesFromZero(entries, page, size) ==
    LET items == Ranking(entries)
    IN  IF page * size < Len(items)
        THEN SubSeq(items, page * size + 1, Min({page * size + size, Len(items)})) ELSE <<>>

(* The user ids on one page; start and start + size wrap as size_t does.   *)
GetLeaderboard(entries, page, size) ==
    LET items == Ranking(entries)
        total == Len(items)
        start == SizeT((page - 1) * size)
        end   == Min({SizeT(start + size), total})
    IN  IF start < total THEN SubSeq(items, start + 1, end) ELSE <<>>

(* std::stoul reads a number with a minus sign too, and negates it as an   *)
(* unsigned one; what is too long for it is refused, like a 0.             *)
ParsePositiveInt(n) ==
    IF n \in -(2 ^ SizeBits - 1) .. 2 ^ SizeBits - 1 THEN SizeT(n) ELSE 0

(* GET /api/leaderboard: the rank shown beside the i-th entry of a page.   *)
ShownRank(page, size, i) == SizeT((page - 1) * size + i)
=============================================================================

--------------------------- MODULE ResultService ---------------------------
(***************************************************************************)
(* FinalizeResult (result_service.cpp) run by several threads at once over *)
(* the shared ResultRepository and RatingService, with logins (which call  *)
(* EnsureUser) in between.  A call holds no lock of its own: it is a       *)
(* sequence of separately locked calls, so calls interleave between them.  *)
(* The same result may be submitted again at any time, as the end-to-end   *)
(* test does.                                                              *)
(***************************************************************************)
EXTENDS Results

CONSTANTS
    Users,                    \* user ids
    Callers,                  \* threads that may be inside FinalizeResult
    Matches,                  \* the match results: [session_id, user1_id, user2_id, winner_user_id]
    MaxPageSize,              \* 50
    PageSizes,                \* the values of size a client asks for
    Pages                     \* the values of page a client asks for

ASSUME ResultServiceConstants ==
    /\ Users \subseteq Nat \ {0}
    /\ \A m \in Matches :
          /\ {m.user1_id, m.user2_id} \subseteq Users
          /\ m.user1_id # m.user2_id
          /\ m.winner_user_id \in {m.user1_id, m.user2_id}
    /\ \A m, n \in Matches : m.session_id = n.session_id => m = n
    /\ MaxPageSize \in Nat /\ PageSizes \subseteq Int /\ Pages \subseteq Int

VARIABLES
    records_,                 \* ResultRepository::records_
    entries_,                 \* RatingService::entries_
    call                      \* per thread: where it is in FinalizeResult and with which result

resultVars == <<records_, entries_, call>>

Idle == [pc |-> "idle"]

ResultInit ==
    /\ records_ = [s \in {} |-> Idle]
    /\ entries_ = [u \in {} |-> NewEntry]
    /\ call = [c \in Callers |-> Idle]

FinalizeResult(c, m) ==
    /\ call[c] = Idle
    /\ call' = [call EXCEPT ![c] = [pc |-> "save", record |-> m]]
    /\ UNCHANGED <<records_, entries_>>

(* A faulty Save: a result that is already stored is rated again.          *)
SaveThenRateAlways(c) ==
    /\ call[c].pc = "save"
    /\ LET m == call[c].record
       IN  /\ records_' = SaveIfAbsent(records_, m.session_id, m)
           /\ call' = [call EXCEPT ![c] =
                 [pc |-> "ensure", record |-> m,
                  todo |-> <<m.user1_id, m.user2_id, m.user1_id, m.user2_id>>]]
    /\ UNCHANGED entries_

(* SaveIfAbsent; a result that is already stored ends the call here.       *)
Save(c) ==
    /\ call[c].pc = "save"
    /\ LET m == call[c].record
       IN  /\ records_' = SaveIfAbsent(records_, m.session_id, m)
           /\ call' = [call EXCEPT ![c] =
                 IF m.session_id \in DOMAIN records_ THEN Idle
                 ELSE [pc |-> "ensure", record |-> m,
                       todo |-> <<m.user1_id, m.user2_id, m.user1_id, m.user2_id>>]]
    /\ UNCHANGED entries_

(* One of the four EnsureUser calls: the participants, then the two ids of *)
(* the record.                                                             *)
Ensure(c) ==
    /\ call[c].pc = "ensure"
    /\ call[c].todo # <<>>
    /\ entries_' = EnsureUser(entries_, Head(call[c].todo))
    /\ call' = [call EXCEPT ![c].todo = Tail(@)]
    /\ UNCHANGED records_

(* A faulty Rate: it waits until no other call is in progress.             *)
RateWhenAlone(c) ==
    /\ call[c].pc = "ensure"
    /\ call[c].todo = <<>>
    /\ \A d \in Callers \ {c} : call[d] = Idle
    /\ LET m == call[c].record
       IN  entries_' = ApplyMatchResult(entries_, m.winner_user_id, LoserId(m))
    /\ call' = [call EXCEPT ![c] = Idle]
    /\ UNCHANGED records_

Rate(c) ==
    /\ call[c].pc = "ensure"
    /\ call[c].todo = <<>>
    /\ LET m == call[c].record
       IN  entries_' = ApplyMatchResult(entries_, m.winner_user_id, LoserId(m))
    /\ call' = [call EXCEPT ![c] = Idle]
    /\ UNCHANGED records_

(* Register and login over HTTP call EnsureUser.                           *)
Login(u) ==
    /\ entries_' = EnsureUser(entries_, u)
    /\ UNCHANGED <<records_, call>>

ResultNext ==
    \/ \E c \in Callers, m \in Matches : FinalizeResult(c, m)
    \/ \E c \in Callers : Save(c) \/ Ensure(c) \/ Rate(c)
    \/ \E u \in Users : Login(u)

(* A thread inside FinalizeResult keeps running: the locks it takes are    *)
(* held only for the length of one member function.                        *)
ResultSpec ==
    /\ ResultInit /\ [][ResultNext]_resultVars
    /\ \A c \in Callers : WF_resultVars(Save(c) \/ Ensure(c) \/ Rate(c))

---------------------------------------------------------------------------
BeingRated(s) == \E c \in Callers : call[c].pc = "ensure" /\ call[c].record.session_id = s

Rated == {s \in DOMAIN records_ : ~BeingRated(s)}

(* Stored records are results that were submitted, under their own session,  *)
(* and the counters of the ratings never fall below zero.                    *)
ResultTypeOK ==
    /\ \A s \in DOMAIN records_ : records_[s] \in Matches /\ records_[s].session_id = s
    /\ DOMAIN entries_ \subseteq Users
    /\ \A u \in DOMAIN entries_ : entries_[u] \in [rating : Int, wins : Nat, losses : Nat]
    /\ \A c \in Callers :
          \/ call[c] = Idle
          \/ call[c].pc \in {"save", "ensure"} /\ call[c].record \in Matches

(* v0.6.0-rating-leaderboard.md: a result that is finalised again, even by a *)
(* thread that overtakes the first one, is stored and rated once.  The wins  *)
(* and losses of every user count exactly the stored results whose rating    *)
(* step is over.                                                             *)
RatedExactlyOnce ==
    \A u \in Users :
        /\ GetSummary(entries_, u).wins   = Cardinality({s \in Rated : records_[s].winner_user_id = u})
        /\ GetSummary(entries_, u).losses = Cardinality({s \in Rated : LoserId(records_[s]) = u})

(* Elo is a zero-sum game after rounding too: whatever order results are     *)
(* applied in, the ratings of all users sum to the initial ones.             *)
ZeroSum ==
    MapThenSumSet(LAMBDA u : entries_[u].rating, DOMAIN entries_)
        = InitialRating * Cardinality(DOMAIN entries_)

BetterThan(u) == {v \in DOMAIN entries_ : RanksBefore(entries_, v, u)}

(* GET /api/leaderboard: otherwise the request is refused.                 *)
InRange(page, size) ==
    /\ ParsePositiveInt(page) >= 1
    /\ ParsePositiveInt(size) \in 1 .. MaxPageSize

(* v0.6.0-rating-leaderboard.md: page p of size n holds the users ranked     *)
(* (p-1)*n + 1 to p*n, best first, numbered in this way, so that consecutive *)
(* pages neither repeat nor skip a user; every page and size of the stated   *)
(* ranges is answered, and no answer is of another size.                     *)
PagesSliceTheRanking ==
    \A size \in PageSizes, page \in Pages :
        /\ page \in 1 .. 2 ^ SizeBits - 1 /\ size \in 1 .. MaxPageSize => InRange(page, size)
        /\ InRange(page, size) =>
             LET shown   == ParsePositiveInt(page)
                 entries == GetLeaderboard(entries_, shown, size)
                 first   == (shown - 1) * size
                 total   == Cardinality(DOMAIN entries_)
             IN  /\ size \in 1 .. MaxPageSize
                 /\ Len(entries) = Min({size, Max({total - first, 0})})
                 /\ \A i \in DOMAIN entries :
                       Cardinality(BetterThan(entries[i])) + 1 = ShownRank(shown, size, i)

(* v0.6.0-rating-leaderboard.md: pages are counted from 1, others refused.   *)
(* ParsePositiveInt lets page -1 through, as the largest page there is.      *)
PagesFromOne == \A size \in PageSizes, page \in Pages : InRange(page, size) => page >= 1

(* A stored result does not stay unrated: the caller that stored it gets to  *)
(* ApplyMatchResult.                                                         *)
StoredIsRated ==
    \A m \in Matches : (m.session_id \in DOMAIN records_) ~> (m.session_id \in Rated)
=============================================================================

-------------------------- MODULE MCResultService --------------------------
(***************************************************************************)
(* Three users, two threads and four results in which user 1 beats 2       *)
(* twice, loses to 3 once, and 3 loses to 2: the order in which they are   *)
(* rated changes the ratings, so ties and overtakings on the leaderboard   *)
(* occur.  Pages and sizes are asked for inside and outside their ranges;  *)
(* 16 is too much for a size_t of 4 bits.                                  *)
(***************************************************************************)
EXTENDS ResultService

MCPages == {-1, 0, 1, 2, 3, 4, 16}
MCPageSizes == {-1, 0, 1, 2, 3, 4}

MCMatches ==
    {[session_id |-> 1, user1_id |-> 1, user2_id |-> 2, winner_user_id |-> 1],
     [session_id |-> 2, user1_id |-> 2, user2_id |-> 1, winner_user_id |-> 1],
     [session_id |-> 3, user1_id |-> 1, user2_id |-> 3, winner_user_id |-> 3],
     [session_id |-> 4, user1_id |-> 3, user2_id |-> 2, winner_user_id |-> 2]}
=============================================================================

---------------------------- MODULE MCSimulation ----------------------------
(***************************************************************************)
(* Two users; every sequence from 1 to 3 may be sent for tick 0 (stale at  *)
(* once), 1, 2 or 3, so inputs arrive late, early and out of tick order;   *)
(* one command breaks the delta rule and one has no sequence.  With a      *)
(* limit of 2 inputs a tick, a third input for one tick hits the limit.    *)
(* With ints of 4 bits, the last command's tick 18 and delta -17 become    *)
(* tick 2 and delta -1, and the one before it is stale.                    *)
(***************************************************************************)
EXTENDS SimulationLoop

MCUsers == {1, 2}

MCCommands ==
    {[sequence |-> s, target_tick |-> t, delta |-> IF s = 2 THEN -1 ELSE 1]
        : s \in 1 .. 3, t \in {0, 1, 2, 3}}
    \cup {[sequence |-> 3, target_tick |-> 2, delta |-> 2],
          [sequence |-> 0, target_tick |-> 2, delta |-> 1],
          [sequence |-> 4, target_tick |-> 15, delta |-> 1],
          [sequence |-> 4, target_tick |-> 18, delta |-> -17]}
=============================================================================

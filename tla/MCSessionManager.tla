-------------------------- MODULE MCSessionManager --------------------------
(***************************************************************************)
(* Two users play two sessions one after the other.  User 1 has two        *)
(* connections, which replace each other and may both send inputs; in the  *)
(* runs about answers only, each user has one.  Commands for a tick after  *)
(* the end matter to safety alone.                                         *)
(***************************************************************************)
EXTENDS SessionManager

CONSTANTS c1, c2, c3

MCOwnerOfBoth == (c1 :> 1) @@ (c2 :> 1)

MCOwner2 == (c1 :> 1) @@ (c3 :> 2)

MCOneCommand == {[sequence |-> 1, target_tick |-> 1, delta |-> -1]}

MCLateCommand == {[sequence |-> 1, target_tick |-> 2, delta |-> -1]}

MCCommands == MCOneCommand \cup MCLateCommand
=============================================================================

--------------------------- MODULE SimulationLoop ---------------------------
(***************************************************************************)
(* One simulation driven as a session's strand drives it: inputs arrive in *)
(* any order for any tick, and ticks happen in between.  The history       *)
(* variable accepted remembers the inputs EnqueueInput accepted, so that   *)
(* the state the incremental code reaches can be compared with a replay    *)
(* of the accepted inputs that knows nothing of their arrival order.       *)
(***************************************************************************)
EXTENDS Simulation

CONSTANT MaxTicks             \* bound on the number of ticks explored

ASSUME LoopConstants == MaxTicks \in Nat

VARIABLES sim, accepted

loopVars == <<sim, accepted>>

LoopInit ==
    /\ sim = NewSimulation
    /\ accepted = {}

Enqueue(input) ==
    /\ sim' = EnqueueInput(sim, input)
    /\ accepted' = IF Accepts(sim, input) THEN accepted \cup {input} ELSE accepted

Tick ==
    /\ sim.current_tick < MaxTicks
    /\ sim' = TickOnce(sim)
    /\ UNCHANGED accepted

(* SessionManager adds its players before the first input; the unit tests  *)
(* do not, and ApplyEvent adds them.                                       *)
Add(u) ==
    /\ sim' = AddPlayer(sim, u)
    /\ UNCHANGED accepted

LoopNext ==
    \/ \E input \in Inputs : Enqueue(input)
    \/ Tick
    \/ \E u \in Users : Add(u)

LoopSpec == LoopInit /\ [][LoopNext]_loopVars

---------------------------------------------------------------------------
(* The members of Simulation have their types; no tracker counts more inputs *)
(* for a tick than ValidateInput admits.                                     *)
LoopTypeOK ==
    /\ sim.current_tick \in 0 .. MaxTicks
    /\ sim.inputs_by_tick \in [TargetTicks -> Seq(Inputs)]
    /\ sim.trackers \in [Users -> [last_sequence : Nat,
                                   per_tick_count : [TargetTicks -> 0 .. MaxInputsPerTickPerUser]]]
    /\ DOMAIN sim.players \subseteq Users
    /\ \A u \in DOMAIN sim.players :
          sim.players[u] \in [position : Int, last_sequence : Nat]
    /\ accepted \subseteq Inputs

(* The inputs of u that a correct server has applied once tick is reached. *)
Due(u) == {i \in accepted : i.user_id = u /\ i.target_tick <= sim.current_tick}

(***************************************************************************)
(* What the players should look like, computed from the set of accepted    *)
(* inputs alone: the position is the sum of the due deltas, and the last   *)
(* sequence is the greatest one among the inputs of the last tick that had *)
(* any for this user.                                                      *)
(***************************************************************************)
Replay(u) ==
    LET lastTick == Max({i.target_tick : i \in Due(u)})
    IN  IF Due(u) = {} THEN NewPlayer
        ELSE [position      |-> MapThenSumSet(LAMBDA i : i.delta, Due(u)),
              last_sequence |-> Max({i.sequence : i \in {j \in Due(u) : j.target_tick = lastTick}})]

(* v0.3.0-tick-loop.md's determinism: after any interleaving of EnqueueInput *)
(* and TickOnce, every accepted input has been applied exactly once, at its  *)
(* target tick, and the state does not depend on the order of arrival.       *)
DeterministicReplay ==
    \A u \in Users :
        (IF u \in DOMAIN sim.players THEN sim.players[u] ELSE NewPlayer) = Replay(u)

(* No accepted input is lost, duplicated or left behind: inputs_by_tick_     *)
(* holds, once each, exactly the accepted inputs whose tick is yet to come.  *)
BufferIsTheFuture ==
    \A t \in TargetTicks :
        /\ ToSet(sim.inputs_by_tick[t])
             = {i \in accepted : i.target_tick = t /\ t > sim.current_tick}
        /\ IsInjective(sim.inputs_by_tick[t])

(* One user moves by at most MaxInputsPerTickPerUser inputs of MaxDelta in    *)
(* one tick, whatever was queued before: the limits of ValidateInput bound    *)
(* what TickOnce does.                                                        *)
BoundedMove ==
    [][\A u \in DOMAIN sim.players :
          LET d == sim'.players[u].position - sim.players[u].position
          IN  d \in -(MaxDelta * MaxInputsPerTickPerUser) .. MaxDelta * MaxInputsPerTickPerUser]_sim
=============================================================================

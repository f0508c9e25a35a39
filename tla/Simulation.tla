---------------------------- MODULE Simulation ----------------------------
(***************************************************************************)
(* The tick simulation of one session (server/src/simulation.cpp) as       *)
(* operators on a value of the class Simulation.  A simulation is used     *)
(* from one thread of control at a time (its session's strand), so every   *)
(* member function is one operator from the old object to the new one.     *)
(*                                                                         *)
(* A command is what a client sends: [sequence, target_tick, delta].  An   *)
(* input is a command together with the user_id of its sender, its numbers *)
(* narrowed from the 64 bits of the message to those of an int.            *)
(***************************************************************************)
EXTENDS Integers, Sequences, FiniteSets, SequencesExt, Sorting

CONSTANTS
    Users,                    \* user ids
    Commands,                 \* the commands clients may send
    IntBits,                  \* width of an int
    MaxDelta,                 \* Simulation::kMaxDelta
    MaxInputsPerTickPerUser   \* Simulation::kMaxInputsPerTickPerUser

ASSUME SimulationConstants ==
    /\ Users \subseteq Nat \ {0}
    /\ Commands \subseteq [sequence : Nat, target_tick : Int, delta : Int]
    /\ IntBits \in Nat \ {0} /\ 2^IntBits > 0
    /\ MaxDelta \in Nat
    /\ MaxInputsPerTickPerUser \in Nat

(* get<int> of a message's number keeps its low bits.                      *)
Narrow(n) == ((n + 2^(IntBits - 1)) % 2^IntBits) - 2^(IntBits - 1)

InputOf(u, c) == [user_id |-> u, sequence |-> c.sequence,
                  target_tick |-> Narrow(c.target_tick), delta |-> Narrow(c.delta)]

TargetTicks == {Narrow(c.target_tick) : c \in Commands}

Inputs == {InputOf(u, c) : u \in Users, c \in Commands}

---------------------------------------------------------------------------
(* PlayerState{} and UserTracker{}.  A user without a tracker is treated   *)
(* exactly as one whose tracker is empty: sequence 0 is refused before the *)
(* tracker is looked at.                                                   *)
NewPlayer == [position |-> 0, last_sequence |-> 0]

NewTracker == [last_sequence |-> 0, per_tick_count |-> [t \in TargetTicks |-> 0]]

NewSimulation == [current_tick   |-> 0,
                  inputs_by_tick |-> [t \in TargetTicks |-> <<>>],
                  trackers       |-> [u \in Users |-> NewTracker],
                  players        |-> [u \in {} |-> NewPlayer]]

AddPlayer(sim, u) ==
    [sim EXCEPT !.players =
        [v \in DOMAIN @ \cup {u} |-> IF v \in DOMAIN @ THEN @[v] ELSE NewPlayer]]

---------------------------------------------------------------------------
(* Faulty ValidateInputs: the limit per tick off by one, no range check.   *)
LimitOffByOne(sim, input) ==
    LET tracker == sim.trackers[input.user_id]
    IN  IF \/ input.target_tick <= sim.current_tick
           \/ input.delta \notin -MaxDelta .. MaxDelta
           \/ input.sequence = 0
           \/ input.sequence <= tracker.last_sequence
           \/ tracker.per_tick_count[input.target_tick] > MaxInputsPerTickPerUser
        THEN "refused" ELSE ""

DeltaUnchecked(sim, input) ==
    LET tracker == sim.trackers[input.user_id]
    IN  IF \/ input.target_tick <= sim.current_tick
           \/ input.sequence = 0
           \/ input.sequence <= tracker.last_sequence
           \/ tracker.per_tick_count[input.target_tick] >= MaxInputsPerTickPerUser
        THEN "refused" ELSE ""

(* ValidateInput: the reason of the first rule the input breaks, or "".    *)
ValidateInput(sim, input) ==
    LET tracker == sim.trackers[input.user_id]
    IN  IF      input.target_tick <= sim.current_tick     THEN "stale_tick"
        ELSE IF input.delta \notin -MaxDelta .. MaxDelta  THEN "delta_out_of_range"
        ELSE IF input.sequence = 0                        THEN "sequence_required"
        ELSE IF input.sequence <= tracker.last_sequence   THEN "sequence_not_monotonic"
        ELSE IF tracker.per_tick_count[input.target_tick]
                  >= MaxInputsPerTickPerUser              THEN "tick_input_limit"
        ELSE ""

Accepts(sim, input) == ValidateInput(sim, input) = ""

(* The sender's tracker once it has seen an accepted input.                *)
Count(tracker, input) ==
    [last_sequence  |-> input.sequence,
     per_tick_count |-> [tracker.per_tick_count EXCEPT ![input.target_tick] = @ + 1]]

(* EnqueueInput: a refused input leaves the simulation as it is.           *)
EnqueueInput(sim, input) ==
    IF Accepts(sim, input)
    THEN [sim EXCEPT
            !.trackers[input.user_id]           = Count(@, input),
            !.inputs_by_tick[input.target_tick] = Append(@, input)]
    ELSE sim

---------------------------------------------------------------------------
(* A faulty ApplyEvent: the position is set, not moved.                    *)
ApplyEventAssigns(players, input) ==
    [v \in DOMAIN players \cup {input.user_id} |->
        IF v = input.user_id
        THEN [position |-> input.delta, last_sequence |-> input.sequence]
        ELSE players[v]]

(* ApplyEvent: players_[user_id] creates the player if there is none.      *)
ApplyEvent(players, input) ==
    LET old == IF input.user_id \in DOMAIN players
               THEN players[input.user_id] ELSE NewPlayer
    IN  [v \in DOMAIN players \cup {input.user_id} |->
            IF v = input.user_id
            THEN [position      |-> old.position + input.delta,
                  last_sequence |-> input.sequence]
            ELSE players[v]]

EventBefore(a, b) ==
    \/ a.sequence < b.sequence
    \/ a.sequence = b.sequence /\ a.user_id < b.user_id

(* The stable_sort in TickOnce: of two inputs that EventBefore leaves in a *)
(* tie, the one that arrived first goes first.                             *)
Precedes(inputs) ==
    {p \in (DOMAIN inputs) \X (DOMAIN inputs) :
        \/ EventBefore(inputs[p[1]], inputs[p[2]])
        \/ ~EventBefore(inputs[p[2]], inputs[p[1]]) /\ p[1] < p[2]}

StableSort(inputs) ==
    LET order == InOrder(DOMAIN inputs, Precedes(inputs))
    IN  [i \in DOMAIN inputs |-> inputs[order[i]]]

(* A faulty TickOnce: the inputs of the tick are not erased.               *)
TickKeepsInputs(sim) ==
    LET tick == sim.current_tick + 1
    IN  [sim EXCEPT
            !.current_tick = tick,
            !.players = IF tick \in TargetTicks
                        THEN FoldLeft(ApplyEvent, @, StableSort(sim.inputs_by_tick[tick]))
                        ELSE @]

TickOnce(sim) ==
    LET tick == sim.current_tick + 1
    IN  IF tick \in TargetTicks
        THEN [sim EXCEPT
                !.current_tick         = tick,
                !.players              = FoldLeft(ApplyEvent, @,
                                           StableSort(sim.inputs_by_tick[tick])),
                !.inputs_by_tick[tick] = <<>>]
        ELSE [sim EXCEPT !.current_tick = tick]

(* Snapshot: the players in ascending order of userId.                     *)
Snapshot(sim) ==
    LET users == DOMAIN sim.players
        ids   == InOrder(users, {p \in users \X users : p[1] < p[2]})
    IN  [tick    |-> sim.current_tick,
         players |-> [i \in DOMAIN ids |->
                        [userId       |-> ids[i],
                         position     |-> sim.players[ids[i]].position,
                         lastSequence |-> sim.players[ids[i]].last_sequence]]]
=============================================================================

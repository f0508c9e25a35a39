------------------------------ MODULE Channel ------------------------------
(***************************************************************************)
(* What one WebSocket connection promises to those who send on it, without *)
(* limits, bytes, threads or buffers: messages are taken one at a time and *)
(* handed to the client in that order, each once.  When the channel closes,*)
(* what was taken and not handed over is lost, but for the one message     *)
(* that was under way: it may still arrive, or arrive as garbage.  As long *)
(* as the channel is open, what was taken is handed over in the end.       *)
(***************************************************************************)
EXTENDS Naturals, Sequences

CONSTANTS
    Payloads,                 \* what is sent
    Garbage,
    MaxTaken                  \* bound on the messages taken

VARIABLES
    taken,
    delivered,
    phase                     \* "open"; "closing" with a message under way; "closed"

chVars == <<taken, delivered, phase>>

ChannelInit == taken = <<>> /\ delivered = <<>> /\ phase = "open"

Due == Len(delivered) < Len(taken)

Take(payload) ==
    /\ phase = "open"
    /\ taken' = Append(taken, payload)
    /\ UNCHANGED <<delivered, phase>>

Deliver ==
    /\ phase = "open" /\ Due
    /\ delivered' = Append(delivered, taken[Len(delivered) + 1])
    /\ UNCHANGED <<taken, phase>>

Close ==
    /\ phase = "open"
    /\ phase' \in {"closed"} \cup (IF Due THEN {"closing"} ELSE {})
    /\ UNCHANGED <<taken, delivered>>

(* The message under way arrives, or does not.                             *)
Settle ==
    /\ phase = "closing"
    /\ phase' = "closed"
    /\ \/ UNCHANGED delivered
       \/ \E payload \in {taken[Len(delivered) + 1], Garbage} :
             delivered' = Append(delivered, payload)
    /\ UNCHANGED taken

ChannelNext == (\E payload \in Payloads : Take(payload)) \/ Deliver \/ Close \/ Settle

(* Of the messages taken, none waits for ever on an open channel.          *)
DeliversAll ==
    \A n \in 1 .. MaxTaken :
        Len(taken) >= n ~> Len(delivered) >= n \/ phase # "open"

ChannelSafety == ChannelInit /\ [][ChannelNext]_chVars

ChannelSpec == ChannelSafety /\ DeliversAll
=============================================================================

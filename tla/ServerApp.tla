----------------------------- MODULE ServerApp -----------------------------
(***************************************************************************)
(* The server process (server/src/app.cpp): Run starts the listener and    *)
(* the threads that run the io_context, Stop ends them, the destructor     *)
(* frees what is left.  Composed with the connections of HttpSession and   *)
(* with the strand of one running session, because SubmitInput makes a     *)
(* connection's thread wait for that strand.                               *)
(*                                                                         *)
(* Stop is called as the tests call it, from a thread of its own once Run  *)
(* serves, and by the destructor after Run has returned; joining the       *)
(* thread of Run counts as its last step.  main's SIGINT handler only      *)
(* prints.                                                                 *)
(***************************************************************************)
EXTENDS HttpSession

CONSTANT Workers              \* hardware_concurrency()

(* A thread for every connection, for the session and for the listener:    *)
(* with fewer, waiting inputs can take them all; see SessionManager.       *)
ASSUME ThreadsEnough ==
    /\ IsFiniteSet(Connections)
    /\ Workers \in Nat /\ Workers > Cardinality(Connections) + 1

VARIABLES
    runner,                   \* the thread of Run; see RunnerSteps
    workers_,                 \* number of threads spawned
    running_,
    accepting,                \* the acceptor is open and armed
    stopped,                  \* ioc_.stop() was called
    stop,                     \* Stop: "none", "closed", "joining", "done"; "destroyed"
    strand                    \* of a session: "idle", "tick", "posted"

processVars == <<runner, workers_, running_, accepting, stopped, stop>>
serverVars == <<httpVars, processVars, strand>>

RunnerSteps == {"start", "listening", "spawning", "serving", "failed"}

ServerInit ==
    /\ HttpInit
    /\ runner = "start" /\ workers_ = 0 /\ running_ = FALSE
    /\ accepting = FALSE
    /\ stopped = FALSE /\ stop = "none"
    /\ strand = "idle"

---------------------------------------------------------------------------
(* Handlers.  One runs when a thread is free in ioc_.run(), and none       *)
(* starts after ioc_.stop(); those that run go on.                         *)
InHandler == {c \in Connections : http[c] \in {"issued", "input", "ending"} \/ step[c] = "issue"}

Threads == workers_ + (IF runner = "serving" THEN 1 ELSE 0)

MayStart ==
    /\ ~stopped
    /\ Cardinality(InHandler) + (IF strand = "tick" THEN 1 ELSE 0) < Threads

(* The constructor of Listener: any step up to listen() may throw.         *)
MakeListener ==
    \/ runner' = "listening"
    \/ runner' = "failed"

(* Run: the listener is made, or Run catches the exception and returns.    *)
Listen ==
    /\ runner = "start"
    /\ running_' = TRUE
    /\ MakeListener
    /\ UNCHANGED <<httpVars, workers_, accepting, stopped, stop, strand>>

(* DoAccept, before any thread runs the io_context.                        *)
DoAccept ==
    /\ runner = "listening"
    /\ accepting' = TRUE
    /\ runner' = "spawning"
    /\ UNCHANGED <<httpVars, workers_, running_, stopped, stop, strand>>

(* RunWorkers: one thread more, or none can be made and Run returns; the   *)
(* last thread is that of Run itself.                                      *)
RunWorkers ==
    /\ runner = "spawning"
    /\ \/ workers_ + 1 < Workers /\ workers_' = workers_ + 1 /\ UNCHANGED runner
       \/ workers_ + 1 < Workers /\ UNCHANGED workers_ /\ runner' = "failed"
       \/ workers_ + 1 = Workers /\ UNCHANGED workers_ /\ runner' = "serving"
    /\ UNCHANGED <<httpVars, running_, accepting, stopped, stop, strand>>

(* Stop: nothing if not running; the acceptor is closed, ...               *)
StopListening ==
    /\ stop = "none" /\ runner \in {"serving", "failed"}
    /\ running_
    /\ running_' = FALSE
    /\ accepting' = FALSE
    /\ stop' = "closed"
    /\ UNCHANGED <<httpVars, runner, workers_, stopped, strand>>

(* A faulty Stop: the io_context is left to run out of work.               *)
StopWithoutContext ==
    /\ stop = "closed"
    /\ stop' = "joining"
    /\ UNCHANGED <<httpVars, runner, workers_, running_, accepting, stopped, strand>>

(* ... ioc_.stop(), ...                                                    *)
StopContext ==
    /\ stop = "closed"
    /\ stopped' = TRUE
    /\ stop' = "joining"
    /\ UNCHANGED <<httpVars, runner, workers_, running_, accepting, strand>>

(* ... and the joins: every thread has left its handler and ioc_.run().    *)
Join ==
    /\ stop = "joining"
    /\ stopped /\ InHandler = {} /\ strand # "tick"
    /\ stop' = "done"
    /\ UNCHANGED <<httpVars, runner, workers_, running_, accepting, stopped, strand>>

(* ~ServerApp: Stop again, which returns at once; the io_context destroys  *)
(* the handlers it still holds, and with them every session.               *)
Destroy ==
    /\ stop = "done" /\ ~running_
    /\ stop' = "destroyed"
    /\ http' = [c \in Connections |-> "none"]
    /\ step' = [c \in Connections |-> "closed"]
    /\ session_' = [c \in Connections |-> NoUser]
    /\ resume_token_' = [c \in Connections |-> 0]
    /\ connections_' = [u \in {} |-> NoConnection]
    /\ websocket_active_' = 0
    /\ strand' = "idle"
    /\ UNCHANGED <<tokens_, presented, issued, redeemed, accepts, latest,
                   runner, workers_, running_, accepting, stopped>>

---------------------------------------------------------------------------
(* The strand of a session every connected user plays in.  A tick occupies *)
(* it; inputs that come meanwhile queue up behind, and after the tick the  *)
(* strand posts itself to the io_context once more to run them.            *)
HandleTick ==
    /\ strand = "idle" /\ MayStart
    /\ strand' = "tick"
    /\ UNCHANGED <<httpVars, processVars>>

TickEnds ==
    /\ strand = "tick"
    /\ strand' = IF \E c \in Connections : http[c] = "input" THEN "posted" ELSE "idle"
    /\ UNCHANGED <<httpVars, processVars>>

RunInputs ==
    /\ strand = "posted" /\ MayStart
    /\ strand' = "idle"
    /\ http' = [c \in Connections |-> IF http[c] = "input" THEN "websocket" ELSE http[c]]
    /\ UNCHANGED <<rcVars, accepts, coordinatorVars, processVars>>

(* OnRead with a session.input while the strand is taken; if it is idle    *)
(* the input runs at once, on the connection's thread.                     *)
SubmitInput(c) ==
    /\ Serving(c)
    /\ strand # "idle" /\ MayStart
    /\ Goto(c, "input")
    /\ UNCHANGED <<rcVars, accepts, coordinatorVars, processVars, strand>>

(* Handlers of connection c that start, and steps of those that run.       *)
Starts(c) ==
    /\ MayStart
    /\ \/ accepting /\ Accept(c)
       \/ ReadFails(c) \/ SendResponse(c) \/ ResponseDone(c) \/ HandleWebSocket(c)
       \/ step[c] = "open" /\ HandleResyncRequest(c)
       \/ Release(c)
    /\ UNCHANGED <<processVars, strand>>

Continues(c) ==
    /\ \/ Register(c) \/ Unregister(c)
       \/ step[c] = "issue" /\ HandleResyncRequest(c)
    /\ UNCHANGED <<processVars, strand>>

ProcessStep == Listen \/ DoAccept \/ RunWorkers \/ StopContext \/ Join \/ Destroy
StrandStep == TickEnds \/ RunInputs

ServerNext ==
    \/ ProcessStep \/ StopListening
    \/ HandleTick \/ StrandStep
    \/ \E c \in Connections : SubmitInput(c) \/ Starts(c) \/ Continues(c)

(* A faulty DoRead: no deadline is set.                                    *)
WithoutDeadline(c) ==
    /\ http[c] = "writing" /\ ResponseDone(c)
    /\ MayStart /\ UNCHANGED <<processVars, strand>>

(* The deadline of DoRead: the read or the write it covers ends.           *)
Deadline(c) ==
    /\ ReadFails(c) \/ ResponseDone(c)
    /\ MayStart /\ UNCHANGED <<processVars, strand>>

(* Threads run the handlers that are ready, and a handler that does not    *)
(* wait for another ends; Run and Stop go on once begun, and a Run that    *)
(* has returned is followed by the destructor's Stop.                      *)
ServerFairness ==
    /\ WF_serverVars(ProcessStep) /\ WF_serverVars(runner = "failed" /\ StopListening)
    /\ WF_serverVars(StrandStep)
    /\ \A c \in Connections : WF_serverVars(Deadline(c)) /\ WF_serverVars(Continues(c))

ServerSpec == ServerInit /\ [][ServerNext]_serverVars /\ ServerFairness

---------------------------------------------------------------------------
(* Types; between IssueToken and the end of the destructor, and only then, a *)
(* connection is one of ReconnectService; Stop and Run end in order.         *)
ServerTypeOK ==
    /\ RCTypeOK
    /\ http \in [Connections -> HttpSteps] /\ accepts \in 0 .. MaxAccepts
    /\ \A c \in Connections : step[c] = "closed" <=> http[c] \in {"none", "reading", "writing"}
    /\ DOMAIN connections_ \subseteq Users
    /\ runner \in RunnerSteps /\ workers_ \in 0 .. Workers - 1
    /\ running_ \in BOOLEAN /\ accepting \in BOOLEAN /\ stopped \in BOOLEAN
    /\ stop \in {"none", "closed", "joining", "done", "destroyed"}
    /\ strand \in {"idle", "tick", "posted"}
    /\ stop # "none" => ~running_ /\ ~accepting

(* Shutdown hangs: an input waits for a handler that will never run.         *)
Hung == stopped /\ \E c \in Connections : http[c] = "input"

(* A connection that was accepted is answered, upgraded or closed, however   *)
(* its client behaves and whenever the server is stopped: a request that     *)
(* never comes and an answer that is never taken end with the deadline.      *)
ConnectionsEnd ==
    \A c \in Connections : http[c] \in {"reading", "writing", "issued"}
                               ~> http[c] \in {"none", "websocket"} \/ Hung

(* v1.0.0-runbook.md: the process closes every connection when it ends.  So  *)
(* a Stop that began returns and everything is destroyed - unless an input   *)
(* was waiting for the strand of a session when the io_context was stopped,  *)
(* and then, as the code stands, never.                                      *)
StopReturns == stop = "closed" ~> stop = "destroyed" \/ []Hung
=============================================================================

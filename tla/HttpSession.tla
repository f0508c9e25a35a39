---------------------------- MODULE HttpSession ----------------------------
(***************************************************************************)
(* The life of a TCP connection (server/src/http_session.cpp): accepted by *)
(* the listener, one HTTP request read under a deadline, answered and      *)
(* closed, or upgraded to a WebSocket session that RealtimeCoordinator     *)
(* (server/src/realtime.cpp) keeps by user until its destructor.           *)
(*                                                                         *)
(* A member of Connections stands for an object at an address: the name is *)
(* used again for a later connection, as the allocator may use the address *)
(* again, and it is by the address that Unregister recognises an entry.    *)
(* Several connections of a user overlap, each on its own strand, so the   *)
(* steps between two locks (IssueToken, Register, the destructor's         *)
(* Unregister) are actions.  What the routes do is modelled in Auth,       *)
(* MatchQueue and Results; here a request is answered in one step.         *)
(***************************************************************************)
EXTENDS Reconnect

CONSTANTS
    NoConnection,
    MaxAccepts                \* bound on the connections accepted

ASSUME HttpConstants == NoConnection \notin Connections /\ MaxAccepts \in Nat

VARIABLES
    http,                     \* where each connection is; see HttpSteps
    accepts,                  \* number of connections accepted
    connections_,             \* user |-> the session events are sent to
    websocket_active_,        \* the gauge of Observability
    latest                    \* history: the connection last registered for each user

coordinatorVars == <<connections_, websocket_active_, latest>>
httpVars == <<rcVars, http, accepts, coordinatorVars>>

(* "none": no such object; "reading", "writing": the operation of an       *)
(* HttpSession is outstanding; "issued": Run of the WebSocketSession is    *)
(* between IssueToken and Register; "websocket": it runs; "input": its     *)
(* OnRead waits in SubmitInput; "ending": the last shared_ptr is gone, the *)
(* destructor has not unregistered yet.                                    *)
HttpSteps == {"none", "reading", "writing", "issued", "websocket", "input", "ending"}

HttpInit ==
    /\ RCInit
    /\ http = [c \in Connections |-> "none"]
    /\ accepts = 0
    /\ connections_ = [u \in {} |-> NoConnection]
    /\ websocket_active_ = 0
    /\ latest = [u \in Users |-> NoConnection]

Goto(c, place) == http' = [http EXCEPT ![c] = place]

---------------------------------------------------------------------------
(* The handler of async_accept makes an HttpSession and calls Run, which   *)
(* reads.  An accept that fails is only repeated.                          *)
Accept(c) ==
    /\ http[c] = "none"
    /\ accepts < MaxAccepts
    /\ accepts' = accepts + 1
    /\ Goto(c, "reading")
    /\ UNCHANGED <<rcVars, coordinatorVars>>

(* OnRead without a request: the client is done, gone, sent no HTTP, or    *)
(* let the deadline of 30 s pass.  Nothing is outstanding any more, and    *)
(* the session is destroyed.                                               *)
ReadFails(c) ==
    /\ http[c] = "reading"
    /\ Goto(c, "none")
    /\ UNCHANGED <<rcVars, accepts, coordinatorVars>>

(* HandleRequest, or HandleWebSocket without a valid token: SendResponse.  *)
SendResponse(c) ==
    /\ http[c] = "reading"
    /\ Goto(c, "writing")
    /\ UNCHANGED <<rcVars, accepts, coordinatorVars>>

(* The answer is written, or could not be within the deadline, which still *)
(* counts from the read; no second request is read.                        *)
ResponseDone(c) ==
    /\ http[c] = "writing"
    /\ Goto(c, "none")
    /\ UNCHANGED <<rcVars, accepts, coordinatorVars>>

(* HandleWebSocket with a valid token, up to the IssueToken in Run; if the *)
(* handshake throws instead, the connection ends like in ReadFails.        *)
HandleWebSocket(c) ==
    /\ http[c] = "reading"
    /\ \E user \in Users : Connect(c, user)
    /\ Goto(c, "issued")
    /\ UNCHANGED <<accepts, coordinatorVars>>

---------------------------------------------------------------------------
(* Register; SendAuthState and DoRead follow.                              *)
Register(c) ==
    /\ http[c] = "issued"
    /\ connections_' = [u \in DOMAIN connections_ \cup {session_[c]} |->
                           IF u = session_[c] THEN c ELSE connections_[u]]
    /\ websocket_active_' = Cardinality(DOMAIN connections_')
    /\ latest' = [latest EXCEPT ![session_[c]] = c]
    /\ Goto(c, "websocket")
    /\ UNCHANGED <<rcVars, accepts>>

Serving(c) == http[c] = "websocket" /\ step[c] = "open"

(* OnRead with a resync_request, in two steps; see Reconnect.              *)
HandleResyncRequest(c) ==
    /\ http[c] = "websocket"
    /\ \/ \E token \in 0 .. Len(issued) : ResyncValidate(c, token)
       \/ ResyncIssue(c)
    /\ UNCHANGED <<http, accepts, coordinatorVars>>

(* No operation is outstanding any more, and no event holds the session.   *)
Release(c) ==
    /\ Serving(c)
    /\ Goto(c, "ending")
    /\ UNCHANGED <<rcVars, accepts, coordinatorVars>>

(* A faulty Unregister: the entry is not compared with the session.        *)
UnregisterUser(c) ==
    /\ http[c] = "ending"
    /\ connections_' = [u \in DOMAIN connections_ \ {session_[c]} |-> connections_[u]]
    /\ websocket_active_' = Cardinality(DOMAIN connections_')
    /\ Disconnect(c)
    /\ Goto(c, "none")
    /\ UNCHANGED <<accepts, latest>>

(* The destructor: Unregister, unless a later session took the entry.      *)
Unregister(c) ==
    /\ http[c] = "ending"
    /\ LET stays(u) == u = session_[c] => connections_[u] # c
       IN  connections_' = [u \in {v \in DOMAIN connections_ : stays(v)} |-> connections_[u]]
    /\ websocket_active_' = Cardinality(DOMAIN connections_')
    /\ Disconnect(c)
    /\ Goto(c, "none")
    /\ UNCHANGED <<accepts, latest>>

---------------------------------------------------------------------------
Registered(c) == http[c] \in {"websocket", "input", "ending"}

(* contract.md: server events go to the user's connection.  Whatever order   *)
(* connections of a user come, are replaced and go in, the entry is that of  *)
(* the newest one while it lives; the end of an older one, or of one whose   *)
(* address is used again, does not disturb it; when the newest ends there is *)
(* none, even if an older one is open; and the gauge counts the entries.     *)
NewestIsReached ==
    LET reached == {u \in Users : \E c \in Connections :
                       latest[u] = c /\ Registered(c) /\ session_[c] = u}
    IN  /\ connections_ = [u \in reached |-> latest[u]]
        /\ websocket_active_ = Cardinality(reached)
=============================================================================

----------------------------- MODULE Reconnect -----------------------------
(***************************************************************************)
(* Resume tokens (server/src/reconnect.cpp) and their use by WebSocket     *)
(* connections (Run and HandleResyncRequest in websocket_session.cpp).     *)
(*                                                                         *)
(* Every new connection is issued a token.  A resync_request presents one, *)
(* usually that of an earlier connection; it is validated under the lock   *)
(* of the service and replaced under a second one.  Connections run on     *)
(* their own strands, so other connections act in between.  step[c] is     *)
(* where the handler of connection c is.                                   *)
(***************************************************************************)
EXTENDS Integers, Sequences, FiniteSets

CONSTANTS
    Connections,
    Users,
    NoUser,
    MaxTokens                 \* bound on the tokens issued

ASSUME ReconnectConstants ==
    /\ NoUser \notin Users
    /\ MaxTokens \in Nat

VARIABLES
    tokens_,                  \* token |-> user; tokens are numbered as issued
    session_,                 \* the user each connection is authenticated as
    resume_token_,            \* per connection; 0 before Run
    step,                     \* "closed", "open", "issue"
    presented,                \* the token of the request in progress
    issued,                   \* history: the user each token was issued to
    redeemed                  \* history: [token, by], resyncs that succeeded

rcVars == <<tokens_, session_, resume_token_, step, presented, issued, redeemed>>

RCInit ==
    /\ tokens_ = [t \in {} |-> 0]
    /\ session_ = [c \in Connections |-> NoUser]
    /\ resume_token_ = [c \in Connections |-> 0]
    /\ step = [c \in Connections |-> "closed"]
    /\ presented = [c \in Connections |-> 0]
    /\ issued = <<>>
    /\ redeemed = <<>>

(* The bound leaves room for the tokens about to be issued.                *)
Room == Len(issued) + Cardinality({c \in Connections : step[c] = "issue"}) < MaxTokens

(* A faulty IssueToken: the previous token is not revoked.                 *)
IssueAnother(user, previous) ==
    LET token == Len(issued) + 1
    IN  /\ tokens_' = [t \in DOMAIN tokens_ \cup {token} |-> IF t = token THEN user ELSE tokens_[t]]
        /\ issued' = Append(issued, user)

(* IssueToken; GenerateToken is taken to give a new token each time.       *)
IssueToken(user, previous) ==
    LET token == Len(issued) + 1
        kept  == DOMAIN tokens_ \ previous
    IN  /\ tokens_' = [t \in kept \cup {token} |-> IF t = token THEN user ELSE tokens_[t]]
        /\ issued' = Append(issued, user)

(* Validate; the presented string may never have been a token.             *)
Validate(token, user) == token \in DOMAIN tokens_ /\ tokens_[token] = user

(* A faulty Run: the token is issued but not kept for auth_state.          *)
ConnectWithoutToken(c, user) ==
    /\ step[c] = "closed"
    /\ Room
    /\ IssueToken(user, {})
    /\ session_' = [session_ EXCEPT ![c] = user]
    /\ step' = [step EXCEPT ![c] = "open"]
    /\ UNCHANGED <<resume_token_, presented, redeemed>>

(* The constructor, and Run up to its IssueToken.                          *)
Connect(c, user) ==
    /\ step[c] = "closed"
    /\ Room
    /\ IssueToken(user, {})
    /\ session_' = [session_ EXCEPT ![c] = user]
    /\ resume_token_' = [resume_token_ EXCEPT ![c] = Len(issued')]
    /\ step' = [step EXCEPT ![c] = "open"]
    /\ UNCHANGED <<presented, redeemed>>

(* HandleResyncRequest: Validate, refused with invalid_resume_token, ...   *)
(* Token 0 stands for a string that was never a token.                     *)
ResyncValidate(c, token) ==
    /\ step[c] = "open"
    /\ \/ /\ ~Validate(token, session_[c])
          /\ UNCHANGED <<presented, step>>
       \/ /\ Validate(token, session_[c])
          /\ Room
          /\ presented' = [presented EXCEPT ![c] = token]
          /\ step' = [step EXCEPT ![c] = "issue"]
    /\ UNCHANGED <<tokens_, session_, resume_token_, issued, redeemed>>

(* ... then IssueToken with the presented token, and resync_state.         *)
ResyncIssue(c) ==
    /\ step[c] = "issue"
    /\ IssueToken(session_[c], {presented[c]})
    /\ resume_token_' = [resume_token_ EXCEPT ![c] = Len(issued')]
    /\ redeemed' = Append(redeemed, [token |-> presented[c], by |-> session_[c]])
    /\ presented' = [presented EXCEPT ![c] = 0]
    /\ step' = [step EXCEPT ![c] = "open"]
    /\ UNCHANGED session_

(* The destructor; the service is not told, and the token stays valid.     *)
Disconnect(c) ==
    /\ step[c] = "open"
    /\ step' = [step EXCEPT ![c] = "closed"]
    /\ session_' = [session_ EXCEPT ![c] = NoUser]
    /\ resume_token_' = [resume_token_ EXCEPT ![c] = 0]
    /\ UNCHANGED <<tokens_, presented, issued, redeemed>>

---------------------------------------------------------------------------
(* Types; an open connection knows a token that was issued (auth_state and   *)
(* resync_state send it to the client).                                      *)
RCTypeOK ==
    /\ DOMAIN tokens_ \subseteq DOMAIN issued
    /\ session_ \in [Connections -> Users \cup {NoUser}]
    /\ resume_token_ \in [Connections -> 0 .. Len(issued)]
    /\ step \in [Connections -> {"closed", "open", "issue"}]
    /\ presented \in [Connections -> 0 .. Len(issued)]
    /\ \A c \in Connections : step[c] # "closed" => session_[c] # NoUser /\ resume_token_[c] # 0

(* The service keeps exactly the tokens that were issued and not redeemed,   *)
(* each for its user: no connect, resync or disconnect of anyone else loses  *)
(* a token a client may still come back with, no redeemed one is kept, and a *)
(* resync only ever succeeds with a token of the same user.                  *)
ExactlyUnredeemed ==
    LET spent == {redeemed[i].token : i \in DOMAIN redeemed}
    IN  /\ tokens_ = [t \in DOMAIN issued \ spent |-> issued[t]]
        /\ \A i \in DOMAIN redeemed : issued[redeemed[i].token] = redeemed[i].by

(* v0.4.0-backpressure-reconnect.md: a successful resync revokes the token   *)
(* and issues a new one.  So no token should be good for two resyncs; it is, *)
(* for two connections that both validate it before either replaces it.      *)
RedeemedOnce ==
    \A i, j \in DOMAIN redeemed : redeemed[i].token = redeemed[j].token => i = j
=============================================================================

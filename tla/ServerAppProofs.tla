-------------------------- MODULE ServerAppProofs --------------------------
(***************************************************************************)
(* Proofs about ServerApp, for any connections, users, threads and bounds: *)
(* types, the resume tokens (ExactlyUnredeemed), the routing of events to  *)
(* the newest connection (NewestIsReached), the end of the server, and its *)
(* threads.                                                                *)
(*                                                                         *)
(* Neither invariant is inductive.  A resync in progress must hold a token *)
(* that was issued to its user, though another one may have redeemed it    *)
(* since (Presented); and the order in which the process starts and stops  *)
(* must be known for the types.  IInv is their conjunction.                *)
(***************************************************************************)
EXTENDS ServerApp, SequenceTheorems, FiniteSetTheorems, TLAPS

(* What is known of tokens and of the requests that present them.          *)
Presented ==
    /\ issued \in Seq(Users)
    /\ redeemed \in Seq([token : DOMAIN issued, by : Users])
    /\ \A c \in Connections :
          step[c] = "issue" => /\ presented[c] \in DOMAIN issued
                               /\ issued[presented[c]] = session_[c]

TokenInv == RCTypeOK /\ Presented /\ ExactlyUnredeemed

(* What is known of connections, of the process, and of the entries.       *)
PlaceInv ==
    /\ http \in [Connections -> HttpSteps]
    /\ \A c \in Connections : step[c] = "closed" <=> http[c] \in {"none", "reading", "writing"}

ProcessInv ==
    /\ accepts \in 0 .. MaxAccepts
    /\ runner \in RunnerSteps /\ workers_ \in 0 .. Workers - 1
    /\ running_ \in BOOLEAN /\ accepting \in BOOLEAN /\ stopped \in BOOLEAN
    /\ stop \in {"none", "closed", "joining", "done", "destroyed"}
    /\ strand \in {"idle", "tick", "posted"}
    /\ stop # "none" => ~running_ /\ ~accepting /\ runner \in {"serving", "failed"}

RouteInv == latest \in [Users -> Connections \cup {NoConnection}] /\ NewestIsReached

IInv == TokenInv /\ PlaceInv /\ ProcessInv /\ RouteInv

---------------------------------------------------------------------------
Spent == {redeemed[i].token : i \in DOMAIN redeemed}

(* Tokens.  Those that a resync has redeemed were all issued.              *)
LEMMA RedeemedTokens ==
    ASSUME Presented
    PROVE  \A i \in DOMAIN redeemed : redeemed[i].token \in DOMAIN issued
<1> DEFINE R == [token : DOMAIN issued, by : Users]
           n == Len(redeemed)
<1>1. redeemed \in Seq(R)
  BY DEF Presented
<1> HIDE DEF R
<1>2. n \in Nat /\ DOMAIN redeemed = 1 .. n
  BY <1>1, LenProperties
<1>3. SUFFICES ASSUME NEW i \in DOMAIN redeemed
               PROVE  redeemed[i].token \in DOMAIN issued
  OBVIOUS
<1>4. redeemed[i] \in R
  BY <1>1, <1>2, ElementOfSeq
<1>5. QED BY <1>4 DEF R

(* IssueToken adds one token, and drops the previous one.                  *)
LEMMA Issue ==
    ASSUME TokenInv, NEW user \in Users, NEW previous \in SUBSET Nat,
           IssueToken(user, previous)
    PROVE  /\ issued' \in Seq(Users) /\ Len(issued') \in Nat /\ Len(issued') # 0
           /\ Len(issued') = Len(issued) + 1
           /\ DOMAIN issued \subseteq DOMAIN issued' /\ Len(issued') \in DOMAIN issued'
           /\ \A t \in DOMAIN issued : issued'[t] = issued[t]
           /\ tokens_' = [t \in DOMAIN issued' \ ((Spent \cup previous) \ {Len(issued')})
                            |-> issued'[t]]
           /\ Len(issued') \notin Spent
<1> DEFINE n == Len(issued)
           kept == DOMAIN tokens_ \ previous
<1>1. issued \in Seq(Users) /\ n \in Nat /\ DOMAIN issued = 1 .. n
  BY LenProperties DEF TokenInv, Presented
<1>2. /\ tokens_' = [t \in kept \cup {n + 1} |-> IF t = n + 1 THEN user ELSE tokens_[t]]
      /\ issued' = Append(issued, user)
  BY DEF IssueToken
<1>3. /\ issued' \in Seq(Users) /\ Len(issued') = n + 1 /\ DOMAIN issued' = 1 .. n + 1
      /\ issued'[n + 1] = user /\ \A t \in 1 .. n : issued'[t] = issued[t]
  BY <1>1, <1>2, AppendProperties, LenProperties
<1>4. Spent \subseteq 1 .. n
  BY <1>1, RedeemedTokens DEF TokenInv, Spent
<1>5. tokens_ = [t \in 1 .. n \ Spent |-> issued[t]]
  BY <1>1 DEF TokenInv, ExactlyUnredeemed, Spent
<1> HIDE DEF n
<1>6. n + 1 \notin 1 .. n /\ 1 .. n + 1 = 1 .. n \cup {n + 1}
  BY <1>1
<1>7. kept \cup {n + 1} = 1 .. n + 1 \ ((Spent \cup previous) \ {n + 1})
  BY <1>4, <1>5, <1>6
<1>8. \A t \in kept : t # n + 1 /\ tokens_[t] = issued'[t]
  BY <1>3, <1>5, <1>6
<1>9. tokens_' = [t \in 1 .. n + 1 \ ((Spent \cup previous) \ {n + 1}) |-> issued'[t]]
  BY <1>2, <1>3, <1>7, <1>8
<1>10. QED BY <1>1, <1>3, <1>4, <1>6, <1>9 DEF n

(* A new connection.                                                       *)
LEMMA ConnectTokens ==
    ASSUME TokenInv, NEW c \in Connections, NEW user \in Users, Connect(c, user)
    PROVE  TokenInv'
<1>1. /\ issued' \in Seq(Users) /\ Len(issued') \in Nat /\ Len(issued') # 0
      /\ Len(issued') = Len(issued) + 1
      /\ DOMAIN issued \subseteq DOMAIN issued' /\ Len(issued') \in DOMAIN issued'
      /\ \A t \in DOMAIN issued : issued'[t] = issued[t]
      /\ tokens_' = [t \in DOMAIN issued' \ (Spent \ {Len(issued')}) |-> issued'[t]]
      /\ Len(issued') \notin Spent
  <2>1. {} \in SUBSET Nat /\ IssueToken(user, {})
    BY DEF Connect
  <2>2. Spent \cup {} = Spent
    OBVIOUS
  <2>3. QED BY <2>1, <2>2, Issue
<1>2. Spent \ {Len(issued')} = Spent /\ redeemed' = redeemed
  BY <1>1 DEF Connect
<1>3. redeemed \in Seq([token : DOMAIN issued', by : Users])
  BY <1>1, SeqMonotonic DEF TokenInv, Presented
<1>4. \A i \in DOMAIN redeemed : redeemed[i].token \in DOMAIN issued
  BY RedeemedTokens DEF TokenInv
<1>5. ExactlyUnredeemed'
  BY <1>1, <1>2, <1>4 DEF TokenInv, ExactlyUnredeemed, Spent
<1>6. Len(issued) \in Nat
  BY LenProperties DEF TokenInv, Presented
<1>7. RCTypeOK'
  BY <1>1, <1>6, ReconnectConstants DEF Connect, TokenInv, RCTypeOK
<1>8. Presented'
  BY <1>1, <1>2, <1>3 DEF Connect, TokenInv, Presented, RCTypeOK
<1>9. QED BY <1>5, <1>7, <1>8 DEF TokenInv

(* The first step of a resync: a token that passes is the user's own.      *)
LEMMA ValidateTokens ==
    ASSUME TokenInv, NEW c \in Connections, NEW token \in 0 .. Len(issued), ResyncValidate(c, token)
    PROVE  TokenInv'
<1>1. UNCHANGED <<tokens_, session_, resume_token_, issued, redeemed>>
  BY DEF ResyncValidate
<1>2. CASE UNCHANGED <<presented, step>>
  BY <1>1, <1>2 DEF TokenInv, RCTypeOK, Presented, ExactlyUnredeemed
<1>3. CASE /\ Validate(token, session_[c])
           /\ presented' = [presented EXCEPT ![c] = token]
           /\ step' = [step EXCEPT ![c] = "issue"]
           /\ step[c] = "open"
  <2>1. token \in DOMAIN issued /\ issued[token] = session_[c]
    BY <1>3 DEF Validate, TokenInv, ExactlyUnredeemed
  <2>2. RCTypeOK'
    BY <1>1, <1>3 DEF TokenInv, RCTypeOK
  <2>3. Presented'
    BY <1>1, <1>3, <2>1 DEF TokenInv, RCTypeOK, Presented
  <2>4. QED BY <1>1, <2>2, <2>3 DEF TokenInv, ExactlyUnredeemed
<1>4. QED BY <1>2, <1>3 DEF ResyncValidate

(* The second: another resync may have redeemed the token since, but it    *)
(* was issued to this user, and redeeming it again drops no other.         *)
LEMMA IssueTokens ==
    ASSUME TokenInv, NEW c \in Connections, ResyncIssue(c)
    PROVE  TokenInv'
<1> DEFINE t0 == presented[c]
           u0 == session_[c]
<1>1. /\ t0 \in DOMAIN issued /\ issued[t0] = u0 /\ u0 \in Users
      /\ Len(issued) \in Nat /\ DOMAIN issued = 1 .. Len(issued)
  BY LenProperties DEF ResyncIssue, TokenInv, RCTypeOK, Presented
<1>2. /\ issued' \in Seq(Users) /\ Len(issued') \in Nat /\ Len(issued') # 0
      /\ Len(issued') = Len(issued) + 1
      /\ DOMAIN issued \subseteq DOMAIN issued' /\ Len(issued') \in DOMAIN issued'
      /\ \A t \in DOMAIN issued : issued'[t] = issued[t]
      /\ tokens_' = [t \in DOMAIN issued' \ ((Spent \cup {t0}) \ {Len(issued')}) |-> issued'[t]]
      /\ Len(issued') \notin Spent
  <2>1. {t0} \in SUBSET Nat /\ IssueToken(u0, {t0})
    BY <1>1 DEF ResyncIssue
  <2>2. QED BY <1>1, <2>1, Issue
<1> DEFINE r == [token |-> t0, by |-> u0]
           n == Len(redeemed)
<1>3. redeemed' = Append(redeemed, r)
  BY DEF ResyncIssue
<1>4. redeemed \in Seq([token : DOMAIN issued', by : Users]) /\ r \in [token : DOMAIN issued', by : Users]
  BY <1>1, <1>2, SeqMonotonic DEF TokenInv, Presented
<1>5. /\ redeemed' \in Seq([token : DOMAIN issued', by : Users])
      /\ n \in Nat /\ DOMAIN redeemed = 1 .. n /\ DOMAIN redeemed' = 1 .. n + 1
      /\ redeemed'[n + 1] = r /\ \A i \in 1 .. n : redeemed'[i] = redeemed[i]
  <2>1. n \in Nat /\ DOMAIN redeemed = 1 .. n
    BY <1>4, LenProperties
  <2>2. redeemed' \in Seq([token : DOMAIN issued', by : Users]) /\ Len(redeemed') = n + 1
    BY <1>3, <1>4, AppendProperties
  <2>3. DOMAIN redeemed' = 1 .. n + 1
    BY <2>2, LenProperties
  <2>4. QED BY <1>3, <1>4, <2>1, <2>2, <2>3, AppendProperties
<1>6. \A i \in DOMAIN redeemed : redeemed[i].token \in DOMAIN issued
  BY RedeemedTokens DEF TokenInv
<1> HIDE DEF n
<1>7. 1 .. n + 1 = 1 .. n \cup {n + 1}
  BY <1>5
<1>8. {redeemed'[i].token : i \in DOMAIN redeemed'} = Spent \cup {t0}
  BY <1>5, <1>7 DEF Spent
<1>9. (Spent \cup {t0}) \ {Len(issued')} = Spent \cup {t0}
  BY <1>1, <1>2
<1>10. \A i \in DOMAIN redeemed' : issued'[redeemed'[i].token] = redeemed'[i].by
  BY <1>1, <1>2, <1>5, <1>6, <1>7 DEF TokenInv, ExactlyUnredeemed
<1>11. ExactlyUnredeemed'
  BY <1>2, <1>8, <1>9, <1>10 DEF ExactlyUnredeemed
<1>12. RCTypeOK'
  BY <1>1, <1>2 DEF ResyncIssue, TokenInv, RCTypeOK
<1>13. Presented'
  BY <1>1, <1>2, <1>5 DEF ResyncIssue, TokenInv, RCTypeOK, Presented
<1>14. QED BY <1>11, <1>12, <1>13 DEF TokenInv

(* Connections that end, one at a time or all of them, leave every token.  *)
LEMMA EndTokens ==
    ASSUME TokenInv, UNCHANGED <<tokens_, presented, issued, redeemed>>,
           \/ \E c \in Connections : Disconnect(c)
           \/ /\ step' = [c \in Connections |-> "closed"]
              /\ session_' = [c \in Connections |-> NoUser]
              /\ resume_token_' = [c \in Connections |-> 0]
    PROVE  TokenInv'
<1>1. Len(issued) \in Nat
  BY LenProperties DEF TokenInv, Presented
<1>2. CASE \E c \in Connections : Disconnect(c)
  <2>1. PICK c \in Connections : Disconnect(c)
    BY <1>2
  <2>2. RCTypeOK'
    BY <1>1, <2>1 DEF Disconnect, TokenInv, RCTypeOK
  <2>3. Presented'
    BY <2>1 DEF Disconnect, TokenInv, RCTypeOK, Presented
  <2>4. QED BY <2>2, <2>3 DEF TokenInv, ExactlyUnredeemed
<1>3. CASE /\ step' = [c \in Connections |-> "closed"]
           /\ session_' = [c \in Connections |-> NoUser]
           /\ resume_token_' = [c \in Connections |-> 0]
  <2>1. RCTypeOK'
    BY <1>1, <1>3 DEF TokenInv, RCTypeOK
  <2>2. Presented'
    BY <1>3 DEF TokenInv, RCTypeOK, Presented
  <2>3. QED BY <2>1, <2>2 DEF TokenInv, ExactlyUnredeemed
<1>4. QED BY <1>2, <1>3

(* Every step of the server is one of these for the tokens.                *)
LEMMA TokensKept ==
    ASSUME TokenInv, [ServerNext]_serverVars
    PROVE  TokenInv'
<1>1. CASE UNCHANGED rcVars
  BY <1>1 DEF rcVars, TokenInv, RCTypeOK, Presented, ExactlyUnredeemed
<1>2. CASE Destroy
  <2>1. UNCHANGED <<tokens_, presented, issued, redeemed>>
    BY <1>2 DEF Destroy
  <2>2. QED BY <1>2, <2>1, EndTokens DEF Destroy
<1>3. ASSUME NEW c \in Connections, Starts(c) \/ Continues(c)
      PROVE  TokenInv'
  <2>1. CASE HandleWebSocket(c)
    BY <2>1, ConnectTokens DEF HandleWebSocket
  <2>2. CASE HandleResyncRequest(c)
    BY <2>2, ValidateTokens, IssueTokens DEF HandleResyncRequest
  <2>3. CASE Unregister(c)
    <3>1. Disconnect(c)
      BY <2>3 DEF Unregister
    <3>2. UNCHANGED <<tokens_, presented, issued, redeemed>>
      BY <3>1 DEF Disconnect
    <3>3. QED BY <3>1, <3>2, EndTokens
  <2>4. CASE Accept(c) \/ ReadFails(c) \/ SendResponse(c) \/ ResponseDone(c)
                \/ Release(c) \/ Register(c)
    BY <1>1, <2>4 DEF Accept, ReadFails, SendResponse, ResponseDone, Release, Register
  <2>5. QED BY <1>3, <2>1, <2>2, <2>3, <2>4 DEF Starts, Continues
<1>4. CASE \E c \in Connections : SubmitInput(c)
  BY <1>1, <1>4 DEF SubmitInput
<1>5. CASE \/ Listen \/ DoAccept \/ RunWorkers \/ StopListening \/ StopContext \/ Join
           \/ HandleTick \/ TickEnds \/ RunInputs
  BY <1>1, <1>5 DEF Listen, DoAccept, RunWorkers, StopListening, StopContext, Join,
                    HandleTick, TickEnds, RunInputs, httpVars
<1>6. CASE UNCHANGED serverVars
  BY <1>1, <1>6 DEF serverVars, httpVars
<1>7. QED BY <1>2, <1>3, <1>4, <1>5, <1>6 DEF ServerNext, ProcessStep, StrandStep

---------------------------------------------------------------------------
(* Places.  A connection is one of ReconnectService from its IssueToken to *)
(* its destructor, whatever the others do.                                 *)
LEMMA PlacesKept ==
    ASSUME TokenInv, PlaceInv, [ServerNext]_serverVars
    PROVE  PlaceInv'
<1>1. step \in [Connections -> {"closed", "open", "issue"}]
  BY DEF TokenInv, RCTypeOK
<1>2. CASE UNCHANGED httpVars
  BY <1>2 DEF httpVars, rcVars, PlaceInv
<1>3. CASE Destroy
  BY <1>3 DEF Destroy, PlaceInv, HttpSteps
<1>4. CASE RunInputs
  BY <1>4 DEF RunInputs, rcVars, PlaceInv, HttpSteps
<1>5. ASSUME NEW c \in Connections, SubmitInput(c) \/ Starts(c) \/ Continues(c)
      PROVE  PlaceInv'
  <2>1. CASE SubmitInput(c)
    BY <2>1 DEF SubmitInput, Serving, Goto, rcVars, PlaceInv, HttpSteps
  <2>2. CASE Accept(c)
    BY <2>2 DEF Accept, Goto, rcVars, PlaceInv, HttpSteps
  <2>3. CASE ReadFails(c) \/ SendResponse(c) \/ ResponseDone(c)
    BY <2>3 DEF ReadFails, SendResponse, ResponseDone, Goto, rcVars, PlaceInv, HttpSteps
  <2>4. CASE HandleWebSocket(c)
    BY <1>1, <2>4 DEF HandleWebSocket, Connect, Goto, PlaceInv, HttpSteps
  <2>5. CASE HandleResyncRequest(c)
    BY <1>1, <2>5 DEF HandleResyncRequest, ResyncValidate, ResyncIssue, PlaceInv
  <2>6. CASE Release(c) \/ Register(c)
    BY <2>6 DEF Release, Register, Serving, Goto, rcVars, PlaceInv, HttpSteps
  <2>7. CASE Unregister(c)
    BY <1>1, <2>7 DEF Unregister, Disconnect, Goto, PlaceInv, HttpSteps
  <2>8. QED BY <1>5, <2>1, <2>2, <2>3, <2>4, <2>5, <2>6, <2>7 DEF Starts, Continues
<1>6. CASE \/ Listen \/ DoAccept \/ RunWorkers \/ StopListening \/ StopContext \/ Join
           \/ HandleTick \/ TickEnds
  BY <1>2, <1>6 DEF Listen, DoAccept, RunWorkers, StopListening, StopContext, Join,
                    HandleTick, TickEnds
<1>7. CASE UNCHANGED serverVars
  BY <1>2, <1>7 DEF serverVars
<1>8. QED BY <1>3, <1>4, <1>5, <1>6, <1>7 DEF ServerNext, ProcessStep, StrandStep

(* The process.  Stop comes after Run, and the acceptor stays closed.      *)
LEMMA ProcessKept ==
    ASSUME ProcessInv, [ServerNext]_serverVars
    PROVE  ProcessInv'
<1>1. CASE UNCHANGED <<processVars, strand, accepts>>
  BY <1>1 DEF processVars, ProcessInv
<1>2. CASE Listen \/ DoAccept \/ RunWorkers
  <2>1. UNCHANGED <<accepts, stopped, stop, strand>> /\ stop = "none"
    BY <1>2 DEF Listen, DoAccept, RunWorkers, httpVars, ProcessInv
  <2>2. running_' \in BOOLEAN /\ accepting' \in BOOLEAN
    BY <1>2 DEF Listen, DoAccept, RunWorkers, ProcessInv
  <2>3. runner' \in RunnerSteps /\ workers_' \in 0 .. Workers - 1
    BY <1>2, ThreadsEnough DEF Listen, MakeListener, DoAccept, RunWorkers, ProcessInv, RunnerSteps
  <2>4. QED BY <2>1, <2>2, <2>3 DEF ProcessInv
<1>3. CASE StopListening \/ StopContext \/ Join \/ Destroy
  <2>1. UNCHANGED <<accepts, runner, workers_>>
    BY <1>3 DEF StopListening, StopContext, Join, Destroy, httpVars
  <2>2. runner \in {"serving", "failed"} /\ ~running_' /\ ~accepting'
    BY <1>3 DEF StopListening, StopContext, Join, Destroy, ProcessInv
  <2>3. running_' \in BOOLEAN /\ accepting' \in BOOLEAN /\ stopped' \in BOOLEAN
    BY <1>3 DEF StopListening, StopContext, Join, Destroy, ProcessInv
  <2>4. /\ stop' \in {"none", "closed", "joining", "done", "destroyed"}
        /\ strand' \in {"idle", "tick", "posted"}
    BY <1>3 DEF StopListening, StopContext, Join, Destroy, ProcessInv
  <2>5. QED BY <2>1, <2>2, <2>3, <2>4 DEF ProcessInv
<1>4. CASE HandleTick \/ TickEnds \/ RunInputs
  BY <1>4 DEF HandleTick, TickEnds, RunInputs, httpVars, processVars, ProcessInv
<1>5. ASSUME NEW c \in Connections, SubmitInput(c) \/ Starts(c) \/ Continues(c)
      PROVE  ProcessInv'
  <2>1. CASE SubmitInput(c)
    BY <1>1, <2>1 DEF SubmitInput
  <2>2. CASE Accept(c) /\ UNCHANGED <<processVars, strand>>
    BY <2>2, HttpConstants DEF Accept, processVars, ProcessInv
  <2>3. CASE Starts(c) /\ ~Accept(c)
    BY <1>1, <2>3 DEF Starts, ReadFails, SendResponse, ResponseDone, HandleWebSocket,
                      HandleResyncRequest, Release
  <2>4. CASE Continues(c)
    BY <1>1, <2>4 DEF Continues, Register, Unregister, HandleResyncRequest
  <2>5. QED BY <1>5, <2>1, <2>2, <2>3, <2>4 DEF Starts
<1>6. CASE UNCHANGED serverVars
  BY <1>1, <1>6 DEF serverVars, httpVars
<1>7. QED BY <1>2, <1>3, <1>4, <1>5, <1>6 DEF ServerNext, ProcessStep, StrandStep

---------------------------------------------------------------------------
(* Events.  The users whose newest connection lives.                       *)
Reached == {u \in Users : \E c \in Connections :
               latest[u] = c /\ Registered(c) /\ session_[c] = u}

(* A step of which neither the coordinator nor a registered connection     *)
(* sees anything.                                                          *)
LEMMA RouteKept ==
    ASSUME RouteInv, UNCHANGED coordinatorVars,
           \A c \in Connections : /\ Registered(c)' <=> Registered(c)
                                  /\ Registered(c) => session_'[c] = session_[c]
    PROVE  RouteInv'
<1>1. Reached' = Reached
  BY DEF Reached, coordinatorVars
<1>2. QED BY <1>1 DEF RouteInv, NewestIsReached, Reached, coordinatorVars

(* Register takes the user's entry from whoever has it.                    *)
LEMMA RouteRegister ==
    ASSUME TokenInv, PlaceInv, RouteInv, NEW c \in Connections, Register(c)
    PROVE  RouteInv'
<1> DEFINE s == session_[c]
<1>1. s \in Users /\ session_' = session_
  BY DEF Register, TokenInv, RCTypeOK, PlaceInv, rcVars
<1>2. latest' = [latest EXCEPT ![s] = c] /\ http' = [http EXCEPT ![c] = "websocket"]
  BY DEF Register, Goto
<1>3. latest' \in [Users -> Connections \cup {NoConnection}] /\ latest'[s] = c
  BY <1>1, <1>2 DEF RouteInv
<1>4. /\ ~Registered(c) /\ Registered(c)'
      /\ \A d \in Connections \ {c} : Registered(d)' <=> Registered(d)
  BY <1>2 DEF Registered, PlaceInv, Register
<1>5. Reached' = Reached \cup {s}
  <2>1. ASSUME NEW u \in Users, u # s
        PROVE  u \in Reached' <=> u \in Reached
    BY <1>1, <1>2, <1>4, <2>1 DEF Reached, RouteInv
  <2>2. s \in Reached'
    BY <1>1, <1>3, <1>4 DEF Reached
  <2>3. QED BY <1>1, <2>1, <2>2 DEF Reached
<1>6. connections_ = [u \in Reached |-> latest[u]]
  BY DEF RouteInv, NewestIsReached, Reached
<1>7. connections_' = [u \in Reached' |-> latest'[u]]
  <2>1. connections_' = [u \in DOMAIN connections_ \cup {s} |->
                            IF u = s THEN c ELSE connections_[u]]
    BY DEF Register
  <2>2. \A u \in Reached : u # s => latest'[u] = latest[u]
    BY <1>2 DEF Reached, RouteInv
  <2>3. QED BY <1>3, <1>5, <1>6, <2>1, <2>2
<1>8. websocket_active_' = Cardinality(Reached')
  BY <1>7 DEF Register
<1>9. QED BY <1>3, <1>7, <1>8 DEF RouteInv, NewestIsReached, Reached

(* Unregister gives up the entry only if it is the session's own.          *)
LEMMA RouteUnregister ==
    ASSUME TokenInv, PlaceInv, RouteInv, NEW c \in Connections, Unregister(c)
    PROVE  RouteInv'
<1> DEFINE s == session_[c]
<1>1. /\ latest' = latest /\ http' = [http EXCEPT ![c] = "none"]
      /\ session_' = [session_ EXCEPT ![c] = NoUser]
  BY DEF Unregister, Goto, Disconnect
<1>2. /\ Registered(c) /\ ~Registered(c)'
      /\ \A d \in Connections \ {c} : /\ Registered(d)' <=> Registered(d)
                                        /\ session_'[d] = session_[d]
  BY <1>1 DEF Registered, PlaceInv, Unregister, TokenInv, RCTypeOK
<1>3. connections_ = [u \in Reached |-> latest[u]]
  BY DEF RouteInv, NewestIsReached, Reached
<1>4. Reached' = {u \in Reached : u = s => connections_[u] # c}
  BY <1>1, <1>2, <1>3 DEF Reached
<1>5. connections_' = [u \in Reached' |-> latest'[u]]
  BY <1>1, <1>3, <1>4 DEF Unregister
<1>6. websocket_active_' = Cardinality(Reached')
  BY <1>5 DEF Unregister
<1>7. QED BY <1>1, <1>5, <1>6 DEF RouteInv, NewestIsReached, Reached

(* Every other step is one that RouteKept covers, or clears all entries.   *)
LEMMA RoutesKept ==
    ASSUME TokenInv, PlaceInv, RouteInv, [ServerNext]_serverVars
    PROVE  RouteInv'
<1>1. CASE UNCHANGED httpVars
  BY <1>1, RouteKept DEF httpVars, rcVars, Registered
<1>2. CASE Destroy
  <2>1. Reached' = {}
    BY <1>2 DEF Destroy, Reached, Registered
  <2>2. connections_' = [u \in {} |-> latest'[u]] /\ websocket_active_' = 0 /\ latest' = latest
    BY <1>2 DEF Destroy
  <2>3. Cardinality({}) = 0
    BY FS_EmptySet
  <2>4. QED BY <2>1, <2>2, <2>3 DEF RouteInv, NewestIsReached, Reached
<1>3. CASE RunInputs
  BY <1>3, RouteKept DEF RunInputs, rcVars, Registered, PlaceInv
<1>4. ASSUME NEW c \in Connections, SubmitInput(c) \/ Starts(c) \/ Continues(c)
      PROVE  RouteInv'
  <2>1. CASE \/ SubmitInput(c) \/ Accept(c) \/ ReadFails(c) \/ SendResponse(c)
             \/ ResponseDone(c) \/ Release(c)
    BY <2>1, RouteKept DEF SubmitInput, Accept, ReadFails, SendResponse, ResponseDone,
       Release, Serving, Goto, rcVars, Registered, PlaceInv
  <2>2. CASE HandleWebSocket(c)
    BY <2>2, RouteKept DEF HandleWebSocket, Connect, Goto, Registered, PlaceInv, TokenInv, RCTypeOK
  <2>3. CASE HandleResyncRequest(c)
    BY <2>3, RouteKept DEF HandleResyncRequest, ResyncValidate, ResyncIssue, Registered
  <2>4. QED BY <1>4, <2>1, <2>2, <2>3, RouteRegister, RouteUnregister DEF Starts, Continues
<1>5. CASE \/ Listen \/ DoAccept \/ RunWorkers \/ StopListening \/ StopContext \/ Join
           \/ HandleTick \/ TickEnds
  BY <1>1, <1>5 DEF Listen, DoAccept, RunWorkers, StopListening, StopContext, Join,
                    HandleTick, TickEnds
<1>6. CASE UNCHANGED serverVars
  BY <1>1, <1>6 DEF serverVars
<1>7. QED BY <1>2, <1>3, <1>4, <1>5, <1>6 DEF ServerNext, ProcessStep, StrandStep

---------------------------------------------------------------------------
(* The server's first state.                                               *)
LEMMA Start == ServerInit => IInv
<1> SUFFICES ASSUME ServerInit PROVE IInv
  OBVIOUS
<1> USE DEF ServerInit, HttpInit, RCInit
<1>1. issued \in Seq(Users) /\ redeemed \in Seq([token : DOMAIN issued, by : Users])
  BY EmptySeq
<1>2. Len(issued) = 0 /\ DOMAIN issued = {} /\ DOMAIN redeemed = {}
  OBVIOUS
<1>3. RCTypeOK
  BY <1>2 DEF RCTypeOK
<1>4. ExactlyUnredeemed
  BY <1>2 DEF ExactlyUnredeemed
<1>5. TokenInv
  BY <1>1, <1>3, <1>4 DEF TokenInv, Presented
<1>6. PlaceInv
  BY DEF PlaceInv, HttpSteps
<1>7. 0 \in 0 .. Workers - 1
  BY ThreadsEnough, FS_CardinalityType
<1>8. ProcessInv
  <2>1. running_ \in BOOLEAN /\ accepting \in BOOLEAN /\ stopped \in BOOLEAN
    OBVIOUS
  <2>2. accepts \in 0 .. MaxAccepts /\ workers_ \in 0 .. Workers - 1
    BY <1>7, HttpConstants
  <2>3. runner \in RunnerSteps /\ stop = "none" /\ strand = "idle"
    BY DEF RunnerSteps
  <2>4. QED BY <2>1, <2>2, <2>3 DEF ProcessInv
<1>9. Reached = {}
  BY DEF Reached, Registered
<1>10. connections_ = [u \in Reached |-> latest[u]] /\ websocket_active_ = Cardinality(Reached)
  BY <1>9, FS_EmptySet
<1>11. RouteInv
  BY <1>10 DEF RouteInv, NewestIsReached, Reached
<1>12. QED BY <1>5, <1>6, <1>8, <1>11 DEF IInv

(* Whatever connections, clients, threads and Stop do, and in whatever     *)
(* order: IInv holds.                                                      *)
LEMMA Invariance == ServerSpec => []IInv
<1>1. IInv /\ [ServerNext]_serverVars => IInv'
  BY TokensKept, PlacesKept, ProcessKept, RoutesKept DEF IInv
<1>2. QED BY <1>1, Start, PTL DEF ServerSpec

(* Types; also, a connection is one of ReconnectService exactly between    *)
(* its IssueToken and its destructor, and Stop comes after Run.            *)
THEOREM ServerTypeCorrect == ServerSpec => []ServerTypeOK
<1>1. IInv => DOMAIN connections_ \subseteq Users
  BY DEF IInv, RouteInv, NewestIsReached
<1>2. IInv => ServerTypeOK
  BY <1>1 DEF IInv, TokenInv, PlaceInv, ProcessInv, ServerTypeOK
<1>3. QED BY <1>2, Invariance, PTL

(* ReconnectService keeps exactly the tokens issued and not redeemed, for  *)
(* any number of connections whose resyncs overlap.                        *)
THEOREM TokensExact == ServerSpec => []ExactlyUnredeemed
<1>1. IInv => ExactlyUnredeemed
  BY DEF IInv, TokenInv
<1>2. QED BY <1>1, Invariance, PTL

(* RealtimeCoordinator reaches the newest connection of each user while it *)
(* lives, in whatever order connections are replaced, end and are reused.  *)
THEOREM NewestReached == ServerSpec => []NewestIsReached
<1>1. IInv => NewestIsReached
  BY DEF IInv, RouteInv
<1>2. QED BY <1>1, Invariance, PTL

---------------------------------------------------------------------------
(***************************************************************************)
(* A token is good from its issue until somebody redeems it, and then      *)
(* never again; the only one who takes it away is its own user's resync.   *)
(***************************************************************************)
RedeemedNow(t) ==
    \E c \in Connections : ResyncIssue(c) /\ presented[c] = t /\ session_[c] = tokens_[t]

TokenHistory ==
    /\ \A t \in DOMAIN issued \ DOMAIN tokens_ : t \in DOMAIN issued' \ DOMAIN tokens_'
    /\ \A t \in DOMAIN tokens_ :
          \/ t \in DOMAIN tokens_' /\ tokens_'[t] = tokens_[t]
          \/ RedeemedNow(t)

LEMMA StepKeepsTokens ==
    ASSUME TokenInv, [ServerNext]_serverVars
    PROVE  TokenHistory
<1>0. tokens_ = [t \in DOMAIN issued \ Spent |-> issued[t]]
  BY DEF TokenInv, ExactlyUnredeemed, Spent
<1>1. CASE UNCHANGED <<tokens_, issued>>
  BY <1>1 DEF TokenHistory
<1>2. ASSUME NEW c \in Connections, NEW user \in Users, Connect(c, user)
      PROVE  TokenHistory
  <2>1. {} \in SUBSET Nat /\ IssueToken(user, {})
    BY <1>2 DEF Connect
  <2>2. Spent \cup {} = Spent
    OBVIOUS
  <2>3. /\ Len(issued') \notin Spent
        /\ DOMAIN issued \subseteq DOMAIN issued'
        /\ \A t \in DOMAIN issued : issued'[t] = issued[t]
        /\ tokens_' = [t \in DOMAIN issued' \ (Spent \ {Len(issued')}) |-> issued'[t]]
    BY <2>1, <2>2, Issue
  <2>4. QED BY <1>0, <2>3 DEF TokenHistory
<1>3. ASSUME NEW c \in Connections, ResyncIssue(c)
      PROVE  TokenHistory
  <2> DEFINE t0 == presented[c]
             u0 == session_[c]
  <2>1. t0 \in DOMAIN issued /\ issued[t0] = u0 /\ u0 \in Users
    BY <1>3 DEF ResyncIssue, TokenInv, RCTypeOK, Presented
  <2>2. {t0} \in SUBSET Nat /\ IssueToken(u0, {t0})
    BY <1>3, <2>1 DEF ResyncIssue, TokenInv, Presented
  <2>3. /\ Len(issued') \notin Spent /\ Len(issued') = Len(issued) + 1
        /\ DOMAIN issued \subseteq DOMAIN issued'
        /\ \A t \in DOMAIN issued : issued'[t] = issued[t]
        /\ tokens_' = [t \in DOMAIN issued' \ ((Spent \cup {t0}) \ {Len(issued')}) |-> issued'[t]]
    BY <2>1, <2>2, Issue
  <2>4. ASSUME NEW t \in DOMAIN issued \ DOMAIN tokens_
        PROVE  t \in DOMAIN issued' \ DOMAIN tokens_'
    BY <1>0, <2>3
  <2>5. ASSUME NEW t \in DOMAIN tokens_
        PROVE  \/ t \in DOMAIN tokens_' /\ tokens_'[t] = tokens_[t]
               \/ RedeemedNow(t)
    <3>1. CASE t = t0
      BY <1>0, <1>3, <2>1, <3>1 DEF RedeemedNow
    <3>2. CASE t # t0
      BY <1>0, <2>3, <3>2
    <3>3. QED BY <3>1, <3>2
  <2>6. QED BY <2>4, <2>5 DEF TokenHistory
<1>4. ASSUME NEW c \in Connections, SubmitInput(c) \/ Starts(c) \/ Continues(c)
      PROVE  TokenHistory
  <2>1. CASE HandleWebSocket(c)
    BY <1>2, <2>1 DEF HandleWebSocket
  <2>2. CASE HandleResyncRequest(c)
    BY <1>1, <1>3, <2>2 DEF HandleResyncRequest, ResyncValidate
  <2>3. CASE \/ SubmitInput(c) \/ Accept(c) \/ ReadFails(c) \/ SendResponse(c) \/ ResponseDone(c)
             \/ Release(c) \/ Register(c) \/ Unregister(c)
    BY <1>1, <2>3 DEF SubmitInput, Accept, ReadFails, SendResponse, ResponseDone, Release,
                      Register, Unregister, Disconnect, rcVars
  <2>4. QED BY <1>4, <2>1, <2>2, <2>3 DEF Starts, Continues
<1>5. CASE \/ Listen \/ DoAccept \/ RunWorkers \/ StopListening \/ StopContext \/ Join \/ Destroy
           \/ HandleTick \/ TickEnds \/ RunInputs
  BY <1>1, <1>5 DEF Listen, DoAccept, RunWorkers, StopListening, StopContext, Join, Destroy,
                    HandleTick, TickEnds, RunInputs, httpVars, rcVars
<1>6. CASE UNCHANGED serverVars
  BY <1>1, <1>6 DEF serverVars, httpVars, rcVars
<1>7. QED BY <1>4, <1>5, <1>6 DEF ServerNext, ProcessStep, StrandStep

(* IssueToken and Validate, whatever resyncs overlap: RedeemedOnce may     *)
(* fail, but a token that was redeemed is refused from then on, and no     *)
(* other user's request makes a client lose the one it holds.              *)
THEOREM RevokedForGood == ServerSpec => [][TokenHistory]_serverVars
<1>1. IInv /\ [ServerNext]_serverVars => [TokenHistory]_serverVars
  BY StepKeepsTokens DEF IInv
<1>2. QED BY <1>1, Invariance, PTL DEF ServerSpec

---------------------------------------------------------------------------
(***************************************************************************)
(* The end.  StopContext, then the joins: once Stop is done no handler     *)
(* runs any more and none can start.  That ioc_.stop() came before must be *)
(* part of the invariant, for MayStart looks at stopped alone.             *)
(***************************************************************************)
Quiet == InHandler = {} /\ strand # "tick"

StopInv ==
    /\ stop \in {"joining", "done", "destroyed"} => stopped
    /\ stop \in {"done", "destroyed"} => Quiet
    /\ runner = "serving" => workers_ = Workers - 1

LEMMA StopKept ==
    ASSUME ProcessInv, StopInv, [ServerNext]_serverVars
    PROVE  StopInv'
<1> USE ThreadsEnough
<1>1. ASSUME UNCHANGED <<stop, stopped, runner, workers_>>,
             stop \in {"done", "destroyed"} => Quiet'
      PROVE  StopInv'
  BY <1>1 DEF StopInv
<1>2. ASSUME UNCHANGED <<processVars, strand>>,
             stop \in {"done", "destroyed"} => UNCHANGED <<http, step>>
      PROVE  StopInv'
  BY <1>2 DEF StopInv, Quiet, InHandler, processVars
<1>3. ASSUME NEW c \in Connections, SubmitInput(c) \/ Starts(c)
      PROVE  StopInv'
  <2>1. ~stopped /\ UNCHANGED <<processVars, strand>>
    BY <1>3 DEF SubmitInput, Starts, MayStart
  <2>2. QED BY <1>2, <2>1 DEF StopInv
<1>4. ASSUME NEW c \in Connections, Continues(c)
      PROVE  StopInv'
  <2>1. c \in InHandler
    BY <1>4 DEF Continues, Register, Unregister, InHandler
  <2>2. UNCHANGED <<processVars, strand>>
    BY <1>4 DEF Continues
  <2>3. QED BY <1>2, <2>1, <2>2 DEF StopInv, Quiet
<1>5. CASE HandleTick \/ RunInputs
  <2>1. ~stopped /\ UNCHANGED processVars
    BY <1>5 DEF HandleTick, RunInputs, MayStart
  <2>2. QED BY <1>1, <2>1 DEF StopInv, processVars
<1>6. CASE TickEnds
  <2>1. strand = "tick" /\ UNCHANGED processVars
    BY <1>6 DEF TickEnds
  <2>2. QED BY <1>1, <2>1 DEF StopInv, Quiet, processVars
<1>7. CASE Listen \/ DoAccept \/ RunWorkers
  <2>1. stop = "none" /\ stop' = "none"
    BY <1>7 DEF Listen, DoAccept, RunWorkers, ProcessInv
  <2>2. runner' = "serving" => workers_' = Workers - 1
    BY <1>7 DEF Listen, MakeListener, DoAccept, RunWorkers, ProcessInv
  <2>3. QED BY <2>1, <2>2 DEF StopInv
<1>8. CASE StopListening \/ StopContext
  BY <1>8 DEF StopListening, StopContext, StopInv
<1>9. CASE Join
  BY <1>9 DEF Join, StopInv, Quiet, InHandler, httpVars, rcVars
<1>10. CASE Destroy
  <2>1. InHandler' = {} /\ strand' = "idle"
    BY <1>10 DEF Destroy, InHandler
  <2>2. QED BY <1>10, <2>1 DEF Destroy, StopInv, Quiet
<1>11. CASE UNCHANGED serverVars
  BY <1>1, <1>11 DEF serverVars, processVars, StopInv, Quiet, InHandler, httpVars, rcVars
<1>12. QED BY <1>3, <1>4, <1>5, <1>6, <1>7, <1>8, <1>9, <1>10, <1>11
           DEF ServerNext, ProcessStep, StrandStep

LEMMA StopInvariance == ServerSpec => [](ProcessInv /\ StopInv)
<1>1. ServerInit => ProcessInv /\ StopInv
  BY Start DEF IInv, ServerInit, StopInv
<1>2. ProcessInv /\ StopInv /\ [ServerNext]_serverVars => ProcessInv' /\ StopInv'
  BY ProcessKept, StopKept
<1>3. QED BY <1>1, <1>2, PTL DEF ServerSpec

(* What Stop promises its caller, that it may free what the handlers use:  *)
(* when it has returned no handler runs, and all that happens to           *)
(* connections, tokens and the coordinator after that is the destructor.   *)
StoppedForGood ==
    stop \in {"done", "destroyed"} =>
        \/ UNCHANGED <<httpVars, strand>>
        \/ stop = "done" /\ Destroy

THEOREM NothingRunsAfterStop ==
    ServerSpec => /\ [](stop \in {"done", "destroyed"} => Quiet)
                  /\ [][StoppedForGood]_serverVars
<1>1. ProcessInv /\ StopInv => (stop \in {"done", "destroyed"} => Quiet)
  BY DEF StopInv
<1>2. ProcessInv /\ StopInv /\ [ServerNext]_serverVars => [StoppedForGood]_serverVars
  <2> SUFFICES ASSUME ProcessInv, StopInv, ServerNext, stop \in {"done", "destroyed"}
               PROVE  \/ UNCHANGED <<httpVars, strand>>
                      \/ stop = "done" /\ Destroy
    BY DEF StoppedForGood
  <2>1. stopped /\ InHandler = {} /\ strand # "tick"
    BY DEF StopInv, Quiet
  <2>2. ~MayStart
    BY <2>1 DEF MayStart
  <2>3. \A c \in Connections : ~SubmitInput(c) /\ ~Starts(c)
    BY <2>2 DEF SubmitInput, Starts
  <2>4. \A c \in Connections : ~Continues(c)
    BY <2>1 DEF Continues, Register, Unregister, InHandler
  <2>5. ~HandleTick /\ ~StrandStep
    BY <2>1, <2>2 DEF HandleTick, StrandStep, TickEnds, RunInputs
  <2>6. ~StopListening /\ ~StopContext /\ ~Join
    BY DEF StopListening, StopContext, Join
  <2>7. Listen \/ DoAccept \/ RunWorkers => UNCHANGED <<httpVars, strand>>
    BY DEF Listen, DoAccept, RunWorkers
  <2>8. Destroy => stop = "done"
    BY DEF Destroy
  <2>9. Listen \/ DoAccept \/ RunWorkers \/ Destroy
    BY <2>3, <2>4, <2>5, <2>6 DEF ServerNext, ProcessStep
  <2>10. QED BY <2>7, <2>8, <2>9
<1>3. QED BY <1>1, <1>2, StopInvariance, PTL DEF ServerSpec

(* ThreadsEnough is enough: until it is stopped, a server that serves has  *)
(* a thread for the next handler, however many inputs wait for a strand.   *)
THEOREM ServesUntilStopped == ServerSpec => [](runner = "serving" /\ ~stopped => MayStart)
<1>1. ProcessInv /\ StopInv => (runner = "serving" /\ ~stopped => MayStart)
  <2> SUFFICES ASSUME ProcessInv, StopInv, runner = "serving", ~stopped
               PROVE  MayStart
    OBVIOUS
  <2>1. Threads = Workers
    BY ThreadsEnough DEF Threads, StopInv
  <2>2. /\ Cardinality(InHandler) <= Cardinality(Connections)
        /\ Cardinality(InHandler) \in Nat /\ Cardinality(Connections) \in Nat
    <3>1. IsFiniteSet(Connections) /\ InHandler \in SUBSET Connections
      BY ThreadsEnough DEF InHandler
    <3>2. IsFiniteSet(InHandler) /\ Cardinality(InHandler) <= Cardinality(Connections)
      BY <3>1, FS_Subset
    <3>3. QED BY <3>1, <3>2, FS_CardinalityType
  <2>3. QED BY <2>1, <2>2, ThreadsEnough DEF MayStart
<1>2. QED BY <1>1, StopInvariance, PTL

---------------------------------------------------------------------------
(* The exception that StopReturns makes is as bad as it says: an input     *)
(* that waits when ioc_.stop() is called waits for good, since nothing but *)
(* the strand wakes its thread, and the join of that thread never returns. *)
LEMMA HungKept ==
    ASSUME PlaceInv, StopInv, Hung, [ServerNext]_serverVars
    PROVE  Hung'
<1>1. PICK c \in Connections : http[c] = "input"
  BY DEF Hung
<1>2. stopped /\ ~MayStart /\ c \in InHandler
  BY <1>1 DEF Hung, MayStart, InHandler
<1>3. ~Join /\ ~Destroy
  BY <1>2 DEF Join, Destroy, StopInv, Quiet
<1>4. stopped'
  BY <1>2, <1>3 DEF ServerNext, ProcessStep, StrandStep, Listen, DoAccept, RunWorkers, StopContext,
     StopListening, HandleTick, TickEnds, RunInputs, SubmitInput, Starts, Continues, processVars, serverVars
<1>5. ASSUME UNCHANGED http PROVE http'[c] = "input"
  BY <1>1, <1>5
<1>6. ASSUME NEW d \in Connections, SubmitInput(d) \/ Starts(d) \/ Continues(d)
      PROVE  http'[c] = "input"
  <2>1. Continues(d)
    BY <1>2, <1>6 DEF SubmitInput, Starts
  <2>2. CASE HandleResyncRequest(d)
    BY <1>5, <2>2 DEF HandleResyncRequest
  <2>3. CASE Register(d) \/ Unregister(d)
    BY <1>1, <2>3 DEF Register, Unregister, Goto, PlaceInv
  <2>4. QED BY <2>1, <2>2, <2>3 DEF Continues
<1>7. ~RunInputs
  BY <1>2 DEF RunInputs
<1>8. http'[c] = "input"
  <2>1. CASE UNCHANGED serverVars
    BY <1>5, <2>1 DEF serverVars, httpVars
  <2>2. CASE ~UNCHANGED serverVars
    <3>1. CASE Listen \/ DoAccept \/ RunWorkers \/ StopListening \/ StopContext \/ HandleTick \/ TickEnds
      BY <1>5, <3>1 DEF Listen, DoAccept, RunWorkers, StopListening, StopContext, HandleTick, TickEnds, httpVars
    <3>2. QED BY <1>3, <1>6, <1>7, <2>2, <3>1 DEF ServerNext, ProcessStep, StrandStep
  <2>3. QED BY <2>1, <2>2
<1>9. QED BY <1>4, <1>8 DEF Hung

THEOREM HungForGood ==
    ServerSpec => [](Hung => [](Hung /\ stop \notin {"done", "destroyed"}))
<1>1. IInv /\ StopInv /\ Hung /\ [ServerNext]_serverVars => Hung'
  BY HungKept DEF IInv
<1>2. StopInv /\ Hung => stop \notin {"done", "destroyed"}
  BY DEF StopInv, Quiet, Hung, InHandler
<1>3. QED BY <1>1, <1>2, Invariance, StopInvariance, PTL DEF ServerSpec
=============================================================================

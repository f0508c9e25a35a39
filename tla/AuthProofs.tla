----------------------------- MODULE AuthProofs -----------------------------
(***************************************************************************)
(* Proofs about Auth, for any handlers, names, passwords, addresses and    *)
(* bounds: types, the life of a token (DeadTokenRefused, LiveTokenKept),   *)
(* the leaderboard's completeness (AnsweredIsRated), the stability of      *)
(* accounts (AccountsAreStable) and the rate limit (LoginBudget).          *)
(*                                                                         *)
(* What is wanted of a finished request is not inductive: it depends on    *)
(* what the request had read when it was still in the middle.  IInv says   *)
(* of every step a request can be at what its stale readings may still be  *)
(* relied upon for (HandlerStates), and ties the three places a token      *)
(* appears in together: issued, sessions_ and revoked.                     *)
(***************************************************************************)
EXTENDS Auth, SequenceTheorems, FiniteSetTheorems, TLAPS

Readings == {t \in Times : t <= now}        \* readings of the clock so far
Ids      == 1 .. next_user_id_ - 1          \* user ids given out
Sessions == [user : Ids, expires_at : Nat]
Buckets  == [count : 0 .. LoginMaxAttempts, window_start : Times \cup {0}]

(* The states of a request in progress. *)
Limiting   == [step : {"limit"}, name : Names, password : Passwords, ip : Ips, at : Readings]
Verifying  == [step : {"verify"}, name : Names, password : Passwords, at : Readings]
Validating == {s \in [step : {"validate"}, op : {"logout", "use"}, token : DOMAIN issued,
                      at : Readings, late : BOOLEAN] : s.late => s.token \in revoked}
LoggingOut == [step : {"logout"}, token : DOMAIN issued]
Ensuring   == [step : {"ensure"}, op : {"register"}, user : Ids]
                \cup [step : {"ensure"}, op : {"login"}, user : Ids, token : DOMAIN issued]

(* The states of an answered request. *)
Refused   == [step : {"done"}, answer : Codes \ {"ok"}]
Rated     == [step : {"done"}, answer : {"ok"}, op : {"register", "login"}, user : DOMAIN entries_]
LoggedOut == [step : {"done"}, answer : {"ok"}, op : {"logout"}]
Used      == {s \in [step : {"done"}, answer : {"ok"}, op : {"use"}, token : DOMAIN issued,
                     at : Readings, late : {FALSE}] : s.at <= issued[s.token].expires_at}

HandlerStates == {Free} \cup Limiting \cup Verifying \cup Validating \cup LoggingOut
                   \cup Ensuring \cup Refused \cup Rated \cup LoggedOut \cup Used

UserInv ==
    /\ next_user_id_ \in Nat \ {0}
    /\ DOMAIN users_ \subseteq Names \ {""}
    /\ \A n \in DOMAIN users_ : users_[n] \in [id : Ids, password : Passwords \ {""}]
    /\ \A n, m \in DOMAIN users_ : users_[n].id = users_[m].id => n = m

TokenInv ==
    /\ issued \in Seq(Sessions)
    /\ revoked \subseteq DOMAIN issued
    /\ DOMAIN sessions_ \subseteq DOMAIN issued \ revoked
    /\ \A t \in DOMAIN sessions_ : sessions_[t] = issued[t]
    /\ LiveTokenKept

HandlerInv == handler \in [Handlers -> HandlerStates]

IInv ==
    /\ now \in Times
    /\ buckets_ \in [Ips -> Buckets]
    /\ UserInv
    /\ TokenInv
    /\ HandlerInv

---------------------------------------------------------------------------
(* Nothing that a request relies on is ever taken back: the clock, the     *)
(* history, the leaderboard and the ids only grow.                         *)
Grows ==
    /\ now \in Times /\ now' \in Times /\ now <= now'
    /\ DOMAIN issued \subseteq DOMAIN issued'
    /\ \A t \in DOMAIN issued : issued'[t] = issued[t]
    /\ revoked \subseteq revoked'
    /\ DOMAIN entries_ \subseteq DOMAIN entries_'
    /\ next_user_id_ \in Nat /\ next_user_id_' \in Nat /\ next_user_id_ <= next_user_id_'

(* More ids, of which the old ones are a part. *)
LEMMA IdsGrow ==
    ASSUME NEW m \in Nat, NEW n \in Nat, m <= n
    PROVE  1 .. m - 1 \subseteq 1 .. n - 1 /\ 1 .. m - 1 \subseteq Nat \ {0}
OBVIOUS

(* So a request that does not move stays in the states it may be in.       *)
LEMMA StatesGrow ==
    ASSUME Grows
    PROVE  HandlerStates \subseteq HandlerStates'
<1>1. Readings \subseteq Readings' /\ Ids \subseteq Ids' /\ DOMAIN issued \subseteq DOMAIN issued'
  <2>1. \A t \in Times : t <= now => t <= now'
    BY AuthConstants DEF Grows, Times
  <2>2. Readings \subseteq Readings'
    BY <2>1 DEF Readings, Times
  <2>3. Ids \subseteq Ids'
    <3>1. next_user_id_ \in Nat /\ next_user_id_' \in Nat /\ next_user_id_ <= next_user_id_'
      BY DEF Grows
    <3>2. QED BY <3>1, IdsGrow DEF Ids
  <2>4. QED BY <2>2, <2>3 DEF Grows
<1>2. Limiting \subseteq Limiting' /\ Verifying \subseteq Verifying'
  BY <1>1 DEF Limiting, Verifying
<1>3. Validating \subseteq Validating' /\ LoggingOut \subseteq LoggingOut' /\ Ensuring \subseteq Ensuring'
  BY <1>1 DEF Validating, LoggingOut, Ensuring, Grows
<1>4. Rated \subseteq Rated'
  BY DEF Grows, Rated
<1>5. Used \subseteq Used'
  <2>1. SUFFICES ASSUME NEW s \in Used
                 PROVE  s \in Used'
    OBVIOUS
  <2>2. /\ s \in [step : {"done"}, answer : {"ok"}, op : {"use"}, token : DOMAIN issued,
                  at : Readings, late : {FALSE}]
        /\ s.at <= issued[s.token].expires_at
    BY DEF Used
  <2>3. s.token \in DOMAIN issued /\ s.at <= issued'[s.token].expires_at
    BY <2>2 DEF Grows
  <2>4. QED BY <1>1, <2>2, <2>3 DEF Used
<1>6. QED BY <1>2, <1>3, <1>4, <1>5 DEF HandlerStates, Refused, LoggedOut

(* Where a request is tells which of the states it is in. *)
LEMMA AtStep ==
    ASSUME HandlerInv, NEW h \in Handlers
    PROVE  /\ handler[h].step = "limit"    => handler[h] \in Limiting
           /\ handler[h].step = "verify"   => handler[h] \in Verifying
           /\ handler[h].step = "validate" => handler[h] \in Validating
           /\ handler[h].step = "logout"   => handler[h] \in LoggingOut
           /\ handler[h].step = "ensure"   => handler[h] \in Ensuring
           /\ handler[h].step = "done"     => handler[h] \in Refused \cup Rated \cup LoggedOut \cup Used
<1>1. handler[h] \in HandlerStates
  BY DEF HandlerInv
<1>2. Free.step = "free" /\ \A s \in Limiting : s.step = "limit"
  BY DEF Free, Limiting
<1>3. (\A s \in Verifying : s.step = "verify") /\ (\A s \in Validating : s.step = "validate")
  BY DEF Verifying, Validating
<1>4. (\A s \in LoggingOut : s.step = "logout") /\ (\A s \in Ensuring : s.step = "ensure")
  BY DEF LoggingOut, Ensuring
<1>5. \A s \in Refused \cup Rated \cup LoggedOut \cup Used : s.step = "done"
  BY DEF Refused, Rated, LoggedOut, Used
<1>6. QED BY <1>1, <1>2, <1>3, <1>4, <1>5 DEF HandlerStates

(* What a step must do for the requests: move one to a state it may be in. *)
LEMMA Move ==
    ASSUME HandlerInv, Grows, NEW h \in Handlers, NEW s, s \in HandlerStates', Goto(h, s)
    PROVE  HandlerInv'
<1>1. HandlerStates \subseteq HandlerStates'
  BY StatesGrow
<1> HIDE DEF HandlerStates
<1>2. QED BY <1>1 DEF HandlerInv, Goto

(* What was issued, element by element. *)
LEMMA IssuedElements ==
    ASSUME issued \in Seq(Sessions)
    PROVE  \A t \in DOMAIN issued : issued[t] \in Sessions
<1> HIDE DEF Sessions
<1>1. Len(issued) \in Nat /\ DOMAIN issued = 1 .. Len(issued)
  BY LenProperties
<1>2. QED BY <1>1, ElementOfSeq

(* The sequence of issued tokens, one longer. *)
LEMMA IssuedGrows ==
    ASSUME issued \in Seq(Sessions), NEW session \in Sessions, issued' = Append(issued, session)
    PROVE  /\ Len(issued) \in Nat /\ DOMAIN issued = 1 .. Len(issued)
           /\ issued' \in Seq(Sessions) /\ DOMAIN issued' = DOMAIN issued \cup {Len(issued) + 1}
           /\ \A t \in DOMAIN issued : issued'[t] = issued[t]
           /\ issued'[Len(issued) + 1] = session
<1> HIDE DEF Sessions
<1>1. Len(issued) \in Nat /\ DOMAIN issued = 1 .. Len(issued)
  BY LenProperties
<1>2. /\ issued' \in Seq(Sessions) /\ Len(issued') = Len(issued) + 1
      /\ \A t \in 1 .. Len(issued) : issued'[t] = issued[t]
      /\ issued'[Len(issued) + 1] = session
  BY AppendProperties
<1>3. DOMAIN issued' = 1 .. Len(issued) + 1
  BY <1>2, LenProperties
<1>4. QED BY <1>1, <1>2, <1>3

(* issued stays typed as the ids grow. *)
LEMMA IssuedTyped ==
    ASSUME issued \in Seq(Sessions), Ids \subseteq Ids', UNCHANGED issued
    PROVE  issued' \in Seq(Sessions')
<1> DEFINE S == Sessions
           T == Sessions'
<1>1. S \subseteq T
  BY DEF Sessions
<1> HIDE DEF S, T
<1>2. issued' \in Seq(S)
  BY DEF S
<1>3. issued' \in Seq(T)
  BY <1>1, <1>2, SeqMonotonic
<1>4. QED BY <1>3 DEF T

---------------------------------------------------------------------------
(* The initial states. *)
LEMMA InitInv == AuthInit => IInv
<1> SUFFICES ASSUME AuthInit PROVE IInv
  OBVIOUS
<1>1. now \in Times /\ buckets_ \in [Ips -> Buckets] /\ UserInv
  BY AuthConstants DEF AuthInit, Times, Buckets, UserInv
<1>2. issued \in Seq(Sessions) /\ DOMAIN issued = {}
  BY DEF AuthInit
<1>3. TokenInv
  BY <1>2 DEF AuthInit, TokenInv, LiveTokenKept
<1>4. HandlerInv
  BY DEF AuthInit, HandlerInv, HandlerStates
<1>5. QED BY <1>1, <1>3, <1>4 DEF IInv

(* The clock moves on: tokens expire, but none that was alive is lost.     *)
LEMMA TimePassesInv == IInv /\ TimePasses => IInv'
<1> SUFFICES ASSUME IInv, TimePasses PROVE IInv'
  OBVIOUS
<1>1. now \in Times /\ now' \in Times /\ now <= now'
  BY AuthConstants DEF IInv, TimePasses, Times
<1>2. Grows
  <2>1. next_user_id_ \in Nat /\ next_user_id_' = next_user_id_ /\ next_user_id_ <= next_user_id_'
    <3>1. next_user_id_ \in Nat /\ next_user_id_' = next_user_id_
      BY DEF IInv, UserInv, TimePasses, serviceVars
    <3>2. QED BY <3>1
  <2>2. QED BY <1>1, <2>1 DEF Grows, TimePasses, serviceVars, historyVars
<1>3. HandlerInv'
  BY <1>2, StatesGrow DEF IInv, HandlerInv, TimePasses
<1>4. TokenInv'
  <2>1. \A t \in DOMAIN issued : issued[t].expires_at \in Nat
    BY IssuedElements DEF IInv, TokenInv, Sessions
  <2>2. \A t \in DOMAIN issued : now' <= issued[t].expires_at => now <= issued[t].expires_at
    BY <1>1, <2>1, AuthConstants DEF Times
  <2>3. QED BY <2>2 DEF IInv, TokenInv, LiveTokenKept, TimePasses, serviceVars, historyVars, Sessions, Ids
<1>5. QED BY <1>1, <1>3, <1>4 DEF IInv, UserInv, TimePasses, serviceVars, Buckets, Times, Ids

(* A request is answered or moves on, and touches nothing else.            *)
LEMMA OnlyHandler ==
    ASSUME IInv, UNCHANGED <<now, serviceVars, historyVars>>,
           NEW h \in Handlers, NEW s, s \in HandlerStates', Goto(h, s)
    PROVE  IInv'
<1>1. Grows
  <2>1. now \in Times /\ now' = now /\ now <= now'
    BY AuthConstants DEF IInv, Times
  <2>2. next_user_id_ \in Nat /\ next_user_id_' = next_user_id_ /\ next_user_id_ <= next_user_id_'
    <3>1. next_user_id_ \in Nat /\ next_user_id_' = next_user_id_
      BY DEF IInv, UserInv, serviceVars
    <3>2. QED BY <3>1
  <2>3. QED BY <2>1, <2>2 DEF Grows, serviceVars, historyVars
<1>2. HandlerInv'
  BY <1>1, Move DEF IInv
<1>3. QED BY <1>2 DEF IInv, UserInv, TokenInv, LiveTokenKept, Buckets, Sessions, Ids, Times,
                      serviceVars, historyVars

(* Refusals are states that a request may be in. *)
LEMMA Refusing ==
    ASSUME NEW code \in Codes \ {"ok"}
    PROVE  /\ [step |-> "done", answer |-> code] \in HandlerStates
           /\ [step |-> "done", answer |-> code] \in HandlerStates'
BY DEF HandlerStates, Refused

(* A request begins: its readings of the clock and of revoked are current. *)
LEMMA BeginLoginInv ==
    ASSUME IInv, NEW h \in Handlers, NEW name \in Names, NEW password \in Passwords, NEW ip \in Ips,
           BeginLogin(h, name, password, ip)
    PROVE  IInv'
<1> DEFINE s == [step |-> "limit", name |-> name, password |-> password, ip |-> ip, at |-> now]
<1>1. Goto(h, s) /\ UNCHANGED <<now, serviceVars, historyVars>>
  BY DEF BeginLogin
<1>2. now \in Readings'
  BY <1>1, AuthConstants DEF IInv, Readings, Times
<1>3. s \in Limiting'
  BY <1>2 DEF Limiting
<1>4. s \in HandlerStates'
  BY <1>3 DEF HandlerStates
<1> HIDE DEF s
<1>5. QED BY <1>1, <1>4, OnlyHandler

(* Presenting a token. *)
LEMMA ExtractAuthSessionInv ==
    ASSUME IInv, NEW h \in Handlers, NEW op \in {"logout", "use"}, NEW token \in Tokens,
           ExtractAuthSession(h, op, token)
    PROVE  IInv'
<1> DEFINE s == [step |-> "validate", op |-> op, token |-> token, at |-> now,
                 late |-> token \in revoked]
<1>1. Goto(h, s) /\ UNCHANGED <<now, serviceVars, historyVars>> /\ token \in DOMAIN issued
  BY DEF ExtractAuthSession, Delivered
<1>2. now \in Readings' /\ (token \in revoked) \in BOOLEAN /\ revoked' = revoked /\ issued' = issued
  BY <1>1, AuthConstants DEF IInv, Readings, Times, historyVars
<1>3. s \in Validating'
  BY <1>1, <1>2 DEF Validating
<1>4. s \in HandlerStates'
  BY <1>3 DEF HandlerStates
<1> HIDE DEF s
<1>5. QED BY <1>1, <1>4, OnlyHandler

(* Registration gives the next id to a name nobody has. *)
LEMMA RegisterUserInv ==
    ASSUME IInv, NEW h \in Handlers, NEW name \in Names, NEW password \in Passwords,
           RegisterUser(h, name, password)
    PROVE  IInv'
<1>1. UNCHANGED <<now, sessions_, buckets_, entries_, historyVars>>
  BY DEF RegisterUser
<1>2. CASE Refuse(h, "bad_request") /\ UNCHANGED <<users_, next_user_id_>>
  <2>1. "bad_request" \in Codes \ {"ok"}
    BY DEF Codes
  <2>2. QED BY <1>1, <1>2, <2>1, Refusing, OnlyHandler DEF Refuse, serviceVars
<1>3. CASE Refuse(h, "duplicate_user") /\ UNCHANGED <<users_, next_user_id_>>
  <2>1. "duplicate_user" \in Codes \ {"ok"}
    BY DEF Codes
  <2>2. QED BY <1>1, <1>3, <2>1, Refusing, OnlyHandler DEF Refuse, serviceVars
<1>4. CASE /\ ~FieldMissing(name, password)
           /\ ~NameTaken(name)
           /\ users_' = [n \in DOMAIN users_ \cup {name} |->
                           IF n = name THEN [id |-> next_user_id_, password |-> password]
                           ELSE users_[n]]
           /\ next_user_id_' = next_user_id_ + 1
           /\ Goto(h, [step |-> "ensure", op |-> "register", user |-> next_user_id_])
  <2> DEFINE new == [id |-> next_user_id_, password |-> password]
             s == [step |-> "ensure", op |-> "register", user |-> next_user_id_]
  <2>1. next_user_id_ \in Nat \ {0} /\ next_user_id_' = next_user_id_ + 1
    BY <1>4 DEF IInv, UserInv
  <2>2. Ids \subseteq Ids' /\ next_user_id_ \in Ids' /\ next_user_id_ \notin Ids
    BY <2>1 DEF Ids
  <2>3. Grows
    <3>1. next_user_id_ \in Nat /\ next_user_id_' \in Nat /\ next_user_id_ <= next_user_id_'
      BY <2>1
    <3>2. now \in Times /\ now' = now /\ now <= now'
      BY <1>1, AuthConstants DEF IInv, Times
    <3>3. QED BY <1>1, <3>1, <3>2 DEF Grows, historyVars
  <2>4. s \in HandlerStates'
    BY <2>2 DEF HandlerStates, Ensuring
  <2>5. HandlerInv'
    BY <1>4, <2>3, <2>4, Move DEF IInv
  <2>6. UserInv'
    <3>1. name \in Names \ {""} /\ password \in Passwords \ {""} /\ name \notin DOMAIN users_
      BY <1>4 DEF FieldMissing, NameTaken
    <3>2. DOMAIN users_' = DOMAIN users_ \cup {name}
      BY <1>4
    <3>3. users_'[name] = new /\ \A n \in DOMAIN users_ : users_'[n] = users_[n]
      BY <1>4, <3>1
    <3>4. \A n \in DOMAIN users_ : users_[n] \in [id : Ids, password : Passwords \ {""}]
      BY DEF IInv, UserInv
    <3>5. \A n \in DOMAIN users_' : users_'[n] \in [id : Ids', password : Passwords \ {""}]
      <4>1. \A n \in DOMAIN users_ : users_'[n] \in [id : Ids', password : Passwords \ {""}]
        BY <2>2, <3>3, <3>4
      <4>2. new \in [id : Ids', password : Passwords \ {""}]
        BY <2>2, <3>1
      <4>3. QED BY <3>2, <3>3, <4>1, <4>2
    <3>6. \A n, m \in DOMAIN users_' : users_'[n].id = users_'[m].id => n = m
      <4>1. \A n \in DOMAIN users_ : users_'[n].id \in Ids /\ users_'[n].id = users_[n].id
        BY <3>3, <3>4
      <4>2. users_'[name].id = next_user_id_
        BY <3>3
      <4>3. \A n, m \in DOMAIN users_ : users_[n].id = users_[m].id => n = m
        BY DEF IInv, UserInv
      <4>4. QED BY <2>2, <3>2, <4>1, <4>2, <4>3
    <3>7. DOMAIN users_' \subseteq Names \ {""}
      BY <3>1, <3>2 DEF IInv, UserInv
    <3>8. next_user_id_' \in Nat \ {0}
      BY <2>1
    <3>9. QED BY <3>5, <3>6, <3>7, <3>8 DEF UserInv
  <2>7. TokenInv'
    <3>1. issued' \in Seq(Sessions')
      BY <1>1, <2>2, IssuedTyped DEF IInv, TokenInv, historyVars
    <3>2. QED BY <1>1, <3>1 DEF IInv, TokenInv, LiveTokenKept, historyVars
  <2>8. QED BY <1>1, <2>5, <2>6, <2>7 DEF IInv, Buckets, Times
<1>5. QED BY <1>2, <1>3, <1>4 DEF RegisterUser

(* EnsureUser completes the leaderboard before the answer. *)
LEMMA EnsureRatedInv ==
    ASSUME IInv, NEW h \in Handlers, EnsureRated(h)
    PROVE  IInv'
<1> DEFINE u == handler[h].user
           s == [step |-> "done", answer |-> "ok", op |-> handler[h].op, user |-> u]
<1>1. /\ handler[h].step = "ensure" /\ entries_' = EnsureUser(entries_, u) /\ Goto(h, s)
      /\ UNCHANGED <<now, users_, next_user_id_, sessions_, buckets_, historyVars>>
  BY DEF EnsureRated
<1>2. DOMAIN entries_' = DOMAIN entries_ \cup {u}
  BY <1>1 DEF EnsureUser
<1>3. handler[h] \in Ensuring
  BY <1>1, AtStep DEF IInv
<1>4. handler[h].op \in {"register", "login"}
  BY <1>3 DEF Ensuring
<1>5. s \in Rated'
  BY <1>2, <1>4 DEF Rated
<1>6. s \in HandlerStates'
  BY <1>5 DEF HandlerStates
<1>7. Grows
  <2>1. next_user_id_ \in Nat /\ next_user_id_' = next_user_id_
    BY <1>1 DEF IInv, UserInv
  <2>2. now \in Times /\ now' = now /\ now <= now'
    BY <1>1, AuthConstants DEF IInv, Times
  <2>3. next_user_id_ <= next_user_id_'
    BY <2>1
  <2>4. QED BY <1>1, <1>2, <2>1, <2>2, <2>3 DEF Grows, historyVars
<1>8. HandlerInv'
  <2> HIDE DEF s
  <2>1. QED BY <1>1, <1>6, <1>7, Move DEF IInv
<1>9. QED BY <1>1, <1>8 DEF IInv, UserInv, TokenInv, LiveTokenKept, Buckets, Sessions, Ids, Times,
                            historyVars

(* Steps that leave the accounts, the clock and the leaderboard alone. *)
LEMMA Untouched ==
    ASSUME IInv, UNCHANGED <<now, users_, next_user_id_, entries_>>,
           DOMAIN issued \subseteq DOMAIN issued', \A t \in DOMAIN issued : issued'[t] = issued[t],
           revoked \subseteq revoked'
    PROVE  Grows /\ now' \in Times /\ UserInv' /\ Ids' = Ids /\ Sessions' = Sessions
<1>1. next_user_id_ \in Nat /\ next_user_id_' = next_user_id_
  BY DEF IInv, UserInv
<1>2. now \in Times /\ now' = now /\ now <= now'
  BY AuthConstants DEF IInv, Times
<1>3. next_user_id_ <= next_user_id_'
  BY <1>1
<1>4. Grows /\ now' \in Times
  BY <1>1, <1>2, <1>3 DEF Grows
<1>5. QED BY <1>4 DEF IInv, UserInv, Ids, Sessions

(* A bucket never counts beyond its limit. *)
LEMMA AllowInv ==
    ASSUME IInv, NEW h \in Handlers, Allow(h)
    PROVE  IInv'
<1> DEFINE ip == handler[h].ip
           at == handler[h].at
           bucket == CurrentBucket(buckets_[ip], at)
           s == [step |-> "verify", name |-> handler[h].name, password |-> handler[h].password, at |-> at]
<1>1. handler[h] \in Limiting /\ UNCHANGED <<now, users_, next_user_id_, sessions_, entries_, issued, revoked>>
  BY AtStep DEF Allow, IInv
<1>2. Grows /\ UserInv' /\ now' \in Times /\ Sessions' = Sessions /\ Readings' = Readings
  BY <1>1, Untouched DEF Readings, Times
<1>3. bucket \in Buckets
  <2>1. ip \in Ips /\ at \in Times
    BY <1>1 DEF Limiting, Readings
  <2>2. buckets_[ip] \in Buckets
    BY <2>1 DEF IInv
  <2>3. QED BY <2>1, <2>2, AuthConstants DEF Buckets, CurrentBucket
<1>4. buckets_' \in [Ips -> Buckets] /\ HandlerInv'
  <2>1. CASE buckets_' = [buckets_ EXCEPT ![ip] = bucket] /\ Refuse(h, "rate_limited")
    <3>1. "rate_limited" \in Codes \ {"ok"}
      BY DEF Codes
    <3>2. QED BY <1>2, <1>3, <2>1, <3>1, Refusing, Move DEF IInv, Refuse
  <2>2. CASE /\ bucket.count < LoginMaxAttempts
             /\ buckets_' = [buckets_ EXCEPT ![ip] = [bucket EXCEPT !.count = @ + 1]]
             /\ Goto(h, s)
    <3>1. s \in Verifying'
      BY <1>1, <1>2 DEF Verifying, Limiting
    <3>2. s \in HandlerStates'
      BY <3>1 DEF HandlerStates
    <3>3. [bucket EXCEPT !.count = @ + 1] \in Buckets
      BY <1>3, <2>2, AuthConstants DEF Buckets
    <3> HIDE DEF s, bucket
    <3>4. QED BY <1>2, <2>2, <3>2, <3>3, Move DEF IInv
  <2>3. QED BY <2>1, <2>2 DEF Allow
<1>5. TokenInv'
  BY <1>1, <1>2 DEF IInv, TokenInv, LiveTokenKept
<1>6. QED BY <1>2, <1>4, <1>5 DEF IInv, Buckets, Times

(* Login issues the next token, and cleans up those its reading of the     *)
(* clock is beyond.  That reading is not ahead of the clock.               *)
LEMMA LoginInv ==
    ASSUME IInv, NEW h \in Handlers, Login(h)
    PROVE  IInv'
<1> DEFINE name == handler[h].name
           at == handler[h].at
           token == Len(issued) + 1
           session == [user |-> users_[name].id, expires_at |-> at + TokenTtl]
           kept == CleanupExpired(sessions_, at)
           s == [step |-> "ensure", op |-> "login", user |-> session.user, token |-> token]
<1>1. handler[h] \in Verifying /\ UNCHANGED <<now, users_, next_user_id_, buckets_, entries_, revoked, attempts>>
  BY AtStep DEF Login, IInv
<1>2. at \in Nat /\ at <= now /\ now \in Nat
  BY <1>1, AuthConstants DEF IInv, Verifying, Readings, Times
<1>3. CASE Refuse(h, "unauthorized") /\ UNCHANGED <<sessions_, issued>>
  <2>1. "unauthorized" \in Codes \ {"ok"}
    BY DEF Codes
  <2>2. QED BY <1>1, <1>3, <2>1, Refusing, OnlyHandler DEF Refuse, serviceVars, historyVars
<1>4. CASE /\ name \in DOMAIN users_
           /\ sessions_' = [t \in DOMAIN kept \cup {token} |-> IF t = token THEN session ELSE kept[t]]
           /\ issued' = Append(issued, session)
           /\ Goto(h, s)
  <2>1. session \in Sessions
    <3>1. users_[name].id \in Ids
      BY <1>4 DEF IInv, UserInv
    <3>2. at + TokenTtl \in Nat
      BY <1>2, AuthConstants
    <3>3. QED BY <3>1, <3>2 DEF Sessions
  <2> HIDE DEF session
  <2>2. /\ issued' \in Seq(Sessions) /\ DOMAIN issued' = DOMAIN issued \cup {token}
        /\ \A t \in DOMAIN issued : issued'[t] = issued[t]
        /\ issued'[token] = session /\ token \notin DOMAIN issued
    BY <1>4, <2>1, IssuedGrows DEF IInv, TokenInv
  <2>3. Grows /\ UserInv' /\ now' \in Times /\ Ids' = Ids /\ Sessions' = Sessions
    BY <1>1, <2>2, Untouched
  <2>4. HandlerInv'
    <3>1. session.user \in Ids' /\ token \in DOMAIN issued'
      BY <2>1, <2>2, <2>3 DEF Sessions
    <3>2. s \in Ensuring'
      BY <3>1 DEF Ensuring
    <3>3. s \in HandlerStates'
      BY <3>2 DEF HandlerStates
    <3> HIDE DEF s
    <3>4. QED BY <1>4, <2>3, <3>3, Move DEF IInv
  <2>5. /\ DOMAIN kept = {t \in DOMAIN sessions_ : ~(at > sessions_[t].expires_at)}
        /\ \A t \in DOMAIN kept : kept[t] = sessions_[t]
    BY DEF CleanupExpired, Restrict
  <2> HIDE DEF kept, token
  <2>6. DOMAIN sessions_' = DOMAIN kept \cup {token} /\ sessions_'[token] = session
    BY <1>4
  <2>7. DOMAIN kept \subseteq DOMAIN sessions_ /\ token \notin DOMAIN kept
    BY <2>2, <2>5 DEF IInv, TokenInv
  <2>8. \A t \in DOMAIN kept : sessions_'[t] = sessions_[t]
    BY <1>4, <2>5, <2>7
  <2>9. TokenInv'
    <3>1. revoked' \subseteq DOMAIN issued'
      BY <1>1, <2>2 DEF IInv, TokenInv
    <3>2. DOMAIN sessions_' \subseteq DOMAIN issued' \ revoked'
      BY <1>1, <2>2, <2>6, <2>7 DEF IInv, TokenInv
    <3>3. \A t \in DOMAIN sessions_' : sessions_'[t] = issued'[t]
      BY <2>2, <2>6, <2>7, <2>8 DEF IInv, TokenInv
    <3>4. LiveTokenKept'
      <4>1. SUFFICES ASSUME NEW t \in DOMAIN issued', t \notin revoked', now' <= issued'[t].expires_at
                     PROVE  t \in DOMAIN sessions_'
        BY <3>3 DEF LiveTokenKept
      <4>2. CASE t = token
        BY <4>2, <2>6
      <4>3. CASE t # token
        <5>1. t \in DOMAIN issued /\ issued'[t] = issued[t] /\ t \notin revoked /\ now <= issued[t].expires_at
          BY <1>1, <2>2, <4>1, <4>3
        <5>2. t \in DOMAIN sessions_ /\ sessions_[t] = issued[t]
          BY <5>1 DEF IInv, TokenInv, LiveTokenKept
        <5>3. issued[t].expires_at \in Nat
          BY <5>1, IssuedElements DEF IInv, TokenInv, Sessions
        <5>4. ~(at > sessions_[t].expires_at)
          BY <1>2, <5>1, <5>2, <5>3
        <5>5. QED BY <2>5, <2>6, <5>2, <5>4
      <4>4. QED BY <4>2, <4>3
    <3>5. QED BY <2>2, <2>3, <3>1, <3>2, <3>3, <3>4 DEF TokenInv
  <2>10. QED BY <1>1, <2>3, <2>4, <2>9 DEF IInv, Buckets, Times
<1>5. QED BY <1>3, <1>4 DEF Login

(* A token may be removed once it is revoked or expired. *)
LEMMA RemoveToken ==
    ASSUME IInv, UNCHANGED <<now, next_user_id_, issued>>, NEW token \in DOMAIN issued,
           sessions_' = Restrict(sessions_, DOMAIN sessions_ \ {token}),
           revoked' = revoked \/ revoked' = revoked \cup {token},
           token \in revoked' \/ ~(now <= issued[token].expires_at)
    PROVE  TokenInv'
<1>1. /\ DOMAIN sessions_' = DOMAIN sessions_ \ {token}
      /\ \A t \in DOMAIN sessions_' : sessions_'[t] = sessions_[t]
  BY DEF Restrict
<1>2. issued' \in Seq(Sessions') /\ revoked' \subseteq DOMAIN issued'
  BY DEF IInv, TokenInv, Sessions, Ids
<1>3. DOMAIN sessions_' \subseteq DOMAIN issued' \ revoked'
  BY <1>1 DEF IInv, TokenInv
<1>4. \A t \in DOMAIN sessions_' : sessions_'[t] = issued'[t]
  BY <1>1 DEF IInv, TokenInv
<1>5. LiveTokenKept'
  BY <1>1 DEF IInv, TokenInv, LiveTokenKept
<1>6. QED BY <1>2, <1>3, <1>4, <1>5 DEF TokenInv

(* A token that is good when it is looked up is neither revoked nor, at    *)
(* the request's reading of the clock, expired.                            *)
LEMMA ValidateTokenInv ==
    ASSUME IInv, NEW h \in Handlers, ValidateToken(h)
    PROVE  IInv'
<1> DEFINE token == handler[h].token
           at == handler[h].at
<1>1. handler[h] \in Validating /\ UNCHANGED <<now, users_, next_user_id_, buckets_, entries_, historyVars>>
  BY AtStep DEF ValidateToken, IInv
<1>2. token \in DOMAIN issued /\ at \in Times /\ at <= now
  BY <1>1 DEF Validating, Readings
<1>3. "unauthorized" \in Codes \ {"ok"}
  BY DEF Codes
<1>4. CASE Refuse(h, "unauthorized") /\ UNCHANGED sessions_
  BY <1>1, <1>3, <1>4, Refusing, OnlyHandler DEF Refuse, serviceVars
<1>5. CASE /\ token \in DOMAIN sessions_
           /\ at > sessions_[token].expires_at
           /\ sessions_' = Restrict(sessions_, DOMAIN sessions_ \ {token})
           /\ Refuse(h, "unauthorized")
  <2>1. UNCHANGED <<now, users_, next_user_id_, buckets_, entries_, issued, revoked>>
    BY <1>1 DEF historyVars
  <2>2. Grows /\ UserInv' /\ now' \in Times
    BY <2>1, Untouched
  <2>3. HandlerInv'
    BY <1>3, <1>5, <2>2, Refusing, Move DEF IInv, Refuse
  <2>4. ~(now <= issued[token].expires_at)
    <3>1. sessions_[token] = issued[token] /\ issued[token].expires_at \in Nat
      BY <1>2, <1>5, IssuedElements DEF IInv, TokenInv, Sessions
    <3>2. at \in Nat /\ now \in Nat
      BY <1>2, AuthConstants DEF IInv, Times
    <3>3. QED BY <1>2, <1>5, <3>1, <3>2
  <2>5. TokenInv'
    BY <1>2, <1>5, <2>1, <2>4, RemoveToken
  <2>6. QED BY <2>1, <2>2, <2>3, <2>5 DEF IInv, Buckets, Times
<1>6. CASE token \in DOMAIN sessions_ /\ at <= sessions_[token].expires_at
           /\ Goto(h, Accepted(h)) /\ UNCHANGED sessions_
  <2>1. sessions_[token] = issued[token] /\ token \notin revoked /\ UNCHANGED <<now, issued>>
    BY <1>1, <1>6 DEF IInv, TokenInv, historyVars
  <2>2. CASE handler[h].op = "logout"
    <3>1. Accepted(h) \in LoggingOut'
      BY <1>2, <2>1, <2>2 DEF Accepted, LoggingOut
    <3>2. Accepted(h) \in HandlerStates'
      BY <3>1 DEF HandlerStates
    <3>3. QED BY <1>1, <1>6, <3>2, OnlyHandler DEF serviceVars
  <2>3. CASE handler[h].op # "logout"
    <3>1. handler[h].late = FALSE /\ at \in Readings'
      BY <1>1, <2>1 DEF Validating, Readings, Times
    <3>2. Accepted(h) \in Used'
      BY <1>2, <1>6, <2>1, <2>3, <3>1 DEF Accepted, Used
    <3>3. Accepted(h) \in HandlerStates'
      BY <3>2 DEF HandlerStates
    <3>4. QED BY <1>1, <1>6, <3>3, OnlyHandler DEF serviceVars
  <2>4. QED BY <2>2, <2>3
<1>7. QED BY <1>4, <1>5, <1>6 DEF ValidateToken

(* Logout revokes the token it removes. *)
LEMMA LogoutInv ==
    ASSUME IInv, NEW h \in Handlers, Logout(h)
    PROVE  IInv'
<1> DEFINE token == handler[h].token
           s == [step |-> "done", answer |-> "ok", op |-> "logout"]
<1>1. /\ handler[h] \in LoggingOut /\ Goto(h, s)
      /\ sessions_' = Restrict(sessions_, DOMAIN sessions_ \ {token})
      /\ revoked' = revoked \cup {token}
      /\ UNCHANGED <<now, users_, next_user_id_, buckets_, entries_, issued, attempts>>
  BY AtStep DEF Logout, IInv
<1>2. Grows /\ UserInv' /\ now' \in Times
  BY <1>1, Untouched
<1>3. s \in HandlerStates'
  BY DEF HandlerStates, LoggedOut
<1>4. HandlerInv'
  BY <1>1, <1>2, <1>3, Move DEF IInv
<1>5. token \in DOMAIN issued
  BY <1>1 DEF LoggingOut
<1>6. TokenInv'
  BY <1>1, <1>5, RemoveToken
<1>7. QED BY <1>1, <1>2, <1>4, <1>6 DEF IInv, Buckets, Times

---------------------------------------------------------------------------
(* IInv holds in every state of Auth, whatever the interleaving of the     *)
(* requests and the clock.                                                 *)
THEOREM AuthInvariant == AuthSpec => []IInv
<1>1. IInv /\ [AuthNext]_authVars => IInv'
  <2> SUFFICES ASSUME IInv, [AuthNext]_authVars PROVE IInv'
    OBVIOUS
  <2>1. ASSUME NEW h \in Handlers, EnsureRated(h) \/ Allow(h) \/ Login(h) \/ ValidateToken(h) \/ Logout(h)
        PROVE  IInv'
    BY <2>1, EnsureRatedInv, AllowInv, LoginInv, ValidateTokenInv, LogoutInv
  <2>2. ASSUME NEW h \in Handlers, NEW name \in Names, NEW password \in Passwords,
               RegisterUser(h, name, password) \/ \E ip \in Ips : BeginLogin(h, name, password, ip)
        PROVE  IInv'
    BY <2>2, RegisterUserInv, BeginLoginInv
  <2>3. CASE UNCHANGED authVars
    <3>1. UNCHANGED <<now, users_, next_user_id_, sessions_, buckets_, entries_, handler, issued, revoked>>
      BY <2>3 DEF authVars, serviceVars, historyVars
    <3>2. Grows /\ UserInv' /\ now' \in Times /\ Sessions' = Sessions
      BY <3>1, Untouched
    <3>3. HandlerInv'
      BY <3>1, <3>2, StatesGrow DEF IInv, HandlerInv
    <3>4. QED BY <3>1, <3>2, <3>3 DEF IInv, TokenInv, LiveTokenKept, Buckets, Times
  <2>4. QED BY <2>1, <2>2, <2>3, TimePassesInv, ExtractAuthSessionInv DEF AuthNext
<1>2. QED BY InitInv, <1>1, PTL DEF AuthSpec

(* Types: no account without a name or password, every token one that was  *)
(* issued to a registered user, every request answered with a known code.  *)
THEOREM TypeCorrect == AuthSpec => []AuthTypeOK
<1>1. IInv => AuthTypeOK
  <2> SUFFICES ASSUME IInv PROVE AuthTypeOK
    OBVIOUS
  <2>1. Ids \subseteq Nat \ {0}
    <3>1. next_user_id_ \in Nat
      BY DEF IInv, UserInv
    <3>2. QED BY <3>1, IdsGrow DEF Ids
  <2>2. \A n \in DOMAIN users_ : users_[n] \in [id : Nat \ {0}, password : Passwords \ {""}]
    BY <2>1 DEF IInv, UserInv
  <2>3. \A t \in DOMAIN sessions_ : sessions_[t] \in Sessions
    BY IssuedElements DEF IInv, TokenInv
  <2>4. \A h \in Handlers : handler[h].step = "done" => handler[h].answer \in Codes
    <3>1. \A s \in Refused \cup Rated \cup LoggedOut \cup Used : s.answer \in Codes
      BY DEF Refused, Rated, LoggedOut, Used, Codes
    <3>2. QED BY <3>1, AtStep DEF IInv
  <2>5. QED BY <2>2, <2>3, <2>4 DEF IInv, UserInv, TokenInv, AuthTypeOK, Sessions, Ids, Buckets
<1>2. QED BY AuthInvariant, <1>1, PTL

(* A request with a token that was revoked before it came, or expired by   *)
(* the time it came, is never granted.                                     *)
THEOREM TokenGuarded == AuthSpec => []DeadTokenRefused
<1>1. IInv => DeadTokenRefused
  <2> SUFFICES ASSUME IInv, NEW h \in Handlers,
                      handler[h].step = "done", handler[h].answer = "ok", handler[h].op = "use"
               PROVE  ~handler[h].late /\ handler[h].at <= issued[handler[h].token].expires_at
    BY DEF DeadTokenRefused
  <2>1. handler[h] \in Refused \cup Rated \cup LoggedOut \cup Used
    BY AtStep DEF IInv
  <2>2. handler[h] \in Used
    BY <2>1 DEF Refused, Rated, LoggedOut
  <2>3. QED BY <2>2 DEF Used
<1>2. QED BY AuthInvariant, <1>1, PTL

(* A token that is neither revoked nor expired keeps working.              *)
THEOREM TokenKept == AuthSpec => []LiveTokenKept
<1>1. IInv => LiveTokenKept
  BY DEF IInv, TokenInv
<1>2. QED BY AuthInvariant, <1>1, PTL

(* Whoever was answered a registration or a login is on the leaderboard.   *)
THEOREM LeaderboardComplete == AuthSpec => []AnsweredIsRated
<1>1. IInv => AnsweredIsRated
  <2> SUFFICES ASSUME IInv, NEW h \in Handlers,
                      handler[h].step = "done", handler[h].answer = "ok",
                      handler[h].op \in {"register", "login"}
               PROVE  handler[h].user \in DOMAIN entries_
    BY DEF AnsweredIsRated
  <2>1. handler[h] \in Refused \cup Rated \cup LoggedOut \cup Used
    BY AtStep DEF IInv
  <2>2. handler[h] \in Rated
    BY <2>1 DEF Refused, LoggedOut, Used
  <2>3. QED BY <2>2 DEF Rated
<1>2. QED BY AuthInvariant, <1>1, PTL

(* Every account stays what it was, and no two ever share an id.           *)
THEOREM AccountsKept == AuthSpec => AccountsAreStable
<1> DEFINE Stable == /\ \A n \in DOMAIN users_ : n \in DOMAIN users_' /\ users_'[n] = users_[n]
                     /\ \A n, m \in DOMAIN users_' : users_'[n].id = users_'[m].id => n = m
<1>1. IInv' /\ [AuthNext]_authVars => Stable
  <2> SUFFICES ASSUME IInv', [AuthNext]_authVars PROVE Stable
    OBVIOUS
  <2>1. \A n, m \in DOMAIN users_' : users_'[n].id = users_'[m].id => n = m
    BY DEF IInv, UserInv
  <2>2. ASSUME UNCHANGED users_ PROVE Stable
    BY <2>1, <2>2
  <2>3. ASSUME NEW h \in Handlers, NEW name \in Names, NEW password \in Passwords,
               RegisterUser(h, name, password)
        PROVE  Stable
    <3>1. CASE UNCHANGED users_
      BY <2>2, <3>1
    <3>2. CASE ~NameTaken(name) /\ users_' = [n \in DOMAIN users_ \cup {name} |->
                  IF n = name THEN [id |-> next_user_id_, password |-> password] ELSE users_[n]]
      <4>1. name \notin DOMAIN users_
        BY <3>2 DEF NameTaken
      <4>2. \A n \in DOMAIN users_ : n \in DOMAIN users_' /\ users_'[n] = users_[n]
        BY <3>2, <4>1
      <4>3. QED BY <2>1, <4>2
    <3>3. QED BY <2>3, <3>1, <3>2 DEF RegisterUser
  <2>4. QED BY <2>2, <2>3 DEF AuthNext, TimePasses, EnsureRated, Allow, Login, ValidateToken, Logout,
                              BeginLogin, ExtractAuthSession, authVars, serviceVars
<1>2. QED BY AuthInvariant, <1>1, PTL DEF AuthSpec, AccountsAreStable

---------------------------------------------------------------------------
(***************************************************************************)
(* The rate limit.  Take a stretch t .. t + LoginWindow.  Windows begin more*)
(* than LoginWindow apart, so at most two have attempts in the stretch of  *)
(* their own: one that began before t, whose first attempt is outside, and *)
(* one that begins in it.  Once a window begins after the stretch, the     *)
(* only attempts that can still fall into it are those of requests that    *)
(* have read the clock by then, and the request that began the window is   *)
(* not one of them.                                                        *)
(***************************************************************************)
Within(ip, t)  == {i \in DOMAIN attempts[ip] : attempts[ip][i] \in t .. t + LoginWindow}

Waiting(ip, t) == {h \in Handlers : /\ handler[h].step = "limit"
                                    /\ handler[h].ip = ip
                                    /\ handler[h].at \in t .. t + LoginWindow}

(* n attempts in the stretch from t on, and w that may still come, while   *)
(* the window began at start and count attempts were counted in it.        *)
Bound(start, count, n, w, t) ==
    /\ start + LoginWindow < t => n = 0
    /\ start < t /\ t <= start + LoginWindow /\ start # 0 => n <= count - 1
    /\ t <= start /\ start <= t + LoginWindow => n <= LoginMaxAttempts - 1 + count
    /\ t + LoginWindow < start =>
          n + w <= (2 * LoginMaxAttempts - 1) + (Cardinality(Handlers) - 1)

BucketInv(ip) ==
    /\ buckets_[ip].window_start <= now
    /\ buckets_[ip].window_start = 0 => buckets_[ip].count = 0 /\ attempts[ip] = <<>>
    /\ buckets_[ip].window_start # 0 => buckets_[ip].count >= 1
    /\ \A t \in Times : Bound(buckets_[ip].window_start, buckets_[ip].count,
                              Cardinality(Within(ip, t)), Cardinality(Waiting(ip, t)), t)

Budget ==
    /\ attempts \in [Ips -> Seq(Times)]
    /\ \A ip \in Ips : BucketInv(ip)

(* How many requests there can be. *)
LEMMA HandlersCount == IsFiniteSet(Handlers) /\ Cardinality(Handlers) \in Nat /\ Cardinality(Handlers) >= 1
<1>1. IsFiniteSet(Handlers) /\ Cardinality(Handlers) \in Nat
  BY AuthConstants, FS_CardinalityType
<1>2. Cardinality(Handlers) # 0
  BY <1>1, AuthConstants, FS_EmptySet
<1>3. QED BY <1>1, <1>2

(* One more attempt in the same window. *)
LEMMA SameWindow ==
    ASSUME NEW start \in Nat, NEW count \in Nat, NEW n \in Nat, NEW w \in Nat, NEW t \in Times,
           NEW at \in Times, NEW x \in Nat, NEW v \in Nat,
           Bound(start, count, n, w, t), start # 0, at <= start + LoginWindow,
           x = (IF at \in t .. t + LoginWindow THEN 1 ELSE 0), v <= w - x
    PROVE  Bound(start, count + 1, n + x, v, t)
<1>1. LoginWindow \in Nat /\ LoginMaxAttempts \in Nat /\ Cardinality(Handlers) \in Nat /\ t \in Nat /\ at \in Nat
  BY HandlersCount, AuthConstants DEF Times
<1> DEFINE H == Cardinality(Handlers)
<1> HIDE DEF H
<1>2. H \in Nat
  BY <1>1 DEF H
<1>3. start + LoginWindow < t => x = 0
  BY <1>1
<1>4. x \in {0, 1}
  OBVIOUS
<1>5. QED BY <1>1, <1>2, <1>3, <1>4 DEF Bound, H

(* The first attempt of a new window, at its start. *)
LEMMA NewWindow ==
    ASSUME NEW start \in Nat, NEW count \in 0 .. LoginMaxAttempts, NEW n \in Nat, NEW w \in Nat,
           NEW t \in Times, NEW at \in Times, NEW x \in Nat, NEW v \in Nat,
           Bound(start, count, n, w, t),
           start = 0 => n = 0, start # 0 => start + LoginWindow < at,
           x = (IF at \in t .. t + LoginWindow THEN 1 ELSE 0), v <= w, v <= Cardinality(Handlers) - 1
    PROVE  Bound(at, 1, n + x, v, t)
<1>1. /\ LoginWindow \in Nat /\ LoginMaxAttempts \in Nat \ {0} /\ Cardinality(Handlers) \in Nat
      /\ t \in Nat \ {0} /\ at \in Nat \ {0}
  BY HandlersCount, AuthConstants DEF Times
<1> DEFINE H == Cardinality(Handlers)
<1>2. H \in Nat /\ v <= H - 1
  BY <1>1
<1> HIDE DEF H
<1>3. n <= 2 * LoginMaxAttempts - 1 \/ t + LoginWindow < start
  BY <1>1 DEF Bound
<1>4. start >= t => at > t + LoginWindow
  BY <1>1
<1>5. CASE at < t
  <2>1. start = 0 \/ start + LoginWindow < t
    BY <1>1, <1>5
  <2>2. n = 0 /\ x = 0
    BY <1>1, <1>5, <2>1 DEF Bound
  <2>3. QED BY <1>1, <1>5, <2>2 DEF Bound
<1>6. CASE t <= at /\ at <= t + LoginWindow
  <2>1. start < t
    BY <1>1, <1>4, <1>6
  <2>2. n <= LoginMaxAttempts - 1
    BY <1>1, <2>1 DEF Bound
  <2>3. x = 1
    BY <1>1, <1>6
  <2>4. QED BY <1>1, <1>6, <2>2, <2>3 DEF Bound
<1>7. CASE t + LoginWindow < at
  <2>1. x = 0
    BY <1>1, <1>7
  <2>2. ASSUME t + LoginWindow < start
        PROVE  n + v <= (2 * LoginMaxAttempts - 1) + (H - 1)
    <3>1. n + w <= (2 * LoginMaxAttempts - 1) + (H - 1)
      BY <2>2 DEF Bound, H
    <3>2. n + v <= (2 * LoginMaxAttempts - 1) + (H - 1)
      BY <1>1, <1>2, <3>1
    <3>3. QED BY <3>2
  <2>3. n + v <= (2 * LoginMaxAttempts - 1) + (H - 1)
    <3>1. CASE n <= 2 * LoginMaxAttempts - 1
      BY <1>1, <1>2, <3>1
    <3>2. QED BY <1>1, <1>3, <2>2, <3>1
  <2>4. QED BY <1>1, <1>7, <2>1, <2>3 DEF Bound, H
<1>8. QED BY <1>1, <1>5, <1>6, <1>7

---------------------------------------------------------------------------
(* Attempts are counted. *)
LEMMA WithinCount ==
    ASSUME attempts \in [Ips -> Seq(Times)], NEW ip \in Ips, NEW t \in Times
    PROVE  IsFiniteSet(Within(ip, t)) /\ Cardinality(Within(ip, t)) \in Nat
<1>1. DOMAIN attempts[ip] = 1 .. Len(attempts[ip]) /\ Len(attempts[ip]) \in Nat
  OBVIOUS
<1>2. IsFiniteSet(DOMAIN attempts[ip])
  BY <1>1, FS_Interval
<1>3. QED BY <1>2, FS_Subset, FS_CardinalityType DEF Within

LEMMA WaitingCount ==
    ASSUME NEW ip, NEW t
    PROVE  /\ IsFiniteSet(Waiting(ip, t)) /\ Cardinality(Waiting(ip, t)) \in Nat
           /\ IsFiniteSet(Waiting(ip, t)') /\ Cardinality(Waiting(ip, t)') \in Nat
  BY HandlersCount, FS_Subset, FS_CardinalityType DEF Waiting

(* One more attempt is counted in the stretches that hold it. *)
LEMMA WithinGrows ==
    ASSUME attempts \in [Ips -> Seq(Times)], NEW ip \in Ips, NEW at \in Times, NEW t \in Times,
           attempts' = [attempts EXCEPT ![ip] = Append(@, at)]
    PROVE  Cardinality(Within(ip, t)') =
              Cardinality(Within(ip, t)) + (IF at \in t .. t + LoginWindow THEN 1 ELSE 0)
<1> DEFINE old == attempts[ip]
           new == attempts'[ip]
<1>1. old \in Seq(Times) /\ new = Append(old, at)
  OBVIOUS
<1> HIDE DEF old, new
<1>2. /\ Len(old) \in Nat /\ DOMAIN old = 1 .. Len(old) /\ DOMAIN new = 1 .. Len(old) + 1
      /\ new[Len(old) + 1] = at /\ \A i \in 1 .. Len(old) : new[i] = old[i]
  BY <1>1, AppendProperties, LenProperties
<1>3. /\ Within(ip, t) = {i \in DOMAIN old : old[i] \in t .. t + LoginWindow}
      /\ Within(ip, t)' = {i \in DOMAIN new : new[i] \in t .. t + LoginWindow}
  BY DEF Within, old, new
<1>4. IsFiniteSet(Within(ip, t)) /\ Cardinality(Within(ip, t)) \in Nat
  BY WithinCount
<1>5. Len(old) + 1 \notin Within(ip, t)
  BY <1>2, <1>3
<1>6. CASE at \in t .. t + LoginWindow
  <2>1. Within(ip, t)' = Within(ip, t) \cup {Len(old) + 1}
    BY <1>2, <1>3, <1>6
  <2>2. QED BY <1>4, <1>5, <1>6, <2>1, FS_AddElement
<1>7. CASE at \notin t .. t + LoginWindow
  <2>1. Within(ip, t)' = Within(ip, t)
    BY <1>2, <1>3, <1>7
  <2>2. QED BY <1>4, <1>7, <2>1
<1>8. QED BY <1>6, <1>7

(* A request that goes on from the limiter, or that is not at it, does not *)
(* wait for it.                                                            *)
LEMMA WaitingLeaves ==
    ASSUME HandlerInv, NEW h \in Handlers, NEW s, s.step # "limit", Goto(h, s), NEW ip, NEW t
    PROVE  Waiting(ip, t)' = Waiting(ip, t) \ {h}
<1>1. handler \in [Handlers -> HandlerStates]
  BY DEF HandlerInv
<1> HIDE DEF HandlerStates
<1>2. handler'[h] = s /\ \A g \in Handlers : g # h => handler'[g] = handler[g]
  BY <1>1 DEF Goto
<1>3. QED BY <1>2 DEF Waiting

(* Nothing happens to an address unless a request waits that did not.      *)
LEMMA AddressKept ==
    ASSUME Budget, buckets_ \in [Ips -> Buckets], NEW ip \in Ips,
           buckets_'[ip] = buckets_[ip], attempts'[ip] = attempts[ip],
           now \in Times, now' \in Times, now <= now',
           \A t \in Times : t + LoginWindow < now => Waiting(ip, t)' \subseteq Waiting(ip, t)
    PROVE  BucketInv(ip)'
<1>1. BucketInv(ip) /\ attempts \in [Ips -> Seq(Times)]
  BY DEF Budget
<1> DEFINE start == buckets_[ip].window_start
<1>2. start \in Nat /\ now \in Nat /\ now' \in Nat /\ start <= now /\ start <= now'
  <2>1. start \in Times \cup {0} /\ start <= now
    BY <1>1 DEF Buckets, BucketInv
  <2>2. QED BY <2>1, AuthConstants DEF Times
<1>3. ASSUME NEW t \in Times
      PROVE  Bound(start, buckets_[ip].count, Cardinality(Within(ip, t)'), Cardinality(Waiting(ip, t)'), t)
  <2>1. Bound(start, buckets_[ip].count, Cardinality(Within(ip, t)), Cardinality(Waiting(ip, t)), t)
    BY <1>1 DEF BucketInv
  <2>2. Within(ip, t)' = Within(ip, t)
    BY DEF Within
  <2>3. Cardinality(Within(ip, t)) \in Nat
    BY <1>1, WithinCount
  <2>4. t + LoginWindow < start => Cardinality(Waiting(ip, t)') <= Cardinality(Waiting(ip, t))
    <3>1. t + LoginWindow < start => t + LoginWindow < now
      BY <1>2, AuthConstants DEF Times
    <3>2. QED BY <3>1, WaitingCount, FS_Subset
  <2>5. Cardinality(Waiting(ip, t)) \in Nat /\ Cardinality(Waiting(ip, t)') \in Nat
    BY WaitingCount
  <2>6. LoginMaxAttempts \in Nat /\ Cardinality(Handlers) \in Nat
    BY HandlersCount, AuthConstants
  <2> HIDE DEF start
  <2>7. QED BY <2>1, <2>2, <2>3, <2>4, <2>5, <2>6 DEF Bound
<1>4. QED BY <1>1, <1>2, <1>3 DEF BucketInv


(* RateLimiter::Allow. *)
LEMMA AllowKeepsBudget ==
    ASSUME IInv, Budget, NEW h \in Handlers, Allow(h)
    PROVE  Budget'
<1>0. PICK ip \in Ips, at \in Times :
         handler[h].ip = ip /\ handler[h].at = at /\ at <= now /\ handler[h].step = "limit"
  <2>1. handler[h] \in Limiting /\ handler[h].step = "limit"
    BY AtStep DEF IInv, Allow
  <2>2. handler[h].ip \in Ips /\ handler[h].at \in Times /\ handler[h].at <= now
    BY <2>1 DEF Limiting, Readings
  <2>3. QED BY <2>1, <2>2
<1> DEFINE b == buckets_[ip]
           c == CurrentBucket(b, at)
<1>1. ip \in Ips /\ at \in Times /\ at <= now
  BY <1>0
<1>2. /\ buckets_ \in [Ips -> Buckets] /\ attempts \in [Ips -> Seq(Times)] /\ HandlerInv
      /\ now \in Times /\ now' = now /\ now <= now' /\ at <= now' /\ now \in Nat
  <2>1. now \in Times /\ now' = now
    BY DEF IInv, Allow
  <2>2. now \in Nat
    BY <2>1, AuthConstants DEF Times
  <2>3. QED BY <1>1, <2>1, <2>2 DEF IInv, Budget
<1>3. \/ /\ c.count >= LoginMaxAttempts
         /\ buckets_' = [buckets_ EXCEPT ![ip] = c]
         /\ Refuse(h, "rate_limited")
         /\ UNCHANGED attempts
      \/ /\ c.count < LoginMaxAttempts
         /\ buckets_' = [buckets_ EXCEPT ![ip] = [c EXCEPT !.count = @ + 1]]
         /\ attempts' = [attempts EXCEPT ![ip] = Append(@, at)]
         /\ Goto(h, [step |-> "verify", name |-> handler[h].name,
                     password |-> handler[h].password, at |-> at])
  BY <1>0 DEF Allow
<1>4. \A p, t : Waiting(p, t)' = Waiting(p, t) \ {h}
  <2> DEFINE v == [step |-> "verify", name |-> handler[h].name, password |-> handler[h].password, at |-> at]
             r == [step |-> "done", answer |-> "rate_limited"]
  <2>1. v.step # "limit" /\ r.step # "limit"
    OBVIOUS
  <2>2. Goto(h, r) \/ Goto(h, v)
    BY <1>3 DEF Refuse
  <2> HIDE DEF v, r
  <2>3. QED BY <1>2, <2>1, <2>2, WaitingLeaves
<1>5. BucketInv(ip)
  BY <1>1 DEF Budget
<1> DEFINE start == b.window_start
           count == b.count
<1>6. /\ start \in Nat /\ start <= now /\ count \in 0 .. LoginMaxAttempts /\ b = [count |-> count, window_start |-> start]
      /\ at \in Nat \ {0}
  <2>1. b \in Buckets
    BY <1>1, <1>2
  <2>2. start \in Nat
    BY <2>1, AuthConstants DEF Buckets, Times
  <2>3. QED BY <1>1, <1>5, <2>1, <2>2, AuthConstants DEF Buckets, BucketInv, Times
<1>7. IF start # 0 /\ at <= start + LoginWindow
      THEN c = b
      ELSE c = [count |-> 0, window_start |-> at] /\ (start # 0 => start + LoginWindow < at)
  <2>1. start = 0 => count = 0
    BY <1>5 DEF BucketInv
  <2>2. LoginWindow \in Nat
    BY AuthConstants
  <2> HIDE DEF b
  <2>3. CASE start = 0
    <3>1. c = [b EXCEPT !.window_start = at]
      BY <2>3 DEF CurrentBucket, start
    <3>2. c = [count |-> 0, window_start |-> at]
      <4>1. b = [count |-> 0, window_start |-> 0]
        BY <1>6, <2>1, <2>3
      <4>2. [[count |-> 0, window_start |-> 0] EXCEPT !.window_start = at] = [count |-> 0, window_start |-> at]
        OBVIOUS
      <4>3. QED BY <3>1, <4>1, <4>2
    <3>3. QED BY <2>3, <3>2
  <2>4. CASE start # 0 /\ at - start > LoginWindow
    BY <1>6, <2>2, <2>4 DEF CurrentBucket, start
  <2>5. CASE start # 0 /\ ~(at - start > LoginWindow)
    BY <1>6, <2>2, <2>5 DEF CurrentBucket, start
  <2>6. QED BY <2>3, <2>4, <2>5
<1> HIDE DEF b, c, start, count
<1>8. ASSUME NEW p \in Ips, buckets_'[p] = buckets_[p], attempts'[p] = attempts[p]
      PROVE  BucketInv(p)'
  <2>1. \A t \in Times : Waiting(p, t)' \subseteq Waiting(p, t)
    BY <1>4
  <2>2. now' \in Times
    BY <1>2
  <2>3. QED BY <1>2, <1>8, <2>1, <2>2, AddressKept
<1>9. CASE c.count >= LoginMaxAttempts /\ buckets_' = [buckets_ EXCEPT ![ip] = c] /\ UNCHANGED attempts
  <2>1. c = b
    BY <1>6, <1>7, <1>9, AuthConstants
  <2>2. buckets_' = buckets_
    BY <1>2, <1>9, <2>1 DEF b
  <2>3. QED BY <1>2, <1>8, <1>9, <2>2 DEF Budget
<1>10. CASE /\ c.count < LoginMaxAttempts
            /\ buckets_' = [buckets_ EXCEPT ![ip] = [c EXCEPT !.count = @ + 1]]
            /\ attempts' = [attempts EXCEPT ![ip] = Append(@, at)]
  <2>1. attempts' \in [Ips -> Seq(Times)]
    BY <1>1, <1>2, <1>10
  <2>2. ASSUME NEW p \in Ips, p # ip PROVE BucketInv(p)'
    <3>1. buckets_'[p] = buckets_[p] /\ attempts'[p] = attempts[p]
      BY <1>2, <1>10, <2>2
    <3>2. QED BY <1>8, <3>1
  <2> DEFINE d == buckets_'[ip]
  <2>3. d = [c EXCEPT !.count = @ + 1]
    BY <1>1, <1>2, <1>10
  <2> HIDE DEF d
  <2>4. IF start # 0 /\ at <= start + LoginWindow
        THEN d.window_start = start /\ d.count = count + 1
        ELSE d.window_start = at /\ d.count = 1
    <3>1. CASE start # 0 /\ at <= start + LoginWindow
      BY <1>6, <1>7, <2>3, <3>1
    <3>2. CASE ~(start # 0 /\ at <= start + LoginWindow)
      BY <1>7, <2>3, <3>2
    <3>3. QED BY <3>1, <3>2
  <2>5. ASSUME NEW t \in Times
        PROVE  Bound(d.window_start, d.count, Cardinality(Within(ip, t)'), Cardinality(Waiting(ip, t)'), t)
    <3> DEFINE n == Cardinality(Within(ip, t))
               w == Cardinality(Waiting(ip, t))
               v == Cardinality(Waiting(ip, t)')
               x == IF at \in t .. t + LoginWindow THEN 1 ELSE 0
    <3>1. n \in Nat /\ w \in Nat /\ v \in Nat /\ x \in Nat /\ Cardinality(Handlers) \in Nat
      BY <1>1, <1>2, WithinCount, WaitingCount, HandlersCount
    <3>2. Cardinality(Within(ip, t)') = n + x
      BY <1>1, <1>2, <1>10, WithinGrows
    <3>3. Bound(start, count, n, w, t)
      BY <1>5 DEF BucketInv, start, count, b
    <3>4. v <= w - x
      <4>1. CASE at \in t .. t + LoginWindow
        <5>1. h \in Waiting(ip, t)
          BY <1>0, <4>1 DEF Waiting
        <5>2. v = w - 1
          BY <1>4, <5>1, WaitingCount, FS_RemoveElement
        <5>3. QED BY <3>1, <4>1, <5>2
      <4>2. CASE at \notin t .. t + LoginWindow
        <5>1. v <= w
          BY <1>4, WaitingCount, FS_Subset
        <5>2. QED BY <3>1, <4>2, <5>1
      <4>3. QED BY <4>1, <4>2
    <3>5. v <= Cardinality(Handlers) - 1
      <4>1. Waiting(ip, t)' \subseteq Handlers \ {h}
        <5>1. Waiting(ip, t) \subseteq Handlers
          BY DEF Waiting
        <5>2. QED BY <1>4, <5>1
      <4>2. IsFiniteSet(Handlers \ {h}) /\ Cardinality(Handlers \ {h}) = Cardinality(Handlers) - 1
        BY HandlersCount, FS_RemoveElement
      <4>3. QED BY <4>1, <4>2, FS_Subset
    <3>6. start = 0 => n = 0
      <4>1. start = 0 => attempts[ip] = <<>>
        BY <1>5 DEF BucketInv, start, b
      <4>2. start = 0 => Within(ip, t) = {}
        BY <4>1 DEF Within
      <4>3. QED BY <4>2, FS_EmptySet
    <3>7. x = (IF at \in t .. t + LoginWindow THEN 1 ELSE 0)
      OBVIOUS
    <3> HIDE DEF n, w, v, x
    <3>8. CASE start # 0 /\ at <= start + LoginWindow
      <4>1. start \in Nat /\ count \in Nat /\ start # 0 /\ at <= start + LoginWindow
        BY <1>6, <3>8, AuthConstants
      <4>2. Bound(start, count + 1, n + x, v, t)
        BY <1>1, <3>1, <3>3, <3>4, <3>7, <4>1, SameWindow
      <4>3. QED BY <2>4, <3>2, <3>8, <4>2 DEF v
    <3>9. CASE ~(start # 0 /\ at <= start + LoginWindow)
      <4>1. start # 0 => start + LoginWindow < at
        BY <1>7, <3>9
      <4>2. v <= w
        BY <3>1, <3>4
      <4>3. Bound(at, 1, n + x, v, t)
        BY <1>1, <1>6, <3>1, <3>3, <3>5, <3>6, <3>7, <4>1, <4>2, NewWindow
      <4>4. QED BY <2>4, <3>2, <3>9, <4>3 DEF v
    <3>10. QED BY <3>8, <3>9
  <2>6. d.window_start <= now' /\ d.window_start # 0 /\ d.count >= 1
    BY <1>2, <1>6, <2>4
  <2>7. BucketInv(ip)'
    BY <2>5, <2>6 DEF BucketInv, d
  <2>8. QED BY <2>1, <2>2, <2>7 DEF Budget
<1>11. QED BY <1>3, <1>9, <1>10


(* The clock moves on. *)
LEMMA TimeKeepsBudget ==
    ASSUME IInv, Budget, TimePasses
    PROVE  Budget'
<1>1. /\ buckets_ \in [Ips -> Buckets] /\ attempts \in [Ips -> Seq(Times)]
      /\ UNCHANGED <<buckets_, attempts, handler>>
  BY DEF IInv, Budget, TimePasses, serviceVars, historyVars
<1>2. now \in Times /\ now' \in Times /\ now <= now'
  BY AuthConstants DEF IInv, TimePasses, Times
<1>3. \A p, t : Waiting(p, t)' = Waiting(p, t)
  BY <1>1 DEF Waiting
<1>4. \A p \in Ips : BucketInv(p)'
  BY <1>1, <1>2, <1>3, AddressKept
<1>5. QED BY <1>1, <1>4 DEF Budget

(* A request begins: a stretch that is over before now is not joined.      *)
LEMMA BeginKeepsBudget ==
    ASSUME IInv, Budget, NEW h \in Handlers, NEW name \in Names, NEW password \in Passwords,
           NEW ip \in Ips, BeginLogin(h, name, password, ip)
    PROVE  Budget'
<1> DEFINE s == [step |-> "limit", name |-> name, password |-> password, ip |-> ip, at |-> now]
<1>1. /\ buckets_ \in [Ips -> Buckets] /\ attempts \in [Ips -> Seq(Times)] /\ HandlerInv
      /\ UNCHANGED <<now, buckets_, attempts>> /\ Goto(h, s)
  BY DEF IInv, Budget, BeginLogin, serviceVars, historyVars
<1>2. now \in Times /\ now' \in Times /\ now <= now' /\ now \in Nat
  BY <1>1, AuthConstants DEF IInv, Times
<1>3. ASSUME NEW p \in Ips, NEW t \in Times, t + LoginWindow < now
      PROVE  Waiting(p, t)' \subseteq Waiting(p, t)
  <2>1. handler \in [Handlers -> HandlerStates]
    BY <1>1 DEF HandlerInv
  <2>2. \A g \in Handlers : handler'[g] = IF g = h THEN s ELSE handler[g]
    <3> HIDE DEF HandlerStates, s
    <3>1. QED BY <1>1, <2>1 DEF Goto
  <2>3. s.at = now /\ now \notin t .. t + LoginWindow
    <3>1. t \in Nat /\ t + LoginWindow \in Nat
      BY AuthConstants DEF Times
    <3>2. QED BY <1>2, <1>3, <3>1
  <2> HIDE DEF s
  <2>4. QED BY <2>2, <2>3 DEF Waiting
<1>4. \A p \in Ips : BucketInv(p)'
  BY <1>1, <1>2, <1>3, AddressKept
<1>5. QED BY <1>1, <1>4 DEF Budget

(* Every other step leaves buckets and attempts alone, and no request      *)
(* arrives at the limiter.                                                 *)
LEMMA OthersKeepBudget ==
    ASSUME IInv, Budget, UNCHANGED <<now, buckets_, attempts>>,
           NEW h \in Handlers, NEW s, s.step # "limit", Goto(h, s)
    PROVE  Budget'
<1>1. /\ buckets_ \in [Ips -> Buckets] /\ attempts \in [Ips -> Seq(Times)] /\ HandlerInv
  BY DEF IInv, Budget
<1>2. now \in Times /\ now' \in Times /\ now <= now'
  BY AuthConstants DEF IInv, Times
<1>3. \A p, t : Waiting(p, t)' \subseteq Waiting(p, t)
  BY <1>1, WaitingLeaves
<1>4. \A p \in Ips : BucketInv(p)'
  BY <1>1, <1>2, <1>3, AddressKept
<1>5. QED BY <1>1, <1>4 DEF Budget

LEMMA StepKeepsBudget ==
    ASSUME IInv, Budget, [AuthNext]_authVars
    PROVE  Budget'
<1>1. CASE TimePasses
  BY <1>1, TimeKeepsBudget
<1>2. ASSUME NEW h \in Handlers, Allow(h) PROVE Budget'
  BY <1>2, AllowKeepsBudget
<1>3. ASSUME NEW h \in Handlers, NEW name \in Names, NEW password \in Passwords, NEW ip \in Ips,
             BeginLogin(h, name, password, ip)
      PROVE  Budget'
  BY <1>3, BeginKeepsBudget
<1>4. ASSUME NEW h \in Handlers, EnsureRated(h) \/ Login(h) \/ ValidateToken(h) \/ Logout(h)
      PROVE  Budget'
  <2>1. UNCHANGED <<now, buckets_, attempts>>
    BY <1>4 DEF EnsureRated, Login, ValidateToken, Logout, historyVars
  <2>2. \E s : s.step # "limit" /\ Goto(h, s)
    <3>1. CASE EnsureRated(h)
      BY <3>1 DEF EnsureRated
    <3>2. CASE Login(h)
      BY <3>2 DEF Login, Refuse
    <3>3. CASE ValidateToken(h)
      <4>1. Accepted(h).step # "limit"
        BY DEF Accepted
      <4>2. QED BY <3>3, <4>1 DEF ValidateToken, Refuse
    <3>4. CASE Logout(h)
      BY <3>4 DEF Logout
    <3>5. QED BY <1>4, <3>1, <3>2, <3>3, <3>4
  <2>3. QED BY <2>1, <2>2, OthersKeepBudget
<1>5. ASSUME NEW h \in Handlers, NEW name \in Names, NEW password \in Passwords,
             RegisterUser(h, name, password)
      PROVE  Budget'
  <2>1. UNCHANGED <<now, buckets_, attempts>>
    BY <1>5 DEF RegisterUser, historyVars
  <2>2. \E s : s.step # "limit" /\ Goto(h, s)
    BY <1>5 DEF RegisterUser, Refuse
  <2>3. QED BY <2>1, <2>2, OthersKeepBudget
<1>6. ASSUME NEW h \in Handlers, NEW op \in {"logout", "use"}, NEW token \in Tokens,
             ExtractAuthSession(h, op, token)
      PROVE  Budget'
  <2>1. UNCHANGED <<now, buckets_, attempts>>
    BY <1>6 DEF ExtractAuthSession, serviceVars, historyVars
  <2>2. \E s : s.step # "limit" /\ Goto(h, s)
    BY <1>6 DEF ExtractAuthSession
  <2>3. QED BY <2>1, <2>2, OthersKeepBudget
<1>7. CASE UNCHANGED authVars
  <2>1. \A p, t : Waiting(p, t)' = Waiting(p, t)
    BY <1>7 DEF Waiting, authVars
  <2>2. \A p, t : Within(p, t)' = Within(p, t)
    BY <1>7 DEF Within, authVars, historyVars
  <2>3. QED BY <1>7, <2>1, <2>2 DEF Budget, BucketInv, authVars, serviceVars, historyVars
<1>8. QED BY <1>1, <1>2, <1>3, <1>4, <1>5, <1>6, <1>7 DEF AuthNext

LEMMA BudgetInit == AuthInit => Budget
<1> SUFFICES ASSUME AuthInit PROVE Budget
  OBVIOUS
<1>1. attempts \in [Ips -> Seq(Times)] /\ now = 1
  BY DEF AuthInit
<1>2. ASSUME NEW ip \in Ips PROVE BucketInv(ip)
  <2>1. buckets_[ip] = [count |-> 0, window_start |-> 0] /\ attempts[ip] = <<>>
    BY <1>2 DEF AuthInit
  <2>2. ASSUME NEW t \in Times
        PROVE  Bound(0, 0, Cardinality(Within(ip, t)), Cardinality(Waiting(ip, t)), t)
    <3>1. Within(ip, t) = {}
      BY <2>1 DEF Within
    <3>2. Cardinality(Within(ip, t)) = 0
      BY <3>1, FS_EmptySet
    <3>3. t \in Nat \ {0} /\ LoginWindow \in Nat
      BY AuthConstants DEF Times
    <3>4. QED BY <3>2, <3>3 DEF Bound
  <2>3. QED BY <1>1, <2>1, <2>2 DEF BucketInv
<1>3. QED BY <1>1, <1>2 DEF Budget

(* RateLimiter's fixed window admits no more than it can, whatever stale   *)
(* clock readings attempts are counted with.                               *)
THEOREM AttemptsAreLimited == AuthSpec => []LoginBudget
<1>1. IInv /\ Budget => LoginBudget
  <2> SUFFICES ASSUME IInv, Budget, NEW ip \in Ips, NEW t \in Times
               PROVE  Cardinality(Within(ip, t)) <= (2 * LoginMaxAttempts - 1) + (Cardinality(Handlers) - 1)
    BY DEF LoginBudget, Within
  <2> DEFINE start == buckets_[ip].window_start
             count == buckets_[ip].count
             n == Cardinality(Within(ip, t))
             w == Cardinality(Waiting(ip, t))
             H == Cardinality(Handlers)
  <2>1. /\ start \in Nat /\ count \in 0 .. LoginMaxAttempts /\ n \in Nat /\ w \in Nat
        /\ H \in Nat /\ H >= 1 /\ LoginMaxAttempts \in Nat \ {0} /\ LoginWindow \in Nat /\ t \in Nat
    <3>1. buckets_[ip] \in Buckets
      BY DEF IInv
    <3>2. start \in Nat /\ count \in 0 .. LoginMaxAttempts
      BY <3>1, AuthConstants DEF Buckets, Times
    <3>3. QED BY <3>2, HandlersCount, WithinCount, WaitingCount, AuthConstants DEF Budget, Times
  <2>2. Bound(start, count, n, w, t) /\ (start = 0 => n = 0)
    <3>1. BucketInv(ip)
      BY DEF Budget
    <3>2. attempts[ip] = <<>> => Within(ip, t) = {}
      BY DEF Within
    <3>3. QED BY <3>1, <3>2, FS_EmptySet DEF BucketInv
  <2> HIDE DEF start, count, n, w
  <2>3. n <= (2 * LoginMaxAttempts - 1) + (H - 1)
    <3>1. CASE t + LoginWindow < start
      <4>1. n + w <= (2 * LoginMaxAttempts - 1) + (H - 1)
        BY <2>2, <3>1 DEF Bound, H
      <4> HIDE DEF H
      <4>2. QED BY <2>1, <4>1
    <3>2. CASE ~(t + LoginWindow < start)
      <4>1. n <= 2 * LoginMaxAttempts - 1
        <5> HIDE DEF H
        <5>1. \/ n = 0
              \/ n <= count - 1
              \/ n <= LoginMaxAttempts - 1 + count
          BY <2>1, <2>2, <3>2 DEF Bound
        <5>2. QED BY <2>1, <5>1
      <4> HIDE DEF H
      <4>2. QED BY <2>1, <4>1
    <3>3. QED BY <3>1, <3>2
  <2>4. QED BY <2>3 DEF n
<1>2. IInv /\ Budget /\ [AuthNext]_authVars => Budget'
  BY StepKeepsBudget
<1>3. QED BY <1>1, <1>2, BudgetInit, AuthInvariant, PTL DEF AuthSpec

=============================================================================

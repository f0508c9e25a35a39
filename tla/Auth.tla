-------------------------------- MODULE Auth --------------------------------
(***************************************************************************)
(* Accounts, login tokens and the login rate limit (server/src/auth.cpp),  *)
(* driven by the HTTP requests that use them (server/src/http_session.cpp).*)
(*                                                                         *)
(* Each request is served by a handler on an I/O thread.  The handler is   *)
(* not atomic: it reads the clock, and then takes the rate limiter's       *)
(* mutex, the authentication mutex and the rating service's mutex one      *)
(* after the other.  What it has read may be stale when it is used.        *)
(* handler[h].step is where handler h is.  Bodies that do not parse are    *)
(* refused before anything is touched and are left out.                    *)
(***************************************************************************)
EXTENDS Results

CONSTANTS
    Handlers,                 \* requests that may be in progress at a time
    Names,                    \* user names; "" stands for an empty field
    Passwords,                \* passwords; "" stands for an empty field
    Ips,                      \* client addresses
    TokenTtl,                 \* token_ttl
    LoginWindow,              \* login_window
    LoginMaxAttempts,         \* login_max_attempts
    MaxTime,                  \* bound on the clock
    MaxTokens,                \* bound on the tokens issued
    MaxAttempts               \* bound on the login attempts allowed per address

ASSUME AuthConstants ==
    /\ IsFiniteSet(Handlers) /\ Handlers # {}
    /\ TokenTtl \in Nat /\ LoginWindow \in Nat /\ LoginMaxAttempts \in Nat \ {0}
    /\ MaxTime \in Nat \ {0} /\ MaxTokens \in Nat /\ MaxAttempts \in Nat

VARIABLES
    now,                      \* std::chrono::system_clock; 0 is the epoch
    users_,                   \* name |-> [id, password]
    next_user_id_,
    sessions_,                \* token |-> [user, expires_at]
    buckets_,                 \* RateLimiter::buckets_
    entries_,                 \* RatingService::entries_
    handler,                  \* see above
    issued,                   \* history: every token issued, in order
    revoked,                  \* history: the tokens whose logout was answered
    attempts                  \* history: clock readings of the allowed attempts

serviceVars == <<users_, next_user_id_, sessions_, buckets_, entries_>>
historyVars == <<issued, revoked, attempts>>
authVars    == <<now, serviceVars, handler, historyVars>>

Times  == 1 .. MaxTime
Tokens == 1 .. MaxTokens      \* GenerateToken: the n-th token issued is n

Free == [step |-> "free"]

AuthInit ==
    /\ now = 1
    /\ users_ = [n \in {} |-> 0]
    /\ next_user_id_ = 1
    /\ sessions_ = [t \in {} |-> 0]
    /\ buckets_ = [ip \in Ips |-> [count |-> 0, window_start |-> 0]]
    /\ entries_ = [u \in {} |-> NewEntry]
    /\ handler = [h \in Handlers |-> Free]
    /\ issued = <<>>
    /\ revoked = {}
    /\ attempts = [ip \in Ips |-> <<>>]

Ready(h) == handler[h].step \in {"free", "done"}

Goto(h, state) == handler' = [handler EXCEPT ![h] = state]

(* MakeErrorEnvelope and MakeSuccessEnvelope.                              *)
Refuse(h, code) == Goto(h, [step |-> "done", answer |-> code])

TimePasses ==
    /\ now < MaxTime
    /\ now' = now + 1
    /\ UNCHANGED <<serviceVars, handler, historyVars>>

---------------------------------------------------------------------------
(* Faulty tests of RegisterUser: one empty field is let through; a name    *)
(* is never found taken.                                                   *)
BothFieldsMissing(name, password) == name = "" /\ password = ""

NeverTaken(name) == FALSE

FieldMissing(name, password) == name = "" \/ password = ""

NameTaken(name) == name \in DOMAIN users_

(* POST /api/auth/register: RegisterUser, then EnsureUser.                 *)
RegisterUser(h, name, password) ==
    /\ Ready(h)
    /\ \/ /\ FieldMissing(name, password)
          /\ Refuse(h, "bad_request")
          /\ UNCHANGED <<users_, next_user_id_>>
       \/ /\ ~FieldMissing(name, password)
          /\ NameTaken(name)
          /\ Refuse(h, "duplicate_user")
          /\ UNCHANGED <<users_, next_user_id_>>
       \/ /\ ~FieldMissing(name, password)
          /\ ~NameTaken(name)
          /\ users_' = [n \in DOMAIN users_ \cup {name} |->
                          IF n = name THEN [id |-> next_user_id_, password |-> password]
                          ELSE users_[n]]
          /\ next_user_id_' = next_user_id_ + 1
          /\ Goto(h, [step |-> "ensure", op |-> "register", user |-> next_user_id_])
    /\ UNCHANGED <<now, sessions_, buckets_, entries_, historyVars>>

(* A faulty end of these requests: EnsureUser is left to registration.     *)
EnsureAtRegistration(h) ==
    /\ handler[h].step = "ensure"
    /\ entries_' = IF handler[h].op = "register" THEN EnsureUser(entries_, handler[h].user) ELSE entries_
    /\ Goto(h, [step |-> "done", answer |-> "ok", op |-> handler[h].op, user |-> handler[h].user])
    /\ UNCHANGED <<now, users_, next_user_id_, sessions_, buckets_, historyVars>>

(* The end of a register or login request: EnsureUser and the answer.      *)
EnsureRated(h) ==
    /\ handler[h].step = "ensure"
    /\ entries_' = EnsureUser(entries_, handler[h].user)
    /\ Goto(h, [step |-> "done", answer |-> "ok", op |-> handler[h].op, user |-> handler[h].user])
    /\ UNCHANGED <<now, users_, next_user_id_, sessions_, buckets_, historyVars>>

---------------------------------------------------------------------------
(* POST /api/auth/login.  The clock is read once, at the beginning.  The   *)
(* bounds of the model leave room for the attempts that have begun.        *)
Begun == Cardinality({h \in Handlers : handler[h].step \in {"limit", "verify"}})

BeginLogin(h, name, password, ip) ==
    /\ Ready(h)
    /\ Len(issued) + Begun < MaxTokens
    /\ Len(attempts[ip]) + Begun < MaxAttempts
    /\ Goto(h, [step |-> "limit", name |-> name, password |-> password, ip |-> ip, at |-> now])
    /\ UNCHANGED <<now, serviceVars, historyVars>>

(* A faulty reset of the bucket: the start of the window is kept.          *)
WindowNotMoved(bucket, at) ==
    IF bucket.window_start = 0 THEN [bucket EXCEPT !.window_start = at]
    ELSE IF at - bucket.window_start > LoginWindow THEN [bucket EXCEPT !.count = 0]
    ELSE bucket

(* The bucket Allow goes on with: a new or expired window starts at `at`.  *)
CurrentBucket(bucket, at) ==
    IF bucket.window_start = 0 THEN [bucket EXCEPT !.window_start = at]
    ELSE IF at - bucket.window_start > LoginWindow THEN [count |-> 0, window_start |-> at]
    ELSE bucket

(* RateLimiter::Allow *)
Allow(h) ==
    /\ handler[h].step = "limit"
    /\ LET ip == handler[h].ip
           at == handler[h].at
           bucket == CurrentBucket(buckets_[ip], at)
       IN  \/ /\ bucket.count >= LoginMaxAttempts
              /\ buckets_' = [buckets_ EXCEPT ![ip] = bucket]
              /\ Refuse(h, "rate_limited")
              /\ UNCHANGED attempts
           \/ /\ bucket.count < LoginMaxAttempts
              /\ buckets_' = [buckets_ EXCEPT ![ip] = [bucket EXCEPT !.count = @ + 1]]
              /\ attempts' = [attempts EXCEPT ![ip] = Append(@, at)]
              /\ Goto(h, [step |-> "verify", name |-> handler[h].name,
                          password |-> handler[h].password, at |-> at])
    /\ UNCHANGED <<now, users_, next_user_id_, sessions_, entries_, issued, revoked>>

(* PBKDF2 with the user's salt, compared in full: equality of passwords.   *)
VerifyPassword(password, record) == password = record.password

(* A faulty clean-up: tokens go at the moment of expiry, not after it.     *)
CleanupTooEarly(sessions, at) ==
    Restrict(sessions, {t \in DOMAIN sessions : ~(at >= sessions[t].expires_at)})

CleanupExpired(sessions, at) ==
    Restrict(sessions, {t \in DOMAIN sessions : ~(at > sessions[t].expires_at)})

(* The part of Login under the authentication mutex.                       *)
Login(h) ==
    /\ handler[h].step = "verify"
    /\ LET name == handler[h].name
           at == handler[h].at
           known == name \in DOMAIN users_ /\ VerifyPassword(handler[h].password, users_[name])
           token == Len(issued) + 1
           session == [user |-> users_[name].id, expires_at |-> at + TokenTtl]
           kept == CleanupExpired(sessions_, at)
       IN  \/ /\ ~known
              /\ Refuse(h, "unauthorized")
              /\ UNCHANGED <<sessions_, issued>>
           \/ /\ known
              /\ sessions_' = [t \in DOMAIN kept \cup {token} |->
                                IF t = token THEN session ELSE kept[t]]
              /\ issued' = Append(issued, session)
              /\ Goto(h, [step |-> "ensure", op |-> "login", user |-> session.user, token |-> token])
    /\ UNCHANGED <<now, users_, next_user_id_, buckets_, entries_, revoked, attempts>>

---------------------------------------------------------------------------
(* Requests with an Authorization header: logout, profile, queue/join,     *)
(* queue/cancel and the WebSocket upgrade ("use").  Clients present tokens *)
(* they were sent.                                                         *)
Delivered ==
    {t \in DOMAIN issued : \A h \in Handlers :
        ~(handler[h].step = "ensure" /\ handler[h].op = "login" /\ handler[h].token = t)}

(* ExtractAuthSession, up to the reading of the clock in ValidateToken.    *)
ExtractAuthSession(h, op, token) ==
    /\ Ready(h)
    /\ token \in Delivered
    /\ Goto(h, [step |-> "validate", op |-> op, token |-> token, at |-> now,
                late |-> token \in revoked])
    /\ UNCHANGED <<now, serviceVars, historyVars>>

(* A request whose token is good is answered "ok"; logout still has to     *)
(* revoke the token.                                                       *)
Accepted(h) ==
    IF handler[h].op = "logout"
    THEN [step |-> "logout", token |-> handler[h].token]
    ELSE [step |-> "done", answer |-> "ok", op |-> "use", token |-> handler[h].token,
          at |-> handler[h].at, late |-> handler[h].late]

ValidateToken(h) ==
    /\ handler[h].step = "validate"
    /\ LET token == handler[h].token
       IN  \/ /\ token \notin DOMAIN sessions_
              /\ Refuse(h, "unauthorized")
              /\ UNCHANGED sessions_
           \/ /\ token \in DOMAIN sessions_
              /\ handler[h].at > sessions_[token].expires_at
              /\ sessions_' = Restrict(sessions_, DOMAIN sessions_ \ {token})
              /\ Refuse(h, "unauthorized")
           \/ /\ token \in DOMAIN sessions_
              /\ handler[h].at <= sessions_[token].expires_at
              /\ Goto(h, Accepted(h))
              /\ UNCHANGED sessions_
    /\ UNCHANGED <<now, users_, next_user_id_, buckets_, entries_, historyVars>>

(* A faulty logout: it is answered, but the token is kept.                 *)
LogoutKeepsToken(h) ==
    /\ handler[h].step = "logout"
    /\ revoked' = revoked \cup {handler[h].token}
    /\ Goto(h, [step |-> "done", answer |-> "ok", op |-> "logout"])
    /\ UNCHANGED <<now, serviceVars, issued, attempts>>

Logout(h) ==
    /\ handler[h].step = "logout"
    /\ sessions_' = Restrict(sessions_, DOMAIN sessions_ \ {handler[h].token})
    /\ revoked' = revoked \cup {handler[h].token}
    /\ Goto(h, [step |-> "done", answer |-> "ok", op |-> "logout"])
    /\ UNCHANGED <<now, users_, next_user_id_, buckets_, entries_, issued, attempts>>

---------------------------------------------------------------------------
AuthNext ==
    \/ TimePasses
    \/ \E h \in Handlers :
          \/ EnsureRated(h) \/ Allow(h) \/ Login(h) \/ ValidateToken(h) \/ Logout(h)
          \/ \E name \in Names, password \in Passwords :
                \/ RegisterUser(h, name, password)
                \/ \E ip \in Ips : BeginLogin(h, name, password, ip)
          \/ \E op \in {"logout", "use"}, token \in Tokens : ExtractAuthSession(h, op, token)

AuthSpec == AuthInit /\ [][AuthNext]_authVars

---------------------------------------------------------------------------
Codes == {"ok", "bad_request", "duplicate_user", "rate_limited", "unauthorized"}

(* No account has an empty name or password, every token is one that was     *)
(* issued, to a registered user, no bucket counts beyond its limit, and      *)
(* every request ends with one of the codes of contract.md.                  *)
AuthTypeOK ==
    /\ now \in Times
    /\ DOMAIN users_ \subseteq Names \ {""}
    /\ \A n \in DOMAIN users_ : users_[n] \in [id : Nat \ {0}, password : Passwords \ {""}]
    /\ next_user_id_ \in Nat \ {0}
    /\ DOMAIN sessions_ \subseteq DOMAIN issued
    /\ \A t \in DOMAIN sessions_ : sessions_[t] \in [user : 1 .. next_user_id_ - 1, expires_at : Nat]
    /\ buckets_ \in [Ips -> [count : 0 .. LoginMaxAttempts, window_start : Times \cup {0}]]
    /\ \A h \in Handlers : handler[h].step = "done" => handler[h].answer \in Codes

(* v0.2.0-auth.md: logout revokes a token at once and a token expires after  *)
(* its lifetime.  A request that arrives after the logout was answered, or   *)
(* after the expiry, is refused, whatever other handlers are in the middle   *)
(* of (a login cleaning up with an old clock reading, say).                  *)
DeadTokenRefused ==
    \A h \in Handlers :
        handler[h].step = "done" /\ handler[h].answer = "ok" /\ handler[h].op = "use" =>
            ~handler[h].late /\ handler[h].at <= issued[handler[h].token].expires_at

(* The other direction: until it expires or is revoked a token stays usable. *)
(* Nobody's login, cleanup or logout takes it away.                          *)
LiveTokenKept ==
    \A t \in DOMAIN issued :
        t \notin revoked /\ now <= issued[t].expires_at =>
            t \in DOMAIN sessions_ /\ sessions_[t] = issued[t]

(* Accounts are never overwritten and ids never reused, so a token stays the *)
(* token of the user that logged in.                                         *)
AccountsAreStable ==
    [][/\ \A n \in DOMAIN users_ : n \in DOMAIN users_' /\ users_'[n] = users_[n]
       /\ \A n, m \in DOMAIN users_' : users_'[n].id = users_'[m].id => n = m]_authVars

(* Whoever was told of a registration or given a token is on the leaderboard,*)
(* though RegisterUser and Login release their lock before EnsureUser runs.  *)
AnsweredIsRated ==
    \A h \in Handlers :
        handler[h].step = "done" /\ handler[h].answer = "ok" /\ handler[h].op \in {"register", "login"} =>
            handler[h].user \in DOMAIN entries_

(* What the fixed-window limiter really guarantees (v0.2.0-auth.md promises  *)
(* so many attempts per window): a stretch of time as long as the window may *)
(* hold the end of one window and the whole of the next, and one attempt     *)
(* more for every other handler that had read the clock before a third       *)
(* window began and is counted in it.  Never more.                           *)
LoginBudget ==
    \A ip \in Ips, t \in Times :
        Cardinality({i \in DOMAIN attempts[ip] : attempts[ip][i] \in t .. t + LoginWindow})
            <= (2 * LoginMaxAttempts - 1) + (Cardinality(Handlers) - 1)
=============================================================================

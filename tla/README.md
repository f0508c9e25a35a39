# A TLA+ model of the game server

This directory specifies the server of this repository (`server/`): matchmaking,
sessions, simulation, results and ratings, authentication, WebSocket connections
and reconnection. Everything is kept in memory; nothing survives a restart, so
there is no recovery to model. What is hard here is concurrency: the
`io_context` is run by several threads, every service has a mutex of its own,
every session and every socket has a strand, and most operations cross several
of these. The modules follow the code at that granularity: a handler is one
action per stretch between two lock releases that other threads can tell apart.

## 1. Inventory

| Component | State | Operations | Interacts with | What makes it correct |
|---|---|---|---|---|
| `Simulation` | tick, inputs by tick, trackers, players | `EnqueueInput`, `AddPlayer`, `TickOnce`, `Snapshot` | owned by a session, used on its strand | every accepted input is applied once, at its tick, whatever the order of arrival; limits bound the movement per tick |
| `SessionManager` | `sessions_`, `user_to_session_`, a context per session | `CreateSession`, `StartSession`, `HandleTick`, `FinishSession`, `SubmitInput` | called by the queue and by WebSocket threads; calls coordinator and `ResultService` | maps and contexts agree at every moment; ended sessions are frozen; one result each; events in order; inputs are answered |
| `MatchQueueService` | `queue_`, `user_index_`, timer | `Join`, `Cancel`, `OnTick` | HTTP threads, timer, `SessionManager` under its own mutex | list and index agree; nobody queued while playing; first come first served; every wait ends |
| `ResultService`, `ResultRepository` | `records_` | `FinalizeResult` | sessions finishing on different strands | stored and rated exactly once |
| `RatingService` | `entries_` | `EnsureUser`, `ApplyMatchResult`, `GetSummary`, `GetLeaderboard` | results, HTTP | zero-sum; pages slice one ranking |
| `AuthService`, `RateLimiter` | accounts, tokens, buckets | register, login, logout, validate | HTTP threads | live tokens are kept, dead ones refused, accounts stable, attempts bounded |
| `RealtimeCoordinator` | `connections_` (one per user) | `Register`, `Unregister`, `SendEventToUser` | everybody who sends events | an event goes to the newest connection of a user, once |
| `WebSocketSession` | send queue, byte count, `writing_`, `closing_` | `Run`, `OnRead`, `EnqueueMessage`, `WriteNext`, `OnWrite`, close | socket strand, and the threads of senders | limits, order, one write at a time, nothing after closing, everything drains |
| `ReconnectService` | `tokens_` | `IssueToken`, `Validate` | connections on different strands | exactly the unredeemed tokens are valid, each for its user, each once |
| `HttpSession` | one request, its stream and deadline | `DoRead`, `OnRead`, `HandleRequest`, `SendResponse`, `HandleWebSocket` | all of the above | answers agree with what was done; every connection is answered, upgraded or dropped |
| `ServerApp`, `Listener` | threads, acceptor, `running_` | `Run`, `RunWorkers`, `DoAccept`, `Stop`, destructor | owns the `io_context` everything runs on | a start that fails part-way and a stop at any time leave nothing behind; `Stop` returns |
| `Observability` | counters, one gauge | increments, snapshot | written by all, read by `/metrics` | the gauge is the number of entries of `connections_` |
| envelopes, configuration, `tools/perf` | | | | |

`PROJECT.json` lists the hazards, each at its line, with the properties that
would show it going wrong.

## 2. Modules

| Module | Models | State and actions |
|---|---|---|
| `Sorting` | what `std::sort` and `std::stable_sort` return | the operator `InOrder`, used by `Simulation` and `Results` |
| `Simulation` | `simulation.cpp` | operators on a record that stands for the object |
| `SimulationLoop` | a simulation driven by any interleaving of inputs and ticks | `sim`, and the history `accepted` a replay is computed from |
| `Results` | `rating.cpp`, `result_repository.cpp` | operators on the contents of the two stores |
| `ResultService` | `FinalizeResult` run by several threads | the stores, and where each call is |
| `SessionManager` | `session_manager.cpp`, `realtime.cpp` | `phase[s]` is the program counter of the strand of session `s`; one action per part of a handler; extends `Simulation` and `Results` |
| `MatchQueue` | `match_queue.cpp` composed with `SessionManager` | queue, index, timer; `timer` is also the program counter of `OnTick`, during which the queue's mutex is held |
| `MatchLifecycle` | what `contract.md` promises a player | waiting, match, winner, playing |
| `Auth` | `auth.cpp` and the HTTP requests that use it | accounts, tokens, buckets, ratings; `handler[h]` is where a request is and what it has read |
| `WebSocketSession` | `websocket_session.cpp` | queue, flags, outstanding operations; `actor[a]` is where a thread is in `EnqueueMessage` |
| `Channel` | what a connection promises its senders | messages taken, messages delivered, phase |
| `Reconnect` | `reconnect.cpp` and `HandleResyncRequest` | tokens, and which step of a resync each connection is in |
| `HttpSession` | `http_session.cpp`, the listener's accept, `Run` and the destructor of `WebSocketSession`, and the coordinator's entries; extends `Reconnect` | `http[c]` is where connection `c` is; `connections_`, the gauge, and the history `latest` |
| `ServerApp` | `app.cpp` composed with the connections and the strand of a session | `runner` and `stop` are the program counters of `Run` and `Stop`; `Threads` bounds the handlers in progress |
| `MatchQueueProofs` | | theorems about `SessionManager`, `MatchQueue` and `MatchLifecycle` |
| `LoopProofs`, `SimulationProofs` | | theorems about `SimulationLoop`; lemmas about the operators of `Simulation` |
| `ResultServiceProofs`, `AuthProofs`, `WebSocketProofs`, `ServerAppProofs` | | theorems about the module each is named for; `WebSocketProofs` about `Channel` too |
| `SetInduction` | | induction, folds and sums over finite sets, for the proofs |
| `MC*` | | instances for TLC |

Each module that keeps a faulty variant of an operator says so in the comment
above it; these are used to check that the properties can fail.

### Abstractions

- **Elo.** `ExpectedScore` is given in points: the integer nearest to
  32 / (1 + 10^(d/400)), by a table of the 32 differences `d` at which it
  changes. For ratings up to 4000 apart the product is never within 0.0007 of a
  rounding boundary, so the table agrees with the code's double arithmetic.
- **Time** is relative in `MatchQueue` (time left) and a bounded clock in
  `Auth`. Clock readings are taken where the code takes them and may be stale
  when they are used. The clock of `Auth` does not go backwards.
- **Messages** have a kind, a size and a number. Passwords are compared as
  values instead of hashes; tokens are numbered in the order of issue.
- **Numbers.** `targetTick` and `delta` are narrowed to ints of `IntBits` bits,
  as `get<int>()` does. The sum `now + timeout` is exact up to `MaxTimeout`;
  beyond, it overflows and the entry may expire at any time, at once included.
  `size_t` has `SizeBits` bits, 4 in every instance, as TLC's integers have 32;
  only the pages of `result_service` depend on it.
- **Addresses.** A member of `Connections` is an address: it is reused for later
  connections, and `Unregister` compares addresses, as in the code.
- **Requests** in `HttpSession` are answered in one step; what they do to the
  services is in `Auth`, `MatchQueue` and `Results`. Failing handshakes and
  failing reads end a connection alike.
- **Threads.** `Workers` threads run handlers. A session handler in progress and
  an input that waits in `SubmitInput` occupy one each. `io_context` is taken by
  its contract: any thread that runs it may run any handler that is ready and
  not excluded by a strand. The code constructs it with a concurrency hint of 1
  (`app.cpp`, `ioc_(1)`) and then runs it on several threads. The hint lets an
  implementation keep handlers on the thread that posted them, which makes the
  interleavings of two threads rarer or, in some versions, impossible; the
  findings below say which of them need two threads.
- **Data races** in `EnqueueMessage` are interleavings of its accesses in
  program order. A write from a freed buffer yields what the buffer held or
  garbage.
- **Left out**: user names, JSON parsing and envelopes, logging, the
  request and error counters (nothing reads them but `/metrics`), and a `Stop`
  that overtakes the start-up of `Run`: the tests wait until it serves.

## 3. Runs

Passing runs, with the bounds and what they make happen:

- `simulation`: two users, ticks 0 to 3, sequences 0 to 3, limit 2. Inputs come
  late, early, twice, beyond the limit and out of order. Ints have 4 bits, and
  two commands hold numbers that do not fit.
- `result_service`: two threads, four results of three users; every result may
  be submitted again at any time. Pages and sizes from -1 to 4, and one that is
  too long to parse; offsets in a `size_t` of 4 bits wrap only for page -1, and
  then still lie behind the last entry.
- `sessions`: two consecutive sessions of two users. User 1 has two connections
  that replace each other and send inputs, for the only tick or for one after
  the end, which wait behind every part of `FinishSession`. Five threads are
  more than two connections and two sessions can block.
- `session_liveness`: the same with fairness and one command; what an input
  asks for does not matter to when it is answered.
- `match`: four users, up to two sessions, at a time or in turn; a timeout
  longer than the timer's period, one so long that the time of expiry
  overflows, and one that has become negative, for which the default is used.
  The composed system implements `MatchLifecycle` with its fairness, and
  `SMSafety`, the contract of the session manager. Connections and their inputs
  are independent of the queue and are left to `sessions`.
- `auth`: two concurrent requests; tokens live for two units of time and windows
  last for one, so they expire between the steps of a request.
- `websocket`: one thread, limits of 3 messages and 4 bytes, up to 5 messages of
  size 1 or 2. Both limits are hit, with and without a write outstanding. The
  connection implements `Channel`: order, no loss and no repetition while it is
  open, at most the message under way after it closes, and delivery in the end.
- `server`: two connections, each of which may come from either of two users and
  be used again (three accepts), four tokens, four threads. So a user's
  connection is replaced by another and ends before or after it, an address is
  reused while the entry of its user is another's, and two resyncs present one
  token; start-up fails at the listener or at any thread; `Stop` meets every
  state. Four threads are more than two connections and a session can block;
  with fewer, waiting inputs block the pool, which `session_blocked` shows.

Deadlock checking is off only where a closed connection, or a blocked server,
really stops.

Runs in which the code is shown to differ from what the repository says of it:

| Run | What happens | Threads needed |
|---|---|---|
| `session_named` | an input naming an ended session is applied to the sender's next one | 1 |
| `match_immediate` | a user is timed out with a partner in the queue: pairing happens only on the tick, after the timeouts | 1 |
| `ws_freed_buffer` | back-pressure frees the buffer of the outstanding write | 1 |
| `session_blocked` | all threads wait in `SubmitInput` for a strand nobody runs | 2 |

Smaller differences, which TLC shows when the invariant or the constant named is
put into the configuration:

- `realtime.cpp:2` promises that events are delivered safely; `EnqueueMessage`
  takes no lock, and two threads that both find `writing_` false start two
  writes at once (`OneWriteAtATime` with `Workers = 2` in
  `MCWebSocketSession.cfg`; the `websocket` run shows that it holds with one thread).
- `v1.0.0-overview.md:34` has late inputs refused as `session_not_found`; one
  that was waiting while its session ended is answered `session_closed`
  (`LateInputNotFound` in `MCSessionManager.cfg`; two threads).
- `v0.5.0-match-session.md:33` has a connection registered after `auth_state`;
  `Run` registers first, so an event can precede `auth_state`
  (`AuthStateFirst` with `Workers = 2` in `MCWebSocketSession.cfg`).
- `v0.4.0-backpressure-reconnect.md:21` has a resync revoke its token; two
  connections that present the same token at once both succeed
  (`RedeemedOnce` in `MCServerApp.cfg`; two threads).
- `v0.6.0-rating-leaderboard.md:27` numbers the ranks of every page; the offset
  of a very large page wraps around `size_t` (`PagesSliceTheRanking` with
  `Pages = {9}` in `MCResultService.cfg`, where `size_t` has 4 bits).
- `contract.md:165` has `targetTick` and `delta` be ints; `get<int>()` narrows a
  larger number, so some are accepted as other numbers, still in range
  (`BoundedMove` holds).
- `v1.0.0-runbook.md:10` says that the process closes every connection when it
  ends. `Stop` stops the `io_context` first and then joins its threads; one that
  waits in `SubmitInput` for a handler queued behind a tick waits for ever, and
  `Stop` with it. `StopReturns` states it with that exception; without the
  disjunct `[]Hung` it fails.
- The deadline of 30 s that `DoRead` sets stays on the stream that is moved into
  the WebSocket (`http_session.cpp:465`); nothing clears it. No document says
  how long a connection lasts, and the models let one end at any time.
- `/metrics` reads its numbers one by one, and a refused upgrade counts as an
  error but not as a request, so `requests.errors` can exceed `requests.total`.
- `v0.6.0-rating-leaderboard.md:24-25` has a page below 1 refused; `std::stoul`
  accepts a minus sign, so page -1 is answered, as the largest page there is
  (`PagesFromOne` in `MCResultService.cfg`).
- `contract.md:112` answers a join with `expiresAt`. It is computed from the
  timeout of the request, the entry from the default when that is 0, so the two
  differ (`http_session.cpp:308`, `match_queue.cpp:25`).
- `v0.7.0-observability.md:13` calls `connections.websocket` the number of
  connections; `connections_` holds one per user.

`LoginBudget` is worth reading: a fixed window admits up to `2 * max - 1`
attempts in a stretch as long as the window (when the last attempts of one
window are followed by the first of the next), and one more for each other
request whose clock reading is older than the window it is counted in.

### Fairness

- Session strands: a handler that has started goes on, an armed timer expires,
  a queued handler runs **when a thread is free** (`FreeWorker` is part of the
  guard, so a pool whose threads all wait is not rescued by fairness).
- Queue: time passes, and the timer's handler runs when it is due. Joins and
  cancellations are never assumed.
- `FinalizeResult`: a thread inside it keeps running; no lock is held longer
  than one member function.
- Connections: handlers run to their end and every outstanding operation
  completes, at the latest by the stream's timeout, which `HandleWebSocket`
  sets. Clients are not assumed to send, read or stay.
- The server: `Run` and `Stop` go on once begun, and a `Run` that has returned is
  followed by the destructor's `Stop`; nobody has to stop a server that runs.
  Threads run ready handlers while the `io_context` is not stopped. The read and
  the write of an `HttpSession` end because `DoRead` sets a deadline; requests,
  upgrades and accepts are not assumed.

## 4. Proofs

All theorems hold for every value of the constants that satisfies the `ASSUME`s
of the modules: any number of users, sessions, connections, threads, ticks and
concurrent requests, any commands, timeouts and limits. These assumptions say
that numbers are natural, that limits and periods are not zero, and that sets of
connections, senders and the like are finite where the program counts them.
`PROJECT.json` lists the theorems with the property each states.

### Sessions and queue (`MatchQueueProofs`)

The session manager is proved first alone, with any caller that keeps its
contract (`SMSafety`: only two different users who are in no session are paired),
then the queue is shown to be such a caller.

- `SessionManagerCorrect`: `SMSafety => [](SMTypeOK /\ Routing)`.
- `SessionInvariant`: `SMSafety => []SessionInv`, and from it
  `FinalStateIsStored` (`ResultIsFinal`), `OneResultPerSession` (`ResultOnce`),
  `EventsInOrder` (`EventOrder`) and `EndedSessionIsFrozen` (`EndedIsFrozen`).
  `SessionInv` adds to types and routing:
  `Contexts` (a session that was created has two different players, whose
  simulation has played as many ticks as have been announced; all of them once
  it finishes), `Stored` (the records are those of the ended sessions, each
  computed from the final simulation), `Counts` (wins and losses),
  `OneAfterAnother` (of two sessions of one user the earlier is closed) and
  `Sent` (the registered connection of a user has been sent exactly the last
  event of the user's last session that sent any). None of the four properties is
  inductive without them: that a stored result stays final needs the simulation
  to be frozen, that it names a winner and a different loser needs `Contexts`,
  and that the next event a connection gets is the next one of the same session
  or the first of a later one needs `OneAfterAnother`.
- `ContractKept`: `Spec => UsesSessionManager`, so all of the above holds of the
  composed system (`QueuedSessionsKeepTheirPromises`). It rests on `Placement ==
  QueueIndex /\ QueuedOrPlaying /\ Routing`, which is inductive with `TypeOK`
  while none of the three is alone: `CreateSession` overwrites
  `user_to_session_` without looking at it, so `Routing` needs to know that the
  two users taken from the queue are in no session (`QueuedOrPlaying`) and are
  two (`QueueIndex`), and taking a user out of the index keeps `QueuedOrPlaying`
  only because list and index agree. `IndexCorrect`, `OnePlaceOnly` and
  `RoutingCorrect` are its parts, `TypeCorrect` the types.
- `FirstComeFirstServed`: `Spec => [][NoOvertaking]_vars`. `contract.md:175` has
  the first two who came matched. While two users wait, they keep their order,
  and the later one is not in a session before the earlier one, whatever is
  cancelled or times out in the middle of the list meanwhile. It needs
  `Placement`: one user could otherwise be listed twice.
- `HistoryIsKept`: `SMSafety => [][HistoryKept]_smVars`. Sessions keep their
  number and their players, count ticks upwards, do not resume once ended, and
  stay closed; a stored result is neither replaced nor lost, and no win or loss
  is taken back.
- `AThreadIsLeft`: `EnoughThreads => ... []FreeWorker`. An input that waits in
  `SubmitInput` keeps a thread, at most one for each connection. A session in
  play keeps at most one, and takes two users who are in no other (`Routing`), so
  there are at most half as many as users (`TwoUsersEach`). With a thread for
  each connection, one for every two users, and one more, a thread is always
  left to run a strand. The instances of the passing runs have that many;
  `session_blocked` shows what happens with fewer.
- `LifecycleImplemented`: `Spec => Lifecycle!LifecycleSafety`, the safety part of
  `ImplementsLifecycle`: every step of the code's queue, timer, strands and
  stores is a step of the lifecycle promised in `contract.md`, or leaves it
  alone. It needs `Placement` for who may be paired and `SessionInv` for the
  winner, who is a participant of the session whose result is stored.

### Simulation (`SimulationProofs`, `LoopProofs`)

`LoopInvariant` proves `LoopInv`, from which `TypeCorrect`, `BufferCorrect`
(`BufferIsTheFuture`), `ReplayIsDeterministic` (`DeterministicReplay`) and
`MoveIsBounded` (`BoundedMove`) follow. `LoopInv` adds to these that a tracker
holds a sequence at least as great as that of every accepted input of its user
(`Tracked`), without which a new input could be in the buffer already; that it
counts at least the accepted inputs of a tick (`Counted`), which bounds the move
of a tick; and that accepted deltas are in range (`InRange`).

The replay is a sum and a maximum over the set of accepted inputs, while
`TickOnce` applies a sorted sequence one by one; they agree because the buffer
lists exactly the inputs of the tick, each once, and because sorting puts a
user's greatest sequence last. `SimulationProofs` shows that `StableSort`
permutes its input and leaves no event before an earlier one, and what applying
the sorted events one by one does to each player.

### Results (`ResultServiceProofs`)

`ResultInvariant` proves `RatedInv`: the stores are well typed, a call that has
stored its result but not rated it finds its own record there (`CallsStored`), no
two such calls have one result (`CallsDiffer`), and ratings are balanced. From
it `RatedOnce` (`RatedExactlyOnce`: a call is the only one to rate a result
because it alone inserted it) and `RatingsAreZeroSum` (`ZeroSum`: the two rounded
changes of `ApplyMatchResult` add up to zero for every pair of ratings, because
the thresholds are those of a symmetric curve, `EloIsSymmetric`).

`PagesCorrect`: `OffsetsFit => (ResultSpec => []PagesSliceTheRanking)`. A page
whose offset wraps around `size_t` shows the wrong users (section 3), so the
theorem says which do not: those that end before `2^SizeBits`, and those whose
wrapped offset still lies behind all users, as that of page -1 in the run.
`EveryUserOnOnePage` says what the pages of one size are good for: each user
with a rating is on one of them, and on no other that ends before `2^SizeBits`.
It assumes `UsersFit`, that the users and one page more are fewer than
`2^SizeBits`. Both rest on the place of a user in the ranking being one more than
the number of those ranked before (`ListedRank`).

### Authentication (`AuthProofs`)

`AuthInvariant` proves `IInv`, which says of every step a request can be at what
its readings may still be relied upon for (`HandlerStates`): a clock reading
lies in the past, a request known to come late presents a revoked token, a user
whose answer is about to be given exists. It relates the tokens issued, kept and
revoked. From it `TokenGuarded` (`DeadTokenRefused`), `TokenKept`
(`LiveTokenKept`), `LeaderboardComplete` (`AnsweredIsRated`), `AccountsKept`
(`AccountsAreStable`) and `TypeCorrect`.

`AttemptsAreLimited` (`LoginBudget`) needs an invariant about every stretch of
time as long as a window, `Budget`: how many attempts fall into it depends on
where the bucket's present window began. If before the stretch, at most those
counted but the first; if in it, those, and at most `max - 1` of the window
before; if after it, the attempts so far and the requests still on their way
with a clock reading of that time are together no more than the bound, as the
request that began the window is not one of them (`Bound`).

### Connection (`WebSocketProofs`)

With any number of threads: `TypeCorrect`, `BytesCounted` (`queued_bytes_` is
the sum of the sizes queued at every step of `EnqueueMessage`, `OnWrite` and the
close) and `ClosingStartsNothing` (`NothingAfterClosing`).

The rest is proved of one thread (`OneThread == Workers = 1`), as it is false of
two, which section 3 reports: `LimitsKept`, `SingleWrite`, `AuthStateIsFirst` and
`ConnectionIsChannel`, `OneThread => (WSSpec => Connection!ChannelSafety)`, the
safety part of `ImplementsChannel`. The invariant says what a handler has found
out and nobody can have changed since (`Alone`, `Tested`), that what was accepted
is what was written followed by what is queued, with the outstanding write that
of the front, or of what was the front when the queue was cleared (`Lined`), and
that between registering and queueing `auth_state` the thread is the one that
runs `Run` (`First`).

### Server (`ServerAppProofs`)

- `TokensExact`: `ServerSpec => []ExactlyUnredeemed`. A resync may redeem a
  token that another has redeemed since it was validated, so the invariant
  cannot say that the presented token is still kept; it says that it was issued
  to this user (`Presented`), which is enough, because removing it again removes
  nothing.
- `NewestReached`: `ServerSpec => []NewestIsReached`. It needs `PlaceInv`, that
  a connection has a session exactly between its `Run` and the end of its
  destructor: an address is not reused before its destructor has unregistered,
  and this is what makes comparing addresses sound.
- `RevokedForGood`: `ServerSpec => [][TokenHistory]_serverVars`. A token that was
  redeemed is refused from then on, and one that was not stays valid for its
  user; only a resync of its user that presents it takes it away. So `RedeemedOnce`
  fails (section 3) only for resyncs that overlap.
- `NothingRunsAfterStop`: when `Stop` has returned no handler runs, and all that
  still changes a connection, a token or an entry of the coordinator is the
  destructor. It needs `StopInv`, that `ioc_.stop()` was called before the
  threads are joined, since that alone keeps handlers from starting.
- `ServesUntilStopped`: a server that serves and has not been stopped has a
  thread for the next handler, however many inputs wait (`ThreadsEnough`).
- `HungForGood`: the exception that `StopReturns` makes. Once an input waits and
  the `io_context` is stopped, it waits for ever, and `Stop` does not return.
- `ServerTypeCorrect`: `ServerSpec => []ServerTypeOK`.

`IInv` is the conjunction of four invariants, each preserved by a lemma of its
own (`TokensKept`, `PlacesKept`, `ProcessKept`, `RoutesKept`) with a step per
action; `RouteKept` deals once with all the steps the coordinator does not see.

### How data are reasoned about

Induction theorems that take an operator are out of the provers' reach.
`SetInduction` states induction of the set of numbers, or of finite sets, for
which something holds (`NatSetInduction`, `IntervalInduction`,
`FiniteSetInduction`), and derives that the folds and sums of the community
modules exist and take their elements in any order (`FoldExists`, `SumsExist`,
`SumTakes`, `SumsAgree`). `Sorting` says of `InOrder` only that it is an
ascending list of the elements; `OrderExists` proves that there is one, by
numbering the elements by how many precede them, and `InOrderLists` that
`InOrder` is one. `CountsBytes` gives the byte count as a function of the position in the queue.

### Only model-checked

Every safety property of the passing runs is stated by a theorem. What is left:

- All liveness: `StoredIsRated`, `SessionsEnd`, `InputsAnswered`, `WaitEnds`,
  `BackpressureCloses`, `ConnectionsEnd`, `StopReturns`, and the fairness of
  `ImplementsLifecycle` and `ImplementsChannel`.
- The runs that show a difference (section 3).

## 5. Plan

Done: all modules above, in the order simulation, results, sessions, queue,
lifecycle, authentication, connection, reconnection, server; proofs of every
component's safety properties and of the safety part of both refinements.

Next: compose a `WebSocketSession` with the events of `SessionManager`, so that
`EventOrder` is stated of the wire.

Not modelled: a `Stop` during start-up, which the tests avoid by waiting and no
document describes; configuration (read once; its values are the constants);
JSON envelopes, parsing and logging, which change no state; and the load
generator in `tools/perf`, which is not part of the server.

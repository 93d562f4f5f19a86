# Verification of the subscription service

TLA+ models of the creator-subscription service in this repository, the TLC
configurations that check them on small instances, and theorems about them
proved with TLAPS for every instance.

The service lets a user subscribe to a creator. `POST /subscriptions` creates a
Stripe PaymentIntent and a *pending* row; Stripe's webhook makes the row
*active* or *cancelled*; a worker makes it *expired* when it runs out. Lists of
subscriptions are cached in Redis, creators are notified through an in-process
queue.

## 1. Inventory

| Component | State | Operations | Modelled by |
|---|---|---|---|
| Tables and repository (`internal/repository`, `migrations/001`, `002`) | `subscriptions`, `transactions`, two unique indexes | `CreatePending`, `MarkPaymentSucceeded`, `MarkPaymentFailed`, `Cancel`, `Renew`, `ExpireOverdue`; reads `GetByID`, `ListByUser`, `ListAll`, `Stats` | `SubscriptionRepository`, abstract promise `CreatorAccess` |
| Subscribe and webhook (`services`, `handlers/stripe_webhook_handler.go`, `handlers/subscription_handler.go`, `payments`) | calls and deliveries in progress; Stripe's PaymentIntents and unacknowledged events | `Subscribe`, `MarkPaymentSucceeded` as three statements and a COMMIT, `MarkPaymentFailed`, publish, answer | `PaymentFlow` |
| User list cache (`services.ListByUser`, `invalidateUserList`, `cache/keys.go`) | one Redis key per user, 60 s TTL | GET / SELECT / SET of a read, DEL after each write | `UserListCache` |
| Notification queue (`internal/notifications`) | channel of 128 events | `Publish` (drops when full), `Consume` | `NotificationQueue`, abstract promise `CreatorNotices` |
| Expiration worker (`cmd/worker`) | ticker, sweep context | sweep at boot and every 30 s, 20 s timeout, shutdown | `ExpirationWorker`; its DELs in `UserListCache` |
| Rate limiter (`middleware/ratelimit.go`) | a Redis counter with TTL per client | INCR, EXPIRE NX, TTL, each its own command | `RateLimiter`, one for both limiters and composed with the routes in `ApiGateway` |
| Authentication and roles (`auth`, `middleware/auth.go`, `requireadmin.go`, `handlers/auth_handler.go`) | role column; claims in tokens | login (SELECT, then Sign), Parse, role check | `AccessTokens`, composed in `ApiGateway` |
| Admin dashboard (`handlers/admin_handler.go`) | none | page of rows, aggregates | its middleware chain in `ApiGateway`; its two reads change nothing |
| Metrics (`metrics`, `middleware/metrics.go`, gauge in `cmd/api`) | counters and a gauge in each process | Inc, Set | the created and cancelled counters and the gauge in `ApiProcess` |
| API wiring (`cmd/api`) | process | middleware chains, consumer, gauge goroutine, shutdown | `ApiGateway`, `ApiProcess` |

### How they interact

* HTTP handlers call the service, the service calls the repository, then deletes
  the user's Redis key, then publishes. Each of these is a separate call: a
  crash, an error or a cancelled request context can fall between any two.
* Stripe calls the webhook. It redelivers an event until it gets a 2xx, in any
  order, and may do so while an earlier delivery is still being handled.
* The worker is a process of its own that writes the same tables and the same
  Redis keys as the API.
* Concurrent writers meet only in Postgres: the partial unique index on live
  (user, creator) pairs, the unique `stripe_event_id`, row locks and
  `WHERE status = ...` predicates are all the synchronisation there is.

### What is hard, and what makes each component correct

* **Repository.** Concurrent inserts of one pair, late and duplicate payments,
  renewals against the sweep. Correct: at most one live row per pair, an event
  recorded once, no access without a payment, final states stay final.
* **Subscribe and webhook.** Two deliveries interleaved statement by statement,
  failed against succeeded, COMMITs that go through unheard, crashes between
  commit and publish. Correct: no payment lost, none invented, none notified
  twice, and the statements together behave like one atomic operation.
* **Queue and worker.** Several workers over the same rows, a sweep that commits
  and reports a timeout, a buffer that is full, a process that ends with events
  in it. Correct: an expiry is announced at most once, an unannounced one has one
  of the documented reasons, overdue rows do not stay active, a worker told to
  stop stops.
* **Cache.** Reads overtaken by writes, lost DELs, a sweep over many users.
  Correct: a list goes stale only where somebody owes a DEL or a read was
  overtaken, and does not stay stale once writes stop.

* **Rate limiter and tokens.** INCR and EXPIRE NX are two commands with other
  requests, expiry, lost replies and deaths in between; a token outlives the role
  it carries. Correct: an interval of a window's length lets less than twice the
  limit through, a counter without TTL is repaired, a busy client's window still
  ends, both protected route groups share one bucket per user, and a demoted
  admin is out when the old tokens have expired.
* **API process.** Counters incremented after the commit, a gauge computed by a
  query, an event published after the answer of the database, a shutdown that
  waits ten seconds. Correct: nothing is counted twice, the gauge cannot drift, a
  graceful shutdown loses no event a call has still to publish, and it ends.

Every hazard, with its source line and the properties that watch it, is listed
in `PROJECT.json`.

## 2. Modules

```
CreatorAccess            abstract: a pair is none, pending or active
     ^ refined by (AccessSpec)
SubscriptionRepository   the tables, one atomic action per repository method
     ^ refined by each of (RepoSpec)
PaymentFlow   UserListCache   ExpirationWorker   ApiProcess
                              the last two also extend NotificationQueue

CreatorNotices           abstract: a notice is none, due, told or lost
     ^ refined by each of (NoticeSpec)
PaymentFlow   ExpirationWorker   ApiProcess

Clock <- RateLimiter, AccessTokens
RateLimiter              INCR, EXPIRE NX and TTL of concurrent requests
     ^ composed by (its actions are conjuncts of the gateway's)
ApiGateway               the middleware chains; composes RateLimiter, AccessTokens

MCPaymentFlow, MCRateLimiter, MCApiGateway         constants for TLC
RepositoryProofs <- PaymentFlowProofs, UserListCacheProofs,
                    ExpirationWorkerProofs, ApiProcessProofs
NotificationQueueProofs <- ExpirationWorkerProofs, ApiProcessProofs
RateLimiterProofs <- ApiGatewayProofs
```

### SubscriptionRepository

`subs` maps a PaymentIntent to its row or `NoRow`. A row is named by its
PaymentIntent: every row is inserted with one, the column is unique, and no
statement deletes a row or changes its user, creator or PaymentIntent. A row has
the columns decisions depend on: status, user, creator, `expires_at`.
`transactions` is a bag of event, row and amount: a transaction's own key is a
SERIAL id, which nothing reads, so that rows that differ only in it are copies,
and an event recorded again on its own subscription is a second copy and not the
same element. `now` is `NOW()`.

One action per method: `CreatePending`, `MarkPaymentSucceeded`,
`MarkPaymentFailed`, `Cancel`, `Renew`, `ExpireOverdue`. A call that returns
`ErrNotFound`, `ErrDuplicateActive` or `ErrDuplicateEvent` changes nothing and is
a stuttering step. `ExpireOverdue` is one step because it is one UPDATE
statement; `CancelForUser` and `RenewForUser` first read the row to compare its
`user_id`, which no statement ever changes, so the check and the UPDATE need not
be two steps: what can change in between, the status, is in the UPDATE's own
predicate.

`CreatePending` sets `expires_at` thirty days from the insert, also for a yearly
plan, and activation does not move it. That is what the code does; no document
promises otherwise.

### CreatorAccess

What the tables promise to the product: seen through its live row, a pair goes
none, pending, active and back, becomes active only together with a payment
entered in the ledger, and the ledger only grows. `AccessSpec` in
`SubscriptionRepository` is the refinement mapping.

### CreatorNotices

What a process that publishes promises the creators, wherever it keeps its events
and whatever ends it: a notice falls due at most once, is told at most once, and
what is lost is never told, because nothing is retried. `NoticeOf(p)` in each of
the three modules says where a row's notice stands. In `PaymentFlow` it is due
from the COMMIT to the publish call, and *told* means handed to the publisher; in
`ApiProcess` from the COMMIT to the consumer, through the queue; in
`ExpirationWorker` from the sweep to the consumer. A state in which an event is in
two places, or told and still on its way, maps to "wrong", which no step of
`CreatorNotices` reaches.

### PaymentFlow

A Subscribe call is named by the PaymentIntent it creates and moves through
`calls[p]`: `CreatePaymentIntent`, `InsertRow` (or `RejectDuplicate`,
`InsertFails`), `AnswerSubscribe` (or `LoseAnswer`). A delivery is a record
`handlers[h]` whose `pc` is the next statement of
`repository.MarkPaymentSucceeded` or the outcome to answer with:

| action | code |
|---|---|
| `Receive` | signature check and dispatch in `handle` |
| `SelectRow` | the SELECT, which takes no lock; `status` keeps what it read |
| `InsertTransaction` | the INSERT; waits while another open transaction holds the event |
| `UpdateRow` | the UPDATE; waits while another open transaction has updated the row |
| `Commit`, `CommitUnheard` | COMMIT, heard or not |
| `PublishSubscribed` | the service's `publisher.Publish` |
| `CancelPending`, `CancelPendingUnheard` | `MarkPaymentFailed` |
| `StatementFails` | any statement returns an error, the transaction rolls back |
| `Acknowledge`, `ReportError`, `LoseAcknowledgement` | 200, 500, a 200 that gets lost |
| `Crash` | the API process dies; open transactions roll back |

Writes of an open transaction are invisible until `Commit` makes both visible at
once (READ COMMITTED). That the INSERT of a `stripe_event_id` waits for an
uncommitted one, that a recorded one makes it fail, and that an UPDATE waits for a locked row and re-reads it is
Postgres' documented behaviour, modelled as external. `Cancel`, `Renew` and the
sweep need no such guard: they match active rows, and an open transaction only
ever locks a pending one.

Stripe is the environment: `ConfirmPayment`, `DeclinePayment`, `AbandonIntent`
emit events into `unacked`; an event stays there until a 200 arrives. A client
can confirm only once it holds the `client_secret`, so only after the row is
committed. `payment_intent.canceled` is the unhandled type the code ignores:
an abandoned PaymentIntent leaves its row pending, and the pair answers 409
until somebody repairs it by hand. The same holds for an INSERT that commits
while Subscribe reports an error.

### UserListCache

`cache[u]` is the value of `user:<u>:subscriptions`. Each writing service method
is an action that performs the repository's write and records in `owed[c]` the
keys the caller must now DEL; `InvalidateUserList` does one DEL, `LoseDel` is a
DEL that fails, is cancelled or never happens. A `ListByUser` call that misses
goes through `MissCache`, `SelectList`, `PopulateCache`, and can fail on the way
(`ReadFails`); one that hits changes nothing. A miss is allowed whatever the key
holds, because a failed GET and a corrupt value take the same path.
`EntryExpires` is the TTL.

### NotificationQueue and ExpirationWorker

Each process has a channel, `queue[w]`, and a consumer goroutine,
`consuming[w]`. `Publish` never waits: a full buffer drops the event. `Consume`
hands the head to `NotifyCreator`, counted in `notified`. `StopConsuming` is
`ctx.Done()`; `CloseQueue` is the end of the process, which takes the rest of the
buffer with it. `Capacity` is the 128 of `NewQueue(128)`.

A worker stands at `pc[w]`:

| action | code |
|---|---|
| `Start` | `main` up to the sweep it runs at boot |
| `TickerFires` | `<-ticker.C` |
| `Update` | the UPDATE of `ExpireOverdue` and its RETURNING rows, kept in `batch[w]` |
| `SweepFails` | error, the 20 s timeout or a cancelled context; the UPDATE may have committed, its rows are then returned to nobody |
| `PublishExpired` | one turn of the loop over the rows |
| `ConsumeEvent`, `ConsumerStops` | the consumer goroutine |
| `Signal`, `Exit` | SIGINT or SIGTERM cancels the context; `main` returns from its select and does not wait for the consumer |
| `Crash` | the process dies |
| `Others` | everybody else who writes the tables |

A tick that finds the context cancelled fails at once and changes nothing. A
signal during the loop does not end it: the remaining rows are published, perhaps
after the consumer has stopped, in which case nobody reads them.

`expires_at` is computed from the API's clock at the insert and compared with the
database's `NOW()`; the models take both for one clock.

### Clock, RateLimiter

`counters[k]` is a Redis key: its value, when it expires (`Never` without a TTL),
and, as history, when it was created. A key that does not exist has the value 0.
A request moves through `calls[r]`; history fields keep when and in which window
it was counted and whether its EXPIRE was executed.

| action | code |
|---|---|
| `Arrive` | the keyer finds the client's key |
| `Incr`, `LoseIncrReply`, `IncrFails` | `Incr`; go-redis retries a command whose reply is lost, so that it may count twice; an error lets the request pass |
| `ExpireNX`, `ExpireFails` | `ExpireNX`, whose error is ignored, and the comparison with the limit |
| `AskTTL`, `TTLFails` | `TTL` and the 429 with Retry-After |
| `Die` | the process that handles the request dies |
| `Tick` | time; Redis drops keys that have run out |

Time is in ticks of which `PerSecond` make a second, because Redis answers TTL in
whole seconds, rounded.

The program has two limiters, ten requests for each client address and sixty for
each user. Their keys are disjoint, and no property relates a counter of one to a
counter of the other: one `Limit` stands for either.

### AccessTokens

`role` is the column of `users` and changes whenever the operator likes. A login
is `ReadRole` (the SELECT) and then `Sign`, two steps. `tokens` are the tokens
clients hold; none is ever taken back. `IsValid` is `Parse`. `lastAdmin` and
`read` are history: when a user was last an admin, and when a token's role was
read. Password comparison and signatures decide who gets in and are taken to be
right.

### ApiGateway

A request of a client is given its key by the route it takes: `EnterLogin` puts a
login under the client's address, `Enter` requires a valid token, on admin routes
also the admin role in its claims, and then puts the request under the user's id.
From there on it is a request of `RateLimiter`; `Login` runs the handler of a
login that the limiter let pass. RequireAuth and RequireAdmin change nothing, so
a request they refuse is a stuttering step, and that the limiter comes last on
the protected routes is what `Enter` says.

### ApiProcess

An instance is `exited`, `failed`, `serving` or `draining` (`server[w]`). A call
`calls[g]` does one write of the tables and is then named for what it still has
to do: `created` and `cancelled` to count, `paid` to publish.

| action | code |
|---|---|
| `Accept`, `Answer` | a handler goroutine begins and ends |
| `Write`, `WriteUnheard`, `Refuse` | the repository's call: done, done but reported as an error, refused |
| `CountCreated`, `CountCancelled`, `PublishPaid` | what the service does after it |
| `CountActive`, `SetGauge`, `RefreshFails` | the gauge goroutine: SELECT COUNT, Set, a failed query |
| `Start`, `Signal`, `Exit`, `DrainTimesOut`, `Crash` | `main`: boot, SIGTERM, `Shutdown` returning with no calls left or after ten seconds, a crash |
| `ConsumeEvent` | the consumer goroutine, which has no part in the shutdown |
| `Others` | the worker's sweep and time |

The write is one step here; its statements are in `PaymentFlow`, which refines
the same repository, and its DELs in `UserListCache`.

## 3. Runs

| run | instance | shows |
|---|---|---|
| `repository` | one user, two creators, three rows, two events, four instants | the tables' invariants, the status machine, refinement of `CreatorAccess` |
| `payment_flow` | two Subscribe calls of one pair, two concurrent deliveries, one decline each, one fault | payment safety, each event recorded once, refinement of `SubscriptionRepository` and of `CreatorNotices` |
| `payment_flow_liveness` | one PaymentIntent, two deliveries, two faults | redelivery ends, a charge is settled; `FlowInv`, the invariant of the proofs |
| `user_list_cache` | two users, two rows, a writer, a reader, one lost DEL | staleness is always owed; keys hold own rows only; the cache converges |
| `worker` | two workers, two rows of one user, a buffer of one, one fault, one signal | an expiry is announced at most once; what can make it vanish; refinement of `CreatorNotices`; overdue rows are swept, buffered events delivered, a signal ends the worker |
| `limiter` | one client, four requests with a limit of two, windows of two ticks, four ticks, two faults | the burst across a boundary, refusals that were earned, repair of a counter without TTL, the end of a busy client's window |
| `gateway` | one user, one login, one request to each protected group; limit 1, windows and tokens of two ticks, four ticks, two faults | one bucket over both groups, the end of a demoted admin's access |
| `api_process` | one instance, one call at a time, two rows, a buffer of one, one fault, one signal | counters, gauge, events and shutdown; refinement of `CreatorNotices` |
| `publish_on_activation`, `exactly_one_notification`, `stale_list`, `retry_after` | the smallest instance each | disagreements between code and comments, below |

**Bounds.** `MaxTime` and `MaxExpiry` stop the clock and repeated renewals;
`Period` is one unit, so that rows run out within the clock. Three rows are the
least with which a pair can have a final row, a live one and a rejected one, or
a pair's history run beside another pair's. Two deliveries give every
interleaving of two transactions on one event or one row; the proofs cover any
number. `MaxDeclines = 1` gives the failed-then-succeeded order on one
PaymentIntent, `MaxFaults` a fault at every place, and two of them a fault during
recovery from a fault. `MaxLostDels = 1` loses any one DEL, but not both of a
sweep over two users: a second lost one takes the run past the time it may use,
and `StaleOnlyByWriteOrRace` is proved for any number of them. Two rows of one
user and a buffer of one are the least with which a sweep overfills the buffer
and meets the same user twice; one fault is a sweep that fails or a worker that
dies while the other one sweeps. In `limiter` four requests with a limit of two
are one more than the three that the bound allows in an interval of a window's
length, and three are reached: one at the end of a window and two in the next.
The third request of a window is refused, alone or with an INCR that was sent
twice. In `gateway` the second request to a limit of one is over it; four ticks
are two windows and two tokens' lives, so that a boundary is crossed and a token
outlives a role; two faults lose a reply and let a request die. In `api_process` two rows of one pair and one call at a time
reach every pair of a write and what follows it with a signal, a crash and a
restart between them; events and counters with several calls and instances are
left to the proof. The largest runs (`worker`, `payment_flow`, `user_list_cache`,
`api_process`, `limiter`) take between one and four minutes.
Deadlock checking is
off because the bounded models stop when PaymentIntents and the clock are used
up. Symmetry is used with invariants and step properties only.

**Fairness.** Only what the runtime and the peers provide: a handler goroutine
that can take a step does (`WF(Handle)`), Stripe keeps delivering what it has no
2xx for (`WF(Receive)` per event), a caller that owes a DEL does or loses it, a
read goes on or fails, Redis drops expired keys. Of a worker: its ticker fires,
a sweep ends by its timeout at the latest, its consumer reads, `main` sees the
cancelled context. Of an API instance: the gauge's ticker fires and its query
returns (it has a timeout of two seconds), and `Shutdown` returns when the calls
are done or its ten seconds are over; a call itself may hang, because the server
has no timeouts. The liveness of `payment_flow_liveness` is narrower there: by
`WF(Handle)` it speaks of deliveries whose calls return, with an answer or an
error, and promises nothing of one that hangs in Postgres for good. Nothing in
`ApiProcess` rests on a call's end. Nobody has to start a process, so `OverdueIsSwept` promises a
sweep only while a worker runs, and `GaugeConverges` a right gauge only in an
instance that stays up. Users, clients, the sweep and
faults owe nothing.

**Mutants.** A definition whose name begins with `Mutant` is a plausible bug in
the definition that follows it: an index without `pending` in its predicate, an
UPDATE outside the transaction, an error answered with 200, a sweep that
invalidates one user only. Each property of a passing run is violated under one
of them (`PROJECT.json`).

### Where the code and its comments disagree

* **Publish without activation** (`PublishesOnlyOnActivation`). A declined
  attempt cancels the row, a second attempt on the same PaymentIntent succeeds:
  the payment is recorded, the row stays cancelled, and the creator is told of a
  new subscriber.
* **No notification at all** (`ExactlyOneNotification`). The process dies, or
  COMMIT fails although it took effect, before the publish; the redelivery meets
  its own event id and is acknowledged as a duplicate.
* **Stale without a missed DEL** (`StaleOnlyIfDelMissed`). DEL after commit does
  not close the window: a read that selected before the commit may SET after
  the DEL.
* **Retry-After of a whole window** (`RetryAfterIsRemaining`). Redis answers TTL
  in rounded whole seconds: less than half a second left arrives as 0, which is
  not positive, and the client is told the whole window. The branch that would
  bump a fraction to one second is never entered.

Not runs of their own:

* `repository.MarkPaymentSucceeded` returns the status its unlocked SELECT read,
  which the comment at `subscription_repository.go:237-239` calls the row's
  actual state; its caller does not look at it.
* The webhook records 499 cents for every payment, also for the annual plan of
  4999. The comment at `stripe_webhook_handler.go:58-64` says that the amount
  matches and in the same breath that mixed plans are a known gap. It is read off
  two constants, and no order of steps changes it.
* `ratelimit.go:18-24` calls the burst across a boundary "an effective 2N", 120
  requests. It is 2N - 1: a window begins with its client's first request and
  not at a minute of the clock, so that N at the end of a window after its first
  request, and N in the next, need more than a window's length. The comment is
  an upper bound, and the code keeps it.

## 4. Proofs

`RepositoryProofs`: `RepoInv` is inductive as it stands and
`RepoSpec => []RepoInv`; each conjunct has a step lemma. `RecordAdds` says what
recording does to the bag of transactions. The status machine
follows from the type invariant, because every action names the status it
leaves. `RepositoryImplementsAccess` proves the refinement of `CreatorAccess`:
because a pair has one live row at most, the `CHOOSE` in the mapping has no
choice, and every operation changes what one pair sees, or nothing.

`PaymentFlowProofs`: the safety properties are not inductive. `FlowInv` adds

* `CallsHaveRows`: a client can pay only when its row exists, which is why
  `ErrNotFound` can never swallow a payment;
* `EventsAreGenuine`: what is delivered was emitted;
* `DeliveriesAreSound`: what a delivery knows at each statement, above all that
  a delivery answered as duplicate has a recorded payment;
* `OpenTransactionsAreSerial`: one open transaction per event, and a matched row
  is still pending at its commit;
* `OnePublisher`: at most one delivery per row stands before its publish.

`FlowInv` is checked by TLC in `payment_flow_liveness` and proved inductive with
one step per action. From it: `PaymentsAreKept`, `TransactionsAreCharges`,
`PublishedAtMostOnce`, `TransactionsAreSerial`, `EventsAreRecordedOnce` (of all
deliveries of an event, racing, failing and repeated, one COMMIT adds a copy of
its transaction, because a commit that inserted finds the event unrecorded), and
`FlowImplementsRepository`: every step of the interleaved statements is an
atomic operation of `SubscriptionRepository` or leaves the tables alone, so the
repository's theorems hold of the webhook as it runs; `FlowKeepsAccess` says so
of `CreatorAccess` and of `RepoInv`. `WebhookKeepsNoticePromise` proves the
refinement of `CreatorNotices`: whoever stands before its publish has just
committed or stood there before (`PublishersCommitted`), a commit finds its row's
event unrecorded, and every other step leaves a notice where it is or loses it.

`UserListCacheProofs`: `CacheKeepsRepository` (reads, faults and DELs add nothing
to what the repository does), `CacheTypeCorrect`, and `StaleOnlyByWriteOrRace`,
which shows for any number of users, callers and readers that every write owes the DEL of
every user whose list it changes. The invariant is the type invariant together
with the fact that `cache` and `reads` are functions.

`NotificationQueueProofs`: lemmas about the channel that the worker and the API
both rest on: what `Publish` adds to a buffer and what `Consume` takes from it,
and that both keep an event at one index at most (`EachBufferedOnce`).

`ExpirationWorkerProofs`: `AnnouncedAtMostOnce` says of every event in which one
place it can be, and `WorkerInv` adds the types and `IdleHoldsNothing`: a worker
out of its loop has no rows left, one that is down has an empty buffer. Without
it a worker could start, or sweep again, over events it still holds. At most one
worker ever gets a row because the UPDATE returns only rows it has moved out of
active, and expired is final. `EventsVanishOnlyAsDocumented` goes through the
actions and shows for each event that leaves a place where it went, and
`WorkerKeepsRepository` that the tables see operations of the repository only.
`WorkersKeepNoticePromise` needs nothing more: under `WorkerInv` a notice has one
place, a sweep makes those of all its rows due or, unheard, lost, the consumer
tells one, and everything else loses some or none.

`ApiProcessProofs`: `ApiInv` adds to the types that finitely many rows have been
inserted, one per operation, which makes the gauge's count a number.
`NoticesVanishOnlyAsDocumented` follows a payment from the write that records it
through its call and the buffer to the creator, and shows for every step that
leaves one untold which of the four excuses it has; an `Exit` has only the
buffer's, because it waits for every call. `ApiKeepsRepository` carries the
repository's theorems over. `NoticedOnce` adds that a payment's event is in one
place: with one call, at one index of one buffer, or told
(`PaymentsNoticedOnce`); from it `InstancesKeepNoticePromise`, the refinement of
`CreatorNotices`. The steps are cut by what they do to the events
(`WriteEffect`, `PublishPaidEffect`, `ConsumeEventEffect`, `LifeEffect`, ...), so
that each of these proofs goes through few cases.

`CountersNeverOvercount` takes a counter for the set of its Inc() calls
(`Incs`), and a call that has yet to count for one more element (`Owing`). Every
write adds one row and one such call, every Inc() trades a call for an element,
and an end of a process only removes some; what is left is a comparison of the
cardinalities of finite sets, which is why `CounterInv` says that they are finite
(`CountsAreFinite`). That an instance drains only after a signal
(`DrainingWasSignalled`) makes the equality survive a shutdown.

`RateLimiterProofs`: the bound on a burst is far from inductive. `LimiterInv`
says what a counted request knows of its window (`CallsAreSound`), that a counter
counts the requests of its window and expires a window after an EXPIRE
(`CountersAreSound`), that a window begins at least its length after the one
before (`WindowsAreApart`), and that requests of one window drew different
numbers (`OrdinalsDiffer`). An interval of a window's length then meets two
windows at most, each of which lets numbers up to the limit through; it holds the
first request of the later window only if it holds none of the first of the
earlier one, which is why the bound is strict. The requests of
each window inject into the numbers that are let through. For `RefusalsAreEarned`
two more invariants are carried beside it: a counter, and a number that INCR
returned, is at most the requests counted in its window and the faults
(`CountsAreSent`), and a request on its way to a 429 was told a number over the
limit (`RefusedAreOver`).

`ApiGatewayProofs`: the lemma `GatewayImplementsLimiter` only says that the
composition runs `RateLimiter`'s actions, which it does by its form; it carries
`LimiterInv` to the gateway. `AuthInv`
says that a token's role was its user's role when it was read, `ClaimsInv` that a
request behind RequireAuth is counted under its user's key; from them
`UserBurstBounded` and `RoleLagBounded`.

Assumed of the constants: `Period` is a positive natural number, the recorded
amount and Stripe's events are values the tables can hold, a channel has room for
at least one event, a limit, a window, a second and a token's life are positive,
an event of an API instance is the PaymentIntent it is about. Nothing else: the
sets may be of any size, infinite ones included.

Only model-checked: the liveness properties (`EveryEventIsAcknowledged`,
`ChargeIsSettled`, `CacheConverges`, `OverdueIsSwept`, `EventsAreConsumed`,
`StopsWhenTold`, `GaugeConverges`), which need reasoning about ENABLED. Every
invariant and action property of a passing run is proved.

## 5. Plan

Done: the repository and its promise, the payment flow, the list cache, the
notification queue and its promise, the worker, the limiter, tokens and roles,
the middleware chains and the API process, with their proofs. What could follow:
an abstract promise of the list cache (a read returns the list as it was at the
read or at a write whose DEL is owed), and the cache's DELs inside the calls of
`ApiProcess`.

## 6. Not modelled

* Formats (JSON, SQL text, HTTP bodies), logging, signature and password
  arithmetic, input validation that changes no state, configuration, the pings at
  boot. Stripe, Postgres and Redis appear as what the code relies on.
* The reads of the admin dashboard, which change no state. Its pages are cut by
  LIMIT and OFFSET from one SELECT each, so that rows inserted between two
  requests shift them, as any such pagination does.
* HTTP counters and histograms, and the counters of cache hits, rejected requests
  and expiries: each is one increment at one point.
* Redis losing or evicting keys: the limiter would begin a new window and the cache
  miss. A limiter without an identity to bucket by, which cannot occur in the
  chains as wired.
* Repair of rows left pending: nothing in the program does it.

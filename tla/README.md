# A verification development for go-resilient-commerce-lab

The repository is an order service written in Go on PostgreSQL. A client posts
an order under an `Idempotency-Key`, the service writes the order, its items,
its `OrderCreated` event and the result stored for the key in one transaction,
and a loop in the same process drains the events into a sink. This directory
holds TLA+ models of the parts of it that are hard to test, the TLC
configurations that check them on small instances, and proofs, checked by
TLAPS, that the main properties hold for every instance.

Paths below are relative to the repository's root. `PROJECT.json` gives, for
every definition that models code, the file and the lines it stands for.

    cd tla
    tlc -workers 4 -config idem_faults.cfg MCIdempotency   # any run of the table below
    tlapm IdempotencyProofs.tla                            # any *Proofs module

## Inventory

| Component | Source | State | Operations | Where |
|---|---|---|---|---|
| Idempotency middleware and store | `internal/idempotency` | table `idempotency_keys`: state, request hash, stored answer | `Require`, `Claim`, `get`, `Release`, `Complete`, `Hash` | `Idempotency`; what `Hash` identifies: `RequestHash` |
| Create order | `services/order/adapter/http`, `.../app`, `.../adapter/postgres`, `internal/postgres/tx.go` | tables `orders`, `order_items` | `Handler.Create`, `CreateOrder.Execute`, `Store.CreateOrder`, `WithTx` | `Idempotency`; its statements one by one: `OrderReads` |
| Outbox | `internal/outbox` | table `outbox_events`; per publisher a batch and a transaction | `Append`, `Run`, `drainBatch`, `claim`, `markPublished`, `recordFailure`, `Sink.Publish` | `Outbox`; with the clock: `OutboxBackoff` |
| Order status | `services/order/domain` | status of an order | `CanTransitionTo`, `TransitionTo` | `OrderLifecycle`; of an order that a request bought: `OrderService` |
| Order reading | `services/order/app/get_order.go`, `.../adapter/postgres/store.go` | none of its own | `GetOrder`: two statements on the pool | `OrderReads` |
| Order total | `services/order/domain/order.go`, `.../adapter/pricing` | none | `Validate`, `Total`, `UnitPrice`, the constraints of the tables | `OrderTotals` |
| Process lifetime | `cmd/order/main.go`, `internal/httpx/server.go` | errgroup, listener, pool | `run`, `Server.Run`, shutdown timeout, `pool.Close` | `Startup` up to the errgroup, `ServiceShutdown` from there on |
| Migrations | `internal/postgres/migrate.go`, `services/order/migrations` | schema, advisory lock | `Migrate` | `Startup` |
| labctl | `cmd/labctl` | a client's observations | `waitReady`, the scenario duplicate-order | `DuplicateOrder` |
| Configuration | `internal/config` | none after start | `Load` | `Startup`, by classes of values |
| HTTP middleware, errors, probes | `internal/httpx` | per request: the request id, the recorded status | `RequestID`, `RequestLogging`, `Recovery`, `WriteJSON` | `RequestPipeline`; with the handler in it: `OrderService` |
| Telemetry, logging, version | `internal/otelx`, `internal/logger`, `internal/version` | the batch processor | `Setup`, its shutdown | those two in `Startup`; the rest only observes |

How they interact. The middleware calls the store and, for a claim it owns,
the handler; the handler's transaction calls back into the same store
(`Complete`) so that the key is completed with the order. The outbox is joined
to that transaction only by the row `Append` writes; publishers and requests
otherwise meet nowhere but in the database. Around all of it is the chain of
`NewServer`, through which a panic of the handler travels back. Several
processes of the service may run on one database, and nothing in them
coordinates except rows, row locks and the guards in `WHERE` clauses. That is
where the hard behaviour is:

* The claim, the order and the release are three separate transactions, and a
  request may end between any two of them: by an answer, a panic, a cancelled
  context, a failed call or a crash.
* `Release` and `Complete` name the key but not the claim. That they can only
  ever reach the request's own claim is a property of the whole protocol.
* A `COMMIT` that reports an error may have taken effect, or take effect
  later, after the deferred `Release` has been sent.
* `Claim` reads the row in a second statement; between the two it may be gone
  or be someone else's.
* The outbox holds row locks while it calls the sink, and everything it
  records in a batch is undone when one statement of the batch fails, although
  the sink has been called.
* A process stops with requests in flight: the errgroup, the listener, the
  shutdown timeout and the deferred `pool.Close` each see a different part. It
  starts beside others, on one schema, with values of its environment that
  nothing has tried before.
* A body is read by two rules, those of `Hash` and those of `Create`, and its
  quantities pass through integers of two widths.
* A client's transport may send a request twice by itself, and labctl must
  judge a service by what comes back.

What makes each component correct is stated as properties in its module. The
list of hazards, each with the line where it bites and the properties that
would notice, is in `PROJECT.json`.

## The models

### `Idempotency`: POST /orders

One request is one goroutine. Its `pc` follows `Require` and the handler:

| `pc` | in the code |
|---|---|
| `idle` | the request arrives, its header, body and digest are checked |
| `claim` | `Store.Claim`: `INSERT ... ON CONFLICT DO NOTHING` |
| `lookup` | `Store.get`, when the insert found a row |
| `handler` | `Create`: decoding, `Validate`, `UnitPrice`, then `pool.Begin` |
| `tx` | the statements of `Store.CreateOrder`, `Complete` last |
| `commit`, `await` | `tx.Commit` is called; its answer is awaited |
| `respond` | 202 with the order |
| `release` | the deferred function, `succeeded` being false |
| `done`, `dead` | the request was answered; its process has stopped |

The database's side of a request is apart from it. `row` is the
`idempotency_keys` table, `orders` stands for the order with its items and its
event, `tx` is what the server knows of the request's transaction. A
transaction that has executed `Complete` is `locked`: it holds the row until
the server resolves it, also when its client is long gone (`cut`: the
connection died without a rollback). `stray` is a single statement that the
server may still execute after its caller was told of an error. The field `by`
of a row is history: which request inserted it. No action reads it.

A step is one statement, with the guards of its `WHERE` clause as operators of
their own (`ClaimInserts`, `ReleaseMatches`, `CompleteMatches`), or the code
between two statements. The statements of the order transaction before
`Complete` touch nothing that another request can see, so `WriteOrder` is one
step with `Complete`. Once a request's context is cancelled (`gone`), a call
in flight may fail or may still succeed; `Begin` and `Commit` fail at once,
as pgx refuses to start under a cancelled context.

`Faults` switches on what may go wrong: `disconnect`, `db` (any call fails,
applied or not), `crash` of an instance, `panic` in the handler, and
`handdelete`, the recovery of a stuck key by hand, by an operator who cannot
see whether the owner still runs. The operator only deletes rows in progress.

### `IdempotentOrders`: what POST /orders promises

The abstract specification has no tables, claims or transactions: a key is
decided at most once, by the order of one request; every answer agrees with the
decision; a replay is only given for the same digest. A request may be placed
although its client was told of an error, since a commit may be in doubt, and
never after any other answer. `Idempotency!Abstract` is the instance with
`result` mapped to the `resource` column.

### `Outbox` and `AtLeastOnce`

`row` is `outbox_events`: the status, `retry_count` and one flag for
`next_attempt_at <= now()`. A publisher's `pc` follows `Run` and `drainBatch`:
`Claim` is the tick with `BEGIN` and the `SELECT ... FOR UPDATE SKIP LOCKED`,
then for the first event of the batch `PublishOK` or `PublishFails`, `Mark` or
`RecordFailure`, and the commit at the end. `session` is the transaction as the
server has it: the rows it holds and what it has written to them, which reaches
the table only with `CommitApplies`. A failed or crashed publisher may leave
its session behind (`orphans`), with its locks, and even with a `COMMIT`
that is still to take effect. A session may also end while the publisher
is inside `Publish`; it notices at its next statement. `sent` and `failed`
count what the sink did and no action reads them. Events are numbers in the
order of `created_at`, and appear in any order, as commits do.

`AtLeastOnce` is the promise: an event, once recorded, waits until it is
settled once and for all, as published only if it was delivered.

### `OrderLifecycle`

`transitions` and `CanTransitionTo` are the table of `domain/order.go`,
`TransitionTo` and `TransitionRefused` the two outcomes of the method, and
callers may ask for anything, a status outside the domain included. `past` is
history.

### `ServiceShutdown`

One process from `errgroup.WithContext` to its exit. `server`, `listener` and
`errCh` are `Server.Run`, the goroutine it starts and the channel between them;
`publisher` is `Publisher.Run` reduced to its use of the pool; `main` is `run`:
in `group.Wait`, in the deferred `pool.Close`, in the telemetry flush, gone.
`groupCtx` is `Cancelled`: a signal, or the first error in the group. A request
is reduced to its claim, its transaction and its release, each needing a
connection of the pool, and has a key of its own; contention for a key is
`Idempotency`'s subject. Its client may leave (`Leaves`), and `Claim` and
`Release` may report an error, with or without effect (`Errs`; `erred` notes of
whom); both go on to the answer with nothing deferred. A `COMMIT` may report an
error and have taken effect. Request contexts do not descend from `groupCtx`,
so a shutdown cancels none of them. Of the pool the model uses what pgxpool
documents of `Close`: new and waiting users are refused, and it returns when
the connections in use have come back. The database always answers here, if
with an error; clients may never send their body and never read their answer.

### `Startup`

Several replicas, each one process from `main` to its errgroup. `at` follows
`run`: `load`, `setup`, `pool`, then `Migrate` (`check`, `lock`, `list`,
`apply`, `await`), `serve`; a failed start unwinds through `closing` and
`flush`. `env` is the environment as `Load` sees it, each variable by what is
wrong with it: nothing, unset, not to be parsed, or parsed and of no use, such
as an interval that is not positive, which `Load` lets through and on which
`NewTicker` panics. `running` is what must be taken down again, `up` the
goroutines of the errgroup.

goose is external and modelled from how `Migrate` configures it: a look at the
pending migrations, the advisory lock of a session, the list made again under
the lock, one transaction for each migration. The lock belongs to the session,
and a session may outlive its client, with its lock and a `COMMIT` on its way
(`abandoned`, `CommitApplies`, `SessionEnds`), so a replica that crashes
stands in the way of the others until the server notices.

### `OrderReads` and `AtomicOrders`

The statements of `CreateOrder` one by one, on the one side, and on the other
`GetOrder`: the order, then the items, each statement with a snapshot of its
own, the rows of the second arriving one at a time and perhaps breaking off.
`known` are the orders that somebody was told of, by a 202, a replay, an event
or another GET, and `due` the GETs that began after that. `AtomicOrders` is the
promise: an order appears at once, stays, and is read at one point.

### `OrderTotals`

One command from the decoder and `Validate` over the catalogue and `Total` to
the constraints of the tables: the `CHECK`s, the 32-bit `quantity`, the
primary key of `order_items`. `Total` is the fold of the code with integers
that wrap around. `CatalogueAssumption` states what makes that harmless and
what a larger catalogue would have to keep: everything that can be priced, as
often as a row can say, fits an `int64`; the catalogue is finite, as a map
is. `database` is the database: it may fail at `Begin`, at any statement of the
transaction, the outbox's and `Complete` included, or at `COMMIT`
(`DatabaseFails`), and a `COMMIT` that reports an error may have taken effect
(the second disjunct of `Commit`). `Abandon` is what `WithTx` leaves of a
handler that panics.

### `RequestHash`

A body is a sequence of members, each with a name, the spelling of the name,
and a literal, which may be null. `Digest` is what `Hash` makes of it: a map,
the last member of a name counts, also when it is null, numbers rounded as
`float64` does. `Decodes` and `Command` are what `Create` makes of the same
bytes: a struct whose names match in any case, no unknown members, integers only
where a number is wanted, and a null that leaves its field as it was. Two
requests use one key, one after the other. The rounding of `float64` is to the even
neighbour beyond `Exact`, as it is beyond 2^53. `WidthAssumption` puts the
largest quantity of a row below it: at `IntMax = Exact` an order for `Exact`
and a body that asks for one more would share a digest.

### `RequestPipeline`

One request, of any route, down the chain of `NewServer` to its handler and up
again. `Chain` is the order of the frames, `depth` the stack. What a frame
does on the way up depends on whether it is a return or a panic that comes
back to it. `rec` and `capture` are the two wrappers around the
`ResponseWriter`, each of which sees only what is written below it.

### `OrderService`

One request from the wire to the status its order ends in: the frames of
`RequestPipeline` around the handler of `OrderTotals`, and once the order exists
the calls of `TransitionTo` of `OrderLifecycle`. `Write` gives each outcome its
HTTP status, and `Panic` may strike between any two steps of the handler,
inside its transaction or behind its answer. The three meet in
`OrderMatchesAnswer`: what is in the tables, what the key says and what went
over the wire agree, but for the two cases that no code could avoid, a panic
behind the commit and a `COMMIT` that took effect although it reported an error.
`claim` is what `Require` does; in those two cases its `Release` finds a
completed row and leaves it (`Idempotency` shows that).

### `DuplicateOrder`

labctl's scenario: `waitReady`, three POSTs under one key, a GET, a verdict. The
service is given by its defects: seven ways in which it may break what it
promises of a completed key, and every combination of them is tried. One of
them, `hides`, is to order again and to answer as if it had not. The client has
a timeout and hears of a signal; a connection may break, and then `net/http`
sends a POST that carries an `Idempotency-Key` again by itself, so the service
may see a POST twice (`ghost` is the delivery nobody listens to). A POST is sent
again once (`resent`): the transport does so only on a connection that it
reused, and labctl has one idle connection at most.

### `OutboxBackoff`

`Outbox` with a clock and one publisher. `now()` in PostgreSQL is the start of
the transaction, so a backoff runs from the start of the batch (`began`), while
`Publish` may take any time. The ticker keeps one tick for a publisher that is
late. `Shifted` is the shift of `recordFailure`, `BaseBackoff << n`, whose
exponent stops at `MaxShift`, 16 in the code. `first` and `failedAt` are the
outage of the sink as `Publish` sees it. `RollBack` stands for every error of a
batch. Whose locks are in the way is `Outbox`'s subject.

### The other modules

`MCIdempotency`, `MCOutbox`, `MCServiceShutdown`, `MCStartup`, `MCOrderReads`,
`MCOrderService`, `MCRequestHash` and `MCDuplicateOrder` are the instances for
TLC; `OutboxBackoff` needs none. `IdempotencyInvariants` and `OutboxInvariants`
hold inductive invariants; those of `ServiceShutdown`, `Startup` and
`OrderReads` are at the end of their modules. Each model has a short section of
mutated forms of its definitions: the slips that the runs must notice.

## The runs

| Run | Instance | Shows |
|---|---|---|
| `idem_faults` | 2 requests on 2 instances, 1 key, a body that is accepted and one that is refused, all faults | `AtMostOneOrder`, `CompletedIffOrder`, `RepliesAgree`, `CompletedIsFinal`: one key buys one order and everyone is told of that one, even with rows deleted under a live owner; `EveryRequestEnds`: no wait for a row lock is for ever |
| `idem_claims` | 3 requests, 1 key, 2 bodies, all faults but `handdelete` | `OneOwner`, `ReplayMatchesBody`, `OnlyOwnerEndsClaim`: although statements name only the key, no request ends another's claim; `ImplementsOrders` |
| `idem_resolves` | 3 requests, 2 keys, refused and malformed bodies, panics | `ClaimsResolve`, `RejectionFreesKey`: without failing calls every claim is resolved, and a 4xx leaves no row |
| `idem_blocked` | 2 requests, only `disconnect` | `ClaimsResolve` is **violated**, see Findings |
| `outbox` | 2 events, 1 reliable publisher and 1 that may do anything, all faults | `RetriesAreReal`, `SettledIsFinal`, `ImplementsAtLeastOnce`; `EventsSettle`: whatever the other has locked, every other event is settled |
| `backoff` | 1 publisher, 2 events in batches of up to 2, 4 attempts, a clock up to 9 | `OutageOutlasted`: an event is given up only after an outage of the sink that outlasts its backoffs, all but the first |
| `reads` | 2 orders, of 2 items and of 1, 2 GETs | `WholeOrNothing`, `ImplementsAtomicOrders`: two statements read what one would |
| `order_service` | any route, a panic and an error of the database anywhere, a `COMMIT` in doubt, up to 2 items of 3 SKUs (one unlisted), 7 quantities, then any transitions | `ServiceInv`, `OrderMatchesAnswer`: panics are answered, logged and leave no half order; `StoredTotalIsSum`, `RefusalsExplained`: no total overflows, and what is refused could not be ordered or the database failed; `CompensationNeedsFailure`, `PaidIsKept` |
| `hash_replays` | two bodies of up to 3 members, null among them | `ReplayIsWhatWasAsked`, `RewrittenIsReplayed` |
| `startup` | 1 reliable replica, 1 that may fail in any way, 7 environments with at most one value wrong, 2 migrations of which any number is applied | `StartupInv`, `MigrationsApart`: migrations do not race and nobody serves half a schema; `FailedStartCleansUp`, `BadValuesAreHarmless`; `ReliableStarts`: no failure of the other keeps a replica from serving |
| `shutdown` | 2 requests and the publisher on 1 connection, clients that leave, statements that report errors | `ShutdownInv`, `ExitZeroIsClean`, `NoTransactionCut`; `SignalEndsProcess`, `ListenFailureEndsProcess`, `RequestsGetConnections`: neither slow clients nor a full pool keep the process up |
| `labctl` | 128 services, all faults | `PassMeansContract`, `FailHasCause`: PASS and FAIL are said of the right services; `ScenarioEnds` |

`idem_faults` leaves out `OneOwner` and its companions on purpose: with
`handdelete` they are false, and the point of the run is that the promises to
the client hold nevertheless.

### Bounds, and why they are enough

Three requests on one key (`idem_claims`) are an owner, a second owner after a
release, and a bystander who sees both: the properties relate at most two
requests and a row, and the third is the one whose late statement or commit
disturbs them. `idem_faults` has two requests for its further faults: there an
operator's deletion takes the part of the release between two owners, and what
it checks of a request is proved for any number of them. Keys do not interact,
so one key suffices except in `idem_resolves`, which has two. A request is
served once; a retry is another request with the same body and key. A request
has at most one stray statement, as at most one call of it can end without an
answer from the server before it gives up.

Two publishers contend; a third would add no new kind of conflict: orphaned
sessions, of which there may be several, already play that part. A batch of two
has a first and a last event, as events appear one by one there are batches
of one too, and `MaxRetries = 2` has a retry that is not the last and one that
is. `SentCap = 1` only bounds a counter that nothing reads, and `failed` stops
counting at `MaxRetries` for the same reason.

With one connection in the pool every second use of it inside another would
block, and three users contend for it. Two requests can be in two different
phases when the pool is closed.

One replica is the one that holds the lock or left it in an abandoned session,
the other the one that waits; two migrations leave one between them at which to
stop. The theorems do not depend on the number of either.

The integers of `order_service` are as narrow as they can be with the same
relations: `IntMax = 3` and `LongMax = 15` for 2^31-1 and 2^63-1, and a
catalogue of 3 and 2 that fits exactly (3 * 3 + 2 * 3). The quantities are on
both sides of each bound, and some of them wrap around once or more. Two items
are enough for a sum and for a SKU given twice, and one order, since no status
depends on another order's. `hash_replays` has `Exact = 8` for 2^53 and
quantities on both sides of it and of `IntMax = 4`; two members with one name
are the smallest case of a name given twice.

`backoff` doubles once (`MaxShift = 1`), so the cap is reached, and has three
backoffs of 1, 2 and 2 before the fourth attempt is the last; `Horizon = 9`
leaves room for all of them and for batches that take as long again. With two
events to a batch the second fails later than its batch began.

Symmetry is used in `idem_claims`, which checks no liveness, over its requests.
Deadlock is not checked where the modelled thing ends: a GET, a request,
a pair of requests, the clock of `backoff`.

### Fairness

*Idempotency.* `FairSpec` has weak fairness of each request's own steps, since
a goroutine that can run does, together with the failures it cannot avoid
(`MustFail`: a call under a cancelled context, a `COMMIT` the server answers
with a rollback), and weak fairness of the server's resolution of what it was
sent: it executes or drops a statement, and notices that a connection is dead.
No fault is fair: a database call need not ever fail.

*Outbox.* The publishers in `Reliable` keep ticking and their sink keeps
answering, with success or not, since `Run` loops until its context is
cancelled; time passes; the server resolves every `COMMIT` it was sent and
ends the sessions whose client is gone. Nothing is assumed of the other
publishers, and no open session is forced to end: one may hang inside `Publish`
holding its rows for ever, and then `EventsSettle` promises nothing of those
rows but everything of the others. Its second disjunct excepts one more case: a
publisher may lock the same event again and again and lose the session each
time, always before the reliable one looks.

*Shutdown.* Goroutines that can run do, the database answers, and `Shutdown`
returns when its timeout has passed. Nothing is assumed of clients, of signals
or of `ListenAndServe` failing. Strong fairness is assumed in two places:
waiting for a connection, since the pool serves waiters in turn, and the
publisher's `select`, which chooses at random among its ready cases
and so does not take the tick for ever once the context is done.

*Startup.* A replica that can take a step does, also the failures it cannot
avoid, and the server resolves a `COMMIT` and notices that a session is dead.
Weak fairness is enough to get the advisory lock from one replica that
migrates once: it is never taken back. `Reliable` replicas are those that no
fault strikes.

*labctl.* Time passes: the deadline of `waitReady` and the client's timeout
come. Nothing is assumed of the service.

## The proofs

TLAPS proves what follows for every value of the constants that the named
assumptions of the modules admit. Each assumption says something the code
guarantees: that a digest is a function of the body, that limits are positive,
that a catalogue fits the integers it is summed in, that a value which stands
for "none" is no value.

**`IdempotencyProofs`**, for any requests, keys, bodies and instances, and every
set of faults. `SafetyInvariant`, then `OneOrderPerKey`,
`KeyAndOrderTogether`, `OneAnswerPerKey`, `ResultsAreFinal` and `TypeCorrect`.
`CompletedIffOrder` is not inductive: `CommitApplies` overwrites the row
and must know it is still in progress. `SafetyInv` adds why: a transaction
that has executed `Complete` keeps the row as it found it, alone, until the
server resolves it (`RowLocked`), and `COMMIT` is sent only by such a
transaction (`ReadyToCommit`). The rest is what a request may have announced
(`AnnouncedExists`). One lemma per action, one step per conjunct the
action can disturb. The operator's deletion waits for the lock like any
`DELETE`, so these theorems hold with it.

Its second part is under `"handdelete" \notin Faults`.
`OwnerInvariant`: a row tells who made it (`RowHonest`), and whoever is past
the claim, still has a `DELETE` on its way or a transaction holding the row, is
that one (`OwnsRow`). This is what lets `Release` and `Complete` do without the
claim's identity. `OneOwnerPerKey`, `ReplaysMatch` and `ClaimsEndByOwner`
follow, and so does `Implementation`: the initial state maps to the initial
state of `IdempotentOrders`, `CommitApplies` to `Place`, the answers to the
`Tell` actions, and everything else to a stutter. `AnsweredOnce` is what the
last needs: a request that may still commit has said nothing but 500.
`RejectionsFreeKeys`, under the further assumption `"db" \notin Faults`, has an
invariant of its own, `RejectionInv`: a request that `Create` refuses began no
transaction and is on its way through `Release`, and before it claims and
after it was refused no row is its own.

**`OutboxProofs`**, for any number of publishers and events, any batch size and
retry limit, every set of faults. `OutboxInvariant`, then
`NothingPublishedUnsent`, `RetryCountsAreReal`, `SettledForGood` and
`DeliversAtLeastOnce`, the refinement. What a commit writes was computed
from a row read, and a sink called, long before; `OutboxInv` says why it is
still right: no two transactions, abandoned ones included, hold one row
(`LocksApart`); a held row is still to be settled, and what its session has
written to it is backed by what the sink did (`SessionsSound`); the count read
at the claim is the row's for as long as the session lasts (`BatchSound`). That
counts stay within `MaxRetries` needs this too, so even type correctness
(`TypeCorrect`) is not inductive by itself. `EachDuplicateHasItsFailure`, under
`Faults \subseteq {"sink"}`, says of each event that it was delivered at most
once more than `Publish` failed for it. Its invariant, `AccountInv`, makes the
counters exact: each call of `Publish` is accounted for in the table or in
the one session that holds the row, at each point of its turn.

**`ServiceShutdownProofs`**, for any number of requests and connections.
`ShutdownInvariant`, then `CleanExit`, `PoolClosesLast`,
`ExitsBetweenTransactions` and `TypeCorrect`. The core is `DrainedMeansIdle`
with `KeysReleased`: after `Shutdown` has returned nil nothing is in flight
and nothing can arrive, so a request that finds the pool closed is one that
`Shutdown` gave up on. `CleanExit` is about what `Shutdown` adds. A key can be
left in progress behind exit code 0, by a disconnect inside `Claim` (see
Findings) or by an error of `Release`; the theorem says that this is all.

**`StartupProofs`**, for any number of replicas and migrations, every set of
environments and of faults. `StartupInvariant`, then `MigrationsDoNotRace`,
`SchemaBeforeService`, `NothingLeftRunning` and `BadValuesEndEarly`. That only
the holder of the lock commits is not enough: the holder must know the schema,
although it read it several steps before (`LockedAndListed`), and the lock
must stay with a session whose `COMMIT` is in doubt.

**`OrderReadsProofs`**, for any orders, items and GETs. `ReadsInvariant`, then
`OrdersAreReadWhole`, `OrdersAreWritten`, `KnownOrdersAreFound` and
`ReadsAreAtomic`, the refinement. A GET takes effect at its last step, and
that is right because what its first `SELECT` saw can only have grown to the
whole order by then: rows become visible all at once and stay (`Transactions`,
`Readers`).

**`OrderServiceProofs`**, in four parts. The first is `OrderLifecycle`'s:
`PaidOrdersAreKept`, `NoBlindCompensation`, `OrdersMoveOn` and
`StatusesOfTheDomain`, for every set of orders, by an invariant on the statuses
an order may have had (`PathInv`).

The second is arithmetic: `Total` is a fold with integers that wrap around, in
the order of the items; the property sums the lines, which are a set.
`TotalExact` says that the two agree and that nothing wraps around on the way,
*if* the tables accept every item (`Fits`). Quantities that they refuse do wrap
around, and `Total` may then be anything, even what a correct order would cost:
the order is refused all the same, perhaps with that total already in its
header, and rolled back. The argument goes over the items one by one; what has
been added up never exceeds the catalogue's sum (`CatalogueSum`), because the
primary key admits each SKU once and the column each quantity up to `IntMax`.
`SumInAnyOrder` and `FoldsAgree` are the lemmas on folds that this needs.

The third is the invariant of a request, `ServiceIInv`, in three named parts
besides the first's. `TotalsInv`: what each place of `Create` knows of the
command, and that the rows of an open transaction are those of the first items.
That is lost by a failure and kept by a commit, in doubt or not (`Kept`).
`PipelineInv`: what has been sent, captured, claimed and logged at each frame,
by direction: down, up as a return, up as a panic; a panic cannot be above
`Recovery`, which is why the access log is always reached. `HandlerInv`: how the
two are tied, the status to the answer and the claim to the status; without it
neither part says anything of `OrderMatchesAnswer`, which relates the tables to
the key.

The fourth are the theorems: `RequestsAreAnswered` (`ServiceInv`),
`StoredTotalsAreSums`, `RefusalsAreExplained`, `OrdersMatchAnswers`, and
`ServicePaidOrdersAreKept` and `ServiceNoBlindCompensation` for the order that a
request leaves behind. They hold for any catalogue under
`CatalogueAssumption`, any widths, quantities and number of items.

**`OutboxBackoffProofs`**, for any events, backoff, cap, retry limit, batch size
and interval. `OutageOutlastsBackoffs`. The property looks at an event that is
given up, so the invariant must say of every event, at each count, how long it
has been waiting (`RowInv`): a row is not due before all of its backoffs but the
first have passed since its first recorded failure. That alone is not inductive,
as a commit writes what a transaction computed earlier. `BatchInv` adds that
what it has written came from the row as it still is, that the row was due when
the transaction began, and that the attempt failed no earlier than that.
Backoffs are counted from `began`, the earlier of the two clocks. The first of
them may be over when `Publish` fails, in a batch that was long at work by then,
and is worth nothing. The batch of the second attempt begins after that failure,
and from there on each batch begins a whole backoff after the last one did.
`Patience`, the sum of the backoffs, is a recursive function of a count that has
no bound; that there is such a function, and what it does, is proved first
(`Recursion`, `PatienceGrows`). `OutageInFigures` gives the sum in closed form:
`(2^(MaxRetries-1) - 2) * BaseBackoff` up to `MaxShift + 2` attempts, and the
cap for each one more. With the 5 attempts and the second of
`cmd/order/main.go:91-92`, that is at least 14 seconds from the first recorded
failure of `Publish` to the last. Both are about one publisher, the process of
`cmd/order`.

**`RepeatedKeyProofs`**, in two parts. The first is `RequestHash`'s, for bodies
of any length, any fields and widths. `ReplaysAreWhatWasAsked` and
`RewrittenAreReplayed`, by `HashInv`, which ties the answers to the digests,
and two lemmas on digests. `DigestDetermines`: equal digests mean equal
commands, if one body was created and the other can be read, spells each field
in one way and ends none with null. What was created fits the column, and
`RoundIsExact` says that no other integer rounds to what fits. Nothing of this
need be assumed of the created body: equal digests have equal names, and equal
last values.
`RewritesAgree`: as many names as members means that no two share one
(`NamesDistinct`), so their order is nothing to the digest.

The second is `DuplicateOrder`'s, for any set of services and of faults:
`PassIsDeserved` and `FailIsDeserved`. The verdict is said after the last
answer, so the invariant (`ScenarioInv`) must say at each call what the answers
before it have shown. `VerdictInv` says which defects are ruled out by then,
and `FirstInv` what the first answer can be: an order of the key, or
"processing". That the latter needs a cause, without which `FailHasCause` would
be false, is `DeliveryInv`: a key that is in progress is in the hands of
one delivery, the client waits for the other, and a connection that broke has
made two of one POST. `OrdersInv` counts: the key stands for one order, and there
are more only of a service that handles requests again. One that does so
openly (`again`) answers the second POST with a newer order than the first,
whichever that was, so the bodies differ; one that hides it differs in nothing
that labctl looks at, and the theorem says so.

What these theorems establish has no run of its own where the run would only
repeat it:
`TypeOK`, `PublishedWasDelivered`, `DuplicatesExplained`,
`PoolOutlivesPublisher`, `ServesMigrated`, `GetIsWhole`, `NotFoundIsTrue` and
`NoReturn`. `ShutdownInv` and `StartupInv` are checked by runs as well.

Only model-checked: liveness (`EveryRequestEnds`, `ClaimsResolve`,
`EventsSettle`, `SignalEndsProcess`, `ListenFailureEndsProcess`,
`RequestsGetConnections`, `ReliableStarts`, `ScenarioEnds`), which the prover
cannot reach. Every invariant, action property and refinement that a run checks
is also proved.

The provers have no rule of induction over data. Where a sum, a fold or a
recursive function is involved, the proofs use instead that the numbers are
well-founded (`UpTo`), or the subsets of a finite set (`MinimalSubset`).

## Findings

**A disconnect during the claim blocks the key.** `Require` says it "claims the
key before the handler runs and releases the claim if the handler fails, so a
retry is not permanently blocked by a transient error"
(`internal/idempotency/middleware.go:43-45`). `Claim` runs under the
request's context, and when it returns an error `Require` answers 500 and
returns (lines 73-78) before the deferred `Release` is registered. If the
client goes away while the `INSERT` is executed, `Claim` reports an error
although the row is committed: the key is in progress for ever, and every retry
is answered `202 processing`. `idem_blocked` reaches this with nothing but a
disconnect. Releasing the key on that path is not the repair it seems: the
`INSERT` may have found another request's claim, and `Release`
names only the key. The mutant `ClaimFailsReleasing` does just this and
violates `OnlyOwnerEndsClaim`.

Three observations that no run shows. `Hash` decodes a body into a map
(`internal/idempotency/hash.go:16`), where `"quantity"` and `"Quantity"` are
two names and their order is lost; `Create` decodes it into a struct, where
they are one field and the last one counts. Two bodies that differ in this
order only have one digest and ask for different quantities, and the second is
answered with the first's order, while "the same key with a different body is
refused" (`docs/content/architecture/system-topology.md:65`). The same holds of
two bodies that give a member twice, first with different values and then with
null: the map holds the null, and the struct keeps the value before it. And of
two that give `items` twice and differ in the first array only, where the second
leaves out what the first says: the decoder fills the elements it has already.
`ReplayIsWhatWasAsked` names the first two as its premises (`OneSpelling`,
`ValueLast`), asked of the retry alone, and the third is outside of
`RequestHash`. `hash_replays` shows that there is no such pair otherwise, rounded
integers included, since what rounds does not fit the column.

The others are about labctl. It does not look for `Idempotent-Replay` in the
first answer. When the transport has sent the first POST twice, that answer may
be a replay already, and a service that replays other bytes than it first sent
passes. And it counts no orders: its description says that a repeated POST
yields one order, not two, and a service that orders again behind a faithful
replay passes. `PassMeansContract` names these as what a PASS does not rule out.

A failed `Release`, a crash, and a shutdown whose timeout passes leave a key
behind too. The code makes no promise for these, and the models treat them as
given: `ClaimsResolve` is checked where none of them can happen.

## Not modelled, and why

* Durations, except in `OutboxBackoff`. Elsewhere the backoff is a flag that
  becomes true at some time, and the poll interval is that a publisher takes a
  step when it does.
* Bytes: payloads, error texts, stored response bodies. A replay stands for
  the order it names, as the body and the order are stored by one statement
  each in one transaction.
* An event whose failure can never be recorded, because the `UPDATE` refuses
  the text of its error. It would roll back each batch it is in. The only sink
  of this commit, `LogSink`, returns no error, so there is no such text to
  model yet.
* Arrays in `RequestHash`: both readers take the elements of `items` in order,
  so a body is flat there and the members of each element are fields of their
  own. A body that gives `items` twice is left out: `Create` decodes the second
  array over the elements of the first (see Findings).
* In `OrderTotals`, which statement the database fails at, and why: each of them
  is answered and rolled back in the same way. A text that PostgreSQL refuses,
  such as a NUL in a customer's id, is one of these errors.
* Spans, log records other than the access log, the version string: nothing
  reads them back. `Tracing` passes everything through.
* labctl's flags, its list of scenarios and its link to the traces: they
  change no state.
* What a probe checks (`Ping`) and what pgx, goose and `net/http` do inside:
  they are modelled from how the code uses them, and marked external in the
  map.

## How the modules build on each other

`Idempotency`, `IdempotentOrders` and their proofs came first, then `Outbox` and
`AtLeastOnce`, `OrderLifecycle`, `ServiceShutdown`, `Startup`, `OrderReads` and
`AtomicOrders`, each with its proofs, then the sequential parts `OrderTotals`,
`RequestHash` and `RequestPipeline`, the client `DuplicateOrder`,
`OutboxBackoff`, and `OrderService`, which puts the request's parts together,
and last the proofs of these. `OrderService` extends `RequestPipeline`,
`OrderTotals` and `OrderLifecycle`; what happens to it is a step of one of them,
or of two at once where the code calls from one into the other (`Write`,
`Panic`). The other compositions are by promise: `OrderReads` takes keys and
events as rows that become visible with an order, which `CompletedIffOrder` and
`WholeOrNothing` justify from either side; `DuplicateOrder` judges services by
what `IdempotentOrders` promises; `ServiceShutdown` begins where `Startup` ends
(`Started`).

Left for when the code calls for it: the unrecordable failure, with the first
sink that returns an error, and the steps of payment and shipping behind
`OrderLifecycle`, for which the repository has no code yet.

# A verification development for RetailPilot (ShopMind)

RetailPilot is a shopping assistant on FastAPI, SQLAlchemy and PostgreSQL: agents recommend
products, a user puts SKUs into a cart, reviews a Checkout Preview, creates an Order, and pays
for it through an external provider; a sweeper expires Orders nobody pays for, and a
transactional outbox tells the rest of the world about every transition through RocketMQ.

This directory holds TLA+ specifications of the parts of the program where money, stock, messages
and the user's decisions are at stake, the TLC runs that check them on small instances, and TLAPS
proofs of what matters most for instances of every size. Each definition is translated from the code;
the file `PROJECT.json` names the lines it stands for.

## 1. The system

Where the steps interleave. The endpoints are `async def` functions that use synchronous
sessions, so one server process runs a request's database work without switching to another
one. Concurrency comes from several server processes, from the sweeper and the publisher, which
are processes of their own, from the threads that runs of the agent and parallel plan steps use, and
from the clients' retries and repeated clicks. The processes meet in the tables. PostgreSQL runs at
READ COMMITTED: a transaction sees the newest committed rows with every statement, waits for row locks
(`SELECT ... FOR UPDATE`) and is undone when its process dies. The threads of one process meet in its
event loop and under its locks.

| Component | State it keeps | Operations | Interacts with | Hard behaviour |
|---|---|---|---|---|
| Catalog and inventory | price, sale status, `on_hand`, `reserved` | browse, reserve, release, consume | Orders, payments, expiration change the counters | Orders compete for the last units |
| Cart | items with id, quantity, version | confirmed addition, edit, removal, clearing | Preview and creation read it, creation empties it | edits while an Order is created |
| Checkout preview and tokens | none: the token is a signed snapshot | preview, verify | binds creation to what the user saw | the snapshot is stale when used, or used twice |
| Orders | Order, items, reservations | create, cancel, read | cart, inventory, outbox, payments | equal Idempotency-Keys, lock order |
| Payments | attempts by Order and key | claim, resolve, persist, finalize | provider outside of any transaction; Order, inventory, outbox | crashes and lost answers between the transactions |
| Order expiration | none of its own | a sweep with a seek cursor | Orders, payment history, inventory | several sweepers, users holding rows, bad rows |
| Outbox and publisher | events with status, attempts, lease | enqueue, reclaim, claim, send, report, redrive | every Order transition, the broker | expired leases, late reports, repeated sends |
| Pending actions | proposed action, its version and resolution | view, confirm, cancel, expire, replay | cart, preferences, agents | confirm, cancel and expiry race and are retried |
| Agent runtime: runs | run, events, messages, idempotency record | start, execute, finish, replay | agents, tools, shopping state | a crash between start and finish |
| Agent runtime: coordination | stream leases, dedup claims, rate buckets, cache | acquire, renew, release, claim | chat streams, identity check | a lease that expires while its holder works |
| Agent runtime: plans and tools | none beyond one run | plan steps, tool calls, budgets | agents | parallel steps share budgets, cancellation and deadline |
| Chat streaming | a lease, an event buffer and a thread for each stream | admit, deliver, renew, leave | coordination, runs, the client | four activities that do not wait for each other |
| Runtime repositories | threads, messages, memory, retention | append, compare-and-swap, prune | runs | two runs of one conversation |
| Governance and owner data | audit records | inspect, correct, delete, project | the tables of the runtime, cart, preferences | deletion beside running requests |
| Frontend, chat page | messages with a key and a retry state, one stream state | send, read, stop, retry | chat streams, runs | the loops of several streams write one page |
| Security, recommendation, agents, operations, evaluation, other pages | none shared | pure functions, scripts, clients | | |

What makes each component correct:

- *Inventory*: the counters are the sums of the reservations behind them, and nothing that was
  not paid for leaves the stock.
- *Cart and checkout*: an item is in the cart, in exactly one Order, or removed by the user; an
  Order contains what the Preview showed, at the price it showed; a repeated creation gets the first
  one's Order; transactions do not wait for each other in circles.
- *Orders and payments*: the customer is charged at most once, only for an Order that can still
  become paid, and every charge that is known is finalized by retries; a paid Order has one
  succeeded attempt.
- *Expiration*: every overdue Order that may be closed gets closed, and no reservation is released
  twice.
- *Outbox*: each transition has its event; consumers see the events of an Order for the first time
  in their order; no event is lost to crashes alone.
- *Pending actions*: an action is applied at most once, and the retries of the request that
  resolved it get the recorded answer.
- *Runtime*: one execution per idempotency key, a recorded result for each retry, no lost version of
  the shopping state.
- *Streams*: what a client gets is the beginning of what the run reported; a stream that ends by itself
  has delivered the result; losing a client does not stop a run.
- *Plans*: budgets hold however the steps interleave; a cancellation and a refused usage are final; a
  step starts only when what it depends on has completed.
- *Chat page*: a message whose outcome is open is sent again with its key only.

## 2. The modules

| Module | Models | Main source |
|---|---|---|
| `OrderLifecycle` | Orders, reservations, counters, payment attempts, the provider, outbox events; a payment request as a process of five steps | `services/orders.py`, `services/payments.py`, `api/routes/payments.py`, `services/payment_safety.py`, `services/reservation_release.py`, `services/order_expiration.py` |
| `OrderLedger` | the abstract promise of the above: place, charge, pay, close | the same transitions |
| `OrderLifecycle_proofs` | theorems about `OrderLifecycle`, that it implements `OrderLedger`, and about `ExpirationSweep` | |
| `Checkout` | cart, Preview, tokens and creation down to single row locks | `services/orders.py`, `services/cart.py`, `repositories/shopmind_cart.py`, `services/checkout.py`, `services/pending_actions.py` |
| `ExpirationSweep` | several sweepers, their cursor and batch, SKIP LOCKED, users' transactions | `services/order_expiration.py` |
| `Outbox` | the outbox table, leases, workers, the broker | `outbox/repository.py`, `outbox/publisher.py`, `integrations/rocketmq.py` |
| `PendingAction` | proposals of the agents, and the confirmations, cancellations, views and retries that decide them | `services/pending_actions.py`, `api/routes/pending_actions.py` |
| `ChatRun` | the idempotency record, run and conversation of a chat request, from its first lookup to its finish; crashes, retention, and the owner's deletion | `runtime/harness.py`, `repositories/owner_data.py`, `repositories/runtime_runs.py`, `repositories/runtime_shopping_state.py`, `repositories/runtime_conversations.py`, `repositories/runtime_maintenance.py` |
| `ChatStream` | admission leases, the thread of a run, the event loop, the bounded buffer, the generator and the client | `api/routes/chat_stream.py`, `runtime/coordination.py`, `runtime/redis_coordination.py` |
| `PlanExecution` | the steps of a plan, the delegation guard and the tool gateway they share | `runtime/plan_executor.py`, `runtime/adapters.py`, `runtime/tool_gateway.py` |
| `ChatClient` | the chat page: messages, keys and retries, the loops that read streams, JSON exchanges; the server as `ChatRun` and `ChatStream` show it | `frontend/src/features/chat/ChatPage.tsx`, `frontend/src/features/chat/streamReducer.ts`, `frontend/src/api/client.ts`, `frontend/src/api/sse.ts` |
| `ChatRun_proofs`, `PendingAction_proofs`, `PlanExecution_proofs`, `Outbox_proofs`, `Checkout_proofs` | theorems about the module of the name | |
| `ChatDelivery_proofs` | theorems about `ChatClient` and `ChatStream`, the two ends of an answer | |
| `Totals` | lemmas the others share: sums over finite sets, greatest and smallest members | |
| `MC...` | constants and symmetry sets for TLC | |

How they fit together. `OrderLifecycle` treats the creation of an Order as one step; `Checkout`
opens that step into its locks and statements. `ExpireOrder` of `OrderLifecycle` is what a sweep does
to one candidate; `ExpirationSweep` models how it comes to its candidates, and takes the decision of
the payment gate as a *verdict*. The `events` of `OrderLifecycle` (one per version of an Order, as
`EventPerVersion` shows) are the rows `Outbox` delivers. A confirmation of `PendingAction` is the addition
whose locks `Checkout` takes (`BeginAdd`, `CommitAdd`, `RejectAdd`). `Execute` of `ChatRun` is one step; what
happens in it when the agent follows a plan is `PlanExecution`, and the thread in which it happens is the
run of `ChatStream`, which sees of it only that it emits events and returns. `ChatClient` is the other end of
both: its server executes a key once while its run is kept and answers retries from the record (`ExecutedOnce`,
`ResultsAreStored`), ends a stream with its result or cuts it off (`EndsWithResult`, `NoGaps`), and may
leave a key in progress for good. `ExpirationSweep` and `ChatStream` put a prefix before the names they
would share with their neighbours (`SweepInit`, `StreamInit`), so that one module of proofs can extend both.

### OrderLifecycle

A transaction is one action; a payment request is not. `BeginPayment` reads the Order without a lock,
`LookupAttempt` reads the attempt, `ClaimAttempt` is the transaction under the Order's lock,
`ResolveOutcome` the call to the provider outside of any transaction, `PersistOutcome` and
`FinalizePayment` the last two transactions; `CrashRequest` may end it between any two.
`request[r].seen` is the status of the first read. SQLAlchemy returns the instance of the identity map
when the same session selects the row again FOR UPDATE, without reloading its attributes, so
`MayClaim` tests the status *seen*, not the current one. An answer of the provider may be lost in either
direction (`ResolveOutcome`: the operation may be decided while `"unknown"` is heard). `claimedOn` is a
history variable: the status the Order really had when an attempt was inserted.

The properties about charges speak of attempts claimed on a payable Order. The others are the subject
of the first finding below: their existence is not excluded by the code.

### Checkout

`lock` holds the locks a transaction waits for: its Idempotency-Key (the unique index makes a second
insert wait), the SKUs and the rows of the cart. A statement that locks cart rows takes its snapshot in
`SelectRows` and its rows one by one in `LockRow`; a row deleted meanwhile is skipped, a row inserted
meanwhile is not seen. Creation goes by the ids of the rows, `DELETE` without an order by any
(`NextRows`). Edits and removals lock one row and wait for nothing afterwards, so they are single steps.
`ChangeOffer` and `ReserveElsewhere` are the outside world: maintenance of prices and sale status, and the
Orders of other users. `RollBack` stands for a crash, a lost connection and the database's victim of a
deadlock.

### ExpirationSweep and Outbox

Time in `ExpirationSweep` is the number of the last Order whose deadline has passed; in `Outbox` it is
two sets: leases that have expired and retries that are not due. In both, every ordering of the timeouts
with the other steps is possible. The broker of `Outbox` is the sequence of messages it accepted; a send
may fail after it was accepted.

### PendingAction

Every operation locks the row of its action with its first statement and commits before it answers, so an
operation is one step; the hard part is what it finds. `Terminal` rows answer the request whose hash they
store (`Resolved`) and conflict with all others. Two of the definitions keep a difference of the code that
matters: `ConfirmSavePreference` stores the confirmed value with the row and `ConfirmAddToCart` does not,
because it edits the dictionary the session already holds (section 5). Additions are for one SKU, whose item
only they touch; `Checkout` has the other operations of the cart.

### ChatRun

A request goes through `resolve`, `claim`, `insert`, `start`, `load`, `execute`, `append` and `finish`, each
a transaction or a statement that other requests can come between. A claim that is inserted and not
committed makes other insertions of its key wait (`claim`). `age` is how much of its two retentions a key has
used up: the record is kept for 7 days, the run for 30. After the first and before the second the record is
gone and the unique key of the run still refuses a new one (`RunKeyFree`), so a request with an old key is
answered with an error and executes nothing. `StateFits` compares the version the agent computed
(`base.states[c] + 1`, one sequence for each category) with the one the conversation expects.

The deletion of an owner's data is one transaction, but each of its statements sees what has been committed
before it: `BeginDeletion` looks up threads and runs, `DeleteRecords` locks the idempotency records,
`DeleteRuns` deletes messages, runs and thread and commits. Between them a request may start or finish. The
finish of a run begins with its events, whose foreign key finds the run gone (`FinishOrphaned`) or keeps it
until the finish has ended, so that `DeleteRuns` waits; as the finish writes the record last, it may in
turn wait for the deletion, and the database undoes one of the two (`BreakDeadlock`). A conversation that
is *created* during the deletion is not among the threads it looked up: its first message may be deleted
without it, or its record remain without its run (`RecordAfter`).

The cleanup job is a transaction of the same kind. It selects the rows without a lock, the threads last
(`BeginCleanup`), decides by the expiry it has read and deletes by id when it flushes (`Prune`). A row that
has expired stays expired, so for runs and records the time in between changes nothing. A thread does not: a
start that commits in between prolongs it, and the flush still deletes it with all that belongs to it by
then, the run and the record just started among it (`cleanup` is "thread"). A start that has yet to lock the
thread finds it gone (`StartLosesThread`); the flush waits for finishes that keep the thread and for the rows of
a deletion, and the job may die or be undone by the database (`CleanupFails`). One cleanup is at work at a
time, and no day passes while it is (`Age`).

### ChatStream

Four activities for each stream: the run in its thread (`EmitEvent`, `RunReturns`), the callbacks in the
event loop (`Deliver`, `EndRun`), the generator (`Renew`, `Await`, `Take`, `TakeEnd`, `Stop`) and the client
(`Sent`, `Disconnect`). The lease belongs to the backend and may expire whenever the generator has not
renewed it. Every way out of the generator releases the lease, and the release may fail (`Leave`).

### PlanExecution

The plan, its dependencies and the steps with a retry policy are chosen in `Init`, so a run covers all plans
of its length. A parallel plan has no dependencies: the executor refuses others. The planner of the
application builds independent steps only; the executor accepts dependencies, and so does the model. A tool
call is validated, then reserved under the gateway's lock, then executed; the number of its slot orders the
records. Cancellation has two variables: `cancelled` is the request of the outside, `noticed` what the steps
and the gateway share once somebody has looked. The gateway tests only the second.

### ChatClient

An exchange is one request of the page: a stream, read by a loop of its own (`ReadItem`, `ReadEnd`,
`ReadError`, `ReadAborted`), or one JSON call. A message and a key have the number of their first exchange,
so a retry with the same key is an exchange whose `key` is smaller than its number. `wire` is what the page
can read next of an exchange; `reply` and `run` are the server. The awaits of the code are the steps: between
two items, while an action is loaded (`ActionLoaded`) and at the end of a stream, other loops and the user go
on. The page is busy while the *shared* stream state is connecting or running, not while a loop is at work;
after a result the user may send again, and the loop of the first stream still has its end to write.
The sequence numbers of two streams are not comparable, so an event of one may or may not be ignored because
of the other (`Reduced`). The thread and the user stay the same; a change of either makes a retry a new
message.

The page reads the same end of a stream in two cases the model keeps apart: after its result ("closed") and
without it, because its buffer was full ("cut"). `NewKeyExplained` needs the difference. It says that a
message gets a new key only after an exchange with one of its earlier keys is *concluded*: its loop has shown
a final answer or has found the end without showing one. A broken connection, an abort and a reply "in
progress" conclude nothing. And what concluded it came from the server for this exchange (`ByServer`): the
answer to its own key, or a stream that was cut off. The last part holds only where a loop has the page to
itself. Loops that were at work together (`overlapped`, a history variable) may show each other's responses, and
one may ignore its own result and then read its end; section 5 has the behaviour.

## 3. What is checked

| Run | Question | Instance |
|---|---|---|
| `orders` | One active attempt, one success, agreement with the provider, no charge for a closed Order, settled attempts kept, units conserved, reservations and events follow the Order | 2 Orders, 1 SKU with 1 unit, 2 keys, 2 requests |
| `retry` | Claimed payments settle, overdue Orders lose their reservation (liveness), `OrderLedger` implemented | 1 Order, 2 SKUs, 2 keys, 1 request process |
| `checkout` | Items accounted for, versions fix quantities, Orders are what was previewed, repeated creations answered, no circle of waiting transactions without a clearing | 2 SKUs with 2 and 1 units, 2 transactions, 2 keys, quantities and versions to 2, two prices |
| `sweeps` | No double release, closable Orders close (liveness) | 3 Orders, 2 sweepers, batch 2, 1 blocked Order, a crash |
| `outbox` | First delivery in order, one lease per Order, published is final, every event settles (liveness) | 1 Order, 2 events, 2 workers, 2 attempts, 1 redrive |
| `pending_actions` | Effects and records agree, answers agree, resolved once | 2 actions, quantities 1 and 2, cart limit 2 |
| `chat_runs` | Executed once, answers are stored, state built on the last one, nothing deleted comes back, lost runs end (liveness) | 2 processes, 2 keys, 1 category, 2 executions, 1 fault or deletion, 1 cleanup at a time |
| `streams` | No gaps, ends with the result, no endless wait, only a lost lease cancels | 2 streams, limit 1, buffer 2, 3 events, one of them hidden |
| `plans` | Tool budget, complete audit, final cancellation, final refusal | 3 steps, 2 workers, 2 attempts, budgets of 2 |
| `chat_page` | A new key only after a concluded exchange, concluded by the server unless loops overlapped | 3 exchanges of any kind, 4 streams on which nothing fails |
| `stale_claim`, `category_switch` | the findings | the smallest that show them |

Why the bounds are enough. Every safety property below is also proved for instances of every size (section
4), so the bounds decide what the runs show of the liveness properties, and that each property can be
violated at all: its mutant is found in the same instance. In `orders` two requests may carry one key (a
retry that races with the original) or two (a competitor), on one Order or on two that want the last unit,
beside Cancel and expiry. Several SKUs are in `retry`, where `OrderLedger` keeps the books of both. In
`Checkout` two transactions contain every pair of lock orders, and two items let one be ordered while the
other arrives; circles of three transactions are beyond the run and excluded by the proof. The checkout
instance changes prices; that a SKU is withdrawn is the same comparison of the same snapshot
(`FingerprintMatches`) and is not in it. In `Outbox` an aggregate never has more than two events, as an
Order has two versions; with one aggregate a batch never holds two events, because only the first of an
aggregate may be claimed. A sweep with a batch of two over three Orders uses its batch up, and one blocked
Order is fewer than the batch, the condition under which `ClosableOrdersClose` holds. Pending actions share
nothing but the cart, so two with a cart that holds the units of one reach every refusal. Two processes and
two keys in `ChatRun` give a retry that races with its original and a run that competes for the
conversation; one fault is enough to lose each transaction in turn, and a deletion takes its place. Versions
of two categories are the subject of `category_switch`; within one category they are one sequence. In
`ChatStream` a limit of one with two streams makes the second wait for the first one's lease, and a buffer
of two with three events, a result and an end overflows at every place. In `PlanExecution` three steps
exceed every budget of two. Three exchanges of `ChatClient` are a message, its retry and the retry of that,
or the loops of three messages. A fourth is needed for a retry of one of three overlapping loops, the case for
which `NewKeyExplained` excepts them: the constraint of `MCChatClient` admits it when all exchanges are streams,
none fails and no run ends badly (`PlainStreams`), so that nothing but the overlap can be the reason of the
new key. In this instance `NewKeyAfterOwnOutcome`, the property without the exception, is violated; with three
exchanges it is not. `chat_runs` has 1.1 million states and `chat_page` 5 million; each takes two to
three minutes. Keys of `ChatRun` are alike, so `LostRunsEnd` is stated for one of them. Bounds that only make a model finite (`MaxItems`, `MaxVersion`, `MaxTokens`,
`MaxRedrives`, `MaxBlocked`, `MaxUserLocks`, `MaxCrashes`, `MaxExecutions`, `MaxFaults`, `MaxEvents`,
`MaxExchanges`, `MaxMixed`) are constants named as such.

Some definitions state what no run checks, because a theorem does: the type invariants,
`DependenciesFirst`, `AttemptedOncePerSweep`, `AttemptsRespected` and `AdmittedWithinLimit`. They hold in the
instances above, as does `SkippedForCause`, which is not proved; the runs are kept for what says more.
`InconsistencyIsReal`, `ConfirmedValueShown`, `OnlyExpiredPruned` of `ChatRun` and the last five definitions of
`ChatClient` do not hold (section 5).

Each property of a passing run has a mutant in `PROJECT.json`, a plausible mistake in one mapped
definition, that makes TLC find the property violated. The definitions marked *Faulty* in the modules
are these mutants and nothing else uses them.

### Fairness

- `RetriedSpec` (payments): the sweeper is run again and again (`scripts/expire_orders.py` is meant to be
  scheduled), and a client whose payment is not settled retries with its key. Crashes may come at any
  step but not before the same step for ever, hence strong fairness; the provider is reached at last
  (`ProviderAnswers`).
- `FairSpec` of `ExpirationSweep`: weak fairness of the sweeper's steps and of the end of users'
  transactions. A sweeper is never obliged to get a particular Order.
- `FairSpec` of `Outbox`: workers poll for ever (`run_forever`) and are restarted, sends return, leases
  expire and backoffs end. Nothing is assumed of the broker: it may refuse for ever, and then the event
  ends in the dead letters, which `EveryEventSettles` counts as settled.
- `FairSpec` of `ChatRun`: a request that has a worker takes its next step, days pass, and the cleanup job
  runs again and again (preflight and readiness ask for it) and reaches its flush. A deletion ends, by its commit or undone by the
  database. No request has to arrive, so a lost run ends
  by its retention alone.

`Checkout`, `PendingAction`, `ChatStream`, `PlanExecution` and `ChatClient` assume no fairness and have no
liveness property. That a stream does not wait for ever is the invariant `EndWillCome`: what the generator
waits for is in its buffer or will be put there by the end of its run.

### Deadlock checking

It is on in every run but `streams`, whose streams end and leave nothing to do, and `chat_page`, which uses
its exchanges up. `PlanExecution` has a step for
the finished plan, so that every other state without a successor would be an error. In the other
instances some step is always possible (a request may begin, a worker polls, a transaction rolls back).

## 4. What is proved

Every invariant and every action property that a passing run checks is a theorem of its specification, for
every value of the constants the module's assumptions allow. So is the refinement of `OrderLedger`. The
properties are seldom inductive, so each module of proofs states the facts that are, has one lemma for each
action that keeps them, with one step for each conjunct the action can disturb, and draws the theorems from
the result. The assumptions are those of the modules; they say that bounds are numbers, and what is named
here besides.

### Orders and payments

`OrderLifecycle_proofs`, for every set of Orders, SKUs, keys and requests: `TypeCorrect`,
`ReservationsCorrect`, `PaidOnce`, `ActiveAttemptUnique`, `ProviderAgrees`, `OrderProtected`,
`CustomerChargedOnce`, `StockIsConserved`, `EventsComplete`, `SuccessKept`, `LedgerImplemented`. The
assumptions are `Stock \in [Skus -> Nat]` and a positive `MaxQuantity`.

The inductive invariant is `IInv == TypeOK /\ RequestsGrounded /\ TablesAgree`. What it adds:

- `CustomerChargedOnce` needs that a closed Order is not charged later. The charge is made by a request
  on its way, so `RequestsGrounded` says that such a request works for an attempt that exists and carries
  an outcome the provider really has.
- `ActiveAttemptProtectsOrder` needs that an attempt claimed on an Order that was *not* payable never
  meets a payable one again: `ClaimsRecorded`.
- `PaidOnce` and `ActiveAttemptUnique` need each other: a second success would come from a second active
  attempt, which `MayClaim` excludes only while the first is still active, and the paid Order excludes
  afterwards.
- `VersionsFollowOrder` gives the type of the versions and the sequence of the events.

`StockIsConserved` is proved beside it. Its sums are over the Orders that hold units of a SKU, a finite set
also when the set of Orders is not (`StockCounted`); each transition adds one Order to such a set, removes
one, or moves it to the other, and `Totals` says what that does to the sum.

`LedgerImplemented`: under the mapping at the end of `OrderLifecycle` (free units are those on hand and not
reserved, an Order is charged when an attempt claimed on it while it was payable succeeded at the provider)
every step is a step of `OrderLedger` or leaves it unchanged. The interesting steps are the provider's answer,
which is `Charge` when it is the first success of an attempt claimed on a payable Order and a stutter
otherwise, and the finalization, which is `Pay` because an attempt of an Order that is still payable was
claimed while it was payable (`ClaimsRecorded`), so that its Order is charged.

The last part is about `ExpirationSweep`, for any number of Orders and sweepers: `ReservationsReleasedOnce`
and `SweepAdvances`. A reservation is not released twice because whoever holds the lock of an Order finds it
open (`HeldOpen`): SKIP LOCKED and the test of the status are in one statement, and nobody else can close the
Order meanwhile. A sweep attempts each candidate once because its cursor has passed all of them
(`TriedCounted`). The assumption says that no sweeper has the name of the user or of nobody.

### Checkout

`Checkout_proofs`, for every finite catalog and any number of transactions and keys: `TypeCorrect`,
`ItemsAreAccounted`, `VersionFixes`, `OrdersArePreviewed`, `ReplaysAreAnswered` and `OnlyClearDeadlocks`.

`CartInv` says where the items are: ids are given out in order and each is in the cart, in one Order or
removed (`ItemsInOnePlace`, which counts nothing and so survives each step), and what a token shows of an item
was true of it once, with a version that was not higher (`TokensHistoric`). An Order is what was previewed
because its creation compares the snapshot with rows it has locked, and equal versions mean equal quantities.

`Disciplined` says how a transaction takes its locks: the key first (`KeyHeld`), then SKUs in the order of
their numbers (`SkusInOrder`), then rows in the order of their ids (`RowsInOrder`); an addition has one SKU
and one row (`AddIsSmall`). `OnlyClearDeadlocks` follows for circles of every length: in a set of transactions
that all wait for one another, none of which clears a cart, take the greatest lock of the highest class that
one of them waits for. Its holder waits for a greater one. Locks are compared by the numbers of SKUs and
items, hence the assumption that `Skus` is a finite set of numbers.

### Outbox

`Outbox_proofs`, for every set of Orders and workers, every batch size and every limit of attempts and
redrives: `TypeCorrect`, `DeliveriesInOrder`, `AggregatesHaveOneLease`, `PublishedStaysPublished` and
`AttemptsAreRespected`. A worker that lost its lease may still send and report, so that the claims are what
matters: an event has the lease of its newest claim or none (`LeasesGrounded`), no two workers have the same
claim, and while a claim's lease is in force its attempt is the event's (`ClaimsUnique`). A claim is made only
when all earlier events are published and outlives its lease, so that `OrderRespected` states the fact for
leases and for claims. `FirstDeliveryInOrder` then needs that the broker has whatever is published
(`PublishedAccepted`).

### Pending actions

`PendingAction_proofs`, from `QuantitiesAssumption`: `TypeCorrect`, `AnswersAgreed`, `EffectsAreRecorded` and
`ResolutionFinal`. `AnswersAgree` compares two replies; the invariant compares each with the row as it is now
(`RepliesExplained`): the recorded result for the request that resolved it, a conflict for others. It stays
true because a terminal row is never written again. `EffectsAreRecorded` is a sum over the confirmed additions,
to which each confirmation adds one.

### Runs and plans

`ChatRun_proofs`, for every set of requests and keys and every finite set of categories: `TypeCorrect`,
`AnswersStored`, `DeletionFinal`, `KeyExecutedOnce` and `WritesAreDerived`. Whoever works on a run, has an
answer of it or has erased it refers to it by its number, so the invariant keeps the numbers apart: those in
use have been given out (`NumbersGiven`), no run at work has an answer yet (`WorkUnanswered`), and a record is
tied to the run that carries its key (`RecordsAgree`). Without them a stored result could be that of a later
run with the same key, after the first was pruned or deleted. `KeyExecutedOnce` says what may end the keeping
of a run: its retention, the owner's deletion, and a cleanup that has found the whole thread expired. The last
is an exception the code needs and not one it means (section 5); the cleanup's own types and steps are in the
invariant, so that nothing else can take a run away. `WritesAreDerived` needs that what a request
loaded is the present state of the conversation or has a lower version (`BasesBehind`): the version is the
maximum over the categories, each write raises it, and a conversation that starts anew has lost its runs.

`PlanExecution_proofs`, for plans of every length: `TypeCorrect`, `ToolBudgetKept`, `DependenciesKept`,
`CancellationFinal`, `RefusalFinal` and `AuditIsKept`. The two final ones are action properties and follow from
the guards of each step with the types; `DependenciesKept` needs that a completed step stays completed.
`AuditIsKept` rests on the slots (`SlotsGiven`): each number given out belongs to one record or to one step at
work, so a new record has one place among the sorted ones and the sorting the module asks for exists.

### Chat delivery

`ChatDelivery_proofs`, about the page, for any number of exchanges: `TypeCorrect` and `KeysExplained`. A retry
says nothing of the exchange it was made from, so the invariant demands a concluded exchange for the key of
each terminal retry (`OffersExplained`), and says that a retry under way is not offered again, or a second
click would replace its key. No step takes a conclusion back (`FinalKept`): what a loop has shown stays, the
server has decided it (`ResultsDecided`), and a loop that is over reads no more. That an exchange outside
`overlapped` was concluded by the server needs an invariant about the state the loops share (`Undisturbed`):
while a loop has the page to itself, the last number and the response in the shared state are its own, what
it shows is its own response, and it has shown it when its result is off the wire. So the end it then finds
without having shown anything is that of a stream cut off.

About the server, for any streams, limit, buffer and events: `StreamTypeCorrect`, `NothingIsMissedBefore`,
`EndedIsComplete`, `EndIsQueued`, `CancelledHasNoLease` and `LeasesAreLimited`. What a client has received says
nothing of what is on its way, so `StreamInv` follows each event from the thread of the run over the callbacks
of the event loop and the buffer to the client (`Flow`): the three are in order, one after the other; whatever
has arrived, all before it has arrived; and unless the buffer has overflowed nothing that was reported is
missing. `EventsAssumption` says that hidden events are some of the events.

### How, and what is not

`Totals` proves what the sums of the community modules return for the empty set and for one member more or
less. They are recursive functions that pick an element by CHOOSE, and induction is not at hand: the
theorems of the library take an operator as a parameter, which the provers cannot instantiate. The
strict subsets of a finite set are well-founded, so a property that fails has a smallest counterexample
(`SmallestCounterexample`), and that is a statement about sets. The greatest member of a finite set of numbers
is found in the same way (`FiniteHasMax`).

Only model-checked: liveness (`ClaimedPaymentsSettle`, `OverdueOrdersSettle`, `ClosableOrdersClose`,
`EveryEventSettles`, `LostRunsEnd`), since fairness needs ENABLED, which the provers do not know; and the two
runs that show a finding.

## 5. Findings

Shown by a run:

- **A payment may be claimed on an Order that is closed** (`stale_claim`). `claim_payment_attempt` tests the
  status of the instance its session loaded before it waited for the row lock. A Cancel, an expiry or
  another payment that commits in between goes unnoticed; the provider is called for an Order that cannot
  become paid. The finalization rejects it, so the stock stays right, but the customer is charged.
- **The first recommendation after a change of category is lost** (`category_switch`). It is numbered after
  the last state of *its* category, so with 1, and the conversation expects the number after its last state
  of any category. The finish rolls back as a whole and, with a key, the request is answered with
  `persistence_failed` and its key stays in progress until it is pruned.

Met while modelling, stated by the definitions named and not given a run:

- **A replay may report an inconsistency that does not exist** (`InconsistencyIsReal` in `OrderLifecycle`,
  `services/payments.py:157`). Order and attempt are read in two statements; a finalization between them makes
  the second newer than the first.
- **Bad Orders at the head of the queue block the rest** (`ExpirationSweep` with `MaxBlocked` equal to the
  batch, `services/order_expiration.py:99`). Each sweep then spends its batch on them. The specification of the
  change promises progress with one bad Order and does not say that it must be fewer than the batch.
- **A confirmed addition shows the old quantity** (`ConfirmedValueShown` in `PendingAction`,
  `services/pending_actions.py:379`). The session does not see the edit of the dictionary it holds, so the row
  keeps the proposed quantity while the cart and the recorded result have the edited one.
- **The cleanup job may delete a run that has just started** (`OnlyExpiredPruned` in `ChatRun`,
  `repositories/runtime_maintenance.py:132`). The job reads all threads without a lock and deletes the expired
  ones by id at its flush. A start that commits in between prolongs the thread; its run and its record go with
  the thread while the run executes, its finish stores nothing, and a retry with its key executes again.
  The function says that it deletes "expired runtime rows according to retention" (line 73).
- **A message may get a new key although its result came** (`NewKeyAfterOwnOutcome` in `ChatClient`,
  `streamReducer.ts:76`). The end of an answered stream marks the state that the second message is using as
  failed, so a third can be sent; its events raise the last number, the result of the second is ignored, and its
  end then counts as a failed run. The specification of the retries says that the client "SHALL reuse that key
  for transport retries until the authoritative result is terminal" and knows of no other loop
  (`openspec/specs/chat-retry-idempotency/spec.md:11`).
- **A message may be executed again while its first run goes on** (`NoReplacement` in `ChatClient`,
  `ChatPage.tsx:145`). A stream that ends without a result, because its event buffer was full, counts as the
  end of the run; the retry has a new key. The specification of the retries
  (`openspec`, chat-retry-idempotency) promises that a retry recovers the first execution instead of
  starting a replacement.
- **An answered message may be offered again as interrupted** (`AnsweredIsNotInterrupted`,
  `ChatPage.tsx:148`), when the connection breaks between the result and the end of the stream. The retry has
  the old key and shows the answer twice.
- **The end of an answered stream may be taken for that of the next message** (`AnswersOwnMessage`,
  `LastMessageRecoverable`, `ChatPage.tsx:144`). It finds the shared state running, marks it failed and lets
  a third message be sent while the second is under way; a loop may then show the response of another
  message as its own, and the error and retry of the last message may be overwritten.

Not disagreements with a document, but worth knowing: after a lease was lost or its stream left, its run
goes on, so more runs than the limit may be at work, while leases never exceed it (`AdmittedWithinLimit`). A
client whose buffer is full when the run ends does not get the result over the stream and has to ask for it
with its key. Between day 7 and day 30 a key answers `persistence_failed`. A conversation that starts while
its owner's data are deleted may leave a record without a run, and its key answers `result_unavailable`
until the record expires. A tool call is refused for a
cancellation only after a step has looked for it.

## 6. What is not modelled, and the plan

Left out for good: the encoding and signing of tokens, formatting of money, hashes of request bodies (a
request whose body differs is rejected and changes nothing), read-only endpoints, recommendation and agents
(functions of one request, or language models), evaluation, notebooks, and deployment scripts. They are most
of the repository's lines. Of the frontend the chat page is modelled, without its drawer for pending actions;
the pages of cart, checkout, orders and payment send one request for each click, with keys whose repetition
`Checkout` and `OrderLifecycle` allow at any time. Capabilities, schemas and ownership of tools are tests of
one call. The rate limiter, the duplicate claims and the cache of the coordination backends have no caller in
the application. Of the deletion of an owner's data only the tables of the runs are modelled: nothing else
that is deleted is tied to something that a request at work may still write, except by the order of two
commits.

Worth adding, in this order: an abstract outbox channel (each event delivered at least once, first deliveries in
order) implemented by `Outbox`; the delegation depth and its budgets across nested plans; memory records and
summaries of a conversation; the keys that the checkout and payment pages keep across a reload.

## 7. Running it

    tlc -workers 2 -config OrderLifecycle_orders.cfg MCOrderLifecycle.tla
    tlapm OrderLifecycle_proofs.tla

and in the same way the modules `ChatRun_proofs`, `PendingAction_proofs`, `PlanExecution_proofs`,
`ChatDelivery_proofs`, `Outbox_proofs`, `Checkout_proofs` and `Totals`. Parsers, TLC and `tlapm` need the
community modules and the library of TLAPS in their path.

`PROJECT.json` names the module and the configuration of every run.

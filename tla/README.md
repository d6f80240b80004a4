# Torchwood in TLA+

Torchwood is a backend-as-a-service in Go: projects with documents, storage,
accounts, payments, virtual assets, subscriptions, leaderboards, cloud functions
and webhooks, served by `cmd/server` processes and kept going by `cmd/worker`
processes over PostgreSQL and Redis. This directory holds TLA+ models of the
parts where processes, crashes and time meet, the TLC configurations that check
them, and TLAPS proofs about them. `PROJECT.json` is the index: for every
definition the lines of `src/` it stands for, every run, every hazard with the
properties that watch it.

Paths below are relative to `src/`.

## 1. The system

Two kinds of processes, both run in any number of copies, share no memory. They
meet in PostgreSQL (one schema per project, plus shared tables such as the event
outbox) and in Redis (one event stream, one invocation queue, watermarks, locks,
sessions).

| Component | State it keeps | Operations | Where it is hard |
|---|---|---|---|
| **Webhook deliveries** `internal/app/webhooks/deliveries.go`, `bunrepo/webhook_delivery_repo.go`, `domain/webhooks/delivery.go` | `webhook_deliveries` rows: status, attempts, `next_attempt_at` | fan out an event into rows, claim due rows, attempt, settle, redeliver, prune | workers scan without a lock and arbitrate by compare-and-set; a late answer meets a settled or redelivered row; a worker dies between claim and outcome |
| **Webhook subscriptions** `app/webhooks/service.go` | `webhooks` rows, in-process snapshot of the enabled ones | create, update, pause, delete, rotate secret | stored deliveries against a changed subscription; stale snapshot |
| **Event outbox** `infra/events/outbox*.go` | `document_events_outbox`, `document_events_outbox_dead` | insert in the caller's transaction, claim (SKIP LOCKED), XADD, fail, dead-letter, replay, clean up | numbers are taken at insert and appear at commit; a claim outlives its copy; an XADD whose answer is lost |
| **Event stream, realtime** `infra/realtime/stream.go`, `subscriber.go`, `hub.go` | the Redis stream, a group per server, marks to flush | append, trim, sweep idle groups, read, fan out, mark published | trimming looks at nobody's position |
| **Subscription consumers** `worker/webhook_events.go`, `worker/event_triggers.go` | group position and pending entries, watermark | group creation, backfill, read, take over, acknowledge, advance | crash between any two of them; the backfill must find what trimming took |
| **Function invocations** `app/functions/invocations.go`, `bunrepo/function_repo.go` | `function_invocations` rows | synchronous and queued invocation, process, retry, recover orphans, prune | at-least-once queue in front of an at-most-once call |
| **Redis queue** `infra/queue/redis_queue.go` | one stream and one group per queue | enqueue, take over, read, acknowledge, trim | redelivery after 15 minutes, whoever still works |
| **Worker** `worker/worker.go`, `trimmer.go` | consumer goroutines and tickers | consume, retry, give up; tickers | acknowledgement, retry and failure are three calls |
| **Function triggers** `app/functions/triggers.go`, `bunrepo/function_trigger_repo.go` | `function_triggers`, `next_run_at` | claim due cron triggers, fire, HTTP triggers | claimed before the invocation exists |
| **Function management, client quota** `management.go`, `clientinvoke.go`, `cache.go` | functions, Redis counters | edit; count a client's calls | counter with a database fallback |
| **Payments** `app/payments`, `infra/payments/*` | orders, callback events, fulfilments | create, callbacks, receipts, refund, manual fulfilment, expiry | repeated and reordered callbacks; a provider call outside the transaction |
| **Assets** `app/assets` | holdings, ledger, idempotency keys | grant, consume (first to expire first), transfer, expire, reconcile | balance = ledger under concurrency and retries |
| **Subscriptions** `app/subscriptions` | subscriptions, plans | subscribe, renew, past due, grace, cancel, hosted callbacks | charge, fulfil and advance in one cycle |
| **Leaderboards** `app/leaderboards` | entries, settlements, grants | submit, settle, rerun, void | a settlement that dies; a void against a round in flight |
| **Documents** `app/documents`, `infra/documentdb`, `bunrepo/idempotency_repo.go` | collections, documents, versions, request keys | CRUD with versions, transactions, idempotent requests | a request that outlives its key |
| **Sessions** `infra/auth` | Redis sessions, refresh tokens | log in, rotate, revoke, evict | concurrent rotation of one token |
| **Storage, analytics, billing, runbook, semaphore** | files, counters, leases | uploads, aggregation, step scripts, slots | completion against clean-up; expired leases |
| **Accounts, console, API, CLI, SDK** | rows behind authorisation | validation and translation | little concurrency of their own |

How they interact:

    any service ──Publish in its transaction──> outbox ──worker XADD──> stream
    stream ──group per server──> realtime hub ──> sockets; mark published
    stream ──group "webhooks"──> delivery rows ──due scan──> endpoint
    stream ──group "triggers"──> invocations ──queue──> worker ──> target
    request ──> invocation row ──> target (synchronous) or queue
    provider callbacks ──> orders ──fulfil/reverse──> assets, subscriptions
    leaderboards ──grants──> assets

What makes each of them correct:

* deliveries: an attempt is granted once, attempts are spaced, an outcome is
  final, nothing stays pending for ever, `delivered` means the endpoint took it;
* pipeline: a committed event is delivered at least once to each subscription
  feature, is never in two homes and never disappears silently;
* invocations: called at most once, completed only if called, a queued row has a
  message, and what the queue holds is taken up;
* payments: goods are granted once and only for money, a refunded order is
  reversed or recorded as owed, and what was paid is resolved;
* assets: the ledger adds up, and nothing is made or lost on the way;
* subscriptions: no renewal is free or paid twice, a cancellation lets nothing new
  become payable, and no period stays due for ever;
* leaderboards: one reward per rule and rank, booked when it was made;
* request keys: one holder at a time, a replay tells the truth;
* cron triggers: one invocation per scheduled instant;
* sessions: one lineage of refresh tokens, and a revoked session is refused.

Every place of the code where one of these could go wrong and a test would hardly
notice is a row of "hazards" in `PROJECT.json`, with the properties that watch it
or the reason why none does.

## 2. The modules

### WebhookPolicy, WebhookDelivery, MCWebhookDelivery, WebhookDeliveryProofs

`WebhookPolicy` is the pure retry policy of `domain/webhooks/delivery.go`: the
wait after the n-th attempt and whether a due row is settled instead of claimed.
`WebhookDelivery` is the machine around it, for one project.

| TLA+ | Code |
|---|---|
| `rows` | `webhook_deliveries`, unique per (hook, event); `round` counts redeliveries and is observed only |
| `hook`, `index`, `inbox` | `webhooks.status`; the consumer's snapshot; the event being fanned out |
| `ScanDue`, then one `ExhaustCandidate`, `ClaimCandidate` or `LoseCandidate` per row | `ClaimDue`: the unlocked query, then for each row `MarkFailed` or the UPDATE that compares `attempts` and `next_attempt_at` |
| `flights` and `StartAttempt`, `EndpointTakes`, `EndpointRefuses`, `MarkDelivered`, `RecordAttemptError`, `DropClaim`, `EndRound` | `runClaims` and `deliverOne`, one goroutine per claim; `accepted` is what the endpoint has seen |
| `AbortRound` | a database error inside `ClaimDue` (returns no claims), or the death of the worker |
| `SetStatus`, `DeleteWebhook`, `RedeliverDelivery`, `PruneTerminal` | the administrator and retention |

Abstractions. A settled row has `next = Settled`: the code stores the instant of
settlement, in microseconds, which no scheduled instant repeats; so the
compare-and-set of a stale scan never matches it. Audit columns, the budget per
round and the order of projects are left out, and a worker's candidates are taken
in any order. The branch for a payload that does not parse (the service wrote it
itself) is left out. There is one consumer with one snapshot. A deleted hook is
not created again under the same identity.

### EventPipeline, DeliveryContract, EventPipelineProofs

From a transaction that publishes an event to the rows a subscription feature
stores for it, following `worker/webhook_events.go`. `event_triggers.go` has the
same structure under its own group and watermark.

| TLA+ | Code |
|---|---|
| `producer`, `outbox`, `nextSeq`, `dead` | the caller's transaction, the two outbox tables, the identity column |
| `held`; `ClaimRows`, `Dispatch`, `DispatchFails`, `WorkerStops`, `DispatchGrowsOld` | the copies `claim` returned; `dispatch`, `failRow`, a crash, the 2-minute redispatch window |
| `stream`, `trimmed` | every entry ever added, and how many XTRIM took |
| `server`; `ServerReads`, `MarkPublished`, `ServerRestarts` | one realtime server: its position and its marks |
| `group`, `consumer`, `watermark` | the Redis group, its members, the monotone watermark |
| `StartConsumer`, `CheckGap`, `ScanRange`, `Deliver`, `Advance` | `Run`: group at the head, then the backfill in batches; an advance that fails (a fault) leaves the watermark and goes on |
| `ReadGroup`, `ClaimStale`, `Deliver`, `Ack`, `AckFails`, `Advance` | one round of `consumeSession` |
| `handled` | observed: events whose delivery rows were stored |

Abstractions. Events are named in the order in which they take numbers. Instants
become actions: `DispatchGrowsOld` is the 2-minute window, and it costs a fault
when somebody still works on the row; `ClaimStale` is the 1-minute idle time, and
costs a fault when the member is alive. The back-off of `available_at` is dropped
(a failed row may be claimed at once). A batch is any non-empty set of claimable
rows, which covers SKIP LOCKED and the limit. Entries of one member's batch are
processed in any order. A replay of a dead letter is one step, as its transaction
is. The recreation of the group at `0` after NOGROUP is never reached, because
each session creates the group at `$` first; it is left out.

Three constants name the environment: `Deployed` (the group exists before the
first event), `LongOutage` (an outage may outlast the 24 h a published row is
kept), `WideTrim` (a trim may take entries the backfill cannot give back). The
documentation promises delivery for the first without the other two.

`DeliveryContract` is the promise without the tables: per event the place its record
is in (new, in an open transaction, kept, dead, gone, aborted), whether the stream was
told of it and whether the subscription was. A kept record is dropped only after the
stream was told, it is buried only from where it is kept, and nobody hears of an event
that did not commit. `EventPipeline` implements it: the place is `Home` (from the
producer and the two tables), what was told to the stream is `Entered`, every event
ever added to it, trimmed or not.

### FunctionInvocation, InvocationContract, FunctionInvocationProofs

| TLA+ | Code |
|---|---|
| `row`, `request` | `function_invocations.status`; where `invokeInternal` stands |
| `CreateInvocation`, `CreateFails` | the insert of the row, which may report an error though the row is stored: the request then returns (`abandoned`) |
| `EnqueueInvocation`, `EnqueueFails`, `RecordEnqueueFailure` | the queued path, and an enqueue that reports an error though the message may be there |
| `CallInRequest`, `RefuseInRequest`, `RecordInRequest` | the synchronous path: row, call, outcome |
| `log`, `trimmed`, `group`; `ClaimPending`, `ReadNext`, `ReadFails`, `TrimQueue` | the Redis stream and group behind `Dequeue`, a read whose answer is lost, and the trimmer |
| `consumer`: loaded, claimed, ready, called, retry, exhausted, done | the statements of `consume` and `ProcessInvocation` between two calls of database or queue |
| `RecoverOrphan`, `PruneInvocation` | the tickers |
| `runs` | observed: calls that reached the target |

Abstractions. The age of a row is not modelled: recovery may take any active row
at any time, also one in use. That is real, because a queued row carries no
snapshot of its function's timeout, so a run longer than the grace is recovered
under the running call. Execution tokens, metering, metrics, secrets (their
failure is `RefuseInRequest`, or the failing branch of `LoadFunction`) and the
client quota are left out, and a message that does not parse cannot be in the
queue. A notification that lost its metadata panics before its call; `worker.go`
has no recover around it, so the model drops the consumer.

`InvocationContract` is what the record of an invocation tells its reader, in two
variables per invocation, the status and the number of calls: it goes back to the queue
only as long as nothing was called, it is called once at most, `completed` comes after
the call. `FunctionInvocation` implements it with `row` and `runs`; the queue, the
consumers and the requests are what the contract does not mention.

### Payments, PurchaseContract, PaymentsProofs

`Payments` is a one-off purchase in `app/payments`: the order, the callbacks, the
fulfilment, and the calls that talk to the provider between two transactions.
`PurchaseContract` says what the buyer and the shop are promised, in two variables
per order (where the money is, where the goods are); `Payments` implements it.

| TLA+ | Code |
|---|---|
| `status`, `CanTransition` | `payment_orders.status`, `allowedTransitions` |
| `seen`, `fulfilment`, `ledger` | the recorded callback events; `payment_fulfillments.status`; the keys `fulfill:<order>` and `reverse:<order>` in the asset ledger |
| `channel`, `money`, `sent`, `Pay`, `DeclinePayment`, `ReturnMoney`, `ReturnPart` | external: a provider with a checkout session or an app store, and what it notifies |
| `InsertOrder`, `OpenSession`, `RecordSession`, `CloseExpired` | `CreatePayment` with its two transactions and the call between them; `CloseExpiredInProject` |
| `HandleCallback` with `ApplyPaid`, `ApplyFailed`, `ApplyRefunded` | one transaction: record the event, lock the order, move it. `VerifyReceipt` goes the same way |
| `BeginCall`, `RequestRefund`, `CommitRefund`, `CommitManual`, `DropCall` | `Refund` and `ManualFulfill`: an unlocked read, a call, a transaction that looks again (or does not) |

Abstractions. An amount is full or not. A failing transaction leaves no trace, so it
is a step that is not taken. Notices are never lost for good but may come in any
order, any time later, and as often as the provider likes (`seen` makes the
repetition a stutter). The goods are one asset grant.

### Subscriptions, SubscriptionsProofs

A platform-billed subscription of `app/subscriptions`, with the nested transactions
of `app/payments` it places orders through.

| TLA+ | Code |
|---|---|
| `sub` | the row: status, the number of the cycle, periods left, cancellation, grace |
| `atCancel` | observed: the cycle, the bills and what was payable when the owner cancelled |
| `job`: placed, opened | the renewal transaction that holds the row lock while `CreatePayment` runs two transactions of its own and a call to the provider |
| `callback` | the callback that has the order's lock and waits for the row |
| `NextAttempt`, `PlaceOrder` | `createBillingOrder`: the smallest attempt of the cycle that has not lapsed |
| `EndSubscription`, `ChargeWallet`, `ChargeByOrder`, `OrdersExhausted` | `processDue` and `tryCharge` |
| `CallbackLocksOrder`, `CallbackFulfils`, `CallbackFindsNone`, `CallbackFails` | `HandleCallback` down to `FulfillPaidOrder` |
| `CircularWait`, `ReadTimeout` | the wait for each other's locks over two connections, which the database cannot see, and the timeout that ends it |
| `CancelAtPeriodEnd`, `ForceTerminal`, `PeriodEnds`, `GraceEnds`, `LapseOrder` | the owner, the administrator, time, expiry of orders |

Abstractions. A price is one unit. Instants are counted in periods. The row is
written in the transaction that places the order only after the provider answered,
so a rollback undoes nothing but a subscription that is new. The first period is the
one the row is born with (`left = 1`): a trial, a free plan's, one bought from the wallet
at once, or, on an order-billed plan without a trial, the one it waits in for its first
payment; that payment starts the next period, so `RenewalsPaid` counts renewals.
Subscriptions share no state: the module holds one. The hosted mode, where the provider keeps the cycle, is
left out.

### Assets, HoldingsContract, AssetsProofs

Holdings of one definition and their ledger (`app/assets`). `Begin` is the look for
the key and the first list statement, `Lock` the second one of a transfer,
`Commit` the insertion of entries under unique keys; `Grant`, `Consume` (first to
expire first, `Fefo`), `Transfer`, `Mutate` and `Expire` are the commands, and
`ExpireDue` the ticker's batch. A list statement waits for the locks of the rows it
sees and does not see a row inserted meanwhile, which is READ COMMITTED with
`FOR UPDATE`. Keys are structured as in the code: the key of the caller for the
first entry, a derived one for each further entry, so that a retry meets them.
`SoonestFirst` is the ORDER BY of the list statements: a row comes after those in front
of it, by expiry and then by identifier (the ticker's statement leaves ties open; they
only order its entries). `NewId` hands out identifiers that no entry has used, in an
order that means nothing, as random ones do. Levels and metadata of instances, the
editing of definitions and the purchase of assets with assets are left out.
`AssetsProofs` holds the proofs.

`HoldingsContract` is the account an owner believes to have: for every instant, what is
left after it (`left`), and which keys have taken effect (`done`). A command moves exactly
its quantity, in one step and under a new key; a consumption takes what has not expired; a
transfer hands on each amount with its expiry; time takes nothing, and clearing only what
has lapsed. `Assets` implements it: an account is the sum over the owner's rows, `done`
the keys of the entries that callers chose.

When expiry is judged differs. `Grant` and `Consume` read the clock after their row locks;
`Transfer` reads it before its two list statements, which may wait (`write.go:311`). So a
transaction carries `now`, the clock of its `Begin`, `Judged` is that for a transfer and
the clock of the commit otherwise, and the contract says as much: what a transfer sends
had not expired at an instant at which it was under way under its key (`begun`), and may
have since.

### Settlement

The settlement of one sealed period (`app/leaderboards/settlement.go`). No
transaction spans its steps, so every call has its own copy of the grants: `Claim`,
`SavePlan`, `StartGrants`, `GrantOne`, `SaveGrant`, `Complete` are a round, `Rerun`
with `ResetToPending` and `ListGrants` a rerun, and `VoidInAdvance`,
`VoidExisting`, `ListForVoid` a void; `Abandon` ends any of them between two steps.
The asset ledger behind `GrantReward` is idempotent by key. Winners are fixed,
because a sealed period takes no scores.

### RequestIdempotency

One `request_id` of one actor (`app/documents/idempotency.go`,
`bunrepo/idempotency_repo.go`): `Clean`, `Insert`, `Read`, `Poll` are the statements
of `TryClaim`, `Execute` and `ExecuteFails` the write, `Complete` and `Release` the
statements that compare the token. Time is in `Clean` alone: any row may have
expired, in flight or done. `ExecuteFails` covers an execution that reports an error
although its write was applied.

### CronTriggers

One cron trigger and any number of workers (`app/functions/triggers.go`,
`bunrepo/function_trigger_repo.go`). A round takes the time first and reads, claims
and enqueues later, within its 50 s; `NextRun` is the misfire rule of `ClaimDueCron`;
`InvokeFails` is an enqueue that reports an error, with or without having enqueued;
`ReadForUndo` and `RestoreDue` are the two statements of `undoCronClaim`.

### RefreshTokens

The rotation script of `infra/auth/refresh_rotation_redis.go` and the calls around it:
`Rotate` answers ok, in its minute of grace, reused or missing; `Register` puts what
the handler minted in front of the chain, after the rotation and not with it;
`EndForReuse` deletes the session. `GraceEnds` and `ChainExpires` are the two
expiries. `rotations`, `revived`, `aged` and `culprit` are observed only.

### PrincipalCache

`validator.go` and its caches: a request looks in its server's cache (`Look`),
checks the marker, reads the row (`ReadSession`) and fills the cache some time later
(`Put`). The sign-out deletes the row, evicts its own cache, writes the marker and
commits, in this order (or without a transaction). Every request and every sign-out
takes at most `Budget` between its steps.

### MCServices, ClaimsProofs, SessionsProofs

Assets, Settlement, RequestIdempotency, CronTriggers, RefreshTokens and
PrincipalCache share no state and never call one another in what is modelled (a
settlement's grants are one idempotent step). `MCServices` puts them side by side
and lets each behaviour exercise one of them: its states are the sum, not the
product, of theirs. Symmetry on the keys and transactions of the assets is sound,
because every property there is an invariant, or, for the contract of accounts, says the
same of every key and no liveness. `ClaimsProofs` holds the proofs about
settlements, request keys and cron triggers, `SessionsProofs` those about tokens and
caches, and, extending the others, that of the types of all six; both speak of the
behaviours and the properties of `MCServices`, by way of a lemma per service that it
sees its own steps only (`SettlementAlone`, ...).

## 3. The runs

| Run | Instance | Question |
|---|---|---|
| `webhook_delivery` | 1 hook, 1 event, 2 workers, waits 1 and 2, 2 attempts, window 3, clock to 3, 1 redelivery, 1 crash | are attempts granted once and spaced, outcomes final, rows settled? |
| `webhook_paused` (violation) | 1 worker | is a paused webhook left alone? |
| `event_pipeline` | 1 event, 2 workers, 2 members, every fault once (other faults twice) | has an event one home, is the contract of delivery kept? |
| `event_recovery` | 2 events, 1 worker, 1 member, 1 stop, 1 trim, 1 fault, documented limits | is anything lost? |
| `event_failed`, `event_history` (violations) | one failed insert; a first deployment over a used stream | the same, one step outside |
| `function_invocation` | 1 invocation of every kind, 2 consumers, 1 retry, 3 errors, 1 crash, 1 takeover, 1 trim | is the contract of invocations kept, a queued row backed, does the queue take up what it holds? |
| `function_retry` (violation) | 1 consumer | does a retry keep the metadata? |
| `payments` | 1 order through checkout or a store, any number of overlapping calls and repeated notices | do goods follow the money, is the contract kept, does what was paid or refunded arrive? |
| `subscriptions` | 2 cycles, 2 orders per cycle, 1 error, every kind of plan | is a renewal free or paid twice, does a cancellation let anything new become payable, is a period due for ever? |
| `services` | 2 owners, 2 keys, 2 transactions, 4 rows, grants of 1; 2 winners, 2 actors, 3 calls; 3 callers, 3 requests; 3 workers, 1 error; 2 refreshes, 4 tokens; 2 servers, 1 request, 1 sign-out | the invariants of the six services, and the contract of accounts |
| `cron_restore` (violation) | 3 workers, 1 error | is an instant enqueued once? |

Why these bounds are enough to say something:

* *webhook_delivery*: two workers are the least that race for a row; two attempts
  reach the limit and both waits; the clock reaches the end of the window and the
  retention; one redelivery resets the attempt count under a stale scan, which is
  where a compare-and-set on the count alone would be fooled; the crash loses a
  granted claim. More rows do not interact except through deletion of their hook.
* *event_pipeline*: one event is in every place twice at most (a stale copy and a
  replay), which needs two workers, one replay and two faults.
* *event_recovery*: two events are the least that can commit in the wrong order
  or leave a gap at the boundary of the backfill; one stop and one trim open it.
* *function_invocation*: a redelivery and a retry of one message need two
  consumers; three errors are a failed load, a failed give-back and a failed
  acknowledgement in one run. A trim may take any message (`Keep = 0`; the code keeps
  the youngest ones), which a queue of one invocation needs to lose any. Invocations
  share nothing but the queue.
* *payments*: orders share nothing, so one of them is the whole system, without any
  bound: notices and calls are sets of kinds. The theorems are about any number.
* *subscriptions*: two attempts reach their exhaustion, two cycles make a renewal
  follow a renewal, one error rolls back one transaction after its inner ones
  committed. (With three cycles it also passes, in minutes: 1.5 million states.)
* *services*: two transactions and a retry of a key are what a lost update or a double
  effect needs; a transfer against an expiry needs two rows of one owner. Grants are of
  1 (`GrantSizes`), which two of them or a transfer bring to the limit of 2; what
  consumes and sends also moves 2 at once, over two rows. A void and
  a rerun beside a round need three calls, two at a time. A third caller meets the
  claim of the second while the first, expired, still executes. A stale scan, an undo
  and a second claim need three workers. Four tokens are two rotations, a late
  registration and the reuse. For the caches, `Budget = TTL = 1` and `MarkerTTL = 5`:
  the marker must live longer than three budgets and one entry, and with 4 the
  property fails; in the code it lives 5 minutes against 30 seconds. (With two
  requests at a time it also passes.)

`CHECK_DEADLOCK FALSE` everywhere: with its bounds spent an instance stops, and a
service with nothing to do does too.

**Fairness.** `WebhookDelivery!Fairness`: the ticker of `Start` runs a round every
minute, each round goes through its candidates, waits for its claims, and time
goes on; an endpoint that never answers is closed by the client's timeout, which
is a refusal. No fairness on the administrator, on pruning or on any fault.
`EventPipeline!Fairness`: transactions end, the loops of worker, server and member
run, a row dispatched in vain grows old, and a stopped member is started again.
`FunctionInvocation!Fairness`: a request that has its row and a consumer come to their
next statement, and an idle consumer polls; nothing is assumed of the recovery of orphans.
`QueueServes` is thus about the queue itself: a queued row is taken up through the death
of its consumer, a lost read, a failed claim and a failed retry, as often as the retries
allow, and a row nothing failed for is settled. What it leaves to the recovery is named
in `Forsaken`: a request that did not come to queue its row, a trimmed message, more
faults than retries, and a consumer that fails after a takeover, when another has
acknowledged the message it still holds. That the recovery then ends an active row is its
ticker and no property of its own.
`Payments!FairSpec`: providers repeat a callback until it is accepted, and nothing
else: an order is resolved though every call of the program dies.
`Subscriptions!Fairness`: the ticker bills what is due, the provider answers, the
connection's read timeout ends a wait, grace runs out, expired orders are closed.
Strong fairness on `RecordSession` and `CallbackFulfils`, because whoever waits for a
row lock stands in PostgreSQL's queue and gets it after finitely many others. Weak
fairness on `Bill` says that its errors end: they are database, provider or process
failures, bounded by `MaxErrors`. A plan whose benefits cannot be granted (`billing.go:122`
rolls the whole renewal back, for as long as the definition of the benefit is wrong) is
left out, and such a subscription stays due.

**What the properties say** is stated above each of them in the modules. Each is
broken by a mutant of the code (`PROJECT.json`, "mutants"; the variants are marked
"Faulty variant" beside the definition they replace).

## 4. What is proved

`WebhookDeliveryProofs` proves, for any sets of hooks, events and workers, any
policy that meets `PolicyAssumption` and any bounds: `TypeCorrect`, `GrantedOnce`,
`Spaced`, `PendingOnly` and `FinalOutcome`. Row identities are not bounded by
anything there, so a row that is pruned and created again under the same key is
covered by the proof and not by TLC (`MaxId = 1`).

The claim's UPDATE reads neither the status nor the round of the row, so none of
these is inductive by itself. `IInv` adds:

* `IdsFresh`, `IdsUnique`: an identity is used by one row and was handed out;
* `StampOK`: a row has a schedulable instant exactly when it is pending;
* `CandidatesDue`: what a scan remembers was due at its instant, hence pending;
* `FlightsBehind`: an open claim is not ahead of the row it came from;
* `Spacing`: the row's next instant respects every open claim of its round.

A candidate that still matches `attempts` and `next` thus meets a pending row
(`StampOK`, `CandidatesDue`), its claim has a higher attempt than any open one of
its round (`FlightsBehind`) and comes after the wait (`Spacing`). Most steps only
settle or remove rows and move or close claims; `QuietStep` handles them at once.

Assumptions: `PolicyAssumption` (what `NewDeliveryPolicy` and `parseBackoff`
enforce) and `BoundsAssumption` (bounds are numbers); TLC evaluates both.

`EventPipelineProofs` proves `TypeCorrect`, `NeverTwoHomes` and `NeverDropped` for
any number of events, workers, members and faults, with and without long outages
and wide trims. `OneHome` needs that a new event is nowhere (`NewIsNowhere`), so
that a transaction never inserts a row beside a dead letter. That the purge of
published rows drops nothing unsent is the long way round: a row is marked only
through the queue of marks, a mark is queued only from an entry that was read
(`MarksSent`), hence a marked row has an entry (`PublishedSent`); the history in
`stream` never loses one. `SeqOK` (every number in use came from the identity
column) is there for the types: the top of a batch is the greatest of its numbers,
which exists because they are bounded (`NatMax`). The lemma `NextEffect` says once
what a step can do to a row, a copy, the stream or a mark; the parts of the
invariant follow from it. Assumptions: `PipelineAssumption` and `NoRowAssumption`
(the absence of a row is no row).

Two more theorems there are about what the documentation promises, and state its limits
as hypotheses. `PassedWasDelivered` assumes `Promised` (the group exists before the first
event, no group is swept, no delivery or scan fails) and proves `AckedWasDelivered` for
any stops, takeovers, replays and trims: what a member holds unacknowledged it has
delivered or has still in hand (`BatchOwed`). `NothingIsLost` assumes `Within` (in
addition no replay, and no trim beyond what the backfill can give back) and proves
`NotLost`, long outages included. The argument is about the entries that were trimmed
before they were delivered (`Owed`): they lie between the watermark and the first entry
that is left (`OwedInGap`), so the next member to start notices the gap; its backfill has
them in hand or still ahead (`OwedAhead`); and nobody reads the group, which would move
the watermark past them, before they are delivered (`OwedFirst`). Rows and entries of an
event agree on its number (`OneNumber`), which a replay would break. `Events`, `Workers`,
`Consumers`, stops, trims and faults are unbounded; the run `event_recovery` checks the
same with two events.

`EventsKeepContract` proves that the pipeline implements `DeliveryContract`, each step a
step of the contract or a stutter, for any events, workers, members and faults. Beyond
`IInv` it needs to know where copies come from: an open transaction still has its row,
and letters, copies, entries and batches are of events that committed (`Genuine`). That a
record is only dropped once the stream was told is `PublishedSent` again, now for the
purge; that a replay or a stale copy never lets an event appear in two places is `OneHome`.
`KeepsDelivery` says more than `NeverDropped` and has taken its place in the run.

`FunctionInvocationProofs` proves `TypeCorrect`, `AtMostOnce` and
`OnlyCallsComplete` for any invocations, consumers and bounds. Messages are
redelivered and retried at will, so the single place that arbitrates is the claim
of the row. `IInv` adds: at most one worker is past the claim of a row and before
its call (`OneWorker`), the row it holds has not been called (`NotCalled`), a row
that is back in the queue has not either, and a synchronous row has no message
(`NoSyncMessage`) and is driven by its request alone (`SyncRow`). A retry gives a
row back only before the call; orphan recovery only moves it to `failed`, from
where no claim takes it.

`InvocationsKeepContract`, also there, proves that the queue implements
`InvocationContract`. The invariant is the same; what it adds is the order of things: a
row that was called is never given back (`NotCalled`), a late outcome may overwrite a
failure and an enqueue that failed late an outcome, and a row pruned under a running call
stays gone. `AtMostOnce` and `OnlyCallsComplete` state single invariants that
this implies, so the run checks the contract alone.

`QueuedInvocationIsBacked`, also there, proves `QueuedIsBacked`: as long as nothing
crashed, nothing was trimmed and at most one call has failed, a queued row has a message
or somebody who will write one, unless its request was `abandoned`, which under these
limits is an insert that reported an error. That is not inductive, because a consumer
may hold the only message at a point where it will not use it; `QueuedIsAssured` asks for more (a
message nobody holds, or a holder that has not given up), and `ErrorsAreCounted` says
that every retry, under way or queued, has cost one of the errors, so that a second
retry is beyond the limit.

`DeliveredTaken`, also in `WebhookDeliveryProofs`, needs `TakenAccepted`: an open claim
whose request was taken is among what the endpoint has accepted, which never shrinks.

`PaymentsProofs` proves `TypeCorrect`, `GoodsSafe` and `Implements` for any orders. The
refinement is step by step: what the provider does maps to `Capture` and `Return`,
an accepted payment to `Deliver`, expiry and failure to `Lapse`, a refund to `Settle`,
a manual fulfilment of a refunded order to `Clear`, everything else to a stutter. The
invariant behind it relates four places: a notice tells the truth about the money
(`NoticesTrue`), a call that returned a refund is one the provider has made
(`CallsTrue`), a paid order was captured in full and the keys of the ledger agree with
its status (`RowsAgree`).

`SubscriptionsProofs` proves `TypeCorrect`, `EveryRenewalPaid`, `ChargedOnce` and
`CancelledForGood` for any number of attempts, cycles and errors. `IInv` has these
parts: the types of the row and of the orders (`Row`, `Register`); the job and the
callback hold orders that were placed (`Placed`); an attempt is placed only after every
earlier one of its cycle lapsed (`Ordered`); the wallet's keys are below the cycle and the
sizes of the two books bound it (`Accounts`); only a period that has ended is in arrears
(`Arrears`); and from the cancellation on no transaction that places an order runs, and
none will, because the subscription is over or `EndsNow` comes first (`Cancelled`).
`Ordered` gives one open attempt at a time; that the smallest attempt that has not lapsed
exists is the well-foundedness of `<` on the numbers. Assumption: `SubscriptionAssumption`.

`ClaimsProofs` and `SessionsProofs` state their theorems on `MCSpec`, for any values of
the constants that meet `ServicesAssumption` (bounds are numbers, `Period` and
`MaxTokens` are positive) and `MarkerAssumption`.

*Settlement*: `BookedRewards` and `VoidedAhead`, for any winners and calls: a copy that
says "granted" was granted (`CopiesTrue`), and a period voided in advance has no plan
that anybody could load (`Unsettled`).

*Request keys*: `SingleHolder`, `TrueReplay` and `BoundedRepeats`, for any callers.
Tokens are numbered in the order of the requests and held by one caller each; a holder
whose token is not the row's has lost its claim (`Claims`); each write bears the token
of its claim (`Written`, `Once`). The count of `BoundedRepeats` has a witness, `Hidden`:
the writes inject into the claims that ran out, the writes an error hid and the row
that is left.

*Cron triggers*: `RunsPerPutBack`, for any workers, period, grace, clock and number of
failed enqueues. An instant's account (`Accountable`) is what was dispatched, the rounds
that have claimed it and not enqueued it yet, and one while the row still stands before
it; a claim moves one to the other, because `NextRun` lies after what was due
(`NextRunLater`, from `DueInPast`), and only a put-back adds to it.

*Refresh tokens*: `OneLineage` and `GenuineReuse`, for any tabs and any number of tokens:
the rotations of a token plus its place at the front never exceed one more than its
revivals (`Budgeted`), and without a late registration every token somebody holds is at
the front, in its minute, aged, or about to be registered (`Placed`).

*Principals*: `RefusedAfterwards`, for any servers, requests and clocks. The row is gone
within a budget of the call's start; who read it before that fills a cache within
another budget, so every entry ends `2 * Budget + TTL` after the start (`FilledBefore`),
and who came afterwards and found one there is admitted a budget later at most
(`CameAfter`, `AdmittedEarly`). By then a marker that was written still stands
(`MarkerStands`): this is where `MarkerAssumption`, `MarkerTTL > 3 * Budget + TTL`, is
needed, five minutes against half a minute in the code.

`AssetsProofs` proves `NoDrift` (`ZeroDrift`), `NothingMadeOrLost` (`Conserved`) and
`TypeCorrect` for any owners, keys and overlapping transactions and any bounds on
quantities, rows and instants that meet `AssetAssumption` (somebody to hold something,
a positive maximum, room for the two earlier grants, an instant); TLC evaluates it.
They are about `Spec`, the steps of the holdings alone, which is what the run `services`
lets a behaviour about assets take. The two properties are about each other's ground: an
entry is right only if the quantity it starts from was not changed since it was read. So
`IInv` adds what the locks promise: whatever is locked is there (`LocksHeld`), by one
transaction only (`LocksApart`), of a command that was valid (`LegalCommands`), and a row
that is there has an entry (`OnRecord`), so that an identifier without one is free.
`Posting` then says what all commands have in common: entries of different rows, each
with the quantity its row has afterwards, in rows the transaction has locked or inserts,
whose deltas add up to those that make or end quantities (`Balanced`). One lemma per
command shows that it is a posting (`GrantPosts`, `ConsumePosts`, `TransferPosts`, ...),
and three more that a posting keeps the books (`PostedKeepsZeroDrift`,
`PostedConserves`) and the record (`PostedKeepsRecord`). Consumption is the hardest of
them: the buckets it uses are an initial segment of the list, and what it takes of each
adds up to the quantity (`TakesFromLive`). A transfer cancels out because each bucket
that leaves arrives once, in a row of another owner (`MovesApart`). The sums are those of
the community modules, a fold over a finite set that takes the elements in an order of
its own; the lemmas at the start of the module unfold it, show that the order does not
matter (`SumRemove`) and derive the rest, by the well-foundedness of proper inclusion
among the subsets of a finite set (`SubsetInduction`), which needs no induction theorem
over an operator.

`KeepsTheAccounts` proves that the holdings implement `HoldingsContract`, on the same
invariant. An account after an instant is the sum of what each row is worth to its owner
by then, `Part`, so the commands that change one row move one summand (`OneRowChanges`). A
consumption changes many rows of one owner: what it takes of each adds up to the quantity
(`TakesAddUp`), all of it expires after the instant it judged by, and the later the
instant looked at, the less of it there is (`SentBounds`). A transfer changes the rows of
two owners; the proof goes by way of the table between the two halves, in which the
sender's rows have been emptied and the receiver's not yet filled (`TakenAccounts`,
`OwnerFills`), so that as much arrives as was sent, of every expiry (`TransferMoves`). The
instant it judges by is one it holds since it began (`TransfersBegin`). That a key takes
effect once is the uniqueness of the keys of entries, looked at when they are inserted
and not when the command began (`RecordedAfter`, `KeyTakesEffect`). The ticker's batch
clears expired rows only, though they were listed before they were locked (`Sweep`).

`AllTyped`, in `SessionsProofs`, joins the types of the six services (`AllTypesOK`), which
the invariants above leave to their bounds. Three of them are not about types alone: every
put-back of a cron trigger, done or still possible, has cost an error (`CronBound`); the
answer stored in the row of a request key is the token of a write; and an entry of a cache
or a marker ends within its life from now (`FilledBefore`, `PrincipalBound`), which uses
`MarkerAssumption` once more.

Only model-checked: liveness (`EveryDeliverySettles`, `AtLeastOnce`,
`QueueServes`, `PaidIsResolved`, `RefundReaches`, `DueIsResolved`), which is
out of the prover's reach under fairness, and what the violated runs show.

## 5. Where documents and code disagree

Shown by a run:

1. *Paused webhooks are still sent to* (`webhook_paused`). `domain/webhooks/webhook.go:20`
   says a paused webhook is not delivered to; neither `RunDueDeliveries` nor
   `deliverOne` looks at the status. The run shows a row granted an attempt while its
   webhook is paused and the snapshot has dropped it; in TLC's trace the row is stored
   after the pause, from the snapshot of before it, and rows stored before the pause are
   claimed by the same steps.
2. *A failed insert is not made up for* (`event_failed`). `webhook_events.go:282`
   defers it to the backfill; the entry is acknowledged, the watermark passes it,
   and the backfill looks above the watermark.
3. *A first deployment skips the entries in the stream* (`event_history`).
   `webhook_events.go:141` says the backfill gives earlier entries; when the stream
   starts at number 1 there is no gap and the group starts at the head.
4. *A retry loses fields* (`function_retry`). `worker.go:415` says the round trip is
   lossless; `retryMessage` has five of the fields of `queueMessage`.
5. *The undo of a cron claim overwrites another claim* (`cron_restore`). `triggers.go:281`
   says the due instant is rolled back by compare-and-set; `undoCronClaim` reads the
   trigger and writes it without comparing, over a claim made in between, and a third
   scan enqueues an instant a second time.

Noticed while reading, without a run:

* A redelivery of a row older than the retry window is settled as failed by the
  next scan without an attempt (`created_at` is not reset), where
  `docs/developer/08-functions.md` §7.3 promises a full new round.
* `CreateDeliveries` says one bad row does not spoil the batch, and returns at the
  first error.
* `ClaimDue` says the settlement of exhausted rows is a compare-and-set; it is by
  identity and status. `OutcomeIsFinal` holds regardless.
* The sweep of idle groups also destroys the shared groups when their members are
  silent for an hour, and the new group starts at the head. (`SweepIdleGroups`;
  `NotLost` is not claimed with sweeps.)
* After a failed backfill scan the comment says the watermark stays; the consume
  loop that follows advances it. (`ScanFails`; `NotLost` is not claimed with it.)
* Trimming by length may take entries nobody has read while a member is up, and
  events may appear out of order below the watermark after a take-over: both lose
  events without a 24 h outage.
* `ackDone` precedes `failPayload` when retries are used up; a crash in between
  leaves the row to the recovery of orphans.
* Asynchronous rows carry no timeout snapshot: a run of more than 135 s is recorded
  as failed by the recovery while it runs, and overwritten by its outcome later.
* An insert of a row that reports an error although the row was stored leaves a queued row
  without a message (`CreateFails`; `QueuedIsBacked` excepts it) or a running one that
  nobody executes; a client that repeats its request under its idempotency key is given
  the latter (`clientinvoke.go:131`) until the recovery of orphans fails it.
* A consumer that dies, or fails to put its retry in the queue, after another has taken its
  message over and acknowledged it leaves a queued row without a message: the second one
  of `Forsaken`'s faults. All of these end as failed by the recovery of orphans.
* Rows of event-triggered invocations are covered by neither of the two prunes.
* Payments: a full refund that overtakes its payment is recorded and ignored
  (`callback.go:275`); the payment then delivers goods for money that has gone back
  (`RefundReaches` excepts it as `early`). `ManualFulfill` does not look at the order again
  in its transaction and turns a recorded debt into "done" (`Clear` in the contract).
* Settlement: `updateStatus` has no guard on the status, so a round or rerun that is
  running overwrites "voided", although `settlement.go:194` says a voided period is not
  revived; a void that listed the grants before a round saved them writes "voided"
  over a grant that was paid. A settlement that dies after its claim can only be rerun,
  and a rerun without a plan completes with no grants.
* Sessions: a registration that comes after a later rotation puts an older token back
  in front, and the chain in use then ends the session for reuse
  (`domain/auth/refresh_rotation.go:35` says earlier ids must not be accepted); `OneSuccessor`
  and `ReuseIsGenuine` state this exception. When the marker is lost a revoked session is
  admitted for the life of a cache entry *plus* the time a request needs to fill it.
  The cap on sessions evicts and inserts in two steps, so concurrent sign-ins may exceed
  it (`session_service.go:102` says they do not). All sign-ins of one administrator
  share one chain of refresh tokens.
* Request keys: `bunrepo/idempotency_repo.go:46-47` says an expired row that the cleanup
  missed is claimed again further down; there is no such branch.
* Assets: derived keys ("k#1") may meet keys a caller chose; `max_quantity` is checked
  against the rows listed, so two grants into different buckets may exceed it. A transfer
  judges expiry by an instant it takes before it waits for its locks (`write.go:311`), so
  it may hand on what has lapsed meanwhile, where a consumption would not. First expiring,
  first out holds of the rows a command has listed: a bucket inserted while it waited may
  expire earlier and is not among them (the contract says "of whatever expiries").
* Subscriptions: an order-billed plan without a trial gives its first period for nothing.
  The row that waits for its first payment already carries a full period
  (`subscribe.go:66-68`, `200-215`), and that payment starts the next one at its end
  (`fulfiller.go:76`, `billing.go:185-197`). And the payment of an order that was open when
  the owner cancelled is accepted afterwards (`fulfiller.go:62-76` does not look at the
  cancellation): it prolongs the subscription, or, once that has ended, gives nothing
  for the money. `NothingNewAfterCancel` says that there is no more than this.
* Subscriptions: the renewal holds the subscription's row while its inner transaction
  waits for the order, and a callback holds the order while it waits for the row. Only
  the 60 s read timeout ends it, although `tx.go:294` leaves it to the caller that the two
  transactions do not touch rows the other has locked. `DueIsResolved` holds regardless.

## 6. The plan

Done: deliveries, pipeline, invocations, payments with their contract, subscriptions,
holdings, settlement, request keys, cron triggers, refresh tokens and the caches of
principals; proofs for all of them. The abstract specifications: purchases, delivery of an
event, invocations and accounts, each shown to be implemented.

Left, most important first:

1. **Leaderboards**: submission of a score against the sealing of its period.
   **Sessions**: the cap on sessions, the shared chain of administrators.
2. **Hosted subscriptions**: cycles the provider reports, in any order.
3. **Storage**: completion of a chunked upload against its cleanup.

## 7. Not modelled

* API handlers, CLI, console, SDK and generated code translate, and make up most of
  the repository by lines: the share of it that keeps a protocol is small.
* The document database turns queries, permissions and schemas into SQL; the
  transactions that run it are the server's.
* Accounts, console, servers and function definitions: validation and writes of
  single rows. The client quota of functions is one counter in Redis with a count of
  rows as its fallback. Analytics and usage billing aggregate counters.
* The providers' clients sign and parse; what they answer is in `Payments`.
* Storage moves bytes; its one race is in the plan.
* The realtime hub fans out to the sockets of one process; its marks are in
  `EventPipeline`.
* The semaphore over Redis is constructed by tests only; the program uses a buffered
  channel.
* The runbook is a step language for operators, without concurrency.
* In the modelled parts: editing of webhooks and triggers, HTTP triggers,
  `event_triggers.go` (the structure of `webhook_events.go` once more), execution tokens,
  metering, levels of instances and the purchase of assets, one-time codes, second factors and
  sign-in with other providers.

# A TLA+ model of delivery-plus

Delivery-plus is a food-delivery backend: twelve NestJS services, each with its own Postgres
database, connected by HTTP calls and Kafka events, with Redis and an object store beside them.
Almost every hard question about it is a question about two stores and a network between them, so
that is what these modules model. Plumbing (controllers, DTOs, formatting) is left out.

Contents: [1 Inventory](#1-inventory) · [2 Plan](#2-plan) · [3 The modules](#3-the-modules) ·
[4 Runs](#4-runs) · [5 Fairness](#5-fairness) · [6 Proofs](#6-proofs) ·
[7 Where code and documentation disagree](#7-where-code-and-documentation-disagree) ·
[8 What is not modelled](#8-what-is-not-modelled)

## 1 Inventory

Paths are relative to `src/`; services live in `services/<name>/src`.

| Component | State | Operations | Talks to | Hard behaviour | Correct when |
|---|---|---|---|---|---|
| delivery-service: deliveries | `deliveries` (status, driverId, stage times), `driver_ledger_entries`, outbox | create (order event or HTTP), assign, pickup, start, complete, cancel | driver-service (claim and release), order-service (status sync), outbox | the driver and the delivery change in two databases, in two calls; any request may be retried or die between them | claims are exclusive; row, ledger and events agree; drivers are neither lost nor, but for five named meetings, freed early; the order follows |
| delivery-service: auto-dispatch | a timer (15 s) | dispatchOrder, sweep | the assignment above | races with manual dispatch; one failure ends a sweep | every waiting delivery is dispatched or cancelled |
| delivery-service: driver reconciliation | a timer (60 s), a grace period (60 s) | sweep | driver-service (read and release) | check, read and release are three calls | frees stuck drivers and nobody else |
| delivery-service: earnings, ratings | ledger, `delivery_ratings`, `driver_rating_summaries` | settle, summarise; rate | order-service (fee split) | entries fall due between queries; repeated ratings | exact sums; one rating per delivery |
| driver-service | `drivers` (status, vehicle, verification) | register, vehicle, review, claim, release, online/offline, admin moves | user-service (phone) | compare-and-set on status; admin, driver and platform race | a status moves along its table, one claim wins, the vehicle stays during a shift |
| shared: outbox | `outbox_events` per database, an advisory lock | stageEvent, relay loop | Kafka | crash between publish and mark; lost session; ids commit out of order | published iff committed, in order per row |
| shared: consumer, idempotency, dead letters | Redis keys per group and event, offsets, `.dlq` topics | claim, handle with retries, mark, dead-letter, release, commit; replay script | Kafka, Redis | rebalances, crashes, leases outlived by a handler, replays | no event lost, none handled twice without a cause, order kept |
| order-service | `orders` (status, paymentStatus, amounts, idempotency key), outbox | createFromCart, updateStatus, syncStatusFromEvent, recordPaymentStatus, lists | cart, restaurant, user (HTTP), payment and delivery events | HTTP sync and event consumer race; stale events; retried checkouts | status moves along its table, one event per move, one order per key |
| payment-service | `payments` (status, published and synced marks, lease) | createPayment, processPayment, refund | order-service (HTTP), Kafka | calls that fail one by one, a 30 s lease, cancellation during payment | settled once, side effects neither lost nor undone |
| cart-service | one Redis value per customer | add, update, remove, clear | menu-service | read-modify-write without a lock | one restaurant per cart |
| auth-service | `credentials` (failures, lock, token) | register, login, verify, resend | user-service | compensation after a failed call; concurrent failures | no account without a profile, lock after N failures |
| user-service | profiles, `phone_verifications` | start, verify, update profile | SMS | parallel guesses and sends | attempts and sends bounded, one use per code |
| restaurant-service | restaurants (status), cache | create, update, toggle, suspend, list | Redis | owner and admin race; stale copies | a suspended restaurant stays suspended |
| menu-service | categories, items, images, cache | CRUD, reorder, archive, availability, image append/remove | restaurant-service, storage | positions computed from reads; objects overwritten during verification | the primary image is the first, lists are whole |
| tracking-service | Redis positions, open streams | report, snapshot, stream | delivery, driver (HTTP), Redis pub/sub | a stream closes while it is resubscribing; lost triggers; clocks | the customer sees what is so, of their own delivery |
| notification-service | notifications | one row per event, mark read, list | Kafka | at-least-once delivery | the customer is told, and nobody else |
| shared: cache, rate limiter | Redis | getOrSet, del; incrementAndCheck | Redis | a fill after the delete | a copy is dropped by who made it old |
| shared: storage | objects | authorise, verify, copy | S3 | the client may post again while a post is verified | what is listed was verified |
| scripts | none | seed, seed-demo, seed-e2e; e2e | everything, through the gateway | interrupted and run again | safe to rerun |
| api-gateway | none | proxy, rate limit | all | - | - |

`PROJECT.json` lists the hazards of each part at its line, and which property covers it.

## 2 Plan

Most important behaviour first. All of it is written; what each module shows is in the next
sections.

1. **Lifecycle**, **Dispatch** - the transition tables; deliveries and drivers. *Checked, proved.*
2. **EventLog**, **Outbox** - the promise of the outbox and its implementation. *Checked, proved; of
   the refinement, the safety part is proved and the fairness part model-checked.*
3. **OrderLife**, **Payments** - payments and the order they move. *Checked, proved.*
4. **Consumer** - the receiving end of the event log. *Checked, proved.*
5. **Orders** (implements `OrderLife`), **Checkout**, **OrderSync**, **Pricing**. *Checked, proved.*
6. **Tracking**, **Freshness**, **Notifications** - what the customer is shown. *Checked, proved.*
7. **Credentials**, **PhoneCodes**, **Shift**, **Settlement** - accounts and drivers. *Checked, proved.*
8. **Catalog**, **Categories**, **Images** - restaurants and menus. *Checked, proved.*
9. **Listing**, **Seeding** - pages of anything, and the scripts. *Checked, proved.*

Left: location trust and the arithmetic of ETAs.

## 3 The modules

One action per call that touches shared state, so anything may run between two calls. A request, a
handler or a process is a slot that walks through its calls; a slot that is free again may be any
other request. Constants are sets of slots and of things; where a name starts with `Max`, it is a
bound.

### Lifecycle

The enums and tables of `shared/src/types/enums.ts` as sets of pairs.

### Dispatch (with DispatchProperties, MCDispatch, MCDispatchSafety, DispatchProofs)

Drivers (`driver-service`) and deliveries (`delivery-service`) with everything that moves them.

| Model | Code |
|---|---|
| `Create`, `Pickup`, `Start` | `DeliveriesService.create`, `pickup`, `start`: one transaction each, `DeliveriesRepository.transition` is the compare-and-set `unmoved` |
| `AssignBegin` .. `AssignLost`, `GiveBack` | `assignDriver`: read, `findAvailableDriver`, claim (up to `MAX_DRIVER_CLAIM_ATTEMPTS`), record; the `catch` gives the claim back if the delivery moved, if the transaction failed, and also if its COMMIT took effect and only the answer was lost (`AssignUnanswered`) |
| `FinishBegin`, `FinishAgain`, `FinishCommit`, `FinishLost`, `CheckRelease`, `Release` | `complete` and `cancel`: `earningFor` decides the ledger entry from the status read, `advance` commits row, entry and event together, `releaseDriverOf` checks the driver's other deliveries and releases over HTTP |
| `SweepStart`, `SweepNext`, `Fail`, `Done` | `AutoDispatchService`: the sweep holds one slot and stops at the first delivery without a driver; a failing delivery ends it |
| `ReconcileStart`, `ReconcileCheck`, `ReconcileRead`, `ReconcileRelease`, `GraceElapses` | `DriverReconciliationService.reconcile`; `quiet` is "the row has not changed for the grace period" |
| `GoOnline`, `GoOffline`, `AdminMove`, `PatchAvailable` | the moves of `drivers.status` and who may make them |

`Environment` names what clients, operators and the network may do beyond the plain flow: requests
that die (`fault`), assignments whose answer gets lost (`lostAnswer`), releases that get lost
(`releaseFault`), repeated completions, reconciliation overlapping a completion, claims slower than
the grace period, admins moving BUSY drivers, drivers coming and going. The safety properties hold in
every environment. Some of these behaviours free a driver somebody counts on; the history variable
`exposed` names those drivers, where the cause arises, and nothing reads it. There are five meetings:

| Meeting | Marked by |
|---|---|
| a claim of a driver whom a checked release is still to reach | `ClaimDriver` |
| a release that passes its check while the driver is claimed | `CheckRelease` |
| an assignment recorded whose answer is lost | `AssignUnanswered` |
| a claim as old as the reconciliation's grace period | `GraceElapses` |
| an admin's move of a driver who is claimed or on a delivery | `AdminMove` |

Abstractions: a driver's row also changes with vehicle and verification updates, which only restart
the grace period here and are `Shift`'s; the reconciliation's window of 24 hours and 100 rows covers
every finished delivery; a sweep's batch of 20 covers the waiting ones; the order's status is
`OrderSync`'s.

### EventLog, Outbox (with MCEvents, OutboxProofs)

`EventLog` is the promise: each aggregate's committed changes are told, in order, in the end.
`Outbox` is how: ids are taken at the insert (`StageEvent`) while the row's lock is held, a relay
reads a batch under an advisory lock (`BeginBatch`), publishes row by row (`Publish`), stops at the
first failure (`PublishFails`) and marks what went out (`MarkPublished`). `LoseConnection` takes a
relay's transaction and lock away while its loop keeps publishing, which is the case the lock
alone does not cover; `Crash` restarts it. Kafka is the set of accepted events: a second send of
one is a duplicate that consumers drop by event id.

### OrderLife, Payments (with PaymentsProperties, MCPayments, PaymentsProofs)

One order and the payments made for it. `OrderLife` is the order as others may rely on it: a status
that moves along its table, the move and its event in one step; `Orders` implements it. `Payments`
adds the rows, the requests of payment-service and order-service's consumer of `payment.events`.

| Model | Code |
|---|---|
| `CreateBegin`, `GetOrder`, `FindLatest`, `Insert`, `InsertConflict` | `createPayment`: key lookup, order check, fast path, insert against the two unique indexes (`insertable`), fallback to the winner (`replay`) |
| `ProcessBegin`, `Claim`, `ClaimLost`, `Settle`, `Reread` | `processPayment`: finish what creation owes (`op = "prepare"`), compare-and-set to PROCESSING, settle, effects of the outcome (`op = "finish"`) |
| `AcquireLease`, `LeaseBusy`, `ReadUnderLease` .. `MarkSynced`, `Release` | `completeSideEffects` and `syncOrder`; `fail` is the `finally`, `answered` a call whose answer may be lost |
| `LeaseExpires`, `Die`, `CallFails` | the 30 s lease and what it is for |
| `Refund` | `refund` |
| `RecordPaymentStatus`, `SyncFromEvent`, `ConsumerDies` | the three handlers of `OrdersService.onModuleInit`: two database calls per event |
| `OthersMove` | customer, restaurant and delivery move the order |

Abstractions: `sideEffectsLeaseUntil` is who took the lease, if it has not expired; the topic is a
set, because handlers must cope with late and repeated events anyway; amounts are `Pricing`'s;
ownership and roles are left out, and so is an administrator who sets CONFIRMED or FAILED by hand.
Calls outside the lease that fail end their request as `Die` does, and so does a release that
fails, its lease left to expire. A PATCH of the order is one action: the statuses asked for have one
predecessor each, so the answer to a lost compare-and-set is the one a later read would give.
`Environment` again names what may happen: `fault`, `slow` (a request outlives its lease), `refund`.

### Consumer (with EventsProofs)

One consumer group on one partition, for every service that reacts to events: `Fetch` and the claim
in Redis (with its lease), `Handle` with its attempts, the marker, `CommitOffset`; or the dead letter,
the released claim and the commit. Processes join, lose the partition and go on (`Rebalance`), calls
fail, processes die, leases run out, and a dead letter is replayed. What a handler writes is `runs`,
one unit a run. `failures` and `expiries` count what went wrong, and the properties say how much it
may cost.

### Orders, Checkout, OrderSync, Pricing (with OrdersProofs, EventsProofs)

- **Orders**: the row of one order under HTTP requests of every role (`updateStatus`: read, judge,
  compare-and-set with the event in the same transaction) and the handlers of payment and delivery
  events (`recordPaymentStatus`, `syncStatusFromEvent`), which run again when they throw.
- **Checkout**: cart-service's one value per customer, read and written back whole by each command,
  beside `createFromCart`: look for an order of the key, read the cart, insert, clear, recover from
  the unique index. A crash stops it anywhere; calls fail with or without effect.
- **OrderSync**: one delivery and its order: the move and its event commit together, then the PATCHes
  walk the order along `ORDER_DELIVERY_PATH`, then (or before, or instead) the events arrive.
- **Pricing**: integer piasters through `priceOrder`, `splitDeliveryFee`, decimal columns, JSON, the
  payment and the ledger, while the process restarts with another policy in between.

### Tracking, Freshness, Notifications (with ViewsProofs, EventsProofs)

- **Tracking**: a `Subscription` of tracking-stream.service: `start()` and `run()` with each await a
  step, triggers that Redis may lose, the driver's channel joined and left, the stale timer, the
  resync, close at any time; and the world it shows: delivery, driver, reports. `start()` awaits the
  delivery's channel, the delivery, and the driver's channel if there is a driver to follow; without
  one it opens in the same step as it loads (`StartLoads`). What needs no I/O is not interrupted: a
  queued recompute begins, and one without a driver reads and sends, before the process takes up
  anything else (`goesOn`). A channel that cannot be joined refuses the stream (`StartRefused`).
- **Freshness**: ticks finer than a second. `locationAge`, `staleDelay`, `resolveTracking`,
  `deriveEta` and `isEtaValid` as the code rounds them, positions stamped by a clock that is ahead.
- **Notifications**: workers of the group insert a row for an event and mark the event; a row has no
  key of its own. Customers mark rows read.

### Credentials, PhoneCodes, Shift, Settlement (with AccountsProofs, SetProofs)

- **Credentials**: registration (insert, create profile, compensate) and login (count a failure, lock,
  reset) with one action per repository call, for one email.
- **PhoneCodes**: `start` under the user's advisory lock, `verify` with its attempt counter, and the
  profile update that may change the number meanwhile.
- **Shift**: one driver's row: register, vehicle, review, every route that moves the status.
- **Settlement**: ledger entries that fall due, the sweep and the three queries of `getForDriver`;
  `rate` with its retries and the running sum.

### Catalog, Categories, Images (with ViewsProofs)

- **Catalog**: a restaurant and a menu item behind `CacheService.getOrSet`: get, fetch and set are
  steps, a request is judged on the copy, writes the row and drops documents one by one; it may die
  after each. `overtaken` marks copies that were already old when stored.
- **Categories**: reorder (one UPDATE per category in a transaction, rolled back in a deadlock),
  delete (count, detach, delete) and filling, each statement a step.
- **Images**: `verifyUploadedObject` against an object the client may replace, and the transactions
  that append, remove, renumber and mirror the first image, READ COMMITTED with row locks.

### Listing, Seeding (with ViewsProofs, OrdersProofs)

- **Listing**: a walk of `skip`/`take` pages and their counts while rows arrive, move and leave the
  filter, for each kind of listing and its order.
- **Seeding**: the three scripts as sequences of calls over a platform that moves orders on its own;
  each run may stop after any call and be started again on a platform that came to rest. A scenario
  is skipped by what the customer's orders show: `seed-demo` reads them once, `seed-e2e` each time.
  A restaurant is looked up among the owner's, by `seed.ts` on the first page of everyone's
  (`crowded`); its menu is what menu-service answers, the rows or a copy of up to 60 s (`ReadMenu`). A
  write drops the copy after its row (`dropsMenu`): a lost drop fails the request and with it the run,
  and leaves the copy. Other readers fill it, late ones with rows from before a write
  (`BrowseCaches`). `hidden` marks the restaurants rows of which one of those three causes may have
  kept from a run. Assumed: one run at a time, nobody else edits what it seeds or owns a restaurant of
  a seeded name, and what a stopped run had sent is done before the next one looks.

### Composition

`Payments` composes payment-service, the order and the consumer's handlers; `Dispatch` composes two
services and two sweeps; `OrderSync`, `Checkout`, `Credentials`, `Catalog`, `Images`, `Tracking` and
`Seeding` compose two or more services each. What one side relies on is stated once and implemented
by the other: `Outbox` implements `EventLog`, which `OrderSync` uses; `Orders` implements
`OrderLife`, which `Payments` and `OrderSync` use.

## 4 Runs

| Run | Question | Answer |
|---|---|---|
| `dispatch_safety` | can two deliveries share a driver, or an assigned driver be AVAILABLE, without one of the five meetings; can racing and repeated moves of a delivery disagree with its ledger or its events, or replace its driver? | no (678 k states) |
| `dispatch_recovery` | two deliveries, one driver, releases and answers lost, reconciliation overlapping: is a driver left BUSY freed, and each delivery assigned or cancelled? | yes, by the two sweeps (153 k states) |
| `events` | can anything uncommitted, unpublished-but-marked or out of order reach Kafka; does the outbox implement `EventLog`, liveness included? does a tracking stream show only its own delivery, end once, be current when quiet, and catch up? | no; yes; yes (95 k states) |
| `payments_race` | two payments, two requests, a key: can an order have two payments in force, an event be published twice, the order hear something untrue? | no (1.06 M states) |
| `payments_faults` | two requests at one payment through every failure, expired leases and refunds: can a marker run ahead of the fact, a claim be lost, an outcome change? | no (2.56 M states) |
| `recovery` | does every payment's outcome reach the order and its event the consumer, unless refunded? does a consumer group catch up with its partition, whatever failed? | yes, with the customer's retries; yes (22 k states) |
| `services` | the safety of every other service, two requests at work in each; does order-service implement `OrderLife`? | holds; yes (1.31 M states) |
| `dispatch_retry`, `tracking_leak`, `phone_verified`, `archived_offered`, `cancel_converges` | does what a doc or a comment says hold? | no, see section 7 |

What `services` asks of each part:

| Part | Property | In words |
|---|---|---|
| orders | `OrdersInv`, `ImplementsOrderLife` | each status announced once, along the table; an ended order says who ended it; a restaurant rejects only before cooking; no event is dead-lettered for coming late |
| checkout | `CheckoutInv` | one order per key, answered with that order; one restaurant per cart and order; none empty |
| credentials | `CredentialsInv` | who was told "registered" keeps credential and profile; a failure count that locks did lock |
| phone | `PhoneInv` | guesses per code and sends per hour bounded, no code used twice, verified numbers were confirmed |
| restaurants, menus | `CatalogInv`, `SuspensionHolds` | a stale copy has a cause and a writer who will drop it; only an administrator ends a suspension |
| images | `ImagesInv` | what is listed was verified; `imageUrl` is the first image |
| categories | `CategoriesKept` | reorders do not mix; no item in a deleted category |
| settlement | `SettlementInv` | earnings exact between sweeps; the summary counts each rating once; a retry gets its own back |
| consumer | `GroupInv` | nothing lost; order kept; handlers overlap or repeat only for a failure or an expired lease |
| sync | `OrderFollows` | the order is never ahead; an answer without error moved it; events make it converge |
| shift | `ClaimsExclusive`, `ShiftKept` | each answered claim is a move; vehicle and status of a BUSY driver are the job's |
| freshness | `FreshnessKept` | LIVE turns STALE in time; a valid estimate is of a live position |
| notifications | `InboxKept` | told at least once, once more per lost handling, nobody else |
| pricing | `PricesKept` | items, driver's and platform's share add up to the charge, by the policy at checkout |
| listing | `ListingComplete` | a page walk misses no row that stood still |
| seeding | `SeedKept` | reruns complete a catalog and its orders, and add nothing twice, to a restaurant no rows of which were hidden |

`dispatch_safety` starts from two situations: one of two drivers was claimed by a request that died,
which nothing repairs, so two deliveries share the other; or one of two deliveries was cancelled
before it had a driver, and requests with two drivers to choose from race for the other. Everything of
`Environment` may happen but an admin moving a BUSY driver, which would make the two situations one;
the proofs leave nothing out.

Parts in one run. Parts of `events`, `recovery` and `services` share no variable. A behaviour is of
one part, chosen by `part` in the initial state, and the others keep their initial values, so the
states are the sum of the parts' states and each part is explored as it would be alone. In
`services` the VIEW is the part and its variables: two states with equal views differ in no variable
that ever changes in that behaviour. Since every other part stands in an initial state that satisfies
its invariants, an invariant that fails, fails in its own part. SYMMETRY is over sets the modules
compare only for equality (slots, things); runs with liveness have none.

Where a hazard is unavoidable by design, the property says so by a history variable that counts or
marks its cause, never by leaving the case out: `overtaken` copies (Catalog), a `missed` list
(Images), `strayed` items (Categories), a `crossed` save (PhoneCodes), `failures` and `expiries`
(Consumer), `repeats` (Notifications), `died` (Credentials), `lost` (Tracking), `departures`
(Listing), `exposed` drivers (Dispatch), `hidden` rows (Seeding). Section 7 lists those cases.

Bounds. Two deliveries and two drivers are the least that can share a driver or swap one; a second
request beside the sweep is the least that can race with it; claim attempts are bounded by 2 instead
of 3. In `dispatch_recovery` two deliveries compete for one driver. Two relays and two aggregates are
the least that can reorder, and three ids with batches of two give a relay a second batch and an
overlapping one. Two payments and two requests are the least for a second payment to race a first;
failures are explored on one row, where two requests and the consumer meet at every call. Two slots
everywhere else let any two requests of a service cross at every call; two things (codes, items,
categories, pictures, accounts) let them be the same or different. The consumer has two events, a
replayed one, two attempts, two rebalances, one failure and one expired lease: each pair of them
combines. Limits are at their smallest value at which being under, at and over them differ
(`otpMaxAttempts = 1`, `maxSendsPerHour = 2`, `maxFailedLoginAttempts = 2`). `Second = 2` ticks is
the coarsest clock on which rounding down differs from not rounding, and `MaxTick = 14` is three
times the stale period plus the skew. Prices take fees that split evenly, with a remainder, into
nothing and not at all; sums with a float error under half a piaster. Listings have three rows, one
to a page, so a row can be missed, repeated or moved across two page borders by two changes. A
seeding run is interrupted once and run again, over one restaurant with a heading and two dishes, which
is enough for a copy to lack either. Others use its menu in that run
while the script is at the restaurant, and orders begin when a slow reader is through and the copy has
expired (`browsed`).

`CHECK_DEADLOCK FALSE` in dispatch, events, recovery, services and four of the violation runs: a bounded
number of deliveries, events or requests ends, and then the system rightly stops.

## 5 Fairness

Requests in flight go on (weak fairness per request). The two sweeps and the relay run on timers,
so they start whenever they can (weak fairness); a step that a failure can pre-empt is taken if it
stays possible again and again (strong fairness): a network that fails every single time is not
assumed. `RecoverySpec` of Dispatch further assumes drivers come online and do their deliveries,
without which nothing can be dispatched. In the outbox, each event's send and each batch's commit
succeed eventually when tried for ever.

In payments, requests go on, a dead holder's lease expires, the consumer is handed an event until it
has handled it, and a call that is made again and again is answered at some point. One assumption is
about the client: a customer whose settled payment still owes something asks again. The code has no
timer that would; its documentation makes retries the client's part.

A process of a consumer group goes on with its message, and Redis drops a lease that ran out: both
are loops the code runs without conditions. Failures are bounded there, so the process that is left
has the partition in the end. A tracking stream's calls are answered and the timers of an open
stream fire (`Resync` is the 30 s interval); nothing is assumed of triggers, which Redis may lose
every time.

## 6 Proofs

Checked by TLAPS for every number of deliveries, drivers, requests, processes, events, rows,
documents, pictures, accounts, codes and runs, for every bound and limit, and for every fee, share and
cart; what a theorem assumes of the constants is the named `ASSUME` of its module (sets that are
finite, limits that are numbers, slots that are not their own idle value). Where a claim is not for
every environment, the assumption is named below. `SetProofs` holds the lemmas the others share:
induction over the subsets of a finite set, the greatest and least of a finite set of numbers, and
what the sums and folds of the community modules come to.

- **Rows** (`RowsCorrect`, `DriverAssignedOnce`): in every environment.
  `RowInv` adds to the ledger and event properties that the columns of a row agree (`RowsAgree`) and
  that a request about to commit carries the entry its *read* status called for (`RequestsAgree`).
  The compare-and-set makes the read status the current one, which is the whole argument.
- **Tokens** (`ExclusiveClaims`, `ActiveIsBusy`): in every environment, for drivers who are not
  `exposed`. An active delivery and a claim in flight each hold the driver; `TokenInv` says a held
  driver is BUSY, held once, and no release that passed its check is meant for them. The step that
  would break this for a driver is one of the five meetings of section 3, and exposes them. A
  completion that overlaps the reconciliation, a repeated one and a dying request are none of the
  five: the check and the compare-and-set on the status suffice there.
- **Outbox** (`OutboxCorrect`, `OrderKept`, `NothingLostNothingInvented`): `OutboxInv` adds that ids
  of one row commit in order because the row is locked (`IdsInOrder`) and that the rest of a batch
  contains everything earlier of its rows that is not yet on the topic (`BatchesClosed`). It holds of
  a relay that has lost its lock as well, because a stale batch is still closed.
- **The outbox implements the log** (`OutboxTellsHistory`, the safety part of `ImplementsEventLog`):
  every step commits a change, tells one, or leaves history and what was told alone. What was told
  (`inOrder`) are the published events by id; that a batch is closed makes each new one the next of
  its aggregate.
- **Payments** (`PaymentsCorrect` and its corollaries `ChargedOnce`, `ClaimStands`, `PendingFirst`,
  `TruthTold`, `MarksTrue`): in every environment, slow requests included. `PaymentsInv` adds
  `RequestInv`, what a request relies on where it stands: what it read under the lease has since
  been overtaken only by a refund or by an outcome, and a mark it is about to write is already
  true. That is why expired leases cost duplicates but no truth. `Forward` (statuses, topic and
  order history only grow) carries the other requests through a step. `OutcomeIsFinal`, that a
  settled payment changes by a refund only and a failed one never, is an action property of the
  same invariant.
- **Lease** (`OneAtATime`): assuming no request outlives its lease. `LeaseHeld` says that a request
  between taking the lease and releasing it is the one the lease names; only a slow request breaks
  that, since a dead one's lease passes to `Orphan`. `EachPublishedOnce` assumes that no call fails
  and nobody dies either: who publishes holds the lease from the read that found nothing published
  to the mark.
- **Consumer** (`GroupCorrect`): everything below the committed offset was handled or dead-lettered
  (`SettledBehind`), and a process never works beyond the next message, so a handled event was
  reached in order (`HandledWasReached`). The processes at work on an event whose claim is no longer
  theirs are no more than the leases that expired, and the runs of an event together with those
  still to come are no more than failures, expired leases and one success the marker explains
  (`OverdueCounted`, a count over the finite set of such processes).
- **Orders** (`OrdersCorrect`, `OrdersImplement`): the table has no way back, so every status has a
  `height` that each move raises. `OrdersIInv` adds that everything announced lies below the status
  (`Climbs`) and what a slot relies on (`JobsAgree`): a move about to be written is one the table
  allows from what was *read*, and an event on its second run has been overtaken, because the target
  of every event has one predecessor and that one is gone for good. So no handler runs a third time,
  and `NeverPoisons` needs `Attempts >= 3`, which is `DEFAULT_MAX_HANDLER_ATTEMPTS`. The refinement maps the row's
  status and the set of its staged events to `OrderLife`: a write is `SetStatus`, every other step
  stutters.
- **Checkout** (`CheckoutCorrect`): a checkout carries what it read, a good cart of one restaurant; the
  unique index keeps a key to one order; and an answer names an order of its own key (`CheckoutOK`).
- **OrderSync** (`OrderFollowsDelivery`): the events of the delivery are the legs of its path in
  order; a PATCH under way asks for a leg the delivery has done; and every handled event has moved
  the order to its status or found it further, because a status of the path has one predecessor.
- **Credentials** (`CredentialsCorrect`): a registration compensates the row it inserted itself and
  no other (`OwnRow`); each failure counted is one whose login has still to judge it, died before it
  did, or is below the limit (`FailuresJudged`), a bound on the cardinality of the logins between
  counting and locking.
- **PhoneCodes** (`PhoneCorrect`): every guess that was counted has been compared or belongs to a
  request about to compare it (`GuessesCovered`); at most one code of the number is younger than the
  cooldown (`RecentOnce`); and a verified number was confirmed, or an update that had read the number
  crossed it.
- **Shift** (`ClaimsMove`, `RowIsTheJobs`): `DeskAgrees` says what each request has read and passed
  before it writes; the compare-and-set on the status, or on OFFLINE for the vehicle, makes what was
  read the current row.
- **Settlement** (`SettlementCorrect`): an answer under way bounds what it may still read, since
  entries only fall due and are only settled; the summary is the number and the sum of the scores
  stored, by induction over the finite set of rated deliveries, because the compare-and-insert and
  the running sum are one transaction.
- **Pricing** (`MoneyNeverLeaks`): what the snapshot, the payment and the ledger hold is priced by
  the policy of checkout, and the conversions in between (decimal columns, JSON) lose no piaster.
  The split is proved on whole piasters: a rounded share and its remainder add up to the fee.
- **Tracking** (`StreamIsTrue`): an open stream whose context differs from the delivery has a trigger
  pending, a load under way or lost a message (`ContextFollows`); what it sent is what it would send
  now, unless a position turned stale whose timer is armed or a report is on its way (`SentFollows`);
  it hears the channels of its context or is joining them (`Hears`); and who sent the end has closed.
- **Freshness** (`FreshnessHolds`): the timer that is armed covers the position shown (`TimerCovers`).
  The argument is arithmetic of division: an age rounded down to whole seconds is less than a second
  below the age.
- **Notifications** (`InboxCorrect`): the rows of an event are as many as the handlings that inserted
  one: the repeated ones, and one more from the insert on that leads to the marker.
- **Catalog** (`CatalogCorrect`, `SuspensionIsKept`): what a request wrote is covered by the documents
  it has yet to drop, so a copy that differs from its row is on somebody's list, was stored by an
  overtaken reader, or was left by a writer that died. An owner's write changes a row that is not
  suspended at the moment of the write, whatever the copy said.
- **Categories** (`CategoriesCorrect`): the rows a reorder has updated stay locked to it, so the places
  are those of its list with the old ones under it, and the last list that committed is what is there
  or what a rollback returns to. A deletion past its count leaves in the category strayed items only.
- **Images** (`ImagesCorrect`): what a job adds was copied under the ETag whose bytes were verified.
  The first image as a transaction saw it is still the first when it commits, unless another one
  committed after its look (`late`), which `missed` records. Positions stay below the number of
  transactions that are over, so `births` bounds the positions too and no bound is met by chance.
- **Listing** (`WalkIsComplete`): rows that stay as they are have ranks of their own and keep their
  order, so a row that leaves or moves behind carries at most one of them over the border of the pages
  read so far. The rows passed over (`Passed`) are therefore no more than the departures, and none
  where nothing departs; that the last page ends the walk is arithmetic of the page size. The set of
  rows is assumed finite.
- **Seeding** (`RerunIsSafe`): an order's status and what is under way to it determine what it will be
  (`OnCourse`, `destined`), and each point of a run knows how far it brought its order (`Brought`). So
  a scenario is in the list still to do or was met for good (`ScenariosHold`), wherever runs stopped;
  a run starts at rest, so what it is shown is what will be, and after a finished run it finds every
  scenario (`AgainHolds`). While nothing of a restaurant was hidden, its rows are
  there once and a cached menu has them (`Clear`, in `RowsHold`), so a run knows all it was shown and
  what it was shown is all there is (`ViewHolds`), and creates what is missing once. Every restaurant
  the run is past is stocked (`ProgressHolds`), hidden rows or not.

Model-checked only: every liveness property (`StuckDriverFreed`, `WaitingIsDispatched`,
`OutcomeSpreads`, `EverythingCommitted`, `CatchesUp`) and the fairness part of `ImplementsEventLog`,
which are out of the prover's reach. Nothing is proved of what a recursive definition computes for
every input: the sums and folds of `SetProofs` are over finite sets, by well-founded induction with
a set for the predicate.

## 7 Where code and documentation disagree

Five runs end in a violation.

- `dispatch_retry`: "a retried completion must never free a driver who has since been assigned
  elsewhere" (`deliveries.service.ts:432-433`). The check for other deliveries and the release are two
  calls (`:437-444`): a completion sent again checks, the driver is assigned, and the release frees
  them.
- `tracking_leak`: `TrackingStreamService` says closing "stops timers, leaves every channel". While
  `start()` waits to join the driver's channel (`tracking-stream.service.ts:217`), a trigger may start
  a recompute that closes the stream: because the delivery ended, or because a call failed. `start()`
  then keeps the channel it joined and arms the timers, and nobody closes the stream again.
- `phone_verified`: `docs/services/user-service.md:26` says only a confirmed code makes a phone
  verified. A profile update that read the old number, found it unchanged and writes it after another
  number was confirmed leaves the old number marked verified.
- `archived_offered`: an archived item "can't be added to carts"; an availability toggle judged on a
  copy from before the archiving writes `available` by id alone.
- `cancel_converges`: "order-service converges from [the event], so the order catches up even if the
  HTTP sync fails". No service subscribes an order to a cancelled delivery: when the PATCH fails, the
  order stays.

Seen while modelling, and built into the models, so that the properties hold around them:

Deliveries and drivers
- An assignment whose COMMIT took effect and whose answer was lost is an error to the `catch`
  (`deliveries.service.ts:168-171`), which gives the assigned driver back: AVAILABLE, they may be
  claimed for a second delivery (`AssignUnanswered`).
- The release of a driver who went OFFLINE puts them AVAILABLE, a legal move for the system token
  (`driver-service.client.ts:72-79`): they are brought online without having asked.
- The reconciliation's comment argues that a stuck BUSY driver cannot be claimed between check and
  release; the completion that left them BUSY can release them itself in between, and then they can.
- `POST /drivers/me/status` moves OFFLINE to AVAILABLE without the phone check of
  `POST /drivers/me/online`, although `docs/services/driver-service.md:13` gives it the same rules.
- `docs/services/driver-service.md:84` says reconciliation of drivers left BUSY is not implemented; for
  drivers of recently finished deliveries it is (`driver-reconciliation.service.ts`).

Payments
- The consumer confirms the order from the event, the restaurant starts preparing, and only then
  comes the PATCH to CONFIRMED: 409. The customer of a completed payment gets an error, and every
  retry gets it again; `syncOrder` knows one legitimate conflict only (`payments.service.ts:293`).
- A create that checked the order early inserts its payment after the first one was declined. The
  second completes, and the order records FAILED, since an outcome is recorded once per order
  (`orders.repository.ts:118`).
- Of two concurrent creates with one key, one can be refused (`GetOrder`, `FindLatest`), although
  the key is meant to return the original payment. A declined payment fails its order, so the second
  attempt `docs/services/payment-service.md:49` promises is refused, unless it had read the order
  before.
- A request slower than 30 s performs side effects beside the next one, and its release frees the
  other's lease (`"slow"`). What the markers say holds nevertheless.

Checkout and carts
- The loser of a race with the same key gets 400 "Cart is empty" when the winner cleared the cart
  before the loser read it (`orders.service.ts:190`); `docs/services/order-service.md` says it
  replays the stored order. The same document says a key reused for another cart is a conflict; the
  code returns the old order (`:178-180`).
- A checkout without a key whose `clearCart` fails is answered with an error although its order
  exists. Items added between its read and its clearing are lost, and a cart command that read
  before the clearing may bring the items back.

Accounts and phones
- A code may be consumed although a later one was sent between the look-up and the write; the
  document says only the latest can be verified. The limit per number is checked under a lock per
  user, so two users may pass it together.
- Nothing sends the mail whose token `verifyEmail` checks.

Restaurants and menus
- `confirmItemImageUpload` does not refuse archived items, and the limit of ten images is checked
  when the upload is authorised, not when it is confirmed (`docs/services/menu-service.md`, limits).
- Crossing appends and removals may leave `imageUrl` unequal to the first image
  (`menu-item-images.repository.ts:23`), until the next change.
- A category may be deleted while an item is put into it: the count and the delete are two
  statements (`menu.service.ts:62-67`).
- A cached copy stored after the key was dropped stays until it expires.

Tracking and notifications
- A trigger that arrives while `start()` loads the delivery is dropped (`run` returns without a
  context), although `docs/services/tracking-service.md:136` says a change in between triggers a
  recompute; the resync repairs it. `subscribe` adds its listener after the channel was joined.
- A `subscribe` that fails leaves the channel's empty set behind (`tracking-events.bus.ts:41-48`);
  later streams of that channel take it for joined and hear nothing (`LoseTrigger`).
- Of two crossing reports, the older may be stored last (`tracking.service.ts:71-88`); a report
  without `recordedAt` in between switches the order check off. A position may be shown LIVE for
  less than a second after it turned stale.
- A death between a notification's insert and its event's marker tells the customer twice: the row
  has no key. A cancelled delivery notifies nobody.

Listings and scripts
- A listing filtered by a status, or sorted by something that changes, may hide a row when others
  leave the filter or move between pages. Restaurants sorted by a name that is not unique, orders and
  notifications by creation time have no second key, so ties may come in any order on each page.
- `seed-demo --more-orders` fails after a finished demo run, because the PICKED_UP scenario keeps the
  demo driver BUSY; and a run that died after a dispatch leaves its driver BUSY, so that plain reruns
  fail too, although they are called safe. A rerun started before the first run's order has taken its
  status may place a second one. `seed.ts` does not empty the cart it finds.
- A rerun within 60 s of a write whose `cache.del` failed, or after a slow reader stored the menu of
  before the write, reads a menu without what is there (`gateway-seed.ts:198`, `seed.ts:79`,
  `menu.service.ts:85-91`) and creates headings and dishes a second time. `seed.ts` looks for its
  restaurant on the first page of all restaurants (`seed.ts:60-61`): once newer ones fill that page, it
  creates a second one.

## 8 What is not modelled

Each component's status and reason is in `PROJECT.json`. In short:

- `api-gateway`, health checks, controllers, DTOs, logging, guards: no behaviour over time. Who may
  do what appears as the guards of the actions; HTTP encodings do not appear.
- Email verification tokens, addresses, avatars, menu texts and prices, restaurant data: single
  writes nobody races for.
- Location trust (speed between reports) and the driver card: arithmetic and reads without state. The
  production module wires `NO_ETA_ESTIMATOR`; Freshness models an estimator that answers as well.
- The rate limiter: one counter. A process that dies between INCR and EXPIRE leaves it without an
  expiry (`rate-limiter.service.ts:9`).
- Timers' lengths appear only as fairness, or as ticks where rounding matters.
- A payment whose process dies while it is PROCESSING stays there, as its documentation says;
  `OutcomeSpreads` starts from a settled one. A crash between a claim and its record leaves a driver
  BUSY without a delivery, which the reconciliation does not look for, as its documentation says, so
  no liveness is claimed there. The reconciliation's window of 24 hours and 100 rows is not counted.
- `scripts/e2e.ts` asserts and keeps nothing; the OpenAPI generators are pure.

# FoodExpress in TLA+

FoodExpress takes an order through three services: Restaurant accepts it, Paiement debits the
client, Livraison finds a courier. Commande orchestrates this as a saga, over a network that
loses and delays, with a database per service and RabbitMQ for what is asynchronous. A Gateway
relays the clients to it. This
directory models that system from its code, checks it with TLC on small instances and proves
what matters most with TLAPS.

Paths below are relative to `src/services/`.

## 1. The system

| Component | State it keeps | Operations | Module |
|---|---|---|---|
| **Commande: saga** (`commande/app/saga.py`) | orders, `saga_log`, outbox rows | `create_order`, `apply_delivery_result`, `expire_delivery`, `_cancel` | `Commande`, `FoodExpress` |
| **Commande: outbox relay** (`outbox.py`, `events.py`) | `published_at`; the rows it selected | `enqueue`, `relay_once`, `_drain`, `publish` | `Commande`, `FoodExpress` |
| **Commande: verdict consumer, deadline thread** (`consumer.py`, `deadlines.py`) | none | `_handle`, `expire_overdue` | `FoodExpress` |
| **Commande: protected calls** (`clients.py`, `circuit_breaker.py`, `retry.py`, `bulkhead.py`) | breaker state, slots | `get_menu`, `debit`, `accept_order`, `refund`, `cancel_order`, `void_payment` | `CircuitBreaker`, `ServiceCalls`, `SagaBudget` |
| **Commande: threads of the server** (`routers/orders.py`, `common/database.py`) | threads, database connections | a request of each endpoint, a turn of a background thread | `CommandeThreads` |
| **Paiement** (`paiement/app/service.py`, `psp.py`) | transactions, refunds; the PSP's books | `debit`, `void_order`, `refund` | `Paiement`, `PaiementSessions` |
| **Restaurant** (`restaurant/app/service.py`) | acceptances; a seeded catalogue | `accept_order`, `cancel_order` | `Restaurant`, `RestaurantSessions` |
| **Livraison** (`livraison/app/service.py`, `consumer.py`, `routers/deliveries.py`) | deliveries, assignments | `handle_order_ready`, `request_delivery` | `Livraison`, `LivraisonSessions` |
| **Messaging** (`common/messaging.py`) | durable queues in RabbitMQ | `publish`, `start_consumer` | `FoodExpress`, `LivraisonSessions` |
| **Gateway** (`gateway/app/proxy.py`, `routers/`) | a connection pool per service | `forward`, `proxy`, `order_tracking` | `Gateway`, `Front` |
| Authentication, metrics, health, settings, schemas, deployment | counters | | not modelled |

**Interaction.** `POST /orders` runs `create_order` in a thread of its own: it reads the menu,
asks Restaurant for an acceptance and Paiement for a debit, each call with retries, and commits
once at its end. The commit inserts the order together with outbox rows. The relay thread
publishes those rows to RabbitMQ, or carries them out at Paiement when they are voids. Livraison's
consumer takes `order.ready_for_delivery`, commits a delivery and announces a verdict. Commande's
consumer, the deadline thread and `POST /orders/{id}/delivery-result` all conclude the order
through `apply_delivery_result`. The Gateway stands before all this: it relays a request with one
attempt, or up to three for a read, through a pool of connections per service, and stops waiting
after 8 s for Commande, which goes on.

**What is hard.** Several threads conclude the same order from a status they read earlier. A
timeout says nothing about what the service did, so compensations race the calls they undo.
Publication and mark are two steps with a crash between them. The relay works on rows that
another thread deletes. Paiement looks up, charges and commits in three steps. Calls report
their outcome to a circuit that has changed state since it let them through. A request needs a
thread, a connection and a thread again, of which there are few, and the Gateway gives up on
requests that still hold them.

**What makes each component correct.**

- Saga: it requests a courier only for paid and accepted orders, and confirms only what has one;
  unknown debits are pursued until settled; declined orders are never charged; conclusions are
  final and a confirmed order keeps its debit; every order concludes.
- Relay: events reach the broker in the order of the outbox, each conclusion in the end, and no
  courier is requested once its order has expired.
- Paiement: one charge per order, no more given back than was taken, a void is final and really
  undoes the debit, and `statut` agrees with the balance.
- Restaurant: one verdict per order, and an answer once given stays true.
- Livraison: one courier and one announcement per order, and no message taken off its queue
  without a delivery.
- Gateway and threads: a client that ordered once has one order, and learns so or learns that there
  is none when the Gateway knows; a request that reached Commande ends; nothing stands still by
  what the Gateway itself lets in.
- Protected calls: one probe at a time and always one while half-open, slots given back, only
  outages open the circuit, and it rests and then tries again.

The file `PROJECT.json` lists the hazards at their lines with the properties that watch them.

## 2. The modules

```
OrderIds                       the set of orders all services share
 |- Commande                   tables of Commande and the transactions on them
 |- Paiement                   what Paiement promises: atomic endpoints
 |    ^ implemented by
 |    PaiementSessions         threads, sessions, the PSP
 |- Restaurant                 what Restaurant promises: atomic endpoints
 |    ^ implemented by RestaurantSessions  threads, sessions
 |- Livraison                  what Livraison promises: one assignment, one announcement
 |    ^ implemented by LivraisonSessions   consumer, requests, queue, stops
 |- PartnerServices            composes the last two sessions
 `- FoodExpress                composes the four promises with threads, network, broker, faults
Gateway                        clients, forwards, pools
 `- Front                      composes it with
    CommandeThreads            the threads and connections of Commande
SagaBudget                     how long the calls of create_order take
CircuitBreaker                 the breaker's four locked operations
 `- ServiceCalls               threads, bulkhead, breaker, retries, time
```

`MC*` modules are what TLC runs, with symmetry sets where no liveness is checked. `*Proofs` modules
hold the theorems: `FoodExpressProofs` and `ConclusionProofs` about `FoodExpress`,
`PaiementSessionsProofs` and `PaiementBooksProofs` about `PaiementSessions`, the others about the
module they are named after.

### FoodExpress and the four service modules

| State | Code |
|---|---|
| `orders`, `saga_log`, `outbox`, `published`, `nextId` | committed rows of Commande |
| `phase`, `attempt`, `reply` | where the thread of `create_order` stands, its retries, the answer that reached it |
| `work` | finishers between the read and the commit of `apply_delivery_result` |
| `drain`, `batch`, `step` | the relay between its SELECT and its last commit |
| `net` | HTTP requests on their way |
| `readyQ`, `verdictQ`, `bound`, `sent` | RabbitMQ: its two queues, whether Livraison's exists, what was published |
| `unacked` | what Livraison's consumer has committed and not acknowledged |
| `tx`, `acceptance`, `delivery`, `announcing` | the services' rows; a delivery committed and not announced |
| `faults` | crashes and raised handlers so far |

Each action is one atomic step of the code; the comment above it names the handler. Choices made
where the code is finer or wider than the model:

- **One commit.** `create_order` adds rows to its session and commits once, so `PENDING` is never
  visible and no action inserts it. `Commit` is that transaction; its parts (`_log`, `enqueue`,
  the status) are its arguments.
- **The menu read** is merged with the start of the thread: it changes nothing at Restaurant, and
  its retries and timeouts only decide between the outcomes `ReadMenu` chooses from.
- **Calls.** `SendAttempt` puts a request on the network and a timeout is a reply that is not
  received. The service may execute the request at any later time, before or after the retry,
  the compensation or the crash of its sender. Several attempts are told apart by `n`. `net` is a
  set: two identical compensations on their way at once are one.
- **Compensations** are tried once and their answer is not used. The refund and the cancellation
  of a failed delivery are sent by `Begin`; each may arrive any time later or be lost.
- **The debit "rejected"** (a 4xx that is neither 201 nor 402) leaves the transaction alone; it
  stands for the amount of zero that the schema of Paiement refuses.
- **Finishers.** `Begin` reads the order as waiting and `Finish` commits without reading it
  again. The DELETE of `expire_delivery` is executed by the database before the HTTP calls, and
  its transaction holds the row until it commits: `Locked` makes the relay's mark of that row
  wait. `transaction_id` is always set on a waiting order.
- **Time.** Any waiting order may be overdue: `created_at` is not modelled, so every property of
  the saga holds whatever `DELIVERY_DEADLINE_SECONDS` is.
- **The relay** handles the rows it selected at the start of a drain. Its commit makes the session
  forget the rows it loaded (SQLAlchemy's `expire_on_commit`), so the next row is read again
  (`Reload`), and a row deleted meanwhile raises and ends the turn (`RowDeleted`). `BATCH_SIZE`
  is not modelled: no instance holds a hundred rows.
- **The broker** drops a message no queue is bound to. `Bind` happens when Livraison's consumer
  first connects; initially the queue may exist or not. Notification, the only reader of the other
  events, is not in this repository.
- **Who calls the services.** `POST /deliveries` is public and runs Livraison's handler for any order
  id: `CourierRequested` may come at any time, also before the order exists, and its verdict may
  reach Commande first. `POST /orders/{id}/delivery-result` is `Callbacks`. Paiement and Restaurant
  are called by Commande alone here; requests that clients send them directly are in
  `PaiementSessions` and `RestaurantSessions`, and the saga's properties do not cover a stranger who
  pays or refunds the order under way.
- **The acknowledgement** of a READY comes after its handler: `CourierAssigned` commits the delivery
  and leaves the message in `readyQ` and `unacked`, and `Acknowledged` takes it away, unless the
  broker delivers it again. A message redelivered finds its delivery and is acknowledged.
- **Restaurant's foreign key** refuses restaurant 0, under which `cancel_order` records an unknown
  order (`restaurant/app/service.py:105`): on the deployed PostgreSQL nothing is written.
- **Faults**: Commande stops (all its threads at once) and starts again; a request, a finisher or
  the relay raises, its commit included; Livraison stops before its announcement, or raises before
  its commit. `MaxFaults` bounds how many.

### PaiementSessions

`session[w]` is what a thread of Paiement holds between two statements: a debit goes through
`Debit` (look-up), `Charge` (PSP) and `Insert` (commit); a refund through `Refund` or `VoidOrder`
(load), `Balance` (its refunds are read by a second query), `Credit` (PSP) and `Settle` (commit).
`charged` and `givenBack` are the PSP's books. Requests that are answered from the first read
change nothing and are no step. The session writes `statut` only if it changed it, as SQLAlchemy
does. `Insert` fails when `order_id` is taken, which answers 500. Amounts are in thousandths, so
that rounding to the cent (half to even) is part of the model.

The module implements `Paiement` with `tx <- statut` (property `Promise`): for the statut of a
transaction, overlapping and failing requests are the atomic endpoints. This is why `FoodExpress`
composes `Paiement` rather than the sessions. The books are not part of that promise, and the
run `sessions_double_debit` shows why.

### RestaurantSessions, LivraisonSessions, PartnerServices

`desk[w]` and `crew[w]` are what a thread holds between two statements. An acceptance is looked up
and decided (`AcceptOrder`), committed (`InsertAcceptance`) and read back for the answer
(`Refresh`); a cancellation is looked up (`CancelOrder`) and committed (`Update`). `closed` holds
the orders that `_decide` refuses: it depends on the request and on a catalogue that no request
changes, so every attempt of one order decides alike. `told` and `undone` record what was answered.
A request may raise or its process stop at any step (`Drops`).

In Livraison the consumer takes the head of `inbox`, and `POST /deliveries` runs the same handler
beside it (`Posters`). A READY stays at the head until its handler returns or raises, and `Stops`
gives it back. `Publish` reaches the broker or loses the verdict; either way the handler returns,
and the consumer acknowledges in a step of its own (`Acknowledge`), before which a stop brings the
message back.
`ready` is the list of messages published, `MaxReady` its bound, and `announced`, `silenced` and
`rejected` record what became of verdicts and messages. A Livraison that stops loses all its
threads at once, which is `Halts` of `Livraison`.

Each module implements the one that `FoodExpress` composes: `Restaurant` with the same
`acceptance`, `Livraison` with `announcing` the orders that a thread has committed and not
announced.

### Gateway, CommandeThreads, Front

`leg[f]` is a forward: waiting for a connection of the service's pool (`pool`), `sent`, or `over`
with a code that stands for a class of answers: `done`, `error` (an answer of the service below
500 or not, relayed as it is), `full` (503, no connection within `POOL_TIMEOUT`), `lost` (502,
504). A POST has one attempt, a read `Attempts`; only a cut connection is tried again. A tracking
makes two forwards in parallel and is answered when both are over; only that of Commande decides
(`Reply`). The pool of each other service is its own, so one service beside Commande is enough.

`stage[j]` follows a request in Commande: `queued` for a thread, then in the thread `calls` (the
HTTP calls of `create_order`, whose session has made no query yet and holds no connection), `waits`
for a connection, `works`. A read then has its order (`Reads`); `create_order` commits
(`Commits`), which gives the connection back, and takes one again to read its order back (`rereads`,
`Refreshes`). Then it `leaves`: its endpoint has returned, and the response waits for a
thread in which it is built, while its session keeps the connection until `get_session` closes it.
A wait for a connection ends after `pool_timeout` (`WaitTimesOut`), also at the commit of
`create_order` and at the read that follows it: the client is then answered 500 with its order
placed. `Front` puts the two together: each attempt of a forward is one request of
Commande, whose answer reaches the Gateway only if it still waits for it (`Awaited`).

### SagaBudget

Durations in tenths of a second, from `clients.py:33-34` and `retry.py:17-18`: an answer comes at once or as
late as the read timeout allows, a failed attempt takes the whole timeout, and the pause is the
base doubled at each attempt, or twice that with the most jitter. Only the extremes are taken,
connecting is free, and nothing else costs time: what the run finds too long is so in the code.

### CircuitBreaker and ServiceCalls

The four operations of the breaker run under its lock and are one step each. `rested` counts ticks
since `_opened_at`, up to `reset_timeout`, beyond which the code draws no distinction. A call takes
a slot, asks the breaker, makes its attempts and pauses, reports its outcome and gives the slot
back. `Tick` lets time pass, never beyond the end of an attempt, a pause or the report of an
outcome that is due. `DurationAssumption` says that a call takes less than `reset_timeout`: 3
attempts of about 0.5 s to connect, 1 s to write and 1 s to read with pauses of 0.6 s in all is
about 8 s, against 15 s. `httpx` bounds each read and not the answer as a whole; the answers of
these services are short enough to come in one read. Without the assumption a stale call could outlive the rest of the circuit, and its
outcome would be taken for the probe's.

## 3. The runs

Runs that pass:

| Run | Instance | Shows |
|---|---|---|
| `saga_safety` | 1 order, 2 attempts, consumer + deadline, 1 fault | type, the inductive invariant, `CourierRequestsAreEarned`, `DebitUnknownIsPursued`, `DeclinedIsNeverCharged`, `DebitIsTraced`, `ReadyBeforeConclusion`, `ConfirmedWithCourier` |
| `saga_liveness` | 1 order, 1 attempt, consumer + deadline, 1 fault | `EveryOrderConcludes`, `UnknownDebitIsSettled`, `ConclusionIsPublished` |
| `sessions_concurrent` | 1 order, 3 threads, an amount accepted and one declined, 1 failure | type, `VoidIsFinal`, `RecordedIsDone`, `RefundsAreTold`, the refinement `Promise` |
| `sessions_serial` | 2 orders, 1 thread, amounts 0.4, 1, 2.5 and 3.6 cents, partial refunds | `BooksMatch`, `StatutMatchesBalance`, `Promise` with partial refunds |
| `calls` | 3 threads, 2 slots, threshold 2, 2 attempts of up to 2 ticks, rest of 6 | type, `HalfOpenHasProbe`, `OneProbe`, `SlotsAreHeld`, `OpenEnds` |
| `services` | 1 order; 3 threads of Restaurant; Livraison's consumer, 2 requests, 3 READY messages | type, `AnswersStand`, `AnnouncedOnceOrLost`, `TakenIsDelivered`, the refinements `RestaurantPromise` and `LivraisonPromise` |
| `front` | 2 orders and a tracking, 2 attempts, pools of 2 and 1; 1 thread, 2 connections, a background thread | type, `AnswerTellsTheOrder`, `StandstillNeedsAbandoned`, `EveryRequestEnds` |

Runs in which TLC finds what a sentence of the repository says violated:

| Run | What the code does |
|---|---|
| `saga_race` | a verdict and the deadline both conclude the order, and the later commit replaces CONFIRMED by CANCELLED or the reverse |
| `saga_not_taken` | an acceptance that arrived after its timeout is never cancelled |
| `saga_refunded` | an expiry refunds and fails to commit; the verdict then confirms the order |
| `sessions_double_debit` | overlapping attempts of one debit charge twice |
| `budget` | retries of the menu and the acceptance make a saga outlast the 8 s of the Gateway |

`PROJECT.json` quotes the sentence each of them contradicts.

The models show these disagreements too, which have no run of their own:

- Commande that stops, or fails its only commit, after the debit leaves a charged client and no
  trace (`saga.py:4`); a commit that waits for a connection beyond 5 s does the same
  (`WaitTimesOut`);
- two overlapping compensations both read the balance and give the amount back twice
  (`paiement/app/service.py:91`);
- a commit of `create_order` followed by no free connection within 5 s answers 500 for an order that
  is placed (`saga.py:150`);
- a void that finds no transaction while the debit has charged and not committed wins: the debit's
  commit fails and the charge stays (`paiement/app/service.py:60`);
- the cancellation of an unknown order answers 500 and leaves no trace
  (`restaurant/app/routers/orders.py:5`, `service.py:102`);
- the compensations `cancel_order`, `refund` and `void_payment` go through neither bulkhead, so the
  two of 15 do not bound the threads a slow dependency holds (`clients.py:35-36`);
- the relay publishes a READY row that `expire_delivery` deleted after the batch was loaded, so a
  courier is requested for an expired order (comment at `saga.py:199`);
- an event published before Livraison first bound its queue is dropped by the broker and marked
  published (repository README, outbox row of the resilience table);
- a debit of less than half a cent is captured as 0.00, and its total refund evaluates
  `refunds[-1]` of an empty list (`paiement/app/service.py:103`);
- a call admitted while the circuit was closed that succeeds after it opened closes it before its
  rest (`circuit_breaker.py:95`);
- a 4xx of Paiement other than 402 counts as a failure of the circuit (`clients.py:172`), whose
  comment names timeouts, network errors and 5xx only.

**Why the bounds are enough.** Orders meet only in the outbox and its batch, in the relay's and
Livraison's single threads, and in the consumer's. One order has up to four outbox rows
(a READY and the events of two or more conclusions, since conclusions race), so head-of-line
failures, deletions and reordering happen with one, and the theorems hold for any number. Two
attempts make a retry overlap its predecessor; `saga_liveness` has one, for its properties are
about what happens after the thread of the order, whose late debit one attempt can be. One fault
is enough for a message to be delivered again and for the relay to publish twice. `Callbacks` is
empty in the runs: a callback does what the consumer does, without an acknowledgement, and may
conclude whatever its order's delivery is, so `ConfirmedWithCourier` is the stricter without it.
With one callback thread and no fault the instance of `saga_safety` has 981,000 states and the same
properties hold in it (they do too with one attempt and one fault, in 686,000); the theorems hold
for any set of callbacks. Three sessions are the debit, its retry and the void, or a void and two refunds. Two amounts
fall on both sides of the PSP's threshold, and the serial amounts on both sides of each rounding.
With three threads and two slots, one is refused, one is stale and one probes. In `services`, three
threads are an attempt, its retry and a cancellation, or the consumer and two requests; orders meet
only in Livraison's queue, and the theorems on these modules hold for any number of orders. In
`front` the sizes keep the order of the real ones (40 threads, 50 connections to Commande, 80
threads and database connections): `SizesAssumption` states it, one thread and two connections
satisfy it, and three requests with a retry are enough to fill both.

**Deadlock** is checked for `PaiementSessions`, `PartnerServices` and `ServiceCalls`. The runs of
`FoodExpress`, `Front` and `SagaBudget` turn it off: once their finite sets of orders and requests
are dealt with, the system has nothing left to do.

## 4. Fairness

`saga_liveness` assumes of `FoodExpress`:

- weak fairness of each request thread once started, of the deadline thread and of the relay:
  they are loops whose exceptions are caught (`deadlines.py:44-50`, `outbox.py:67-73`) and HTTP
  calls end by their timeouts;
- strong fairness of a publication and of an answered void: the relay tries them every half
  second for ever, and the claim is about a broker and a Paiement that do not fail every time.

Nothing is assumed of the consumers, of Livraison, of the verdicts or of the compensations.
`EveryOrderConcludes` therefore rests on the deadline alone.

`front` assumes that what holds a thread or a connection goes on (`Runs`, the end of a background
turn): calls, waits for the pool and commits are bounded by timeouts, and the server gives free
threads and connections to those that wait. Nothing is assumed of the Gateway, nor that any
request arrives or any background turn starts.

`calls` assumes for `OpenEnds` that threads go on, that time passes and that orders keep coming. The last
is needed because an open circuit changes state only when a call asks it to.

## 5. What is proved

All theorems hold for any finite set of orders and any value of the other constants that the
named assumptions allow.

**`FoodExpressProofs`.** `Invariant` proves `Spec => []IndInv`, one lemma per action. `IndInv` is
the conjunction of what the parts of the system know about each other:

- `AnswersAreTrue`, `RefusalIsDeclined`: an answer the request thread acts upon is still true at
  the service. This needs that nothing compensates an order before its thread is over.
- `VoidsAreForUnknownDebits`, `FinishersComeAfter`: that fact, for voids and for finishers.
- `RequestsAreCommitted`: a READY row, in the outbox or in a batch that has outlived its deletion,
  and a request the broker carried belong to an order that is recorded, paid and accepted. Without the
  batch the invariant would break when the relay publishes a deleted row. What `POST /deliveries`
  asks for is outside it.
- `BatchIsOneQueue`, `IdsAreFresh`, `MarkedVoidIsDone`: the relay is about to mark a void only if
  Paiement carried it out, and marking a row by its id marks no other. `DebitUnknownIsPursued`
  would not survive the mark without them.

`CourierSafety`, `DebitSafety` and `DeclineSafety` follow, and `TypeCorrect`.

**`PaiementSessionsProofs`.** `PromiseKept` is the refinement: initial states map to initial states
and each step to a step of `Paiement` or a stutter, with an invariant on what a session remembers of
the row it loaded. `VoidSafety` uses the same invariant. Both assume `Parts = {}`: refunds are
total, as the saga asks them. With partial refunds under way at once, a session that loaded an
earlier statut may write `PARTIALLY_REFUNDED` over `REFUNDED`.

**`RestaurantSessionsProofs`.** `RestaurantPromiseKept` is the refinement and `AnswersSafety` the
invariant, both from `AnswersStand` itself with one more fact: a thread that reads a row back or
cancels it works on a row that exists.

**`LivraisonSessionsProofs`.** `LivraisonPromiseKept`, `AnnouncementSafety` and `MessageSafety`
come from one invariant. `PublisherInv`: a thread about to announce an order has committed it and is
the only one, and nobody announced it or failed to. Without it `Announced` would not remove the
order from the refinement's `announcing`. `QueueInv`: the queue is the end of the list of published
messages and the consumer works on its head, so that what it takes away is what it has dealt with.
The module ends with the two services together, as `PartnerServices` composes them and as the run checks
them: `Together` (each keeps its own specification), `TypeSafety` and `PromisesKept`.

**`ConclusionProofs`** extends `FoodExpressProofs`: each theorem adds an invariant to `IndInv`.

- `TraceSafety` (`DebitIsTraced`) rests on `TraceInv`: an order whose thread has sent no debit, or is
  over without a trace of one, has no captured debit and none on its way, unless the transaction is
  declined already. The second half is what an attempt that outlives its timeout requires.
- `OrderSafety` (`ReadyBeforeConclusion`, an action property) rests on `OutboxInv`. `RequestIsFirst`: a
  READY row has a smaller id than the conclusion of its order, and the batch that holds the
  conclusion holds the row too unless it was published before. `ConclusionIsLast`: once a conclusion
  reached the broker, every READY row of its order is marked. `BatchIsPending` and `RowsAreRecorded`
  carry these over the SELECT and over ids used again.
- `ServedSafety` (`ConfirmedWithCourier`, an action property) rests on `ServedInv`, whatever finishers
  run. `VerdictsAreTrue`: a success verdict, in its queue or at work in the consumer, is that of a
  delivery with a courier, and the deadline never confirms. `WaitingIsEarned`: an order that waits
  for its courier is paid and accepted, or was refunded or cancelled since. It says nothing of what
  is undone afterwards or was undone by an expiry that failed to commit: `saga_refunded`.

**`PaiementBooksProofs`** allows refunds of any amount, any number of threads and of failures. `Does`
tells the effect of each action without the records of the sessions; four invariants use it.

- `TypeSafety`: `Sound` bounds the amount of a refund under way by the balance it read. Without it
  `refunded` could become negative.
- `RecordSafety` (`RecordedIsDone`): `Backed` carries the charge from the PSP to the row. The other
  half needs the sum of the refunds between `Credit` and `Settle`; instead of a sum, `Allotted`
  numbers the cents given back, gives each to a row or to one thread that has yet to commit, and
  counts them (`FiniteSetTheorems`).
- `ToldSafety` (`RefundsAreTold`) is the converse, for the refunds: `Covered` numbers the same cents and
  keeps each in a set of those told or lost, no larger than the rows and the failed requests allow
  (`Allowed`), or with a thread that has yet to commit it. `Capped` bounds a refund by the amount of its
  transaction, so that a failure loses no more than that.
- `BalanceSafety` (`StatutMatchesBalance`) and `SerialPromiseKept` (`Promise` with partial refunds)
  assume `[]OneRequestPerOrder`: two threads never serve one order at once, while requests on different
  orders overlap freely. A single thread, the instance of `sessions_serial`, satisfies it, and so do the
  requests of a saga whose calls are answered before their timeouts and which one finisher concludes.
  `Fresh`: what the thread read of its order still holds. Two total refunds that overlap break the
  first, a partial refund beside a total one the second.

**`ServiceCallsProofs`.** `ProbeSafety`: a half-open circuit always has a probe under way. A stale
call that ends closes or opens the circuit, so no bound on durations is needed. The other theorems come
from `CallsInv`:

- `Counted`: the slots in use are the calls that hold one, and the failures of an open circuit plus
  the calls under way stay below the bound of `TypeOK`. `SlotSafety` and `TypeSafety` follow.
- `Alone`: in an open circuit the time each call under way may still last, added to the rest so far,
  stays within the longest call, which `DurationAssumption` makes shorter than `ResetTimeout`. So
  all of them are over when the trial starts, and `OneProbeSafety` follows.

**`FrontProofs`**, for any number of clients, threads and connections:

- `TypeSafety`: `Limits`, the connections and the threads in use, is counted with injections between
  the forwards and the requests they wait for.
- `AnswerSafety` (`AnswerTellsTheOrder`): `Tells` follows the single forward of a client that orders. No
  request of it exists before its forward got a connection, nor after a refusal.
- `StandstillSafety` (`StandstillNeedsAbandoned`): at a standstill all threads and all connections of
  Commande are held; if the gateway awaited each of these requests it would have `Threads +
  Connections` connections open, more than `Pool["commande"]` by `SizesAssumption`.

TLC checked each inductive invariant on an instance of its run before it was proved, `Allotted` in the
form of the sum it stands for. `RecordSafety` and the type invariants do not depend on how requests
overlap.

**Model-checked only**: every liveness property (fairness and ENABLED are out of the prover's
reach). Every safety property, action property and refinement that a passing run checks is a
theorem, within the hypotheses named above, but one: `BooksMatch` (the PSP holds what the rows say) is
checked for requests that neither overlap nor fail, where it holds, and is not a theorem: of what the
code does in general, `RecordSafety` and `ToldSafety` are the part that holds for refunds, and
`sessions_double_debit` shows that nothing like it does for debits. `VoidIsFinal` and `Promise` with
partial refunds that overlap are not claimed.

## 6. What is not modelled

Authentication and the routing table of the Gateway (functions of a request, without state), the
creation of the shared `ServiceClients` (two first requests may create two, once in the life of a
process), the catalogue (nothing changes it), metrics (nothing reads them back), health, settings,
fault injection, deployment and the demonstration script. Time is abstracted except in
`ServiceCalls` and `SagaBudget`. Clients that call Paiement or Restaurant directly are not in
`FoodExpress`. The breaker and the bulkhead are not composed with the saga:
`FoodExpress` lets any call be refused before its first attempt.
The README of the repository accepts that the refund of a failed delivery is
best effort, so no property demands it.

## 7. Plan

Done: the saga with its services; the sessions of Paiement, Restaurant and Livraison with their
refinements; the protected calls; the Gateway with the threads of Commande; the time budget.

Proved: the safety properties, the action property and the refinements that the passing runs check.

1. What a race of finishers still guarantees besides `ConfirmedWithCourier` (a refund after every
   cancellation is not claimed).
2. The race in `get_clients`; a turn of the deadline over several orders.

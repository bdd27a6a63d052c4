# Formal model of the marketplace micro-services

This directory holds TLA+ modules that model the core of this repository (a
NestJS marketplace: api-gateway, users, products, checkout and payments
services with RabbitMQ between the last two), the TLC configurations that check
them on small instances, and TLAPS proofs of the main results for every
instance.

    tlc -config saga_two_workers.cfg MCPaymentSaga     # model-check one run
    tlapm PaymentSagaProofs.tla                        # check proofs

`PROJECT.json` lists every run with its properties, the source lines that each
definition stands for, the mutants that show each property can fail, the
hazards of the code and the theorems.

## 1. Inventory of the system

| Part | State it keeps | Operations | Hard behaviour |
|---|---|---|---|
| checkout-service, cart | `cart`, `cart_item` rows (PostgreSQL) | add item, remove item, read | concurrent transactions, row locks, unique indexes, retries, the money limit |
| checkout-service, orders | `order` rows | checkout, apply payment result, read | commit then publish, duplicated and late results, two requests on one cart |
| checkout-service, RabbitMQ client | one channel | connect, publish, subscribe | no reconnect, full write buffer, retry and DLQ, redelivery |
| payments-service, payments | `payments` rows | process an order, read | crash between any two awaits, two instances on one order, an external charge |
| payments-service, consumer and result publisher | one channel, counters | consume, publish result, reset, report | ack only after the work, retry, DLQ, a deaf or hanging consumer |
| payments-service, DLQ operations | none (the queue is the state) | stats, peek, reprocess, reprocess all, discard, purge | concurrent get/ack/nack loops on one queue |
| RabbitMQ | the queues | route, deliver, redeliver, expire | TTL, max-length, dead-lettering, cycle detection |
| api-gateway, proxy | circuits, cache of answers (in memory) | proxy a request, reset | retry of non-idempotent requests, timeout racing a late answer, half-open circuit, stale cache |
| api-gateway, health checks | circuits of their own, the last result of each service | check, report | overlapping checks, an open circuit after a recovery |
| api-gateway, guards | none | verify a token, ask users-service for its user | a token that expires between two attempts |
| users-service | `user` rows | register, log in, read | two registrations with one e-mail |
| products-service | `product` rows | create, read | creations repeated by the gateway; a product never changes |
| Prometheus metrics, throttler, observability | counters | count | none that a decision depends on |

How they interact. The gateway forwards HTTP to the four services, after a guard
that asks users-service for the user of the token. Checkout
asks products-service for a product when an item is added. `POST
/cart/checkout` commits an order and the completed cart in one transaction and
then publishes a message to `payment_queue`. payments-service consumes it,
stores a pending payment, calls the (simulated) gateway, stores the decision,
publishes it to `payment_result_queue` and only then acknowledges the order.
Checkout consumes the result and moves the order to paid or failed. A failed
callback rejects its message into a `.retry` queue whose TTL brings it back;
after `maxRetries` it is published to the `.dlq` queue, from which an operator
can reprocess it.

What makes each part correct:

- orders and payments: one decision per order, made once and never undone; the
  two databases agree; nothing a service was handed is dropped; a result is
  published only after the decision is stored; while both services are kept
  running, every queued order is settled or dead-lettered;
- cart: the total is the sum of the items, an order is exactly the cart it was
  made from, a completed cart never changes, requests are serializable and all
  are answered;
- DLQ: no message is left unacked behind a call, answers tell what was done as far
  as a call can know (a publish and its ack are two steps, and either may be lost),
  calls end;
- gateway: a circuit opens and closes as its counters say although requests
  overlap, a request that is repeated does no harm and its answer is the
  service's (not the case for a checkout), every request is answered, an old answer
  is never given for a new one;
- registration: one account per e-mail, and 201 only for who made it;
- products: what a creator is told is true of the database, a list or a product by
  id has whatever of it a client was confirmed or shown before;
- monitoring: a consumer that has gone silent is reported and stays reported, a
  service that is back is reported as healthy.

The hazards, each with its line and the properties aimed at it, are in
`PROJECT.json`.

## 2. Modules

| Module | Models | Composes / extends |
|---|---|---|
| `Broker` | the queues as `subscribeToQueue` declares them, and the budget of faults | |
| `Payments` | payments-service instances | `Broker` |
| `Checkout` | the order side of checkout-service | `Broker` |
| `PaymentSaga` | the three together, all saga properties | `Payments`, `Checkout`; implements `OrderLifecycle` |
| `OrderLifecycle` | abstract: what the two services promise about an order | |
| `CheckoutResults` | checkout-service against any producer of results | `Checkout` |
| `Cart` | the cart of a user under concurrent requests | implements `ShoppingCart` |
| `ShoppingCart` | abstract: one basket, requests take effect one at a time | |
| `Dlq` | the operator's calls on the DLQ | |
| `CircuitBreaker` | one circuit of the gateway | |
| `Gateway` | `proxyRequest`: circuit breaker, retries, timeout, for the requests to one service | `CircuitBreaker` |
| `GatewayRegistration` | registration in users-service behind the gateway | `Gateway`; implements `Accounts` |
| `Accounts` | abstract: one account per e-mail, and what a client is told of it | |
| `GatewayCheckout` | `POST /cart/checkout` behind the gateway | `Gateway` |
| `GatewayProducts` | products-service behind the gateway: reads with their cache and fallback, creations with their guards | `Gateway` |
| `ConsumerHealth` | the consumer of payments-service: deliveries, counters, verdict | |
| `HealthCheck` | the health checks of the gateway on one service | `CircuitBreaker` |
| `Monitoring` | both views of payments-service together | `ConsumerHealth`, `HealthCheck` |
| `MC*` | concrete constants for TLC | |
| `PaymentSagaProofs`, `CheckoutResultsProofs`, `CartProofs`, `DlqProofs`, `MonitoringProofs` | theorems about the module of that name, and their proofs | |
| `GatewayProofs` | lemmas about `Gateway`, whatever the service behind it does | |
| `GatewayRegistrationProofs`, `GatewayProductsProofs` | theorems about the two services behind the gateway | `GatewayProofs` |

### The saga: `Broker`, `Payments`, `Checkout`, `PaymentSaga`

State and code. `orderQ` and `resultQ` map each published message to where it is
(main queue, delivered, retry queue, DLQ, acknowledged, lost) and to its x-death
count (`getRetryCount`). `payment[o]` is the row of the payments table,
`order[o]` the status of the order row, `request[o]` the HTTP request that made
the order. Of an instance `w` of payments-service the model keeps the step its
consumer callback is at (`pc`), the message it holds (`held`, prefetch 1), the
entity in its memory (`row`) and whether its channel is open (`conn`). Checkout
has the same for its result consumer (`shopPc`, `shopHeld`, `shopConn`).

There is one action per `await`: `Receive`, `FindPayment`, `InsertPending`,
`Charge`, `SavePayment`, `PublishResult`, `Ack`, `HandleFailure` follow
`processPaymentOrder`, `processPayment` and the callback of `subscribeToQueue`;
`CompleteCheckout`, `PublishPaymentOrder`, `PublishUnavailable`,
`ReceiveResult`, `ApplyPaymentResult`, `AckResult`, `HandleResultFailure` follow
`OrdersService`. `applyPaymentResult` is one transaction under a row lock, hence
one action. Crashes, lost connections, database failures and full write buffers
come between any two of them. Points worth knowing:

- a database failure may come after the commit (`DbFailure`, `ApplyDbFailure`);
- `channel.publish` returning false means that the message *was* sent, but the
  callers treat it as a failure (`PublishResult`, `PublishPaymentOrder`,
  `ReprocessCopy`, `DeadLetterAndRetry`);
- when the connection closes under a live process nothing reconnects: the broker
  redelivers, the callback runs on, and its ack or nack throws in the catch
  block, an unhandled rejection that ends the process (`LoseChannel`,
  `ChannelClosed`);
- a service that starts without a broker runs deaf (`StartDeaf`);
- a message that expires in the main queue is dead-lettered to the retry queue,
  and dropped by RabbitMQ when its TTL ends there, since the cycle has no
  rejection (`MainExpiry`, `CycleDropped`);
- amounts are in cents; a `transactionId` is the number of the gateway call that
  made it; `fits` says whether user, amount and method of a result are those of
  its order (`validatePaymentResult`, in `Matches`): always so for a result of
  payments-service, whose row copies them from the order message;
- nothing in the repository starts a service that has ended, or one that has lost
  its consumer: `Start` and `StartShop` are what somebody may do (section 3);
- `Operator` allows an instance to reprocess any message of the DLQ, a superset
  of what the loops of `Dlq` can do. `Reprocess` is the publish and the ack of one
  message, `ReprocessCopy` a publish whose ack does not follow.

### `CheckoutResults`

The same checkout module with an arbitrary producer: results for orders that do
not exist, repeated, contradicting the one applied, or with the amount, user or
method of another order. payments-service never
produces them, but the code guards against them, and this is what is checked.

### `Cart`

An addition first asks products-service (`Lookup`: an active product, or one of
the refusals of `getProduct`); nothing is locked yet. Then each request runs one
READ COMMITTED transaction. `SelectCart` takes the
snapshot of `SELECT ... FOR UPDATE`, `LockCart` gets the row lock and evaluates
the condition again on the current row, as PostgreSQL does: a cart completed
during the wait is not returned, and a cart created since is not seen. The last
step (`CreateCart`, `WriteAdd`, `WriteRemove`, `WriteCheckout`) stands for the
writes and the commit: until then its effects can only make other transactions
wait, never be read. `CreateCart` fails on `UQ_cart_active_user` when there is an
active cart by then, and the request starts over, at most `MaxAttempts` times.
Prices are constants because products-service has no update. One user is enough:
every statement filters on the user. A unique violation on `UQ_cart_item_product`
or `UQ_order_cart` cannot happen under the row lock and has no action. `Abort`
is a database error or a crash at any point.

### `Dlq`

The calls of `DlqController` as loops on one channel. Messages are numbered as
they arrived; `get` takes the smallest ready one, and `nack` with requeue gives
it back at its old place, as RabbitMQ does. `bound` is the `messageCount` read
before the loop (or the limit of a peek), `got` the message a call has out, `copies`
how often it was published to the main queue again, `removed` and `failed` what the
call answers.

A reprocessed message is published (`Publish`) and then acked (`Ack`), with everything
else in between. `PublishFails` is `publishMessage` throwing: before it sent anything,
or because `channel.publish` returned false for a message that it sent; so the message
goes back to the DLQ (`Catch`) with or without a copy. `Unreadable` is `JSON.parse`
throwing on a message that is no JSON (`Garbage`). When the channel closes
(`LoseChannel`) what is out returns, also under a call that has published and not
acked: its message is then in both queues, and no answer counts it. `LoseAck` is a
channel that closes with an ack on its way: the call has counted a message that the
broker gives back.

### The gateway: `CircuitBreaker`, `Gateway`, `GatewayRegistration`, `GatewayCheckout`, `GatewayProducts`

`circuit` is the entry of `CircuitBreakerService.circuits` for one service; its
count stops at the threshold, beyond which nothing in the code tells counts apart,
and its `waiting` is `Date.now() < nextAttemptTime`; `PeriodEnds` is the clock. An
execution enters (`Enter`), awaits, and reports (`OnSuccess`, `OnFailure`) to
whatever the circuit has become. `req[r]` is the execution of `proxyRequest` for
a request: awaiting an attempt, in the delay between two, or answered. `call[c]`
is the HTTP call of one attempt. The attempt and its call part when the timeout
wins the race (`AttemptFails`): the call may then still be served, and its
response reaches nobody (`Reply`). A lost call, a lost response and a crash of
the service need no action, because a call that makes no further step is all of
these, and no fairness obliges the service. The retries are inside the circuit:
`Exhaust` reports one failure for all attempts, and `Retry` does not ask the
circuit again. A refused or exhausted request ends in its fallback
(`"fallback"`); what the client then gets depends on the service and is the
operator `Status` of the modules that need it.

The services take a call in two steps. `Find` and `Save` are the check and the
insert of `AuthService.register`, with the password hash between them; `Save`
fails on the unique e-mail. `Complete` is the transaction of `OrdersService.checkout`
(its statements are in `Cart`) and `Publish` its second half.

`GatewayProducts` adds what reads have: `cache` is `CacheFallbackService.cache`
(`Expire` is its clock), which every answer below 500 fills (`Remember`), also the
one of an attempt that lost its race (`late`, `LateAnswer`). `FallBack` is
`createServiceFallback`: an error for a creation, the cached body or the empty page
for a read. The cache keeps the body alone, while the controller expects body and
status, so a cached body reaches the client as 500 (`Status`, and section 4). A
creation passes the guard of the gateway once (`Authorize`), and that of
products-service at every attempt (`Unauthorized`), with a token that may expire
in between. A path selects rows (`Shows`, `Selected`): the list of all products
(`findAll`), that of one seller (`findBySeller`), or one product by its id, which is
answered 404 while there is none (`FindOne`). `known` is no state of the program: it
remembers which products clients had been told of when a read was sent, by the 201 of
a creation (`Confirmed`) or by the answer to a read (`Shown`).

### `ConsumerHealth`, `HealthCheck`, `Monitoring`

`metrics` is `PaymentConsumerService.metrics` with the accumulator
`totalProcessingTime` beside it, and `Verdict` is what
`ConsumerMetricsController.getHealth` makes of it. Time passes in steps of a
minute (`Tick`); an age saturates at the window of the verdict. A consumer is deaf
after a failed subscription or a closed connection, as in `Payments`, and a
delivery that ends on a closed channel ends the process (`FinishDeaf`).
`HealthCheck` is `checkServiceHealth` on one service: overlapping checks
(`check`), a circuit of their own, and `healthCache`, written by whichever ends
last; `ReportedHealthy` is what `GET /health/services/:serviceName` repeats of it. `Monitoring` joins them: `Up` is what `GET /health` of payments-service looks
at, the database and RabbitMQ over connections of its own, and so not whether the
consumer listens.

## 3. Runs

Every passing run checks deadlock off (`CHECK_DEADLOCK FALSE`): requests, orders,
calls and messages are finite in a model, and when all are done the system rests.

| Run | Shows |
|---|---|
| `saga_two_workers` | 1 order, 2 instances, all six fault kinds, up to 3 faults: `ResultsArePersisted`, `NothingDropped`, `OneConsumerPerMessage`, the saga implements `OrderLifecycle`, and `QueuedOrdersSettle` if both services consume again and again |
| `saga_one_worker` | 2 orders (one approved, one declined), 1 instance, all fault kinds: types, `OrdersFollowPayments`, `ResultsReflectPayments`, `NoChargeAfterFinal` |
| `saga_pending_forever` | violation: an order whose request never reached the broker stays pending |
| `saga_stale_result` | violation: two instances, a result that differs from the stored record |
| `checkout_results` | any producer, all fault kinds, 1 fault: `AckedResultsApplied`, `TerminalOrdersStay`, and the retry loop of a result ends if the service consumes again and again |
| `cart_requests` | 4 concurrent requests, 2 products: totals, orders, conflicts, frozen carts, serializability, and all requests are answered |
| `dlq_calls` | 2 concurrent calls, 2 messages, some no JSON, 1 fault (a failed publish with or without its copy, a lost channel, a lost ack): nothing stays unacked, answers add up, calls end |
| `dlq_not_found` | violation: a message that is not at the head is "not found in DLQ" |
| `gateway_registration` | 3 registrations, 2 of one e-mail, 2 attempts each, threshold 2: `CircuitCountsFailures`, `OpensAfterExhaustion`, registration implements `Accounts`, every admitted request is answered |
| `gateway_products` | a creation and two reads, of all products, of another seller's, or of the product that the second attempt of the creation may insert, 2 attempts each, threshold 1: creations told true, answers current, the empty page only for what nobody was answered |
| `monitoring` | a consumer with all its troubles, 2 overlapping health checks, threshold 2: the verdict on a silent consumer is given and only lifted by work, a service that is back is reported as healthy |
| `gateway_checkout_422` | violation: one checkout, two attempts, 422 for an order that was made |

Bounds. `MaxOrderMsgs`/`MaxResultMsgs` bound how often something is published;
2 and 3 leave room for a copy from the DLQ and for a result published twice more.
`MaxRetries` is 1 or 2 instead of 3: the loop and its end are both reached, and
nothing depends on the number. `MaxFaults` of 3 allows a crash, a redelivery to
the other instance and a second crash. Four cart requests are the fewest in which
an addition loses twice to carts that are created and completed under it;
`MaxAttempts` is 2 and `MaxCents` 35 so that both limits are hit. Two calls and
two messages make a DLQ call meet a message of another order before its own, or
find the queue empty while the other call holds what it looks for. Three
registrations and a threshold of 2 open a circuit, half-open it, and let a late
success close it or a late failure open it again; two attempts (five in the code)
are enough for one to outlive its timeout and compete with the next. In
`gateway_products` a threshold of 1 makes the circuit open, close and be reopened
with three requests. `MCAsks` asks two cart requests for additions and one for a checkout, and leaves
the fourth open, so that removal, addition and checkout all overlap. In
`monitoring` a window of two minutes, a rate of 50 and two failures reach each
verdict within four deliveries. Only `gateway_products` uses symmetry, of its two reads:
no definition tells them apart, and the run has no liveness property.

Fairness. A live process runs its callbacks to the end, and the broker delivers to a
connected consumer and ends TTLs: weak fairness of those actions, per instance and per
request. No start of a service is fair. Nothing in the repository starts one that has
ended: the compose files of checkout and payments hold only PostgreSQL, and
`src/README.md:184-253` starts the services by hand. The liveness properties of the
saga are therefore conditional. `QueuedOrdersSettle` and `PendingOrdersSettle` speak of
behaviours in which both services consume again and again (`[]<>Served`: checkout, and
some instance of payments, has its consumer), `ResultsLeaveTheQueue` of those in which
checkout does (`[]<>shopConn`). This is what somebody who watches the services has to
provide: a service that ended on a closed channel, or that is deaf because
`waitForConnection` gave up or the connection closed, leaves its messages where they
are. Under the premise retries, redeliveries and the end of the callbacks are up to the
code, and `QueuedOrdersSettle` excepts only what the code gives up on, a message that
is dead-lettered or dropped by the broker. `saga_pending_forever` shows an order that
stays pending although both services consume: its request was never published.

In the gateway only its own timers are fair (`AttemptFails`, `Retry`); a
downstream service owes nothing. In the cart a transaction goes on when it is not
blocked. The loops of `Dlq` go on. In `monitoring` clocks run and a health check ends,
by an answer or by its timeout. `RecoveryReported` needs that clients go on asking for
the health of the service (weak fairness of `Begin`), because the gateway checks only
when it is asked. No fault, no user request and no operator's call is ever assumed to
happen.

## 4. Findings

1. `saga_pending_forever`: the order is committed before the publish, and nothing
   publishes later (no outbox). A crash or a missing channel in between leaves
   the order pending for ever.
2. `saga_stale_result`: two instances that hold the same order both charge it; the
   second save replaces the `transactionId` that the first already published.
   With one instance this cannot happen (`saga_one_worker`).
3. `dlq_not_found`: nack with requeue returns the message to the head, so the
   loop of `reprocessMessage` (and `discardMessage`, `peekMessages`) meets the
   same message again.
4. `gateway_checkout_422`: a 503 of checkout-service, or an answer later than the
   timeout, is a failed attempt to the gateway although the order is committed.
   The next attempt finds no active cart, and 422 becomes the client's answer.

Observed while modelling, without a run of their own:

- a full write buffer answers a checkout 503 although its message is queued
  (`PublishPaymentOrder`; `checkout-service/docs/specs/03-finalizacao-do-pedido.md:269`);
- the cached fallback of products answers 500 (`products.controller.ts:73` reads the
  status of a raw body; `README.md:56` promises fallback answers);
- a creation of a product that is answered 201 may have inserted one product per
  attempt, and one that is answered 401 too, when its token expired between two;
- a consumer that is deaf from its start, or since a reset, is "healthy", and an idle
  one is "unhealthy"; the comment at `consumer-metrics.controller.ts:63` speaks of
  consecutive failures, the counter is of all failures since the last reset;
- a reprocessed message whose channel is lost between publish and ack is in both queues,
  and neither answer of the call counts it (`LoseChannel` of `Dlq`); the consumer meets
  the second copy like a redelivery;
- `/health/services` and `/health/ready` check all services anew at every call;
  `/health/services/:serviceName` only repeats the last check, however old, with its
  `lastCheck`, and starts none.

## 5. Proofs

Every safety property that a passing run checks, invariant, action property or
refinement, is also a theorem for every value of the constants. Each proof has the
same shape: an inductive invariant, stated in the module it is about and checked
with TLC before it was proved, a lemma per action (or per part of the invariant),
and the theorems as its parts.

### The saga (`PaymentSagaProofs`)

For every number of orders, instances, messages, retries and faults:

- `TypeCorrect`, `ResultsPersisted`, `DatabasesAgree`: the invariants `TypeOK`,
  `ResultsArePersisted`, `OrdersFollowPayments`, on `IInv`;
- `Refinement`: `PaymentSaga` implements `OrderLifecycle`, on `IInv`;
- `OneConsumer`, `NoneDropped`: `OneConsumerPerMessage`, `NothingDropped`, on
  `DeliveryInv`;
- `ResultsAreTheRecord`, `ChargedWhileOpen`: `ResultsReflectPayments` and
  `NoChargeAfterFinal`, on `SoleInstanceInv`, under `SoleInstance` (any two
  instances are the same one). One instance is what the repository's README starts
  (`src/README.md:249`), and the assumption cannot go: `saga_stale_result` is the
  counterexample without it.

`ResultsArePersisted` is not
inductive: that a published result agrees with the stored payment needs
`CallbackProgress` (after the save the stored row carries the verdict, after the
charge the entity does), which needs `PaymentsDecided` (a stored decision is the
gateway's verdict, hence two instances can only store the same one) and
`CallbacksHoldMessages` and `MessagesNameOrders` (what a callback holds is a
published message that names an existing order). The verdict being a function of
the amount is the fact that makes concurrent instances harmless to the status;
the `transactionId` has no such fact, which is why finding 2 exists.

`NothingDropped` follows the message: an order message that is acknowledged has a
published result (`AckedWorkPublished`), and a result that is acknowledged has
settled its order (`AckedResultsSettled`). Both speak of the moment of the ack, so
they need to know that the callback that acks still holds the message it worked on,
and that no second consumer does (`OneConsumerPerMessage`, which needs
`UnusedMessagesNameNone` for the messages that are published next). What a step may
do to a queue is stated once, per message (`OrderQStep`, `ResultQStep`): `IInv`,
the refinement and the delivery part all use it.

With one instance nobody writes a payment while a callback is between its read and
its save: `EntityIsCurrent` says that the entity in memory is the stored row where
it matters, at the charge, the save and the publish.

### Results from any producer (`CheckoutResultsProofs`)

`ResultTypes`, `AckedAreApplied`, `TerminalIsFinal`: `TypeOK`,
`AckedResultsApplied`, `TerminalOrdersStay`, for any producer, orders and results.
The strengthening is `AckIsDue`: what the callback is about to acknowledge has been
applied, and since no order leaves a terminal state, it stays so until the ack and
afterwards, whatever other results are applied in between.

### The cart (`CartProofs`)

For all requests, products, quantities, prices, limits and numbers of attempts:

- `CartTypes`, `CartTotals`, `CartOrders`: `TypeOK`, `TotalsAgree`,
  `OrdersMatchCarts`;
- `CartsFrozen`: the action property `CompletedCartsFrozen`;
- `CartRefinement`: `Cart` implements `ShoppingCart`;
- `ConflictsNeedCheckouts`: `ConflictNeedsCheckouts`.

All but the last rest on `CartInv`, whose core is `LockHolders`: a transaction that
holds the lock has read the active cart exactly as it is, and it is alone. With
`OneActiveCart` (the unique index) and `EffectsAreLast` (a request leaves
something behind only in its last step) every write is computed from current
data, and the step at which a request answers `ok` is the step at which
`ShoppingCart` applies it. `Total` stays folded in these proofs: that it is the sum
of the subtotals is its definition.

`ConflictNeedsCheckouts` counts carts, in `RetriesFollowCarts`: at its n-th run a
transaction knows of n - 1 carts that were created, and when it comes to the insert
they are completed, either because no cart was active at the snapshot, or because
the one it waited for is not active any more. An insert that fails has met one more
cart. So a first conflict is free and every further one costs a checkout.

### The gateway (`GatewayProofs`, `GatewayRegistrationProofs`, `GatewayProductsProofs`)

`GatewayProofs` holds what is true of any service: `GatewayInv` survives every
step of the gateway and every step of a service that never unsends a call
(`ServiceStep`). For all requests, e-mails, numbers of retries and thresholds:

- `GatewayTypes`, `CircuitCounts`, `CircuitOpening`: `TypeOK`,
  `CircuitCountsFailures`, `OpensAfterExhaustion`;
- `RegistrationRefinement`: `GatewayRegistration` implements `Accounts`;
- `ProductsTypes`, `CreationsTold`, `ListsCurrent`: `TypeOK`, `CreationsToldTrue`,
  `AnswersCurrent` of `GatewayProducts`;
- `EmptyPages`: the action property `EmptyPageOnlyUnanswered`.

`FailuresBounded` is the strengthening that `OpensAfterExhaustion` needs: the count
never exceeds the number of exhausted requests, since each of them adds one and a
success resets it. The refinement needs `ResponsesTrue`: a 201 on its way belongs to
the call that inserted the row, whatever has been retried since. For products the
same role is played by `CreationsTrue` (a response on its way is true, and a seller
stays one, so no attempt can make a 403 of another false) and by `ReadsCurrent`: what
clients knew when a read was sent is in the database, as no product ever leaves it,
and so in every response on its way to that read, as far as its path selects it
(`Complete`). That whatever a client is shown is in the database is the part of
`TypeOK` about `body` and `known`. `EmptyPages` needs `AnswersCached`: whatever a read was answered with
has an entry in the cache. `RoutesFit` ties a request to the route it took, so that
reads and creations never get each other's fallback.

### The DLQ (`DlqProofs`)

`DlqTypes`, `NoneHidden`, `AnswersTrue`: `TypeOK`, `OutMeansHandled`,
`AnswersAddUp`, for any orders, calls, messages and faults, on `DlqInv`. What
`AnswersAddUp` can say is bounded by what a call can know. Nothing leaves the DLQ
uncounted. The other way round each fault may have taken one ack with it, hence the
`+ faults`: a message counted as discarded or processed may be in the DLQ again. What is
counted as processed has its copy in the main queue, and a message leaves the DLQ as
reprocessed only after a copy of it did. A copy that is not counted as processed is that
of a failed turn, or of a call that is cut off, or may be, between its publish and its
ack (`CutOff`).

The part that is not inductive is the count of the copies: an ack counts a message whose
copy was published a step earlier, so `CopiesAhead` counts the calls that are about to
ack among the processed. A sum over calls is the cardinality of a set of pairs
(`Units`), so that a count that goes up by one is one element more, and no proof needs
induction over a sum. `AnswersFinite` says that those sets are finite however many calls
there may be, `CallSteps` that a call discards once, counts nothing before it starts,
has a turn of its loop to spare for the message in hand, and acks only what it has
copied.

### Monitoring (`MonitoringProofs`)

`MonitoringTypes` and `SilenceStays`: `TypeOK` and the action property
`VerdictLiftedByWork`, for any window, rates, limits and checks. The type of the
average is the part that needs proof: `CountersFit` bounds the accumulated time by
the deliveries that were counted, and `AverageBounded` concludes that the rounded
quotient is no longer than the longest delivery.

### Assumptions, and what only TLC checks

Assumptions are those on the constants (`BrokerAssumption`,
`PaymentsAssumption`, `CheckoutAssumption`, `CartAssumption`, `DlqAssumption`,
`ThresholdAssumption`, `GatewayAssumption`, `RegistrationAssumption`,
`ProductsAssumption`, `HealthAssumption`), which TLC evaluates
on every run, and `SoleInstance` in the two theorems that name it.

Only model-checked:

- liveness, which TLAPS cannot prove under fairness: `QueuedOrdersSettle`,
  `ResultsLeaveTheQueue`, `RequestsAnswered`, `CallsEnd`, `AdmittedAnswered`,
  `SilenceReported`, `RecoveryReported`;
- the four findings, which are counterexamples;
- what the folds compute (`Total`): induction over data.

## 6. Not modelled

- Prometheus counters, HTTP metrics, the throttler and the log: counts that no
  modelled decision reads;
- the token checks of checkout-, payments- and users-service, and `login`: they
  change nothing, and the guards in front of a creation are in `GatewayProducts`;
- reads of carts, orders, payments and users: nothing to interleave with;
- parsing and formatting of money: amounts are in cents;
- malformed result messages: `parsePaymentResultMessage` rejects them as a failed
  callback, the path `Matches` takes for a result of another order;
- the cart controllers of the gateway: `proxyRequest` again, as in `Gateway`;
- helpers that no code calls: `resetCircuit`, `TimeoutService.executeWithTimeout`,
  `publishPaymentOrderSafe`, `incrementRetryCount`;
- a crash of the gateway, after which its calls live on as late calls;
- observability-stack: configuration.

## 7. Plan

Done: the saga, the cart, the DLQ, the gateway with registration and products, and
monitoring, modelled and checked; every safety property of a passing run proved.
Next:

1. an abstract specification of the DLQ (operations that take effect at once) that
   `Dlq` implements, with its proof on `DlqInv`;
2. an abstract catalogue that `GatewayProducts` implements: creations that take effect
   once per attempt that inserted, reads that see what was confirmed;
3. what bounds the steps of a loop, as far as it is a safety property: the measure
   behind `CallsEnd` (turns left) and behind `RequestsAnswered` (attempts left);
4. the circuit of the health checks: `CircuitCountsFailures` for `Monitoring`, on the
   lemmas about the circuit in `GatewayProofs`.

And to model, if a run is free: the repeated POST in front of `ShoppingCart` (what
an addition that is retried does to a basket), and `Money` over decimal strings.

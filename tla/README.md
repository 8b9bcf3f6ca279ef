# A TLA+ development for go-commerce-microservices

The repository is a small commerce system in Go: an HTTP gateway, four gRPC
services, PostgreSQL, MongoDB, Redis, Elasticsearch and RabbitMQ between them.
Its own logic is in the asynchronous paths: transactional outboxes, idempotent
consumers, retry and dead-letter queues, an event-driven saga and a CQRS
projection. Those are what these modules model, model-check and prove.

## 1. Inventory

| component | state | operations | talks to |
|---|---|---|---|
| order-service | `orders`, `order_items`, `outbox_messages`, `inbox_messages` | CreateOrder, confirm, reject, reads | publishes ReserveStockRequested, consumes the stock events |
| inventory-service | `inventory`, `stock_reservations`, outbox, inbox | reserve or refuse stock | consumes ReserveStockRequested, publishes StockReserved or StockReservationFailed |
| outbox relay (three services) | outbox rows, the worker's batch, the buffer of returned publishes | poll, publish with confirm, mark | broker |
| retry policy (order-service) | `.retry` and `.dlq` queues, attempt header | retry, dead-letter, requeue | broker |
| catalog-write-service | `products`, outbox, its broker connection | CreateProduct | publishes ProductCreated |
| catalog-read-service | MongoDB read model and inbox, Redis list, Elasticsearch index | two projections, GetProducts, SearchProducts | consumes ProductCreated from two queues |
| api-gateway | requests in progress, readiness, gRPC connections | HTTP to gRPC under deadlines, start, shutdown | the gRPC services |
| lifecycle, health | readiness flag, Fx hooks | start, stop | every service |

No transaction spans two components, and in order-service and
catalog-read-service not even one handler: the status update, the inbox insert
and the acknowledgement are separate calls. Every call may fail after it took
effect, every process may stop between two calls, deliveries may be duplicated
or reordered, and several replicas of a service may run. What makes the parts
correct:

* relay: a row is marked only after the broker stored its message, duplicates
  come only from faults, every row is eventually published;
* saga: the two services agree on every order, stock is taken once, no order is
  lost between them, a placed order is eventually decided;
* retry policy: no attempt is skipped, nothing is dropped;
* reservation transaction: no lost update between replicas, deadlocks are
  survived;
* gateway: what a status says about an order is true, every request is answered
  in time, calls in progress survive a shutdown;
* lifecycle: ready only while serving, a failure stops the process, nothing is
  closed under work in progress;
* catalog: no product is lost, readers see only committed products, and every
  product becomes visible.

`PROJECT.json` lists the hazards at their lines.

## 2. Modules

```
OutboxRelay ---- instantiated by OrderService, InventoryService, CatalogWrite
     \---- Publisher --- MCPublisher, PublisherProofs
Broker --------- OrderService ------\
          \----- InventoryService --- OrderSaga --- MCOrderSaga
                   |  \ InventoryProofs |  \------- OrderSagaProofs
                   |                    |             OrderSagaDelivery
ReservationSaga (abstract) -------------/
                   \---- StockReservation --- MCStockReservation
                                         \-- StockReservationProofs
CatalogEvents -- CatalogWrite ---\
          \----- CatalogRead ----- Catalog --- MCCatalog, CatalogProofs
Lifecycle --- MCLifecycle, LifecycleProofs
Gateway --- MCGateway, GatewayProofs
```

**OutboxRelay** is `worker/outbox_worker.go`, `rabbitmq_publisher.go` and
`outbox_repository_pg.go`, which the three services share in all but names.
`FindUnprocessed` is a tick of the worker (any oldest-first batch of at most
`BatchSize` rows; rows with equal `created_at` come in any order), `Publish`
the outcomes of a mandatory publish with confirms and `MarkAsProcessed` the
update, which may fail after it was applied. A publish is confirmed, returned, or
given up (`PublishFailed`) with the message stored or not. A return that comes when
its publish has given up stays in the publisher's returns channel, which has room
for one (`returns` counts it): the next routed publish takes it for its own
(`PublishMistaken`), and a second return finds no room, so that the reader of the
connection blocks (`Stalled`) and every later publish times out without any fault
(`PublishStalled`) until the process is restarted (`Reconnect`). A failed publish
is skipped with `continue`, so the row waits for a later tick. `created_at` is read
from the clock before the commit, so it is an arbitrary member of `Times`.
`retry_count` is not modelled: it is incremented and never read.

**Publisher** is the same relay with `RabbitMQPublisher.Publish` frame by frame.
`Send` hands the message to the connection, `BrokerHandles` routes it and answers
with a confirm, preceded by a return when no queue is bound, `ReadFrame` is the
reader goroutine of the AMQP library, `PublishReturns` the end of `WaitContext`
and the `select` on the returns channel, `GiveUp` the deadline. The library gives
a confirm to the publish it belongs to (`live` says that this publish still
waits), but a return goes into the channel of capacity one, whoever looks there
next, and while it is full the reader is `Blocked`. A full socket blocks `Send`
(`WireSize` frames in each direction). The services' modules use OutboxRelay,
in which a publish is one step. Both have the stale return and the stall;
OutboxRelay counts the return on which the reader blocks in `returns` (2), and
takes every copy that a stalled connection still carries to a queue as a fault,
where Publisher has up to `WireSize - 1` of them for one fault. There is no
refinement proof between the two, as a message that the broker accepts after its
publish gave up would need a prophecy variable. What both promise,
`ProcessedIsQueued`, is proved of both.

**Broker** holds the queues of the saga as bags: `requestQ`, `resultQ` (the two
stock event queues), `retryQ`, `dlq`, and the set `bound` of queues declared so
far. A message of an outbox row is identified with the row, because its
`message_id` is part of the stored payload. A delivery is a message with its
attempt number. `RetryExpires` is the TTL of the retry queues declared in
`retry_policy.go`.

**OrderService** has `CreateOrder` (order and outbox row in one transaction),
`OrderOutboxWorker`, and for each consumer (a pair of replica and event kind) the
steps of `handleMessage`: `Receive` (with the parse errors), `IsProcessed`,
`UpdateOrder` (`UPDATE ... WHERE status = 'PENDING'`), `SaveProcessed`
(`message_id` is UNIQUE), `Ack`, and on an error `Retry` or `Reject` with both
outcomes of `publishThenAck` (`Confirmed`, or `Unconfirmed` with `NackRequeue`).
`OrderCrash` stops a replica at any step. The publisher and the consumers of a
process have channels on one connection (`provideRabbitMQConnection`), so a replica
whose relay is `Stalled` reads no confirm of a retry or dead-letter copy and gets
no delivery beyond those the reader had passed on before; there is no prefetch
limit, so such a copy is counted in its queue and `Receive` may still take it, but
is not promised to. It also starts no consumer, as a declaration waits for a reply.

**InventoryService** has the consumer and `HandleReserveStockRequested`, whose
transaction is one step: `Commit` (inbox check, stock check, reservation or
refusal, outbox row, inbox row) or `Rollback`. `Taken`, `Last` and
`UniqueViolation` keep what the code does with two lines for one product: it
writes absolute quantities from the row it locked, and the second reservation
violates `UNIQUE(order_id, product_id)`. `Conflict` says when a transaction may be
undone without a fault: such an order, or other replicas it can collide with.
Its relay and its consumer share a connection like those of order-service.

**StockReservation** opens that step. Each replica has a transaction with the
statement it is at: the count of inbox rows, one `SELECT ... FOR UPDATE` per line
(`LockRow` waits while another transaction holds the row), one update and insert
per line, the two last inserts, the commit. The writes of an open transaction are
visible to nobody and their rows are locked, so they are applied by
`CommitTransaction`. Any statement may fail or meet the processing deadline, the
commit's reply may be lost, a replica may crash, and `DeadlockVictim` aborts a
transaction of a `Deadlocked` group: each of them waits for another one of the
group and keeps one waiting, and as a transaction waits for one row at a time,
such a group is made of cycles. `ImplementsInventoryService` says that
every step is a step of InventoryService or changes nothing there.

**OrderSaga** composes them and states the saga's properties. **ReservationSaga**
is the abstract specification: an order is placed, then reserved (all its lines
at once, if they fit) or refused, then settled accordingly.

**CatalogEvents**, **CatalogWrite**, **CatalogRead**, **Catalog** are the catalog
in the same style. The exchange copies a publish to the queues bound at that
moment; `ConnectionLost` closes the publisher's only connection, on which a
publish then fails at once (`PublishOnClosed`); every store
call of the consumers and of the cache-aside read is a step. In CatalogRead a
list is the set of its products; an empty list is cached as `[]`, which is a
hit. A failed call, `SetProducts` included, may have been applied.

**Lifecycle** is one process of a service between `fx.App.Run` and its exit. A
service is its list of hooks, in the order the constructors append them (each
runs when the first `fx.Invoke` function needs its result), and the resources
its goroutines and gRPC handlers work with. `StartWorker`, `StartServer`,
`StartResource` and `StartReadiness` are the OnStart functions; `CloseListener`
with `ServerDrained`, `CancelWorker` with `WaitForDone`, `CloseResource` and
`StopReadiness` the OnStop functions. Goroutines take work, finish it, return
when canceled or fail beside them; `Done` says when a hook's `done` channel is
closed, which in order-service is before its consumers have returned. Fx itself
(hook order, rollback of a failed start, the stop timeout) is external.

**Gateway** is api-gateway with the gRPC servers as it sees them. A request is
read (`BodyLimit` is what the server's read timeout leaves for the body), then
refused or turned into a call whose deadline is the earlier end of
`RequestTimeout` and of the gRPC client's own timeout; the call ends with the
server's reply, at the deadline, or because the connection was closed, and the
answer counts only before the server's write deadline. The servers commit or
refuse or fail at any time, also after the gateway has given up; `ErrorCode` and
`HTTPStatus` are the two error mappings on the way back. Around it is the process:
`Validate` in New, `Run` with two servers that may fail, `main`'s select, `Shutdown`
with its timeout, `closeAll`. Time is counted in ticks per request; a tick waits
for what the gateway does at a deadline.

## 3. Runs

Faults (failed calls, lost replies, crashes, foreign messages, lost connections)
are taken from a budget `MaxFaults`. All but the lifecycle configuration switch
deadlock checking off: when every row is published, every message acknowledged and
every request answered, or the gateway has exited, the system rests.

| run | instance | shows |
|---|---|---|
| `publisher` | 2 rows, 2 workers, 2 timestamps, batch of 1, 1 fault, 4 frames each way, fair | `PublisherTypeOK`, `ProcessedIsQueued`, `DuplicatesPaidByFaults`, `EveryRowProcessed` |
| `publisher_stall` | 1 row, 1 worker, 1 fault, fair | violates `EveryRowProcessed` |
| `order_saga` | 2 orders that compete for one unit, an unparsable message, 2 attempts, 2 faults | `TypeOK`, `SagaAgreement`, `OneDecision`, `StockMatchesReservations`, `ImplementsReservationSaga` |
| `order_replicas` | 1 order, 2 order-service replicas, 2 faults, fair | `NoLostOrder`, `InboxAfterEffect`, `DeadLetterOnlyExhausted`, `OrderDecidedOrDeadLettered` |
| `duplicate_lines` | an order with two lines for one product, no fault, fair | violates `EveryOrderDecided` |
| `stock_reservation` | 2 replicas, 3 orders (two lock two products in opposite orders and compete for one unit, one names an unknown product), duplicate requests, an unparsable one, 2 faults, fair | `TypeOK`, `ReadRowsAreCurrent`, `StockMatchesReservations`, `ImplementsInventoryService`, `EveryRequestSettled` |
| `catalog` | 1 product, 2 read replicas, 1 reader, an unparsable message, only the MongoDB queue declared before, 2 faults, fair | `TypeOK`, `NoLostProduct`, `NothingInvented`, `EventuallyVisible`, `EveryCopyProjected` |
| `catalog_cache` | 1 product, 1 reader, no fault | violates `CacheInvalidated` |
| `catalog_search` | 1 product, no queue declared before, no fault, fair | violates `EveryProductIndexed` |
| `catalog_connection` | 1 product, 1 fault, fair | violates `EveryProductPublished` |
| `lifecycle` | each of the four services, one request in flight at a time, failures anywhere, fair | `TypeOK`, `ReadyOnlyWhenServing`, `GracefulStop`, `EveryStopCompletes` |
| `gateway` | 2 requests, 4 configurations, fair | `TypeOK`, `HonestAnswers`, `AnswersInTime`, `ClosedAfterCalls`, `EveryRequestAnswered`, `FailureExits` |

Why the bounds are enough for the interesting cases: two faults allow a
duplicate and a crash in one behaviour, or all the attempts of a message to
fail; two orders over one unit of stock give both outcomes in either order, and
one of them has two lines so that a refusal after a successful first line
happens; two consumers of one kind race between `IsProcessed` and
`SaveProcessed`; two rows with a batch of one leave a row outside the batch.
Three frames of wire hold a stale return, a fresh one and its confirm, which is
what a stall takes, and the fourth one lets a stalled connection take in one more
copy than that; in `publisher` one of the two workers may stall too, and the
other, for which no fault is left, still publishes every row. In `order_replicas`
two faults can stall both replicas of order-service, or one of them while it has
the order's result in hand. In `catalog` a publish is never returned, as one queue
is declared before, so no connection stalls there. The saga runs use one inventory-service replica, as the transaction is
one step there; `stock_reservation` has two, and the theorems hold for any number.
The four configurations of the gateway are the shipped one in ticks that keep
the order of its timeouts, one with a request timeout longer than the shutdown
timeout, one with a read timeout longer than the write timeout, and one that
`Validate` must refuse; the second request only creates orders.

### The five violations

* `duplicate_lines`: `CreateOrderInput.Validate` accepts two lines for one product.
  The second insert into `stock_reservations` fails, the transaction rolls back and
  the consumer requeues the request, forever. The order stays PENDING, although
  the repository's README says that it becomes CONFIRMED or FAILED. If either
  line alone is out of stock, the order is refused normally.
* `catalog_cache`: GetProducts misses the cache and reads MongoDB; the consumer
  upserts, deletes the key and records the event; GetProducts then stores its
  old list. The product is hidden for up to five minutes. `EventuallyVisible`
  shows that this heals, thanks to the TTL.
* `catalog_search`: on a first deployment the two consumers bind their queues
  independently. A product published in between is routed to one queue, so it is
  confirmed without a return, and the other projection never receives it.
* `catalog_connection`: catalog-write-service opens one connection and never looks
  at it again. The other services notice a lost connection through their
  consumers (the deliveries channel closes and the process shuts down to be
  restarted); this one has no consumer.
* `publisher_stall`: the worker publishes before the consumer's queue is bound and
  its deadline passes before the confirm is read. The return of that publish
  stays in the buffer. The next publish is returned too; the library's reader
  blocks on its return, in front of the confirm, so this publish and all later
  ones time out. The process stays alive and ready, no row is marked any more, and
  once the queue is bound every tick adds a copy of the first messages to it
  until the socket is full. In order-service and inventory-service the consumers
  use the same connection and get no deliveries any more. Only a restart helps. (`Publish` could empty the
  channel before it publishes, or give it more room.)

### Exceptions written into properties

Some properties name what the code leaves exposed and claim the rest:

* `OrderDecidedOrDeadLettered` holds of the behaviours in which no replica stays
  stalled for ever (`<>[]NobodyStalled`). Without this premise it is false: a publish
  of each order-service replica times out before the request queue is bound, the
  next one is returned too, and both connections are blocked. Even if the request
  still gets through, the order's result waits in a queue whose consumers get no
  delivery; or the relays of
  inventory-service stall and its result is never published. This takes one fault
  per replica and no restart after it.
* `GracefulStop` excepts the stores of catalog-read-service: consumers and gRPC
  server reach their handlers through mediatr, so MongoDB and Redis are first
  constructed by `RegisterMediatorHandlers`, after those two hooks were appended.
  Hooks stop in reverse, so the stores close while requests are still accepted,
  against the order of `plans/github-actions-ci-cd-plan.md` (lines 40-42). And it
  excepts the consumers of order-service: `messaging.Start` returns on
  cancellation without waiting for the two consumers it started, so channel,
  connection and database are closed under a running handler. The message is
  delivered again later, as `NoLostOrder` holds with a stop at any step.
* `HonestAnswers` claims refusals (400, 404) of orders only. CreateProduct of
  catalog-write-service answers InvalidArgument for every error, so a 400 may
  follow a deadline that passed or a commit whose reply was lost, with the
  product stored; the plan (lines 58 and 78) asks for 504 and DeadlineExceeded.
* `AnswersInTime` excepts a read timeout above the write timeout, and
  `ClosedAfterCalls` a request timeout of at least the 15 s of the shutdown,
  which `Validate` both accepts. (With equal timeouts the call of a request that
  arrived with the shutdown ends at the same moment as the drain, and either may
  come first.) The shipped configuration has neither. Answers take no time in the
  model; with equal read and write timeouts the code has only the time the server
  spent on the header to write one, as the write deadline starts after it.
* `DuplicatesPaidByFaults` lets one fault pay for as many copies as a connection
  holds: a worker whose reader is blocked sends a copy at every tick until the
  socket is full. Beyond that, each worker may have one copy of a row under way.

## 4. Fairness

Weak fairness for the outbox workers (tickers keep firing and every call has a
deadline), for each consumer's next step (same reason), for starting the
consumers (processes are restarted, `restart: unless-stopped`), for the TTLs of
the retry queue and of the cache, for a running read, and for taking a delivery:
as long as some message waits, a consumer is idle and its replica is not stalled,
some message is taken, with no promise which one. A stalled replica has no fairness
for deliveries, as the library's reader passes none on; its worker goes on, and
its publishes fail at their deadline. No fairness for creating orders and products, for reads to
begin, for faults, or for restarting a process that is running.
In Publisher: the worker, the broker and the library's reader take their next
step; `GiveUp` is a fault, except that a wait whose confirm cannot come any more
does end at its deadline.
In StockReservation, where the relay does not run: statements return and
PostgreSQL breaks deadlocks; strong
fairness for a waiting row lock, as PostgreSQL queues the transactions that wait
for a row, so new ones do not overtake one for ever.
In Gateway: time passes, main and the handlers run; nothing is assumed of the
services, which may hang, of the clients, or of signals.
In Lifecycle: weak fairness for the next hook, for the end of a unit of work
(consumers and workers have processing deadlines) and of a gRPC request (the
gateway sends a deadline with it); strong fairness for a canceled goroutine to
return, because `select` chooses at random between cancellation and more work;
none for Fx's stop timeout, so a stop is shown to complete without it. Closing a
channel or a connection waits for the broker's reply and is taken to return: on a
connection stalled by its publisher it would not, and the stop would take Fx's
timeout.

## 5. Proofs

All proofs are checked by TLAPS, for every value of the constants that satisfies
the assumptions of the modules:

* `RelayAssumption`, `BrokerAssumption`, `InventoryAssumption`, `CatalogAssumption`:
  positive batch and attempt limits, timestamps, stock and fault budgets in Nat,
  validated non-empty orders, unparsable messages distinct from the others, a
  `None` that is no message;
* `PublisherAssumption`: room for a return and its confirm on a connection, finitely
  many workers, and no stored copy that belongs to two rows (a copy carries the
  row's `message_id`);
* `ReservationAssumption`, `ReadAssumption`, `GatewayAssumption`: `None` is no
  replica, no message body and no HTTP status; the timeouts are naturals;
* `ServicesAssumption`: a process runs one of the four services.

### The relay and the publisher

`PublisherProofs` has both. `OutboxSound` is `Spec => []ProcessedIsQueued` of
OutboxRelay. The property is not inductive by itself: the row in `confirmed[w]`
must already have a stored copy, and queues must only grow while the relay runs
alone.

`PublisherSound` (`PublisherSpec => []ProcessedIsQueued`) and `ConfirmsMatch`
(`PublisherTypeOK`) are the same for the wire. The inductive invariant
`PublisherInv` follows the one publish a worker waits for: it is the last message
on the way to the broker (`Outgoing`), or its frames are the last on the way back
(`Incoming`), or its verdict is there and nothing of it is on the wire (`Judged`);
and a positive confirm, read or not, is `Backed`: the row is queued, or a return is
in the buffer or ahead of the confirm, so that `Confirmed` reports a failure. A
stale return can only turn a success into a failure.

`DuplicatesHaveACause` (`DuplicatesPaidByFaults`) charges copies to workers and to
faults. `DuplicatesInv` bounds not the queued copies of a row but those plus the
ones still to come: `Potential(w, r)` is what worker w may add before the next
fault. While its reader is blocked that is the room left in the connection
(`WireSize - Len(fromBroker[w])`), as each copy that reaches the queue puts a confirm
behind the stuck return. Otherwise it is one copy, `Due` unless the publish is
`Settled` (confirmed, or the row processed), and for each stale return, and each
abandoned publish that may still lead to one, the `WireSize - 1` copies a blocked
reader lets through (`Credit`). At the start the potential of every worker is one.
A step without a fault moves a copy from the potential to the queue, or loses it;
a fault raises the potential of one worker by at most `WireSize - 1`. The sum over
the workers is the cardinality of a set of `Tokens`, so that it needs no induction:
the step lemmas (`FindPays` to `RestartPays`) compare the token sets before and
after (`TokensStep`). `Shape` has the facts about the wire this needs beyond
`PublisherInv`: a return that counts is directly followed by its confirm, and a
verdict leaves the connection empty.

### The saga

`OrderSagaProofs` and `OrderSagaDelivery` prove the parts of `SagaInv`
(in `OrderSaga`), each from the ones before it:

1. `TypeOK` with `HandlerShape`: where a handler is says what it holds. Stock
   staying in Nat needs `TakenBound`, from the stock check of the same transaction.
2. `RequestsArePlaced`: a request exists only for a placed order.
3. `EventsAreEmitted` and `OneDecision`: an event in a batch, queue, handler or
   inbox has a row in inventory-service's outbox, a row implies the inbox entry,
   and the inbox entry prevents a second row.
4. `ReservationsFollowEvents`: reservations exist exactly for StockReserved.
5. `StatusFollowsEvents` and `InboxAfterEffect`: a status follows an emitted
   event. The UPDATE only touches a pending order, and with `OneDecision` the
   status it finds otherwise is the one it would have written; hence a consumer at
   `saveProcessed` has its effect in the table.
6. `RequestTrail` and `EventTrail`: a request leaves a place only for the next
   one, an event is pending until its order is decided.

From these follow `TypeCorrect`, `Agreement` (`SagaAgreement`), `DecidedOnce`
(`OneDecision`), `InboxSound` (`InboxAfterEffect`), `NothingLost`
(`NoLostOrder`) and `RetriesUsedUp` (`DeadLetterOnlyExhausted`).
The last part of `OrderSagaProofs` proves `Refinement`: every step of the saga is a step of
`ReservationSaga` or leaves its variables alone, under the mapping of the
decision from the outbox of inventory-service.

### The reservation transaction

`InventoryProofs` has the lemmas about one transaction that both proofs below use:
what it takes (`TakenBound`, `NewUnits`), writes (`CommitTypes`) and keeps
(`CommitKeepsStock`).

`StockMatchesReservations` counts units: the pairs of an order and a number up to
the quantity it has reserved. `StockInv` adds that the units of a product are
finitely many, which their cardinality needs. A transaction adds the units of one
order; they are new, because `UniqueViolation` would have undone it otherwise, and
as many as `Taken` from the row, because without two lines for one product the
line written last is the only one. `StockIsCounted` is the theorem for the saga
and `StockIsConserved` the one for StockReservation.

`StockReservationProofs` proves `TransactionIsAtomic`
(`ImplementsInventoryService`), and on the way `NoLostUpdate`
(`ReadRowsAreCurrent`) and `ReservationTypes`. `ReservationInv` says of each
replica what its transaction knows at each statement: the rows it has read are
locked by it and unchanged (`Current`), the lines passed so far are `Checked`
against them, a refusal rests on a row that is locked and `Short` until the
commit, the reservations of the lines passed do not collide (`Decision`), and a
transaction that finds its request in the inbox has another replica to blame
(`InboxRace`), which is what allows the abstract step to roll back (`Conflict`).
It is needed because the commit must be a step of InventoryService in the state
at the commit, whereas the code decided in earlier ones. The proof has two
halves: `StepImplements` (each statement is an `InventoryStep` of its replica) and
`ReservationStep`, in which `Bystander` shows once for all actions that a step of
one replica leaves alone what the others know.

### The catalog

`CatalogProofs`: `ProductsAreDelivered` (`NoLostProduct`), `ReadersSeeCommitted`
(`NothingInvented`) and `CatalogTypesCorrect`. `CatalogInv` adds where each
consumer is (`ConsumerShape`), that outbox rows, batches, queued copies and
deliveries exist only for committed products (`EventsAreCommitted`), that a
consumer past its store call has had the effect (`EffectBeforeAck`), that the
queues of earlier starts stay bound, and that a row the worker is about to mark
has `Arrived` at each of them (`ConfirmedArrived`). A pending copy leaves a queue
only into a consumer's hand, and a consumer gives it up only with the effect in
the projection or by putting it back.

### The gateway

`GatewayProofs`: `AnswersAreHonest` (`HonestAnswers`), `ValidateSuffices`
(`AnswersInTime`), `ShutdownWaits` (`ClosedAfterCalls`) and `GatewayTypes`.
`GatewayInv` bounds the clock of a request in each stage by the body limit and by
the deadline of its call (`OnTime`), relates the reply of a call to what was
stored (`CallState`), so that an answer `Tells` only what is settled, and measures
the shutdown by the age of the requests it waits for (`Draining`, `Drained`).
That an accepted configuration is enough is the arithmetic of `Validate`
(`ValidOptions`).

### The lifecycle

`LifecycleProofs`: `ReadyMeansServing` (`ReadyOnlyWhenServing`),
`NothingClosedUnderWork` (`GracefulStop`) and `LifecycleTypes`. The run covers the
same four services, so what the proof adds is the reason: it uses of a service's
hooks only `WellOrdered`, that no hook occurs twice, that `ManageReadiness` is the
last, that every goroutine's worker hook and the handlers of a gRPC server are
there, and that each worker or server comes after the resources it works with
(except `ClosedEarly`). A hook appended anywhere else leaves the theorems true; one
that breaks them breaks the lemma of its service. `LifecycleInv` speaks of the hooks
that are `Up`, started and not stopped: closed resources are not among them, open
servers are, a goroutine that may be busy has its worker hook there unless nobody
waits for it (`Unwaited`), a request being handled has its server there
(`WaitedForFirst`), and a process that is ready has all of them (`ReadyAtTheTop`).
Until a stop is asked for, exactly the servers that are `Up` listen and exactly the
goroutines of worker hooks that are `Up` run (`ServingUntilShutdown`).

### What the proof attempts changed

* `DuplicatesPaidByFaults` had charged a fault one copy as long as no reader was
  blocked; larger instances refute that, because copies sent into a stalled
  connection are still in the queue after the worker's restart. The
  bound is now the size of a connection per fault, without an exception, and the
  run has a connection on which that makes a difference.
* `ClosedAfterCalls` was stated for equal timeouts too, where it is a race.
* The deadlock detector is stated with groups of waiting transactions, which TLAPS
  can reason about, in place of a transitive closure.
* `StockMatchesReservations` counts units where it had summed quantities over a
  set (a fold, thus an induction), and also says that an order has one
  reservation for a product; it is now checked in `stock_reservation` as well,
  where the quantities are written from rows read earlier.

Each inductive invariant was checked by TLC as an invariant of a run before it
was proved.

### Only model-checked

Liveness (`EveryRowProcessed`, `OrderDecidedOrDeadLettered`, `EveryRequestSettled`,
`EventuallyVisible`, `EveryCopyProjected`, `EveryStopCompletes`,
`EveryRequestAnswered`, `FailureExits`), which rests on fairness and ENABLED.

All invariants the passing runs check, and both refinements, are theorems. Nothing
is proved about the converse of a finding: that the code violates a claim is shown
by the trace of its run.

## 6. Not modelled

The field conversions of the gRPC servers and of the gateway (one of them narrows
a quantity to int32 without a check), the HTTP side of the health endpoints,
logging, configuration loading, generated code, deployment files and metrics;
the results of GetOrder, GetOrders and SearchProducts, which only read;
notification-service, which has no code. Prices, names and payloads are not
distinguished. RabbitMQ, PostgreSQL, net/http, gRPC, the AMQP library and Fx are
external and modelled from how the code uses them.

## 7. Plan

Done, in this order: the relay, the saga, its refinement and theorems, the
catalog, the lifecycle, the publisher with its theorems, the reservation
transaction, the gateway, the theorems of these three and of the stock, the bound
on duplicates, and the lifecycle's theorems.
Next:

1. Action properties from the invariants at hand: a decided order never changes
   its status, a processed row is never taken back, an inbox only grows. Today the
   first follows from `Refinement`.
2. A refinement of OutboxRelay by Publisher with a prophecy of which publishes the
   broker accepts after they were given up, outside the stall.
3. The lifecycle's notification-service, once it has code.

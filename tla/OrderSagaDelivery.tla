------------------------- MODULE OrderSagaDelivery -------------------------
(***************************************************************************)
(* Proof that no order is lost between the services: the trail of a        *)
(* request and of an event is followed through outbox, queues, handlers,   *)
(* retry and dead-letter queues, given the invariant of OrderSagaProofs.   *)
(***************************************************************************)
EXTENDS OrderSagaProofs

-----------------------------------------------------------------------------
(* Requests *)

LEMMA InitRequestTrail == Init => RequestTrail
  BY DEF Init, OrderInit, InventoryInit, RequestTrail

(* Once inventory-service has a request, it keeps it until it is processed. *)
LEMMA InventoryKeeps ==
  ASSUME AgreementInv, [Next]_vars, NEW o \in Orders, InventoryHas(o)
  PROVE  InventoryHas(o)'
<1> USE DEF AgreementInv, TypeOK, BrokerTypeOK, OrderTypeOK, InventoryTypeOK
<1>o. o \in Requests /\ o \notin Garbage /\ o # None
  BY BrokerAssumption DEF Requests
<1>m. o \in stockInbox => o \in stockInbox'
  BY EmittedStep DEF OutboxGrows
<1>t. requestQ[o] \in Nat /\ requestQ'[o] \in Nat
  BY <1>o, TypeStep
<1>a. ASSUME requestQ'[o] >= requestQ[o], UNCHANGED <<step, request>>
      PROVE  InventoryHas(o)'
  BY <1>a, <1>m, <1>t DEF InventoryHas
<1>1. CASE OrderNext /\ UNCHANGED inventoryVars
  <2>u. UNCHANGED <<step, request>>
    BY <1>1 DEF inventoryVars, handlerVars
  <2>1. CASE UNCHANGED requestQ
    BY <1>a, <1>o, <2>u, <2>1
  <2>2. ASSUME NEW r \in OrderReplicas, OrderOutboxWorker(r) PROVE InventoryHas(o)'
    <3>1. requestQ' = requestQ \/ \E p \in Orders : requestQ' = [requestQ EXCEPT ![p] = @ + 1]
      BY <2>2, RequestPublished
      DEF OrderOutboxWorker, Relay!Work, Relay!Poll, Relay!FindUnprocessed, Relay!MarkAsProcessed, Put
    <3> QED BY <1>a, <1>o, <2>u, <3>1
  <2> QED BY <1>1, <2>1, <2>2
          DEF OrderNext, CreateOrder, OrderCrash, StartConsumer, Receive, HandleMessage,
              IsProcessed, UpdateOrder, SaveProcessed, Ack, Retry, Reject, brokerVars
<1>2. CASE InventoryNext
  <2>a. ASSUME NEW r \in InventoryReplicas, Requeue(r), step[r] # "idle"
        PROVE  InventoryHas(o)'
    <3>1. request[r] \in Requests
      BY <2>a DEF HandlerShape
    <3>2. requestQ'[o] >= requestQ[o] /\ (request[r] = o => requestQ'[o] > 0)
      BY <1>o, <2>a, <3>1 DEF Requeue, Put
    <3>3. \A q \in InventoryReplicas : q # r => step'[q] = step[q] /\ request'[q] = request[q]
      BY <2>a DEF Requeue, Done
    <3> QED BY <1>m, <1>t, <3>2, <3>3 DEF InventoryHas
  <2>1. CASE StartRequestConsumer
    BY <1>a, <1>o, <2>1 DEF StartRequestConsumer, inventoryVars, handlerVars
  <2>2. ASSUME NEW r \in InventoryReplicas, NEW m \in Requests, ReceiveRequest(r, m)
        PROVE  InventoryHas(o)'
    <3>1. CASE m = o
      BY <2>2, <3>1 DEF ReceiveRequest, InventoryHas
    <3>2. CASE m # o
      BY <1>m, <1>o, <2>2, <3>2 DEF ReceiveRequest, InventoryHas, Take
    <3> QED BY <3>1, <3>2
  <2>3. ASSUME NEW r \in InventoryReplicas, DropRequest(r) \/ AckRequest(r)
        PROVE  InventoryHas(o)'
    BY <1>m, <1>o, <2>3 DEF DropRequest, AckRequest, Done, InventoryHas, brokerVars
  <2>4. ASSUME NEW r \in InventoryReplicas, HandleReserveStockRequested(r)
        PROVE  InventoryHas(o)'
    <3>1. CASE Requeue(r)
      BY <2>a, <2>4, <3>1 DEF HandleReserveStockRequested
    <3>2. CASE request[r] \in stockInbox' /\ step' = [step EXCEPT ![r] = "ack"]
               /\ UNCHANGED <<request, requestQ>>
      BY <1>m, <3>2 DEF InventoryHas
    <3> QED BY <2>4, <3>1, <3>2
            DEF HandleReserveStockRequested, Rollback, Commit, stockVars
  <2>5. ASSUME NEW r \in InventoryReplicas, StockOutboxWorker(r) PROVE InventoryHas(o)'
    BY <1>a, <1>o, <2>5 DEF StockOutboxWorker, handlerVars
  <2>6. ASSUME NEW r \in InventoryReplicas, InventoryCrash(r) PROVE InventoryHas(o)'
    BY <1>a, <1>o, <2>a, <2>6 DEF InventoryCrash, handlerVars
  <2> QED BY <1>2, <2>1, <2>2, <2>3, <2>4, <2>5, <2>6 DEF InventoryNext
<1>3. CASE BrokerNext /\ UNCHANGED <<orderVars, inventoryVars>>
  <2>1. requestQ' = requestQ \/ \E g \in Garbage : requestQ' = [requestQ EXCEPT ![g] = @ + 1]
    BY <1>3 DEF BrokerNext, RetryExpires, ForeignPublish, Put
  <2>2. requestQ'[o] >= requestQ[o]
    BY <1>o, <1>t, <2>1
  <2> QED BY <1>3, <1>a, <2>2 DEF inventoryVars, handlerVars
<1>4. CASE UNCHANGED vars
  BY <1>4, <1>a, <1>o DEF vars, brokerVars, inventoryVars, handlerVars
<1> QED BY <1>1, <1>2, <1>3, <1>4 DEF Next

LEMMA RequestTrailStep ==
  ASSUME AgreementInv, RequestTrail, [Next]_vars
  PROVE  RequestTrail'
<1> USE DEF AgreementInv, TypeOK, BrokerTypeOK, OrderTypeOK, InventoryTypeOK
<1>k. \A o \in Orders : InventoryHas(o) => InventoryHas(o)'
  BY InventoryKeeps
<1>m. stockInbox \subseteq stockInbox'
  BY EmittedStep DEF OutboxGrows
<1> DEFINE Out == \A o \in Orders : orders'[o] # "none" =>
                     orderOutbox'[o] = "unprocessed" \/ InventoryHas(o)'
           Conf == \A r \in OrderReplicas : \A o \in orderConfirmed'[r] : InventoryHas(o)'
           Acks == \A r \in InventoryReplicas :
                     step'[r] = "ack" => request'[r] \in stockInbox'
<1>1. Out
  <2>1. ASSUME NEW o \in Orders, CreateOrder(o) PROVE Out
    BY <1>k, <2>1 DEF CreateOrder, Relay!Insert, RequestTrail
  <2>2. ASSUME NEW r \in OrderReplicas, NEW p \in Orders, Relay!MarkAsProcessed(r, p),
               UNCHANGED orders
        PROVE  Out
    <3>1. InventoryHas(p)'
      BY <1>k, <2>2 DEF Relay!MarkAsProcessed, RequestTrail
    <3> QED BY <1>k, <2>2, <3>1 DEF Relay!MarkAsProcessed, RequestTrail
  <2>3. ASSUME UNCHANGED orderOutbox, \A o \in Orders : orders'[o] = "none" <=> orders[o] = "none"
        PROVE  Out
    BY <1>k, <2>3 DEF RequestTrail
  <2>4. ASSUME NEW c \in Consumers, UpdateOrder(c) PROVE Out
    <3>1. \A o \in Orders : orders'[o] = "none" <=> orders[o] = "none"
      BY <2>4 DEF UpdateOrder, StatusUpdate, NewStatus
    <3> QED BY <2>3, <2>4, <3>1 DEF UpdateOrder, orderRelayVars
  <2>5. CASE UNCHANGED <<orders, orderOutbox>>
    BY <2>3, <2>5
  <2>6. CASE OrderNext
    BY <2>1, <2>2, <2>4, <2>5, <2>6
    DEF OrderNext, OrderOutboxWorker, Relay!Work, Relay!Poll, Relay!FindUnprocessed, Relay!Publish,
        OrderCrash, StartConsumer, Receive, HandleMessage, IsProcessed, SaveProcessed,
        Ack, Retry, Reject, orderVars, orderRelayVars
  <2> QED BY <2>5, <2>6 DEF Next, vars, orderVars, orderRelayVars
<1>2. Conf
  <2>1. ASSUME UNCHANGED orderConfirmed PROVE Conf
    BY <1>k, <2>1 DEF RequestTrail
  <2>2. ASSUME NEW r \in OrderReplicas, NEW p \in Orders, Relay!Publish(r, p) PROVE Conf
    <3>1. CASE Relay!PublishConfirmed(r, p)
      <4>1. requestQ'[p] > 0
        BY <2>2, <3>1, RequestPublished DEF Put, Requests
      <4> QED BY <1>k, <3>1, <4>1 DEF Relay!PublishConfirmed, RequestTrail, InventoryHas
    <3>2. CASE UNCHANGED orderConfirmed
      BY <2>1, <3>2
    <3> QED BY <2>2, <3>1, <3>2
            DEF Relay!Publish, Relay!PublishError, Relay!PublishReturned,
                Relay!PublishMistaken, Relay!PublishStalled,
                Relay!PublishFailed
  <2>3. ASSUME NEW r \in OrderReplicas, orderConfirmed' = [orderConfirmed EXCEPT ![r] = {}]
        PROVE  Conf
    BY <1>k, <2>3 DEF RequestTrail
  <2>4. CASE OrderNext
    BY <2>1, <2>2, <2>3, <2>4
    DEF OrderNext, CreateOrder, OrderOutboxWorker, Relay!Work, Relay!Poll, Relay!FindUnprocessed,
        Relay!MarkAsProcessed, OrderCrash, Relay!Forget, Relay!Reconnect, StartConsumer, Receive,
        HandleMessage, IsProcessed, UpdateOrder, SaveProcessed, Ack, Retry, Reject,
        orderVars, orderRelayVars
  <2> QED BY <2>1, <2>4 DEF Next, vars, orderVars, orderRelayVars
<1>3. Acks
  <2>1. ASSUME UNCHANGED <<step, request>> PROVE Acks
    BY <1>m, <2>1 DEF RequestTrail
  <2>2. ASSUME NEW r \in InventoryReplicas, Done(r) PROVE Acks
    BY <1>m, <2>2 DEF RequestTrail, Done
  <2>3. ASSUME NEW r \in InventoryReplicas, HandleReserveStockRequested(r) PROVE Acks
    <3>1. CASE request[r] \in stockInbox' /\ step' = [step EXCEPT ![r] = "ack"]
               /\ UNCHANGED request
      BY <1>m, <3>1 DEF RequestTrail
    <3> QED BY <2>2, <2>3, <3>1
            DEF HandleReserveStockRequested, Rollback, Commit, Requeue, stockVars
  <2>4. ASSUME NEW r \in InventoryReplicas, NEW m \in Requests, ReceiveRequest(r, m)
        PROVE  Acks
    BY <1>m, <2>4 DEF ReceiveRequest, RequestTrail
  <2>5. CASE InventoryNext
    BY <2>1, <2>2, <2>3, <2>4, <2>5
    DEF InventoryNext, StartRequestConsumer, DropRequest, AckRequest, StockOutboxWorker,
        InventoryCrash, Requeue, inventoryVars, handlerVars
  <2> QED BY <2>1, <2>5 DEF Next, vars, inventoryVars, handlerVars
<1> QED BY <1>1, <1>2, <1>3 DEF RequestTrail

-----------------------------------------------------------------------------
(* Events *)

LEMMA InitEventTrail == Init => EventTrail
<1> SUFFICES ASSUME Init PROVE EventTrail
  OBVIOUS
<1>1. stockInbox = {} /\ \A e \in Events : ~Emitted(e)
  BY DEF Init, InventoryInit, Emitted
<1>2. \A r \in InventoryReplicas : stockConfirmed[r] = {}
  BY DEF Init, InventoryInit
<1>3. \A c \in Consumers : pc[c] # "ack"
  BY DEF Init, OrderInit
<1> QED BY <1>1, <1>2, <1>3 DEF EventTrail

LEMMA StaysDecided ==
  ASSUME AgreementInv, [Next]_vars, NEW o \in Orders, Decided(o)
  PROVE  Decided(o)'
  BY DecidedStep DEF AgreementInv, Decided

(* A copy of event d.message in one of the three kinds of queue. *)
Ready(d) == resultQ[d] > 0 \/ retryQ[d] > 0 \/ dlq[d] > 0

LEMMA ReadyIsCopied ==
  ASSUME NEW e, NEW d \in Deliveries, d.message = e, Ready(d)' PROVE Copied(e)'
  BY DEF Ready, Copied

Active(c) == pc[c] \in {"isProcessed", "updateOrder", "saveProcessed", "retry"}

LEMMA ActiveIsCopied ==
  ASSUME NEW e, NEW c \in Consumers, Active(c)', delivery'[c].message = e
  PROVE  Copied(e)'
  BY DEF Active, Copied

(* A step of the handler that holds event e keeps a copy or decides. *)
LEMMA HandlerKeeps ==
  ASSUME AgreementInv, [Next]_vars, NEW c \in Consumers, HandleMessage(c), Active(c),
         NEW e \in Events, delivery[c].message = e
  PROVE  Copied(e)' \/ Decided(e.body)'
<1> USE DEF AgreementInv, TypeOK, BrokerTypeOK, OrderTypeOK
<1> DEFINE Goal == Copied(e)' \/ Decided(e.body)'
<1>e. e.body \in Orders /\ e.kind \in Kinds
  BY DEF Events
<1>d. delivery[c] \in Deliveries
  BY Holding DEF Active
<1>a. ASSUME NEW s \in {"isProcessed", "updateOrder", "saveProcessed", "retry"},
             Goto(c, s), UNCHANGED delivery
      PROVE  Goal
  <2>1. Active(c)' /\ delivery'[c].message = e
    BY <1>a DEF Goto, Active
  <2> QED BY <2>1, ActiveIsCopied
<1>b. ASSUME Decided(e.body) PROVE Goal
  BY <1>b, <1>e, StaysDecided
<1>r. ASSUME NEW d \in Deliveries, d.message = e, Ready(d)' PROVE Goal
  BY <1>r, ReadyIsCopied
<1>1. CASE IsProcessed(c)
  <2>1. e \in orderInbox => Decided(e.body)
    BY DEF InboxAfterEffect, NewStatus, Decided
  <2> QED BY <1>1, <1>a, <1>b, <2>1 DEF IsProcessed, Message
<1>2. CASE UpdateOrder(c)
  BY <1>2, <1>a DEF UpdateOrder
<1>3. CASE SaveProcessed(c)
  <2>1. Decided(e.body)
    BY <1>3 DEF SaveProcessed, StatusFollowsEvents, NewStatus, Decided
  <2> QED BY <2>1, <1>b
<1>4. CASE Retry(c)
  <2>1. CASE delivery[c].attempt < MaxAttempts /\ ScheduleRetry(c)
    <3> DEFINE next == [delivery[c] EXCEPT !.attempt = @ + 1]
    <3>1. next \in Deliveries /\ next.message = e
      BY <1>d, <2>1, BrokerAssumption DEF Deliveries, Attempts
    <3>2. \/ retryQ' = Put(retryQ, next)
          \/ resultQ' = Put(resultQ, delivery[c])
      BY <2>1 DEF ScheduleRetry, Unconfirmed, NackRequeue
    <3> HIDE DEF next
    <3>3. CASE retryQ' = Put(retryQ, next)
      BY <1>r, <3>1, <3>3 DEF Ready, Put
    <3>4. CASE resultQ' = Put(resultQ, delivery[c])
      BY <1>d, <1>r, <3>4 DEF Ready, Put
    <3> QED BY <3>2, <3>3, <3>4
  <2>2. CASE DeadLetter(c)
    <3>2. dlq' = Put(dlq, delivery[c]) \/ resultQ' = Put(resultQ, delivery[c])
      BY <2>2 DEF DeadLetter, Unconfirmed, NackRequeue
    <3>3. dlq'[delivery[c]] > 0 \/ resultQ'[delivery[c]] > 0
      BY <1>d, <3>2 DEF Put
    <3>4. PICK d \in Deliveries : d = delivery[c]
      BY <1>d
    <3>5. Ready(d)'
      BY <3>3, <3>4 DEF Ready
    <3> QED BY <1>r, <3>4, <3>5
  <2> QED BY <1>4, <2>1, <2>2 DEF Retry
<1>5. CASE Ack(c) \/ Reject(c)
  BY <1>5 DEF Ack, Reject, Active
<1> QED BY <1>1, <1>2, <1>3, <1>4, <1>5 DEF HandleMessage

(* A copy of an event is only given up once its order is decided. *)
LEMMA CopyKept ==
  ASSUME AgreementInv, [Next]_vars, NEW e \in Events, Copied(e)
  PROVE  Copied(e)' \/ Decided(e.body)'
<1> USE DEF AgreementInv, TypeOK, BrokerTypeOK, OrderTypeOK
<1> DEFINE Goal == Copied(e)' \/ Decided(e.body)'
<1>e. e.body \in Orders /\ e.body \notin Garbage
  BY BrokerAssumption DEF Events
<1>t. TypeOK'
  BY TypeStep
<1>1. ASSUME NEW d \in Deliveries, d.message = e, Ready(d) PROVE Goal
  <2>t. /\ resultQ[d] \in Nat /\ retryQ[d] \in Nat /\ dlq[d] \in Nat
        /\ resultQ'[d] \in Nat /\ retryQ'[d] \in Nat /\ dlq'[d] \in Nat
    BY <1>t
  <2>a. ASSUME resultQ'[d] >= resultQ[d], retryQ'[d] >= retryQ[d], dlq'[d] >= dlq[d]
        PROVE  Goal
    <3>1. Ready(d)'
      BY <1>1, <2>t, <2>a DEF Ready
    <3> QED BY <1>1, <3>1, ReadyIsCopied
  <2>p. ASSUME NEW q \in [Deliveries -> Nat], NEW m PROVE Put(q, m)[d] >= q[d]
    BY DEF Put
  <2>1. ASSUME NEW c \in Consumers, NEW f \in Deliveries, Receive(c, f) PROVE Goal
    <3>1. CASE f = d
      <4>1. Active(c)' /\ delivery'[c].message = e
        BY <1>1, <1>e, <2>1, <3>1 DEF Receive, Goto, Active
      <4> QED BY <4>1, ActiveIsCopied
    <3>2. CASE f # d
      BY <2>1, <2>a, <2>t, <3>2 DEF Receive, Take
    <3> QED BY <3>1, <3>2
  <2>2. ASSUME NEW f \in Deliveries, RetryExpires(f) PROVE Goal
    <3>1. CASE f = d
      <4>1. Ready(d)'
        BY <2>2, <3>1 DEF RetryExpires, Ready, Put
      <4> QED BY <1>1, <4>1, ReadyIsCopied
    <3>2. CASE f # d
      BY <2>2, <2>a, <2>t, <3>2 DEF RetryExpires, Put, Take
    <3> QED BY <3>1, <3>2
  <2>3. ASSUME NEW r \in OrderReplicas, OrderCrash(r) PROVE Goal
    BY <2>3, <2>a, <2>t DEF OrderCrash
  <2>4. ASSUME NEW c \in Consumers, Retry(c) \/ Reject(c) PROVE Goal
    <3>3. /\ resultQ' = resultQ \/ \E m : resultQ' = Put(resultQ, m)
          /\ retryQ' = retryQ \/ \E m : retryQ' = Put(retryQ, m)
          /\ dlq' = dlq \/ \E m : dlq' = Put(dlq, m)
      BY <2>4 DEF Retry, Reject, ScheduleRetry, DeadLetter, Unconfirmed, Confirmed, NackRequeue
    <3>4. resultQ'[d] >= resultQ[d] /\ retryQ'[d] >= retryQ[d] /\ dlq'[d] >= dlq[d]
      BY <2>p, <2>t, <3>3
    <3> QED BY <2>a, <3>4
  <2>5. ASSUME NEW r \in InventoryReplicas, StockOutboxWorker(r) PROVE Goal
    <3>1. UNCHANGED <<retryQ, dlq>>
      BY <2>5 DEF StockOutboxWorker
    <3>2. resultQ' = resultQ \/ \E m : resultQ' = Put(resultQ, m)
      BY <2>5, EventPublished
      DEF StockOutboxWorker, StockRelay!Work, StockRelay!Poll, StockRelay!FindUnprocessed,
          StockRelay!MarkAsProcessed
    <3>3. resultQ'[d] >= resultQ[d]
      BY <2>p, <2>t, <3>2
    <3> QED BY <2>a, <2>t, <3>1, <3>3
  <2>6. ASSUME NEW g \in Garbage, ForeignPublish(g) PROVE Goal
    <3>1. UNCHANGED <<retryQ, dlq>>
      BY <2>6 DEF ForeignPublish
    <3>2. resultQ' = resultQ \/ \E m : resultQ' = Put(resultQ, m)
      BY <2>6 DEF ForeignPublish
    <3>3. resultQ'[d] >= resultQ[d]
      BY <2>p, <2>t, <3>2
    <3> QED BY <2>a, <2>t, <3>1, <3>3
  <2>7. CASE UNCHANGED <<resultQ, retryQ, dlq>>
    BY <2>7, <2>a, <2>t
  <2>8. CASE OrderNext
    BY <2>1, <2>3, <2>4, <2>7, <2>8
    DEF OrderNext, CreateOrder, OrderOutboxWorker, StartConsumer, HandleMessage,
        IsProcessed, UpdateOrder, SaveProcessed, Ack, brokerVars
  <2>9. CASE InventoryNext
    BY <2>5, <2>7, <2>9
    DEF InventoryNext, StartRequestConsumer, ReceiveRequest, DropRequest, AckRequest,
        HandleReserveStockRequested, InventoryCrash, brokerVars
  <2> QED BY <2>2, <2>6, <2>7, <2>8, <2>9 DEF Next, BrokerNext, vars, brokerVars
<1>2. ASSUME NEW c \in Consumers, Active(c), delivery[c].message = e PROVE Goal
  <2>a. ASSUME pc'[c] = pc[c], delivery'[c] = delivery[c] PROVE Goal
    <3>1. Active(c)' /\ delivery'[c].message = e
      BY <1>2, <2>a DEF Active
    <3> QED BY <3>1, ActiveIsCopied
  <2>1. ASSUME NEW b \in Consumers, NEW f \in Deliveries, Receive(b, f) PROVE Goal
    <3>1. b # c
      BY <1>2, <2>1 DEF Receive, Active
    <3> QED BY <2>1, <2>a, <3>1 DEF Receive, Goto
  <2>2. ASSUME NEW b \in Consumers, HandleMessage(b) PROVE Goal
    <3>1. CASE b = c
      BY <1>2, <2>2, <3>1, HandlerKeeps
    <3>2. CASE b # c
      BY <2>2, <2>a, <3>2
      DEF HandleMessage, IsProcessed, UpdateOrder, SaveProcessed, Ack, Retry, Reject,
          ScheduleRetry, DeadLetter, Unconfirmed, Confirmed, NackRequeue, Goto
    <3> QED BY <3>1, <3>2
  <2>3. ASSUME NEW r \in OrderReplicas, OrderCrash(r) PROVE Goal
    <3>1. CASE c[1] # r
      BY <2>3, <2>a, <3>1 DEF OrderCrash
    <3>2. CASE c[1] = r
      <4>1. delivery[c] \in Deliveries /\ c = <<r, delivery[c].message.kind>>
        BY <1>2, <3>2, Holding DEF Active, HandlerShape, Consumers
      <4>2. PICK d \in Deliveries : d = delivery[c]
        BY <4>1
      <4>3. resultQ'[d] = resultQ[d] + 1 /\ resultQ[d] \in Nat
        BY <2>3, <4>1, <4>2 DEF OrderCrash
      <4>4. Ready(d)'
        BY <4>3 DEF Ready
      <4> QED BY <1>2, <4>2, <4>4, ReadyIsCopied
    <3> QED BY <3>1, <3>2
  <2>4. CASE UNCHANGED <<pc, delivery>>
    BY <2>4, <2>a
  <2>5. CASE OrderNext
    BY <2>1, <2>2, <2>3, <2>4, <2>5
    DEF OrderNext, CreateOrder, OrderOutboxWorker, StartConsumer, orderVars, consumerVars
  <2> QED BY <2>4, <2>5 DEF Next, vars, orderVars, consumerVars
<1> QED BY <1>1, <1>2 DEF Copied, Ready, Active

(* A row of the stock outbox changes by its insert, or when a worker that   *)
(* has it confirmed marks it.                                               *)
LEMMA OutboxStep ==
  ASSUME AgreementInv, [Next]_vars, NEW e \in Events
  PROVE  \/ stockOutbox'[e] = stockOutbox[e]
         \/ stockOutbox'[e] = "unprocessed"
         \/ \E r \in InventoryReplicas : e \in stockConfirmed[r]
<1> USE DEF AgreementInv, TypeOK, InventoryTypeOK
<1> DEFINE Goal == \/ stockOutbox'[e] = stockOutbox[e]
                   \/ stockOutbox'[e] = "unprocessed"
                   \/ \E r \in InventoryReplicas : e \in stockConfirmed[r]
<1>1. CASE UNCHANGED stockOutbox
  BY <1>1
<1>2. ASSUME NEW o \in Orders, NEW k \in Kinds, InsertOutbox(o, k) PROVE Goal
  BY <1>2 DEF InsertOutbox, StockRelay!Insert
<1>3. ASSUME NEW r \in InventoryReplicas, NEW f \in Events, StockRelay!MarkAsProcessed(r, f)
      PROVE  Goal
  BY <1>3 DEF StockRelay!MarkAsProcessed
<1>4. ASSUME NEW r \in InventoryReplicas, HandleReserveStockRequested(r) PROVE Goal
  BY <1>1, <1>2, <1>4
  DEF HandleReserveStockRequested, Rollback, Commit, ReserveStock, RefuseStock, Kinds
<1>5. CASE InventoryNext
  BY <1>1, <1>3, <1>4, <1>5
  DEF InventoryNext, StartRequestConsumer, ReceiveRequest, DropRequest, AckRequest,
      StockOutboxWorker, StockRelay!Work, StockRelay!Poll, StockRelay!FindUnprocessed, StockRelay!Publish,
      InventoryCrash, inventoryVars, stockRelayVars
<1> QED BY <1>1, <1>5 DEF Next, vars, inventoryVars, stockRelayVars

LEMMA EventTrailStep ==
  ASSUME AgreementInv, EventTrail, [Next]_vars
  PROVE  EventTrail'
<1> USE DEF AgreementInv, TypeOK, BrokerTypeOK, OrderTypeOK, InventoryTypeOK
<1> DEFINE Kept(e) == Copied(e)' \/ Decided(e.body)'
<1>e. \A e \in Events : e.body \in Orders
  BY DEF Events
<1>k. ASSUME NEW e \in Events, Copied(e) \/ Decided(e.body) PROVE Kept(e)
  BY <1>k, <1>e, CopyKept, StaysDecided
<1>1. \A o \in stockInbox' : \E k \in Kinds : Emitted(Event(o, k))'
  BY EmittedStep, EventIsEvent DEF EventTrail, OutboxGrows
<1>2. ASSUME NEW e \in Events, Emitted(e)'
      PROVE  EventPending(e)' \/ Decided(e.body)'
  <2>1. CASE stockOutbox'[e] = "unprocessed"
    BY <2>1 DEF EventPending
  <2>2. CASE stockOutbox'[e] = stockOutbox[e] /\ stockOutbox'[e] # "unprocessed"
    <3>1. Copied(e) \/ Decided(e.body)
      BY <1>2, <2>2 DEF EventTrail, EventPending, Emitted
    <3> QED BY <1>k, <3>1 DEF EventPending
  <2>3. ASSUME NEW r \in InventoryReplicas, e \in stockConfirmed[r]
        PROVE  EventPending(e)' \/ Decided(e.body)'
    <3>1. Copied(e) \/ Decided(e.body)
      BY <2>3 DEF EventTrail
    <3> QED BY <1>k, <3>1 DEF EventPending
  <2> QED BY <2>1, <2>2, <2>3, OutboxStep
<1>3. ASSUME NEW r \in InventoryReplicas, NEW e \in stockConfirmed'[r] PROVE Kept(e)
  <2>1. ASSUME e \in stockConfirmed[r] PROVE Kept(e)
    BY <1>k, <2>1 DEF EventTrail
  <2>2. ASSUME NEW w \in InventoryReplicas, NEW f \in Events, StockRelay!Publish(w, f)
        PROVE  Kept(e)
    <3>1. CASE StockRelay!PublishConfirmed(w, f) /\ e = f
      <4>1. PICK d \in Deliveries : d = FirstCopy(f) /\ d.message = e
        BY <3>1, FirstCopyType
      <4>2. resultQ' = Put(resultQ, d)
        BY <2>2, <3>1, <4>1, EventPublished
      <4>3. Ready(d)'
        BY <4>2 DEF Ready, Put
      <4> QED BY <4>1, <4>3, ReadyIsCopied
    <3>2. CASE e \in stockConfirmed[r]
      BY <2>1, <3>2
    <3> QED BY <1>3, <2>2, <3>1, <3>2
            DEF StockRelay!Publish, StockRelay!PublishConfirmed,
                StockRelay!PublishError, StockRelay!PublishReturned,
                StockRelay!PublishMistaken, StockRelay!PublishStalled,
                StockRelay!PublishFailed
  <2>3. CASE UNCHANGED stockConfirmed
    BY <1>3, <2>1, <2>3
  <2>4. ASSUME NEW w \in InventoryReplicas, stockConfirmed' = [stockConfirmed EXCEPT ![w] = {}]
        PROVE  Kept(e)
    BY <1>3, <2>1, <2>4
  <2>5. CASE InventoryNext
    BY <2>2, <2>3, <2>4, <2>5
    DEF InventoryNext, StartRequestConsumer, ReceiveRequest, DropRequest, AckRequest,
        HandleReserveStockRequested, StockOutboxWorker, StockRelay!Work, StockRelay!Poll,
        StockRelay!FindUnprocessed, StockRelay!MarkAsProcessed, InventoryCrash,
        StockRelay!Forget, StockRelay!Reconnect, inventoryVars, stockRelayVars
  <2> QED BY <2>3, <2>5 DEF Next, vars, inventoryVars, stockRelayVars
<1>4. ASSUME NEW c \in Consumers, pc'[c] = "ack",
             NEW e \in Events, delivery'[c].message = e
      PROVE  Kept(e)
  <2>a. ASSUME pc[c] = "ack", delivery'[c] = delivery[c] PROVE Kept(e)
    <3>1. Copied(e) \/ Decided(e.body)
      BY <1>4, <2>a DEF EventTrail
    <3> QED BY <1>k, <3>1
  <2>1. CASE UNCHANGED <<pc, delivery>>
    BY <1>4, <2>1, <2>a
  <2>2. ASSUME NEW b \in Consumers, NEW d \in Deliveries, Receive(b, d) PROVE Kept(e)
    <3>1. pc[c] = "ack" /\ delivery'[c] = delivery[c]
      BY <1>4, <2>2 DEF Receive, Goto
    <3> QED BY <2>a, <3>1
  <2>3. ASSUME NEW r \in OrderReplicas, OrderCrash(r) PROVE Kept(e)
    <3>1. pc[c] = "ack" /\ delivery'[c] = delivery[c]
      BY <1>4, <2>3 DEF OrderCrash
    <3> QED BY <2>a, <3>1
  <2>4. ASSUME NEW b \in Consumers, HandleMessage(b) PROVE Kept(e)
    <3>1. CASE b # c
      <4>1. pc[c] = "ack" /\ delivery'[c] = delivery[c]
        BY <1>4, <2>4, <3>1
        DEF HandleMessage, IsProcessed, UpdateOrder, SaveProcessed, Ack, Retry, Reject,
            ScheduleRetry, DeadLetter, Unconfirmed, Confirmed, NackRequeue, Goto
      <4> QED BY <2>a, <4>1
    <3>2. CASE b = c
      <4>1. delivery'[c] = delivery[c]
        BY <1>4, <2>4, <3>2
        DEF HandleMessage, IsProcessed, UpdateOrder, SaveProcessed, Ack, Retry, Reject,
            ScheduleRetry, DeadLetter, Unconfirmed, Confirmed, NackRequeue, Goto
      <4>2. pc[c] # "deadLetter"
        BY <1>4, <1>e, <4>1, BrokerAssumption DEF HandlerShape
      <4>3. Active(c)
        BY <1>4, <2>4, <3>2, <4>2
        DEF HandleMessage, IsProcessed, UpdateOrder, SaveProcessed, Ack, Retry, Reject,
            Active, Goto
      <4> QED BY <1>4, <2>4, <3>2, <4>1, <4>3, HandlerKeeps
    <3> QED BY <3>1, <3>2
  <2>5. CASE OrderNext
    BY <2>1, <2>2, <2>3, <2>4, <2>5
    DEF OrderNext, CreateOrder, OrderOutboxWorker, StartConsumer, orderVars, consumerVars
  <2> QED BY <2>1, <2>5 DEF Next, vars, orderVars, consumerVars
<1> QED BY <1>1, <1>2, <1>3, <1>4 DEF EventTrail

-----------------------------------------------------------------------------
(* The whole inductive invariant of the saga holds in every reachable state. *)
THEOREM SagaInvariance == Spec => []SagaInv
<1>1. SagaInv <=> AgreementInv /\ RequestTrail /\ EventTrail
  BY DEF SagaInv, AgreementInv
<1>2. Init => RequestTrail /\ EventTrail
  BY InitRequestTrail, InitEventTrail
<1>3. AgreementInv /\ RequestTrail /\ EventTrail /\ [Next]_vars
        => RequestTrail' /\ EventTrail'
  BY RequestTrailStep, EventTrailStep
<1> QED BY <1>1, <1>2, <1>3, AgreementInvariance, PTL DEF Spec

(* No order is lost, for any number of orders, replicas, retries and faults: *)
(* the outbox workers, publishThenAck and the handlers give up a copy of a   *)
(* request or of a result only when the next place has it.                   *)
THEOREM NothingLost == Spec => []NoLostOrder
<1>1. SagaInv => NoLostOrder
  <2> SUFFICES ASSUME SagaInv, NEW o \in Orders, orders[o] = "PENDING", ~RequestPending(o)
               PROVE  \E k \in Kinds : EventPending(Event(o, k))
    BY DEF NoLostOrder
  <2>1. o \in stockInbox
    BY DEF SagaInv, RequestTrail, RequestPending, InventoryHas
  <2>2. PICK k \in Kinds : Emitted(Event(o, k))
    BY <2>1 DEF SagaInv, EventTrail
  <2>3. EventPending(Event(o, k)) \/ Decided(Event(o, k).body)
    BY <2>2, EventIsEvent DEF SagaInv, EventTrail
  <2>4. ~Decided(Event(o, k).body)
    BY DEF Event, Decided
  <2> QED BY <2>3, <2>4
<1> QED BY <1>1, SagaInvariance, PTL

-----------------------------------------------------------------------------
LEMMA DeadLetterStep ==
  ASSUME AgreementInv, DeadLetterOnlyExhausted, [Next]_vars
  PROVE  DeadLetterOnlyExhausted'
<1> USE DEF AgreementInv, TypeOK, BrokerTypeOK
<1> SUFFICES ASSUME NEW d \in Deliveries, dlq'[d] > 0
             PROVE  d.message.body \in Garbage \/ d.attempt = MaxAttempts
  BY DEF DeadLetterOnlyExhausted
<1> DEFINE Goal == d.message.body \in Garbage \/ d.attempt = MaxAttempts
<1>1. ASSUME UNCHANGED dlq PROVE Goal
  BY <1>1 DEF DeadLetterOnlyExhausted
<1>2. ASSUME NEW c \in Consumers, Retry(c) \/ Reject(c) PROVE Goal
  <2>1. pc[c] # "idle" /\ delivery[c] \in Deliveries /\ delivery[c].attempt \in Attempts
    BY <1>2, Holding DEF Retry, Reject
  <2>2. CASE UNCHANGED dlq
    BY <1>1, <2>2
  <2>3. CASE dlq' = Put(dlq, delivery[c]) /\ d # delivery[c]
    <3>1. dlq'[d] = dlq[d]
      BY <2>1, <2>3 DEF Put
    <3> QED BY <3>1 DEF DeadLetterOnlyExhausted
  <2>4. CASE d = delivery[c] /\ Reject(c)
    BY <2>4 DEF Reject, HandlerShape
  <2>5. CASE d = delivery[c] /\ delivery[c].attempt >= MaxAttempts
    BY <2>1, <2>5, BrokerAssumption DEF Attempts
  <2> QED BY <1>2, <2>2, <2>3, <2>4, <2>5 DEF Retry, Reject, ScheduleRetry, DeadLetter, Unconfirmed
<1>3. CASE OrderNext
  BY <1>1, <1>2, <1>3
  DEF OrderNext, CreateOrder, OrderOutboxWorker, OrderCrash, StartConsumer, Receive,
      HandleMessage, IsProcessed, UpdateOrder, SaveProcessed, Ack, brokerVars
<1>4. CASE InventoryNext
  BY <1>1, <1>4
  DEF InventoryNext, StartRequestConsumer, ReceiveRequest, DropRequest, AckRequest,
      HandleReserveStockRequested, StockOutboxWorker, InventoryCrash, brokerVars
<1>5. CASE BrokerNext
  BY <1>1, <1>5 DEF BrokerNext, RetryExpires, ForeignPublish
<1>6. CASE UNCHANGED vars
  BY <1>1, <1>6 DEF vars, brokerVars
<1> QED BY <1>3, <1>4, <1>5, <1>6 DEF Next

(* retry_policy.go never dead-letters a stock event before maxAttempts, for  *)
(* any maxAttempts, number of replicas and faults.                           *)
THEOREM RetriesUsedUp == Spec => []DeadLetterOnlyExhausted
<1>1. Init => DeadLetterOnlyExhausted
  BY DEF Init, BrokerInit, DeadLetterOnlyExhausted
<1> QED BY <1>1, DeadLetterStep, AgreementInvariance, PTL DEF Spec
=============================================================================

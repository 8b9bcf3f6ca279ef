-------------------------- MODULE OrderSagaProofs --------------------------
(***************************************************************************)
(* Machine-checked proofs about OrderSaga, for any sets of orders, lines,  *)
(* products and replicas, any number of attempts, batch size and faults.   *)
(*                                                                         *)
(* The inductive invariant SagaInv is proved one conjunct at a time: each  *)
(* "Step" lemma shows that a step preserves one conjunct, given the        *)
(* conjuncts proved before it.                                             *)
(***************************************************************************)
EXTENDS OrderSaga, InventoryProofs

-----------------------------------------------------------------------------
(* Type correctness *)

LEMMA InitType == Init => TypeOK
  BY BrokerAssumption, InventoryAssumption
  DEF Init, BrokerInit, OrderInit, InventoryInit, TypeOK, BrokerTypeOK,
      OrderTypeOK, InventoryTypeOK, Relay!RowStates, StockRelay!RowStates,
      Statuses, Steps, RequestQueue

LEMMA ForeignCopy ==
  ASSUME NEW g \in Garbage, NEW k \in Kinds
  PROVE  [message |-> [body |-> g, kind |-> k], attempt |-> 1] \in Deliveries
  BY BrokerAssumption DEF Deliveries, Messages, Requests, Attempts

(* What the two relays do to their queues. *)
LEMMA RequestAccepted ==
  ASSUME TypeOK, NEW o \in Orders, Relay!Accept(o)
  PROVE  /\ requestQ' = requestQ \/ requestQ' = Put(requestQ, o)
         /\ Relay!Routes(o) # {} => requestQ' = Put(requestQ, o)
<1>1. Relay!Routes(o) = {} \/ Relay!Routes(o) = {o}
  BY DEF Relay!Routes
<1>2. requestQ \in [Requests -> Nat] /\ o \in Requests
  BY DEF TypeOK, BrokerTypeOK, Requests
<1>3. requestQ' = [m \in Requests |->
                     IF m \in Relay!Routes(o) THEN requestQ[m] + 1 ELSE requestQ[m]]
  BY DEF Relay!Accept
<1> QED BY <1>1, <1>2, <1>3 DEF Put

LEMMA RequestPublished ==
  ASSUME TypeOK, NEW r \in OrderReplicas, NEW o \in Orders, Relay!Publish(r, o)
  PROVE  /\ requestQ' = requestQ \/ requestQ' = Put(requestQ, o)
         /\ Relay!PublishConfirmed(r, o) => requestQ' = Put(requestQ, o)
  BY RequestAccepted
  DEF Relay!Publish, Relay!PublishConfirmed, Relay!PublishError, Relay!PublishReturned,
      Relay!PublishMistaken, Relay!PublishStalled,
      Relay!PublishFailed

FirstCopy(e) == [message |-> e, attempt |-> 1]

LEMMA FirstCopyType ==
  ASSUME NEW e \in Events
  PROVE  FirstCopy(e) \in Deliveries /\ FirstCopy(e).message = e
  BY BrokerAssumption DEF FirstCopy, Deliveries, Messages, Events, Requests, Attempts

LEMMA EventAccepted ==
  ASSUME TypeOK, NEW e \in Events, StockRelay!Accept(e)
  PROVE  /\ resultQ' = resultQ \/ resultQ' = Put(resultQ, FirstCopy(e))
         /\ StockRelay!Routes(e) # {} => resultQ' = Put(resultQ, FirstCopy(e))
<1>1. StockRelay!Routes(e) = {} \/ StockRelay!Routes(e) = {FirstCopy(e)}
  BY DEF StockRelay!Routes, FirstCopy
<1>2. resultQ \in [Deliveries -> Nat] /\ FirstCopy(e) \in Deliveries
  BY FirstCopyType DEF TypeOK, BrokerTypeOK
<1>3. resultQ' = [d \in Deliveries |->
                    IF d \in StockRelay!Routes(e) THEN resultQ[d] + 1 ELSE resultQ[d]]
  BY DEF StockRelay!Accept
<1> QED BY <1>1, <1>2, <1>3 DEF Put

LEMMA EventPublished ==
  ASSUME TypeOK, NEW r \in InventoryReplicas, NEW e \in Events, StockRelay!Publish(r, e)
  PROVE  /\ resultQ' = resultQ \/ resultQ' = Put(resultQ, FirstCopy(e))
         /\ StockRelay!PublishConfirmed(r, e) => resultQ' = Put(resultQ, FirstCopy(e))
  BY EventAccepted
  DEF StockRelay!Publish, StockRelay!PublishConfirmed, StockRelay!PublishError, StockRelay!PublishReturned,
      StockRelay!PublishMistaken, StockRelay!PublishStalled,
      StockRelay!PublishFailed

(* A consumer that is busy holds a delivery, of an event while it handles it. *)
LEMMA Holding ==
  ASSUME TypeOK, HandlerShape, NEW c \in Consumers, pc[c] # "idle"
  PROVE  /\ delivery[c] \in Deliveries
         /\ delivery[c].message \in Messages
         /\ delivery[c].message.body \in Requests
         /\ delivery[c].message.kind \in Kinds
         /\ delivery[c].attempt \in Attempts
  BY DEF TypeOK, OrderTypeOK, HandlerShape, Deliveries, Messages

LEMMA TypeStep == TypeOK /\ HandlerShape /\ [Next]_vars => TypeOK'
<1> SUFFICES ASSUME TypeOK, HandlerShape, [Next]_vars PROVE TypeOK'
  OBVIOUS
<1> USE DEF TypeOK, BrokerTypeOK, OrderTypeOK, InventoryTypeOK
<1>1. CASE OrderNext /\ UNCHANGED inventoryVars
  <2> USE <1>1 DEF inventoryVars, stockVars, stockRelayVars, handlerVars,
                   consumerVars, orderRelayVars, orderVars, brokerVars
  <2>1. ASSUME NEW o \in Orders, CreateOrder(o) PROVE TypeOK'
    BY <2>1, BrokerAssumption
    DEF CreateOrder, Relay!Insert, Relay!RowStates, Statuses
  <2>2. ASSUME NEW r \in OrderReplicas, OrderOutboxWorker(r) PROVE TypeOK'
    <3> USE <2>2 DEF OrderOutboxWorker
    <3>1. CASE Relay!FindUnprocessed(r) /\ UNCHANGED orderReturns
      BY <3>1 DEF Relay!FindUnprocessed, Relay!Unprocessed
    <3>2. ASSUME NEW o \in Orders, Relay!Publish(r, o) PROVE TypeOK'
      <4>1. requestQ' \in [Requests -> Nat]
        BY <3>2, RequestPublished DEF Put
      <4>2. orderReturns' \in [OrderReplicas -> 0..2]
        <5>1. orderReturns[r] \in 0..2
          OBVIOUS
        <5>2. \/ orderReturns' = orderReturns
              \/ \E n \in 0..2 : orderReturns' = [orderReturns EXCEPT ![r] = n]
          BY <3>2, <5>1
          DEF Relay!Publish, Relay!PublishConfirmed, Relay!PublishError,
              Relay!PublishReturned, Relay!PublishMistaken, Relay!PublishStalled,
              Relay!PublishFailed, Relay!Stalled
        <5> QED BY <5>2
      <4>3. /\ orderBatch' \in [OrderReplicas -> SUBSET Orders]
            /\ orderConfirmed' \in [OrderReplicas -> SUBSET Orders]
            /\ faults' \in Nat
            /\ UNCHANGED <<orderOutbox, orderCreatedAt>>
        BY <3>2
        DEF Relay!Publish, Relay!PublishConfirmed, Relay!PublishError,
            Relay!PublishReturned, Relay!PublishMistaken, Relay!PublishStalled,
            Relay!PublishFailed, Relay!Fault
      <4> QED BY <4>1, <4>2, <4>3
    <3>3. ASSUME NEW o \in Orders, Relay!MarkAsProcessed(r, o), UNCHANGED orderReturns
          PROVE  TypeOK'
      BY <3>3 DEF Relay!MarkAsProcessed, Relay!Fault, Relay!RowStates
    <3> QED BY <3>1, <3>2, <3>3 DEF Relay!Work, Relay!Poll
  <2>3. ASSUME NEW r \in OrderReplicas, OrderCrash(r) PROVE TypeOK'
    BY <2>3 DEF OrderCrash, Relay!Forget, Relay!Reconnect, Fault, Steps
  <2>4. ASSUME NEW c \in Consumers, StartConsumer(c) PROVE TypeOK'
    BY <2>4 DEF StartConsumer, Consumers
  <2>5. ASSUME NEW c \in Consumers, NEW d \in Deliveries, Receive(c, d)
        PROVE  TypeOK'
    BY <2>5 DEF Receive, Take, Goto, Steps
  <2>6. ASSUME NEW c \in Consumers, HandleMessage(c) PROVE TypeOK'
    <3> USE <2>6 DEF Steps, Goto, Fault
    <3>1. CASE IsProcessed(c)
      BY <3>1 DEF IsProcessed
    <3>2. CASE UpdateOrder(c)
      BY <3>2 DEF UpdateOrder, StatusUpdate, NewStatus, Statuses
    <3>3. CASE SaveProcessed(c)
      BY <3>3 DEF SaveProcessed, HandlerShape, Message
    <3>4. CASE Ack(c)
      BY <3>4 DEF Ack
    <3>5. CASE Retry(c)
      <4>1. delivery[c] \in Deliveries
        BY <3>5, Holding DEF Retry
      <4>2. delivery[c].attempt < MaxAttempts =>
               [delivery[c] EXCEPT !.attempt = @ + 1] \in Deliveries
        BY <4>1, BrokerAssumption DEF Deliveries, Attempts
      <4>3. CASE delivery[c].attempt < MaxAttempts /\ ScheduleRetry(c)
        <5> DEFINE next == [delivery[c] EXCEPT !.attempt = @ + 1]
        <5>1. next \in Deliveries
          BY <4>2, <4>3
        <5>2. \/ retryQ' = Put(retryQ, next) /\ Confirmed(c)
              \/ /\ retryQ' \in {retryQ, Put(retryQ, next)} /\ NackRequeue(c)
                 /\ faults' \in Nat
          BY <4>3 DEF ScheduleRetry, Unconfirmed
        <5>3. UNCHANGED dlq
          BY <4>3 DEF ScheduleRetry, Unconfirmed
        <5> HIDE DEF next
        <5>4. retryQ' \in [Deliveries -> Nat]
          BY <5>1, <5>2 DEF Put
        <5>5. CASE Confirmed(c)
          BY <3>5, <5>3, <5>4, <5>5 DEF Retry, Confirmed
        <5>6. CASE NackRequeue(c) /\ faults' \in Nat
          BY <3>5, <4>1, <5>3, <5>4, <5>6 DEF Retry, NackRequeue, Put
        <5> QED BY <5>2, <5>5, <5>6
      <4>4. CASE DeadLetter(c)
        <5>1. dlq' \in [Deliveries -> Nat] /\ UNCHANGED retryQ
          BY <4>1, <4>4 DEF DeadLetter, Unconfirmed, Put
        <5>2. CASE Confirmed(c)
          BY <3>5, <5>1, <5>2 DEF Retry, Confirmed
        <5>3. CASE NackRequeue(c) /\ faults' \in Nat
          BY <3>5, <4>1, <5>1, <5>3 DEF Retry, NackRequeue, Put
        <5> QED BY <4>4, <5>2, <5>3 DEF DeadLetter, Unconfirmed
      <4> QED BY <3>5, <4>3, <4>4 DEF Retry
    <3>6. CASE Reject(c)
      <4>1. delivery[c] \in Deliveries
        BY <3>6, Holding DEF Reject
      <4>2. dlq' \in [Deliveries -> Nat] /\ UNCHANGED retryQ
        BY <3>6, <4>1 DEF Reject, DeadLetter, Unconfirmed, Put
      <4>3. CASE Confirmed(c)
        BY <3>6, <4>2, <4>3 DEF Reject, Confirmed
      <4>4. CASE NackRequeue(c) /\ faults' \in Nat
        BY <3>6, <4>1, <4>2, <4>4 DEF Reject, NackRequeue, Put
      <4> QED BY <3>6, <4>3, <4>4 DEF Reject, DeadLetter, Unconfirmed
    <3> QED BY <3>1, <3>2, <3>3, <3>4, <3>5, <3>6 DEF HandleMessage
  <2> QED BY <2>1, <2>2, <2>3, <2>4, <2>5, <2>6 DEF OrderNext
<1>2. CASE InventoryNext /\ UNCHANGED orderVars
  <2> USE <1>2 DEF inventoryVars, stockVars, stockRelayVars, handlerVars,
                   consumerVars, orderRelayVars, orderVars, brokerVars
  <2>1. CASE StartRequestConsumer
    BY <2>1 DEF StartRequestConsumer
  <2>2. ASSUME NEW r \in InventoryReplicas, NEW m \in Requests, ReceiveRequest(r, m)
        PROVE  TypeOK'
    BY <2>2 DEF ReceiveRequest, Take
  <2>3. ASSUME NEW r \in InventoryReplicas, DropRequest(r) PROVE TypeOK'
    BY <2>3 DEF DropRequest, Done
  <2>4. ASSUME NEW r \in InventoryReplicas, HandleReserveStockRequested(r)
        PROVE  TypeOK'
    <3> DEFINE o == request[r]
    <3> USE <2>4
    <3>1. /\ o \in Orders
          /\ UNCHANGED <<stockBatch, stockConfirmed, stockReturns,
                         resultQ, retryQ, dlq, bound>>
      BY DEF HandleReserveStockRequested
    <3>2. /\ requestQ' \in [Requests -> Nat]
          /\ step' \in [InventoryReplicas -> {"idle", "handle", "ack"}]
          /\ request' \in [InventoryReplicas -> Requests \cup {None}]
          /\ faults' \in Nat
      BY DEF HandleReserveStockRequested, Requeue, Done, Put, Fault, Requests
    <3>3. CASE Rollback
      BY <3>1, <3>2, <3>3 DEF Rollback
    <3>4. CASE Commit(o)
      BY <3>1, <3>2, <3>4, CommitTypes DEF InventoryTypeOK
    <3> QED BY <3>3, <3>4 DEF HandleReserveStockRequested
  <2>5. ASSUME NEW r \in InventoryReplicas, AckRequest(r) PROVE TypeOK'
    BY <2>5 DEF AckRequest, Done
  <2>6. ASSUME NEW r \in InventoryReplicas, StockOutboxWorker(r) PROVE TypeOK'
    <3> USE <2>6 DEF StockOutboxWorker
    <3>1. CASE StockRelay!FindUnprocessed(r) /\ UNCHANGED stockReturns
      BY <3>1 DEF StockRelay!FindUnprocessed, StockRelay!Unprocessed
    <3>2. ASSUME NEW e \in Events, StockRelay!Publish(r, e) PROVE TypeOK'
      <4>1. resultQ' \in [Deliveries -> Nat]
        BY <3>2, EventPublished DEF Put
      <4>2. stockReturns' \in [InventoryReplicas -> 0..2]
        <5>1. stockReturns[r] \in 0..2
          OBVIOUS
        <5>2. \/ stockReturns' = stockReturns
              \/ \E n \in 0..2 : stockReturns' = [stockReturns EXCEPT ![r] = n]
          BY <3>2, <5>1
          DEF StockRelay!Publish, StockRelay!PublishConfirmed, StockRelay!PublishError,
              StockRelay!PublishReturned, StockRelay!PublishMistaken, StockRelay!PublishStalled,
              StockRelay!PublishFailed, StockRelay!Stalled
        <5> QED BY <5>2
      <4>3. /\ stockBatch' \in [InventoryReplicas -> SUBSET Events]
            /\ stockConfirmed' \in [InventoryReplicas -> SUBSET Events]
            /\ faults' \in Nat
            /\ UNCHANGED <<stockOutbox, stockCreatedAt>>
        BY <3>2
        DEF StockRelay!Publish, StockRelay!PublishConfirmed, StockRelay!PublishError,
            StockRelay!PublishReturned, StockRelay!PublishMistaken, StockRelay!PublishStalled,
            StockRelay!PublishFailed, StockRelay!Fault
      <4> QED BY <4>1, <4>2, <4>3
    <3>3. ASSUME NEW e \in Events, StockRelay!MarkAsProcessed(r, e), UNCHANGED stockReturns
          PROVE  TypeOK'
      BY <3>3 DEF StockRelay!MarkAsProcessed, StockRelay!Fault, StockRelay!RowStates
    <3> QED BY <3>1, <3>2, <3>3 DEF StockRelay!Work, StockRelay!Poll
  <2>7. ASSUME NEW r \in InventoryReplicas, InventoryCrash(r) PROVE TypeOK'
    <3>1. requestQ' \in [Requests -> Nat]
      BY <2>7 DEF InventoryCrash, Requeue, Put
    <3> QED BY <2>7, <3>1 DEF InventoryCrash, StockRelay!Forget, StockRelay!Reconnect, Fault, Requeue, Done
  <2> QED BY <2>1, <2>2, <2>3, <2>4, <2>5, <2>6, <2>7 DEF InventoryNext
<1>3. CASE BrokerNext /\ UNCHANGED <<orderVars, inventoryVars>>
  <2> USE <1>3 DEF inventoryVars, stockVars, stockRelayVars, handlerVars,
                   consumerVars, orderRelayVars, orderVars, brokerVars
  <2>1. ASSUME NEW d \in Deliveries, RetryExpires(d) PROVE TypeOK'
    BY <2>1 DEF RetryExpires, Put, Take
  <2>2. ASSUME NEW g \in Garbage, ForeignPublish(g) PROVE TypeOK'
    <3>1. CASE requestQ' = Put(requestQ, g) /\ UNCHANGED resultQ
      BY <2>2, <3>1 DEF ForeignPublish, Put, Fault, Requests
    <3>2. ASSUME NEW d \in Deliveries, resultQ' = Put(resultQ, d), UNCHANGED requestQ
          PROVE  TypeOK'
      BY <2>2, <3>2 DEF ForeignPublish, Put, Fault
    <3> QED BY <2>2, <3>1, <3>2, ForeignCopy DEF ForeignPublish
  <2> QED BY <2>1, <2>2 DEF BrokerNext
<1>4. CASE UNCHANGED vars
  BY <1>4 DEF vars, brokerVars, orderVars, inventoryVars, stockVars,
              stockRelayVars, handlerVars, consumerVars, orderRelayVars
<1> QED BY <1>1, <1>2, <1>3, <1>4 DEF Next

-----------------------------------------------------------------------------
(* HandlerShape *)

LEMMA InitShape == Init => HandlerShape
  BY DEF Init, OrderInit, InventoryInit, HandlerShape, Consumers

LEMMA ShapeStep == TypeOK /\ HandlerShape /\ [Next]_vars => HandlerShape'
<1> SUFFICES ASSUME TypeOK, HandlerShape, [Next]_vars PROVE HandlerShape'
  OBVIOUS
<1> USE DEF HandlerShape
<1>a. ASSUME UNCHANGED <<pc, delivery, step, request>> PROVE HandlerShape'
  BY <1>a
<1>1. CASE OrderNext /\ UNCHANGED inventoryVars
  <2>u. UNCHANGED <<step, request>>
    BY <1>1 DEF inventoryVars, handlerVars
  <2>1. ASSUME NEW o \in Orders, CreateOrder(o) PROVE HandlerShape'
    BY <1>a, <2>u, <2>1 DEF CreateOrder, consumerVars
  <2>2. ASSUME NEW r \in OrderReplicas, OrderOutboxWorker(r) PROVE HandlerShape'
    BY <1>a, <2>u, <2>2 DEF OrderOutboxWorker, consumerVars
  <2>3. ASSUME NEW r \in OrderReplicas, OrderCrash(r) PROVE HandlerShape'
    BY <2>u, <2>3 DEF OrderCrash
  <2>4. ASSUME NEW c \in Consumers, StartConsumer(c) PROVE HandlerShape'
    BY <1>a, <2>u, <2>4 DEF StartConsumer, orderVars, consumerVars
  <2>5. ASSUME NEW c \in Consumers, NEW d \in Deliveries, Receive(c, d)
        PROVE  HandlerShape'
    <3>1. d # None
      BY BrokerAssumption
    <3>2. d.message.body \notin Garbage => d.message \in Events
      BY DEF Deliveries, Messages, Events, Requests
    <3>3. /\ pc' = [pc EXCEPT ![c] = IF d.message.body \in Garbage
                                     THEN "deadLetter" ELSE "isProcessed"]
          /\ delivery' = [delivery EXCEPT ![c] = d]
          /\ d.message.kind = c[2]
      BY <2>5 DEF Receive, Goto
    <3> QED BY <2>u, <3>1, <3>2, <3>3 DEF TypeOK, OrderTypeOK
  <2>6. ASSUME NEW c \in Consumers, HandleMessage(c) PROVE HandlerShape'
    <3>1. ASSUME NEW s \in Steps \ {"idle", "deadLetter"}, Goto(c, s),
                 UNCHANGED delivery, pc[c] # "idle",
                 s = "ack" \/ pc[c] \in {"isProcessed", "updateOrder", "saveProcessed", "retry"}
          PROVE  HandlerShape'
      BY <2>u, <3>1 DEF Goto, TypeOK, OrderTypeOK, Steps
    <3>2. ASSUME Goto(c, "idle"), delivery' = [delivery EXCEPT ![c] = None]
          PROVE  HandlerShape'
      BY <2>u, <3>2 DEF Goto, TypeOK, OrderTypeOK
    <3>3. CASE IsProcessed(c)
      BY <3>1, <3>3 DEF IsProcessed, Steps
    <3>4. CASE UpdateOrder(c)
      BY <3>1, <3>4 DEF UpdateOrder, Steps
    <3>5. CASE SaveProcessed(c)
      BY <3>1, <3>5 DEF SaveProcessed, Steps
    <3>6. CASE Ack(c)
      BY <3>2, <3>6 DEF Ack
    <3>7. CASE Retry(c) \/ Reject(c)
      BY <3>1, <3>2, <3>7
      DEF Retry, Reject, ScheduleRetry, DeadLetter, Unconfirmed, Confirmed, NackRequeue, Steps
    <3> QED BY <2>6, <3>3, <3>4, <3>5, <3>6, <3>7 DEF HandleMessage
  <2> QED BY <1>1, <2>1, <2>2, <2>3, <2>4, <2>5, <2>6 DEF OrderNext
<1>2. CASE InventoryNext /\ UNCHANGED orderVars
  <2>u. UNCHANGED <<pc, delivery>>
    BY <1>2 DEF orderVars, consumerVars
  <2>a. ASSUME NEW r \in InventoryReplicas, Done(r) PROVE HandlerShape'
    BY <2>u, <2>a DEF Done, TypeOK, InventoryTypeOK
  <2>1. CASE StartRequestConsumer
    BY <1>a, <2>u, <2>1 DEF StartRequestConsumer, inventoryVars, handlerVars
  <2>2. ASSUME NEW r \in InventoryReplicas, NEW m \in Requests, ReceiveRequest(r, m)
        PROVE  HandlerShape'
    BY <2>u, <2>2, BrokerAssumption DEF ReceiveRequest, TypeOK, InventoryTypeOK
  <2>3. ASSUME NEW r \in InventoryReplicas, DropRequest(r) \/ AckRequest(r)
        PROVE  HandlerShape'
    BY <2>a, <2>3 DEF DropRequest, AckRequest
  <2>4. ASSUME NEW r \in InventoryReplicas, HandleReserveStockRequested(r)
        PROVE  HandlerShape'
    <3>1. CASE Done(r)
      BY <2>a, <3>1
    <3>2. CASE step' = [step EXCEPT ![r] = "ack"] /\ UNCHANGED request
      BY <2>u, <2>4, <3>2, BrokerAssumption
      DEF HandleReserveStockRequested, Requests, TypeOK, InventoryTypeOK
    <3> QED BY <2>4, <3>1, <3>2 DEF HandleReserveStockRequested, Requeue
  <2>5. ASSUME NEW r \in InventoryReplicas, StockOutboxWorker(r) PROVE HandlerShape'
    BY <1>a, <2>u, <2>5 DEF StockOutboxWorker, handlerVars
  <2>6. ASSUME NEW r \in InventoryReplicas, InventoryCrash(r) PROVE HandlerShape'
    BY <1>a, <2>a, <2>u, <2>6 DEF InventoryCrash, Requeue, handlerVars
  <2> QED BY <1>2, <2>1, <2>2, <2>3, <2>4, <2>5, <2>6 DEF InventoryNext
<1>3. CASE UNCHANGED <<orderVars, inventoryVars>>
  BY <1>a, <1>3 DEF orderVars, consumerVars, inventoryVars, handlerVars
<1> QED BY <1>1, <1>2, <1>3 DEF Next, vars

-----------------------------------------------------------------------------
(* EventsAreEmitted and OneDecision *)

LEMMA EventIsEvent ==
  ASSUME NEW o \in Orders, NEW k \in Kinds
  PROVE  /\ Event(o, k) \in Events
         /\ Event(o, k).body = o
         /\ Event(o, k).kind = k
  BY DEF Event, Events

LEMMA InitEvents == Init => EventsAreEmitted /\ OneDecision
<1> SUFFICES ASSUME Init PROVE EventsAreEmitted /\ OneDecision
  OBVIOUS
<1>1. \A e \in Events : ~Emitted(e)
  BY DEF Init, InventoryInit, Emitted
<1>2. \A e \in Events : ~Travelling(e)
  BY DEF Init, BrokerInit, OrderInit, InventoryInit, Travelling
<1> QED BY <1>1, <1>2, EventIsEvent DEF EventsAreEmitted, OneDecision

(* What a step can do to the outbox and inbox of inventory-service. *)
OutboxGrows ==
    /\ stockInbox \subseteq stockInbox'
    /\ \A e \in Events : Emitted(e) => Emitted(e)'

LEMMA EmittedStep ==
  ASSUME TypeOK, EventsAreEmitted, [Next]_vars
  PROVE  /\ OutboxGrows
         /\ \/ UNCHANGED stockInbox /\ \A e \in Events : Emitted(e)' <=> Emitted(e)
            \/ \E o \in Orders, k \in Kinds :
                  /\ o \notin stockInbox
                  /\ stockInbox' = stockInbox \cup {o}
                  /\ \A e \in Events :
                        Emitted(e)' <=> (Emitted(e) \/ e = Event(o, k))
<1> DEFINE Same == UNCHANGED stockInbox /\ \A e \in Events : Emitted(e)' <=> Emitted(e)
           New(o, k) == /\ o \notin stockInbox
                        /\ stockInbox' = stockInbox \cup {o}
                        /\ \A e \in Events :
                              Emitted(e)' <=> (Emitted(e) \/ e = Event(o, k))
<1> SUFFICES Same \/ \E o \in Orders, k \in Kinds : New(o, k)
  BY DEF OutboxGrows
<1>a. ASSUME UNCHANGED <<stockOutbox, stockInbox>> PROVE Same
  BY <1>a DEF Emitted
<1>1. CASE UNCHANGED inventoryVars
  BY <1>a, <1>1 DEF inventoryVars, stockVars, stockRelayVars
<1>2. CASE InventoryNext
  <2>1. CASE StartRequestConsumer
    BY <1>a, <2>1 DEF StartRequestConsumer, inventoryVars, stockVars, stockRelayVars
  <2>2. ASSUME NEW r \in InventoryReplicas, NEW m \in Requests, ReceiveRequest(r, m)
        PROVE  Same
    BY <1>a, <2>2 DEF ReceiveRequest, stockVars, stockRelayVars
  <2>3. ASSUME NEW r \in InventoryReplicas, DropRequest(r) \/ AckRequest(r)
        PROVE  Same
    BY <1>a, <2>3 DEF DropRequest, AckRequest, stockVars, stockRelayVars
  <2>4. ASSUME NEW r \in InventoryReplicas, HandleReserveStockRequested(r)
        PROVE  Same \/ \E o \in Orders, k \in Kinds : New(o, k)
    <3>1. CASE Rollback
      BY <1>a, <3>1 DEF Rollback, stockVars
    <3>2. ASSUME Commit(request[r]), request[r] \in Orders
          PROVE  \E o \in Orders, k \in Kinds : New(o, k)
      <4>1. PICK k \in Kinds : InsertOutbox(request[r], k)
        BY <3>2 DEF Commit, ReserveStock, RefuseStock, Kinds
      <4>2. stockOutbox' = [stockOutbox EXCEPT ![Event(request[r], k)] = "unprocessed"]
        BY <4>1 DEF InsertOutbox, StockRelay!Insert, Event
      <4>3. \A e \in Events : Emitted(e)' <=> (Emitted(e) \/ e = Event(request[r], k))
        BY <3>2, <4>2, EventIsEvent DEF Emitted, TypeOK, InventoryTypeOK
      <4> QED BY <3>2, <4>3 DEF Commit
    <3> QED BY <2>4, <3>1, <3>2 DEF HandleReserveStockRequested
  <2>5. ASSUME NEW r \in InventoryReplicas, StockOutboxWorker(r) PROVE Same
    <3>u. UNCHANGED stockInbox
      BY <2>5 DEF StockOutboxWorker, stockVars
    <3>1. CASE UNCHANGED stockOutbox
      BY <1>a, <3>u, <3>1
    <3>2. ASSUME NEW e \in Events, StockRelay!MarkAsProcessed(r, e) PROVE Same
      <4>1. Emitted(e)
        BY <3>2 DEF StockRelay!MarkAsProcessed, EventsAreEmitted, Travelling
      <4>2. stockOutbox' = stockOutbox \/ stockOutbox' = [stockOutbox EXCEPT ![e] = "processed"]
        BY <3>2 DEF StockRelay!MarkAsProcessed
      <4> QED BY <3>u, <4>1, <4>2 DEF Emitted, TypeOK, InventoryTypeOK
    <3> QED BY <2>5, <3>1, <3>2
            DEF StockOutboxWorker, StockRelay!Work, StockRelay!Poll, StockRelay!FindUnprocessed,
                StockRelay!Publish
  <2>6. ASSUME NEW r \in InventoryReplicas, InventoryCrash(r) PROVE Same
    BY <1>a, <2>6 DEF InventoryCrash, stockVars
  <2> QED BY <1>2, <2>1, <2>2, <2>3, <2>4, <2>5, <2>6 DEF InventoryNext
<1> QED BY <1>1, <1>2 DEF Next, vars

(* An event only starts to travel from the outbox. *)
LEMMA TravelStep ==
  ASSUME TypeOK, HandlerShape, EventsAreEmitted, [Next]_vars,
         NEW e \in Events, Travelling(e)'
  PROVE  Emitted(e)
<1> SUFFICES ASSUME ~Emitted(e) PROVE FALSE
  OBVIOUS
<1>n. ~Travelling(e)
  BY DEF EventsAreEmitted
<1>q. \A d \in Deliveries : d.message = e => resultQ[d] = 0 /\ retryQ[d] = 0 /\ dlq[d] = 0
  BY <1>n DEF Travelling, TypeOK, BrokerTypeOK
<1>h. /\ \A r \in InventoryReplicas : e \notin stockBatch[r] /\ e \notin stockConfirmed[r]
      /\ \A c \in Consumers : pc[c] # "idle" => delivery[c].message # e
      /\ \A c \in Consumers : delivery[c] # None => delivery[c].message # e
      /\ e \notin orderInbox
  BY <1>n DEF Travelling, HandlerShape
<1> USE DEF TypeOK, BrokerTypeOK, OrderTypeOK, InventoryTypeOK
<1>g. e.body \notin Garbage
  BY BrokerAssumption DEF Events
<1>1. CASE OrderNext /\ UNCHANGED inventoryVars
  <2>u. UNCHANGED <<stockBatch, stockConfirmed>>
    BY <1>1 DEF inventoryVars, stockRelayVars
  <2>a. ASSUME UNCHANGED <<resultQ, retryQ, dlq, delivery, orderInbox>> PROVE FALSE
    BY <1>n, <2>u, <2>a DEF Travelling
  <2>1. ASSUME NEW o \in Orders, CreateOrder(o) PROVE FALSE
    BY <2>1, <2>a DEF CreateOrder, consumerVars, brokerVars
  <2>2. ASSUME NEW r \in OrderReplicas, OrderOutboxWorker(r) PROVE FALSE
    BY <2>2, <2>a DEF OrderOutboxWorker, consumerVars
  <2>3. ASSUME NEW r \in OrderReplicas, OrderCrash(r) PROVE FALSE
    <3>1. \A d \in Deliveries : d.message = e => resultQ'[d] = 0
      BY <1>q, <1>h, <2>3, BrokerAssumption
      DEF OrderCrash, Deliveries, Messages, Consumers
    <3>2. \A c \in Consumers : delivery'[c] # None => delivery'[c].message # e
      BY <1>h, <2>3 DEF OrderCrash
    <3>3. UNCHANGED <<retryQ, dlq, orderInbox>>
      BY <2>3 DEF OrderCrash
    <3> QED BY <1>q, <1>h, <2>u, <3>1, <3>2, <3>3 DEF Travelling
  <2>4. ASSUME NEW c \in Consumers, StartConsumer(c) PROVE FALSE
    BY <2>4, <2>a DEF StartConsumer, orderVars, consumerVars
  <2>5. ASSUME NEW c \in Consumers, NEW d \in Deliveries, Receive(c, d) PROVE FALSE
    BY <1>q, <1>h, <2>u, <2>5 DEF Receive, Take, Travelling
  <2>6. ASSUME NEW c \in Consumers, HandleMessage(c) PROVE FALSE
    <3>1. CASE IsProcessed(c) \/ UpdateOrder(c)
      BY <2>a, <3>1 DEF IsProcessed, UpdateOrder
    <3>2. CASE SaveProcessed(c)
      BY <1>q, <1>h, <2>u, <3>2 DEF SaveProcessed, Travelling, Message
    <3>3. CASE Ack(c)
      BY <1>q, <1>h, <2>u, <3>3 DEF Ack, Travelling, brokerVars
    <3>4. CASE Retry(c) \/ Reject(c)
      <4>1. delivery[c] \in Deliveries /\ delivery[c].message # e
        BY <1>h, <3>4, Holding DEF Retry, Reject
      <4>2. \A d \in Deliveries : d.message = e =>
               resultQ'[d] = 0 /\ retryQ'[d] = 0 /\ dlq'[d] = 0
        <5>1. [delivery[c] EXCEPT !.attempt = @ + 1].message = delivery[c].message
          BY <4>1 DEF Deliveries
        <5> DEFINE next == [delivery[c] EXCEPT !.attempt = @ + 1]
        <5>2. /\ resultQ' = resultQ \/ resultQ' = Put(resultQ, delivery[c])
              /\ retryQ' = retryQ \/ retryQ' = Put(retryQ, next)
              /\ dlq' = dlq \/ dlq' = Put(dlq, delivery[c])
          BY <3>4 DEF Retry, Reject, ScheduleRetry, DeadLetter, Unconfirmed, Confirmed, NackRequeue
        <5> HIDE DEF next
        <5>3. next.message # e
          BY <4>1, <5>1 DEF next
        <5> QED BY <1>q, <4>1, <5>2, <5>3 DEF Put
      <4>3. \A b \in Consumers : delivery'[b] # None => delivery'[b].message # e
        BY <1>h, <3>4 DEF Retry, Reject, ScheduleRetry, DeadLetter, Unconfirmed, Confirmed, NackRequeue
      <4> QED BY <1>h, <2>u, <3>4, <4>2, <4>3 DEF Retry, Reject, Travelling
    <3> QED BY <2>6, <3>1, <3>2, <3>3, <3>4 DEF HandleMessage
  <2> QED BY <1>1, <2>1, <2>2, <2>3, <2>4, <2>5, <2>6 DEF OrderNext
<1>2. CASE InventoryNext /\ UNCHANGED orderVars
  <2>u. UNCHANGED <<delivery, orderInbox>>
    BY <1>2 DEF orderVars, consumerVars
  <2>a. ASSUME UNCHANGED <<resultQ, retryQ, dlq, stockBatch, stockConfirmed>> PROVE FALSE
    BY <1>n, <2>u, <2>a DEF Travelling
  <2>1. CASE StartRequestConsumer
    BY <2>1, <2>a DEF StartRequestConsumer, inventoryVars, stockRelayVars
  <2>2. ASSUME NEW r \in InventoryReplicas, NEW m \in Requests, ReceiveRequest(r, m)
        PROVE  FALSE
    BY <2>2, <2>a DEF ReceiveRequest, stockRelayVars
  <2>3. ASSUME NEW r \in InventoryReplicas, DropRequest(r) \/ AckRequest(r)
        PROVE  FALSE
    BY <2>3, <2>a DEF DropRequest, AckRequest, stockRelayVars, brokerVars
  <2>4. ASSUME NEW r \in InventoryReplicas, HandleReserveStockRequested(r)
        PROVE  FALSE
    BY <2>4, <2>a DEF HandleReserveStockRequested
  <2>5. ASSUME NEW r \in InventoryReplicas, StockOutboxWorker(r) PROVE FALSE
    <3>u. UNCHANGED <<retryQ, dlq>>
      BY <2>5 DEF StockOutboxWorker
    <3>1. CASE StockRelay!FindUnprocessed(r)
      BY <1>q, <1>h, <2>u, <3>u, <3>1
      DEF StockRelay!FindUnprocessed, StockRelay!Unprocessed, Travelling, Emitted
    <3>2. ASSUME NEW f \in Events, StockRelay!Publish(r, f) PROVE FALSE
      <4>1. f # e
        BY <1>h, <3>2 DEF StockRelay!Publish, StockRelay!NextOf
      <4>2. resultQ' = resultQ \/ resultQ' = Put(resultQ, FirstCopy(f))
        BY <3>2, EventPublished
      <4>3. \A d \in Deliveries : d.message = e => resultQ'[d] = 0
        BY <1>q, <4>1, <4>2, FirstCopyType DEF Put, TypeOK, BrokerTypeOK
      <4>4. \A w \in InventoryReplicas : e \notin stockBatch'[w] /\ e \notin stockConfirmed'[w]
        BY <1>h, <3>2, <4>1 DEF StockRelay!Publish, StockRelay!PublishConfirmed,
             StockRelay!PublishError, StockRelay!PublishReturned,
             StockRelay!PublishMistaken, StockRelay!PublishStalled,
             StockRelay!PublishFailed
      <4> QED BY <1>q, <1>h, <2>u, <3>u, <4>3, <4>4 DEF Travelling
    <3>3. ASSUME NEW f \in Events, StockRelay!MarkAsProcessed(r, f) PROVE FALSE
      BY <1>q, <1>h, <2>u, <3>u, <3>3 DEF StockRelay!MarkAsProcessed, Travelling
    <3> QED BY <2>5, <3>1, <3>2, <3>3 DEF StockOutboxWorker, StockRelay!Work, StockRelay!Poll
  <2>6. ASSUME NEW r \in InventoryReplicas, InventoryCrash(r) PROVE FALSE
    BY <1>q, <1>h, <2>u, <2>6 DEF InventoryCrash, StockRelay!Forget, StockRelay!Reconnect, Travelling
  <2> QED BY <1>2, <2>1, <2>2, <2>3, <2>4, <2>5, <2>6 DEF InventoryNext
<1>3. CASE BrokerNext /\ UNCHANGED <<orderVars, inventoryVars>>
  <2>u. UNCHANGED <<delivery, orderInbox, stockBatch, stockConfirmed>>
    BY <1>3 DEF orderVars, consumerVars, inventoryVars, stockRelayVars
  <2>1. ASSUME NEW d \in Deliveries, RetryExpires(d) PROVE FALSE
    BY <1>q, <1>h, <2>u, <2>1 DEF RetryExpires, Put, Take, Travelling
  <2>2. ASSUME NEW g \in Garbage, ForeignPublish(g) PROVE FALSE
    <3>1. \A k \in Kinds, d \in Deliveries :
             d.message = e => d # [message |-> [body |-> g, kind |-> k], attempt |-> 1]
      BY <1>g
    <3>2. \A d \in Deliveries : d.message = e => resultQ'[d] = 0
      BY <1>q, <2>2, <3>1 DEF ForeignPublish, Put
    <3>3. UNCHANGED <<retryQ, dlq>>
      BY <2>2 DEF ForeignPublish
    <3> QED BY <1>q, <1>h, <2>u, <3>2, <3>3 DEF Travelling
  <2> QED BY <1>3, <2>1, <2>2 DEF BrokerNext
<1>4. CASE UNCHANGED vars
  BY <1>n, <1>4 DEF vars, brokerVars, orderVars, inventoryVars, stockRelayVars,
                    consumerVars, Travelling
<1> QED BY <1>1, <1>2, <1>3, <1>4 DEF Next

LEMMA EventsStep ==
  ASSUME TypeOK, HandlerShape, EventsAreEmitted, OneDecision, [Next]_vars
  PROVE  EventsAreEmitted' /\ OneDecision'
<1>1. \A e \in Events : Travelling(e)' => Emitted(e)'
  BY EmittedStep, TravelStep DEF OutboxGrows
<1>2. CASE UNCHANGED stockInbox /\ \A e \in Events : Emitted(e)' <=> Emitted(e)
  BY <1>1, <1>2, EventIsEvent DEF EventsAreEmitted, OneDecision
<1>3. ASSUME NEW o \in Orders, NEW k \in Kinds,
             o \notin stockInbox, stockInbox' = stockInbox \cup {o},
             \A e \in Events : Emitted(e)' <=> (Emitted(e) \/ e = Event(o, k))
      PROVE  EventsAreEmitted' /\ OneDecision'
  <2>1. EventsAreEmitted'
    BY <1>1, <1>3, EventIsEvent DEF EventsAreEmitted
  <2>2. ASSUME NEW p \in Orders, NEW i \in Kinds, NEW j \in Kinds,
               Emitted(Event(p, i))', Emitted(Event(p, j))'
        PROVE  i = j
    <3>1. \A l \in Kinds : ~Emitted(Event(o, l))
      BY <1>3, EventIsEvent DEF EventsAreEmitted
    <3>2. CASE p = o
      BY <1>3, <2>2, <3>1, <3>2, EventIsEvent
    <3>3. CASE p # o
      BY <1>3, <2>2, <3>3, EventIsEvent DEF OneDecision
    <3> QED BY <3>2, <3>3
  <2>3. OneDecision'
    BY <2>2 DEF OneDecision
  <2> QED BY <2>1, <2>3
<1> QED BY <1>2, <1>3, EmittedStep

-----------------------------------------------------------------------------
(* ReservationsFollowEvents *)

LEMMA InitReservations == Init => ReservationsFollowEvents
  BY EventIsEvent
  DEF Init, InventoryInit, ReservationsFollowEvents, Emitted, Kinds

LEMMA ReservationsStep ==
  ASSUME TypeOK, EventsAreEmitted, ReservationsFollowEvents, [Next]_vars
  PROVE  ReservationsFollowEvents'
<1> DEFINE res(o) == Event(o, "StockReserved")
<1>e. \A o \in Orders : res(o) \in Events
  BY EventIsEvent DEF Kinds
<1>x. \A x \in reservations : x.order \in Orders
  BY DEF TypeOK, InventoryTypeOK, Reservations
<1>a. ASSUME UNCHANGED reservations,
             \A o \in Orders : Emitted(res(o))' <=> Emitted(res(o))
      PROVE  ReservationsFollowEvents'
  BY <1>a, <1>x DEF ReservationsFollowEvents
<1>s. UNCHANGED stockInbox => \A e \in Events : Emitted(e)' <=> Emitted(e)
  BY EmittedStep
<1>b. ASSUME UNCHANGED <<reservations, stockInbox>> PROVE ReservationsFollowEvents'
  BY <1>a, <1>b, <1>e, <1>s
<1>1. CASE UNCHANGED inventoryVars
  BY <1>b, <1>1 DEF inventoryVars, stockVars
<1>2. CASE InventoryNext
  <2>1. CASE StartRequestConsumer
    BY <1>b, <2>1 DEF StartRequestConsumer, inventoryVars, stockVars
  <2>2. ASSUME NEW r \in InventoryReplicas, NEW m \in Requests, ReceiveRequest(r, m)
        PROVE  ReservationsFollowEvents'
    BY <1>b, <2>2 DEF ReceiveRequest, stockVars
  <2>3. ASSUME NEW r \in InventoryReplicas, DropRequest(r) \/ AckRequest(r)
        PROVE  ReservationsFollowEvents'
    BY <1>b, <2>3 DEF DropRequest, AckRequest, stockVars
  <2>4. ASSUME NEW r \in InventoryReplicas, HandleReserveStockRequested(r)
        PROVE  ReservationsFollowEvents'
    <3>1. CASE Rollback
      BY <1>b, <3>1 DEF Rollback, stockVars
    <3>2. ASSUME NEW o \in Orders, ReserveStock(o)
          PROVE  ReservationsFollowEvents'
      <4>1. stockOutbox' = [stockOutbox EXCEPT ![res(o)] = "unprocessed"]
        BY <3>2 DEF ReserveStock, InsertOutbox, StockRelay!Insert, Event
      <4>2. \A p \in Orders : Emitted(res(p))' <=> (Emitted(res(p)) \/ p = o)
        BY <1>e, <4>1, EventIsEvent DEF Emitted, Kinds, TypeOK, InventoryTypeOK
      <4>3. reservations' = reservations \cup ReservationsOf(o)
        BY <3>2 DEF ReserveStock
      <4>4. \A x \in ReservationsOf(o) : x.order = o
        BY DEF ReservationsOf
      <4> QED BY <1>x, <4>2, <4>3, <4>4 DEF ReservationsFollowEvents
    <3>3. ASSUME NEW o \in Orders, RefuseStock(o)
          PROVE  ReservationsFollowEvents'
      <4>1. stockOutbox' = [stockOutbox EXCEPT ![Event(o, "StockReservationFailed")] = "unprocessed"]
        BY <3>3 DEF RefuseStock, InsertOutbox, StockRelay!Insert, Event
      <4>2. \A p \in Orders : res(p) # Event(o, "StockReservationFailed")
        BY DEF Event
      <4>3. \A p \in Orders : Emitted(res(p))' <=> Emitted(res(p))
        BY <1>e, <4>1, <4>2 DEF Emitted, TypeOK, InventoryTypeOK
      <4> QED BY <1>a, <3>3, <4>3 DEF RefuseStock
    <3> QED BY <2>4, <3>1, <3>2, <3>3 DEF HandleReserveStockRequested, Commit
  <2>5. ASSUME NEW r \in InventoryReplicas, StockOutboxWorker(r) \/ InventoryCrash(r)
        PROVE  ReservationsFollowEvents'
    BY <1>b, <2>5 DEF StockOutboxWorker, InventoryCrash, stockVars
  <2> QED BY <1>2, <2>1, <2>2, <2>3, <2>4, <2>5 DEF InventoryNext
<1> QED BY <1>1, <1>2 DEF Next, vars

-----------------------------------------------------------------------------
(* How the orders table changes *)

LEMMA OrdersStep ==
  ASSUME TypeOK, HandlerShape, [Next]_vars
  PROVE  \/ orders' = orders
         \/ \E o \in Orders : /\ orders[o] = "none"
                              /\ orders' = [orders EXCEPT ![o] = "PENDING"]
         \/ \E e \in Events : /\ Travelling(e)
                              /\ orders' = StatusUpdate(e.body, NewStatus(e.kind))
<1>1. CASE OrderNext
  <2>1. ASSUME NEW c \in Consumers, UpdateOrder(c)
        PROVE  \/ orders' = orders
               \/ \E e \in Events : /\ Travelling(e)
                                    /\ orders' = StatusUpdate(e.body, NewStatus(e.kind))
    <3>1. delivery[c].message \in Events /\ delivery[c] # None
      BY <2>1 DEF UpdateOrder, HandlerShape
    <3>2. Travelling(delivery[c].message)
      BY <3>1 DEF Travelling
    <3> QED BY <2>1, <3>1, <3>2 DEF UpdateOrder, Message
  <2> QED BY <1>1, <2>1
          DEF OrderNext, CreateOrder, OrderOutboxWorker, OrderCrash, StartConsumer,
              Receive, HandleMessage, IsProcessed, SaveProcessed, Ack, Retry, Reject, orderVars
<1>2. CASE UNCHANGED orderVars
  BY <1>2 DEF orderVars
<1> QED BY <1>1, <1>2 DEF Next, vars

(* A decided order keeps its status, and no order is forgotten. *)
LEMMA DecidedStep ==
  ASSUME TypeOK, HandlerShape, [Next]_vars, NEW o \in Orders
  PROVE  /\ Decided(o) => orders'[o] = orders[o]
         /\ orders'[o] = "none" => orders[o] = "none"
<1>1. ASSUME NEW e \in Events, orders' = StatusUpdate(e.body, NewStatus(e.kind))
      PROVE  /\ Decided(o) => orders'[o] = orders[o]
             /\ orders'[o] = "none" => orders[o] = "none"
  BY <1>1 DEF StatusUpdate, NewStatus, Decided, TypeOK, OrderTypeOK
<1> QED BY <1>1, OrdersStep DEF Decided, TypeOK, OrderTypeOK

-----------------------------------------------------------------------------
(* RequestsArePlaced *)

LEMMA InitPlaced == Init => RequestsArePlaced
  BY BrokerAssumption
  DEF Init, BrokerInit, OrderInit, InventoryInit, RequestsArePlaced, Requests

LEMMA PlacedStep ==
  ASSUME TypeOK, HandlerShape, RequestsArePlaced, [Next]_vars
  PROVE  RequestsArePlaced'
<1> SUFFICES ASSUME NEW o \in Orders, orders'[o] = "none"
             PROVE  /\ orderOutbox'[o] = "absent"
                    /\ \A r \in OrderReplicas :
                          o \notin orderBatch'[r] /\ o \notin orderConfirmed'[r]
                    /\ requestQ'[o] = 0
                    /\ \A r \in InventoryReplicas : request'[r] # o
                    /\ o \notin stockInbox'
  BY DEF RequestsArePlaced
<1> DEFINE Goal == /\ orderOutbox'[o] = "absent"
                   /\ \A r \in OrderReplicas :
                         o \notin orderBatch'[r] /\ o \notin orderConfirmed'[r]
                   /\ requestQ'[o] = 0
                   /\ \A r \in InventoryReplicas : request'[r] # o
                   /\ o \notin stockInbox'
<1>h. /\ orderOutbox[o] = "absent"
      /\ \A r \in OrderReplicas : o \notin orderBatch[r] /\ o \notin orderConfirmed[r]
      /\ requestQ[o] = 0
      /\ \A r \in InventoryReplicas : request[r] # o
      /\ o \notin stockInbox
  BY DecidedStep DEF RequestsArePlaced
<1> USE <1>h
<1>n. o # None /\ o \in Requests /\ o \notin Garbage
  BY BrokerAssumption DEF Requests
<1> USE DEF TypeOK, BrokerTypeOK, OrderTypeOK, InventoryTypeOK
<1>1. CASE OrderNext /\ UNCHANGED inventoryVars
  <2>u. UNCHANGED <<request, stockInbox>>
    BY <1>1 DEF inventoryVars, stockVars, handlerVars
  <2>1. ASSUME NEW p \in Orders, CreateOrder(p) PROVE Goal
    BY <2>u, <2>1 DEF CreateOrder, Relay!Insert, brokerVars
  <2>2. ASSUME NEW r \in OrderReplicas, OrderOutboxWorker(r) PROVE Goal
    <3>1. CASE Relay!FindUnprocessed(r)
      BY <2>u, <3>1 DEF Relay!FindUnprocessed, Relay!Unprocessed
    <3>2. ASSUME NEW p \in Orders, Relay!Publish(r, p) PROVE Goal
      <4>1. p # o
        BY <3>2 DEF Relay!Publish, Relay!NextOf
      <4>2. requestQ' = requestQ \/ requestQ' = [requestQ EXCEPT ![p] = @ + 1]
        BY <3>2, RequestPublished DEF Put
      <4>3. \A w \in OrderReplicas : o \notin orderBatch'[w] /\ o \notin orderConfirmed'[w]
        BY <3>2, <4>1 DEF Relay!Publish, Relay!PublishConfirmed,
                          Relay!PublishError, Relay!PublishReturned,
                          Relay!PublishMistaken, Relay!PublishStalled,
                          Relay!PublishFailed
      <4> QED BY <1>n, <2>u, <3>2, <4>1, <4>2, <4>3 DEF Relay!Publish
    <3>3. ASSUME NEW p \in Orders, Relay!MarkAsProcessed(r, p) PROVE Goal
      BY <2>u, <3>3 DEF Relay!MarkAsProcessed
    <3> QED BY <2>2, <3>1, <3>2, <3>3 DEF OrderOutboxWorker, Relay!Work, Relay!Poll
  <2>3. ASSUME NEW r \in OrderReplicas, OrderCrash(r) PROVE Goal
    BY <2>u, <2>3 DEF OrderCrash, Relay!Forget, Relay!Reconnect
  <2>4. ASSUME UNCHANGED <<orderRelayVars, requestQ>> PROVE Goal
    BY <2>u, <2>4 DEF orderRelayVars
  <2> QED BY <1>1, <2>1, <2>2, <2>3, <2>4
          DEF OrderNext, StartConsumer, Receive, HandleMessage, IsProcessed,
              UpdateOrder, SaveProcessed, Ack, Retry, Reject, orderVars, brokerVars
<1>2. CASE InventoryNext /\ UNCHANGED orderVars
  <2>u. UNCHANGED <<orderOutbox, orderBatch, orderConfirmed>>
    BY <1>2 DEF orderVars, orderRelayVars
  <2>a. ASSUME NEW r \in InventoryReplicas, Requeue(r) \/ (Done(r) /\ UNCHANGED requestQ),
               o \notin stockInbox'
        PROVE  Goal
    BY <1>n, <2>a, <2>u DEF Requeue, Done, Put
  <2>1. CASE StartRequestConsumer
    BY <2>u, <2>1 DEF StartRequestConsumer, inventoryVars, handlerVars, stockVars
  <2>2. ASSUME NEW r \in InventoryReplicas, NEW m \in Requests, ReceiveRequest(r, m)
        PROVE  Goal
    <3>1. m # o
      BY <2>2 DEF ReceiveRequest
    <3> QED BY <2>u, <2>2, <3>1, <1>n DEF ReceiveRequest, stockVars, Take
  <2>3. ASSUME NEW r \in InventoryReplicas, DropRequest(r) \/ AckRequest(r)
        PROVE  Goal
    BY <2>a, <2>3 DEF DropRequest, AckRequest, stockVars, brokerVars
  <2>4. ASSUME NEW r \in InventoryReplicas, HandleReserveStockRequested(r)
        PROVE  Goal
    <3>1. o \notin stockInbox'
      BY <2>4 DEF HandleReserveStockRequested, Rollback, Commit, stockVars
    <3>2. CASE UNCHANGED <<request, requestQ>>
      BY <2>u, <3>1, <3>2
    <3>3. CASE Requeue(r)
      BY <2>a, <3>1, <3>3
    <3> QED BY <2>4, <3>2, <3>3 DEF HandleReserveStockRequested
  <2>5. ASSUME NEW r \in InventoryReplicas, StockOutboxWorker(r) PROVE Goal
    BY <2>u, <2>5 DEF StockOutboxWorker, stockVars, handlerVars
  <2>6. ASSUME NEW r \in InventoryReplicas, InventoryCrash(r) PROVE Goal
    BY <2>a, <2>u, <2>6 DEF InventoryCrash, stockVars, handlerVars
  <2> QED BY <1>2, <2>1, <2>2, <2>3, <2>4, <2>5, <2>6 DEF InventoryNext
<1>3. CASE BrokerNext /\ UNCHANGED <<orderVars, inventoryVars>>
  BY <1>3, <1>n DEF BrokerNext, RetryExpires, ForeignPublish, Put,
     orderVars, orderRelayVars, inventoryVars, handlerVars, stockVars
<1>4. CASE UNCHANGED vars
  BY <1>4 DEF vars, brokerVars, orderVars, orderRelayVars, inventoryVars,
              handlerVars, stockVars
<1> QED BY <1>1, <1>2, <1>3, <1>4 DEF Next

-----------------------------------------------------------------------------
(* StatusFollowsEvents and InboxAfterEffect *)

LEMMA InitStatus == Init => StatusFollowsEvents /\ InboxAfterEffect
  BY DEF Init, OrderInit, StatusFollowsEvents, InboxAfterEffect

(* After the UPDATE of an emitted event the order has the event's status. *)
LEMMA UpdatedStatus ==
  ASSUME TypeOK, RequestsArePlaced, EventsAreEmitted, OneDecision,
         StatusFollowsEvents, NEW e \in Events, Emitted(e),
         orders' = StatusUpdate(e.body, NewStatus(e.kind))
  PROVE  orders'[e.body] = NewStatus(e.kind)
<1>1. e.body \in Orders /\ e.kind \in Kinds /\ e = Event(e.body, e.kind)
  BY DEF Events, Event
<1>2. orders[e.body] # "none"
  BY <1>1 DEF EventsAreEmitted, RequestsArePlaced
<1>3. orders[e.body] = "CONFIRMED" => e.kind = "StockReserved"
  BY <1>1 DEF StatusFollowsEvents, OneDecision, Kinds
<1>4. orders[e.body] = "FAILED" => e.kind = "StockReservationFailed"
  BY <1>1 DEF StatusFollowsEvents, OneDecision, Kinds
<1> QED BY <1>1, <1>2, <1>3, <1>4
        DEF StatusUpdate, NewStatus, TypeOK, OrderTypeOK, Statuses, Kinds

LEMMA StatusStep ==
  ASSUME TypeOK, HandlerShape, RequestsArePlaced, EventsAreEmitted, OneDecision,
         StatusFollowsEvents, InboxAfterEffect, [Next]_vars
  PROVE  StatusFollowsEvents' /\ InboxAfterEffect'
<1>m. \A e \in Events : Emitted(e) => Emitted(e)'
  BY EmittedStep DEF OutboxGrows
<1>k. {"StockReserved", "StockReservationFailed"} \subseteq Kinds
  BY DEF Kinds
<1>1. \A o \in Orders :
         /\ orders'[o] = "CONFIRMED" => Emitted(Event(o, "StockReserved"))'
         /\ orders'[o] = "FAILED" => Emitted(Event(o, "StockReservationFailed"))'
  <2>1. CASE orders' = orders
    BY <1>m, <1>k, <2>1, EventIsEvent DEF StatusFollowsEvents
  <2>2. ASSUME NEW p \in Orders, orders' = [orders EXCEPT ![p] = "PENDING"]
        PROVE  <1>1!:
    BY <1>m, <1>k, <2>2, EventIsEvent DEF StatusFollowsEvents, TypeOK, OrderTypeOK
  <2>3. ASSUME NEW e \in Events, Travelling(e),
               orders' = StatusUpdate(e.body, NewStatus(e.kind))
        PROVE  <1>1!:
    <3>1. Emitted(e) /\ e.body \in Orders /\ e.kind \in Kinds /\ e = Event(e.body, e.kind)
      BY <2>3 DEF EventsAreEmitted, Events, Event
    <3>2. \A o \in Orders : o # e.body => orders'[o] = orders[o]
      BY <2>3 DEF StatusUpdate, TypeOK, OrderTypeOK
    <3>3. orders'[e.body] = NewStatus(e.kind)
      BY <2>3, <3>1, UpdatedStatus
    <3> QED BY <1>m, <1>k, <3>1, <3>2, <3>3, EventIsEvent
            DEF StatusFollowsEvents, NewStatus, Kinds
  <2> QED BY <2>1, <2>2, <2>3, OrdersStep
<1>2. ASSUME NEW c \in Consumers, pc'[c] = "saveProcessed"
      PROVE  orders'[delivery'[c].message.body] = NewStatus(delivery'[c].message.kind)
  <2> DEFINE Goal == orders'[delivery'[c].message.body] = NewStatus(delivery'[c].message.kind)
  <2>1. ASSUME pc[c] = "saveProcessed", delivery'[c] = delivery[c]
        PROVE  Goal
    <3>1. /\ delivery[c].message.body \in Orders
          /\ delivery[c].message.kind \in Kinds
      BY <2>1 DEF HandlerShape, Events
    <3>2. orders[delivery[c].message.body] = NewStatus(delivery[c].message.kind)
      BY <2>1 DEF StatusFollowsEvents
    <3>3. orders'[delivery[c].message.body] = orders[delivery[c].message.body]
      BY <3>1, <3>2, DecidedStep DEF Decided, NewStatus
    <3> QED BY <2>1, <3>2, <3>3
  <2>2. ASSUME UpdateOrder(c) PROVE Goal
    <3>1. delivery[c].message \in Events /\ delivery[c] # None /\ UNCHANGED delivery
      BY <2>2 DEF UpdateOrder, HandlerShape
    <3>2. Emitted(delivery[c].message)
      BY <3>1 DEF EventsAreEmitted, Travelling
    <3>3. orders' = StatusUpdate(delivery[c].message.body, NewStatus(delivery[c].message.kind))
      BY <1>2, <2>2 DEF UpdateOrder, Message, Goto, TypeOK, OrderTypeOK
    <3> QED BY <3>1, <3>2, <3>3, UpdatedStatus
  <2>3. CASE UNCHANGED <<pc, delivery>>
    BY <1>2, <2>1, <2>3
  <2>4. ASSUME NEW b \in Consumers, NEW d \in Deliveries, Receive(b, d)
        PROVE  Goal
    <3>1. pc[c] = "saveProcessed" /\ delivery'[c] = delivery[c]
      BY <1>2, <2>4 DEF Receive, Goto, TypeOK, OrderTypeOK
    <3> QED BY <2>1, <3>1
  <2>5. ASSUME NEW r \in OrderReplicas, OrderCrash(r) PROVE Goal
    <3>1. pc[c] = "saveProcessed" /\ delivery'[c] = delivery[c]
      BY <1>2, <2>5 DEF OrderCrash
    <3> QED BY <2>1, <3>1
  <2>6. ASSUME NEW b \in Consumers, HandleMessage(b), ~UpdateOrder(b) \/ b # c
        PROVE  Goal
    <3>1. pc[c] = "saveProcessed" /\ delivery'[c] = delivery[c]
      BY <1>2, <2>6
      DEF HandleMessage, IsProcessed, UpdateOrder, SaveProcessed, Ack, Retry, Reject,
          ScheduleRetry, DeadLetter, Unconfirmed, Confirmed, NackRequeue, Goto, TypeOK, OrderTypeOK
    <3> QED BY <2>1, <3>1
  <2>7. CASE OrderNext
    BY <2>2, <2>3, <2>4, <2>5, <2>6, <2>7
    DEF OrderNext, CreateOrder, OrderOutboxWorker, StartConsumer, orderVars, consumerVars
  <2> QED BY <2>3, <2>7 DEF Next, vars, orderVars, consumerVars
<1>3. ASSUME NEW e \in orderInbox'
      PROVE  orders'[e.body] = NewStatus(e.kind)
  <2> DEFINE Goal == orders'[e.body] = NewStatus(e.kind)
  <2>1. ASSUME e \in orderInbox PROVE Goal
    <3>1. e.body \in Orders /\ e.kind \in Kinds
      BY <2>1 DEF TypeOK, OrderTypeOK, Events
    <3> QED BY <2>1, <3>1, DecidedStep DEF InboxAfterEffect, Decided, NewStatus
  <2>2. ASSUME NEW c \in Consumers, SaveProcessed(c), e = delivery[c].message
        PROVE  Goal
    <3>1. pc[c] = "saveProcessed" /\ UNCHANGED orders
      BY <2>2 DEF SaveProcessed
    <3> QED BY <2>2, <3>1 DEF StatusFollowsEvents
  <2>3. ASSUME UNCHANGED orderInbox PROVE Goal
    BY <2>1, <2>3
  <2>4. CASE OrderNext
    BY <2>1, <2>2, <2>3, <2>4
    DEF OrderNext, CreateOrder, OrderOutboxWorker, OrderCrash, StartConsumer, Receive,
        HandleMessage, IsProcessed, UpdateOrder, SaveProcessed, Ack, Retry, Reject,
        Message, orderVars, consumerVars
  <2> QED BY <2>3, <2>4 DEF Next, vars, orderVars, consumerVars
<1> QED BY <1>1, <1>2, <1>3 DEF StatusFollowsEvents, InboxAfterEffect

-----------------------------------------------------------------------------
(* The part of SagaInv that is about what events say, not where they are.   *)
AgreementInv ==
    /\ TypeOK
    /\ HandlerShape
    /\ RequestsArePlaced
    /\ EventsAreEmitted
    /\ OneDecision
    /\ ReservationsFollowEvents
    /\ StatusFollowsEvents
    /\ InboxAfterEffect

(* Every reachable state satisfies AgreementInv: it holds initially and each *)
(* conjunct is preserved given the ones above it.                            *)
THEOREM AgreementInvariance == Spec => []AgreementInv
<1>1. Init => AgreementInv
  BY InitType, InitShape, InitPlaced, InitEvents, InitReservations, InitStatus
  DEF AgreementInv
<1>2. AgreementInv /\ [Next]_vars => AgreementInv'
  <2> SUFFICES ASSUME AgreementInv, [Next]_vars PROVE AgreementInv'
    OBVIOUS
  <2> USE DEF AgreementInv
  <2>1. TypeOK' /\ HandlerShape'
    BY TypeStep, ShapeStep
  <2>2. RequestsArePlaced'
    BY PlacedStep
  <2>3. EventsAreEmitted' /\ OneDecision'
    BY EventsStep
  <2>4. ReservationsFollowEvents'
    BY ReservationsStep
  <2>5. StatusFollowsEvents' /\ InboxAfterEffect'
    BY StatusStep
  <2> QED BY <2>1, <2>2, <2>3, <2>4, <2>5
<1> QED BY <1>1, <1>2, PTL DEF Spec

(* Every variable of the two services and of the broker keeps its type;      *)
(* among them the stock columns stay natural numbers, so the CHECK           *)
(* constraints of the inventory table never abort a reservation.             *)
THEOREM TypeCorrect == Spec => []TypeOK
<1>1. AgreementInv => TypeOK
  BY DEF AgreementInv
<1> QED BY <1>1, AgreementInvariance, PTL

(* The agreement of the two databases (order_service.go, inventory           *)
(* repository) for any number of orders, lines, replicas, attempts, faults.  *)
THEOREM Agreement == Spec => []SagaAgreement
<1>1. AgreementInv => SagaAgreement
  <2> SUFFICES ASSUME AgreementInv, NEW o \in Orders
               PROVE  /\ orders[o] = "CONFIRMED" => ReservationsOf(o) \subseteq reservations
                      /\ orders[o] = "FAILED" => \A x \in reservations : x.order # o
    BY DEF SagaAgreement
  <2> USE DEF AgreementInv
  <2>1. orders[o] = "CONFIRMED" => ReservationsOf(o) \subseteq reservations
    BY DEF StatusFollowsEvents, ReservationsFollowEvents
  <2>2. ASSUME orders[o] = "FAILED", NEW x \in reservations, x.order = o PROVE FALSE
    <3>1. Emitted(Event(o, "StockReservationFailed")) /\ Emitted(Event(o, "StockReserved"))
      BY <2>2 DEF StatusFollowsEvents, ReservationsFollowEvents
    <3> QED BY <3>1 DEF OneDecision, Kinds
  <2> QED BY <2>1, <2>2
<1> QED BY <1>1, AgreementInvariance, PTL

(* Redelivered requests never produce a second decision (isMessageProcessed  *)
(* and the inbox insert in one transaction).                                 *)
THEOREM DecidedOnce == Spec => []OneDecision
<1>1. AgreementInv => OneDecision
  BY DEF AgreementInv
<1> QED BY <1>1, AgreementInvariance, PTL

(* The inbox of order-service is never ahead of its orders table, although   *)
(* HandleConfirmOrder writes them in two statements without a transaction.   *)
THEOREM InboxSound == Spec => []InboxAfterEffect
<1>1. AgreementInv => InboxAfterEffect
  BY DEF AgreementInv
<1> QED BY <1>1, AgreementInvariance, PTL

-----------------------------------------------------------------------------
(* The two services and the broker implement ReservationSaga: a committed  *)
(* transaction of inventory-service is the abstract Reserve or Refuse,     *)
(* CreateOrder is Place, the status UPDATE is Settle, and all other steps  *)
(* (relaying, redelivery, retries, crashes) do not show.                   *)
Decisions == [o \in Orders |-> DecisionOf(o)]

(* The transaction of inventory-service that decides order o. *)
Decides(o) == Commit(o) /\ o \in Orders /\ UNCHANGED orders

LEMMA StockStep ==
  ASSUME TypeOK, [Next]_vars
  PROVE  \/ UNCHANGED stockVars
         \/ \E r \in InventoryReplicas : step[r] = "handle" /\ Decides(request[r])
<1> DEFINE Goal == \/ UNCHANGED stockVars
                   \/ \E r \in InventoryReplicas : step[r] = "handle" /\ Decides(request[r])
<1>1. CASE UNCHANGED inventoryVars
  BY <1>1 DEF inventoryVars
<1>2. CASE InventoryNext /\ UNCHANGED orderVars
  <2>1. ASSUME NEW r \in InventoryReplicas, HandleReserveStockRequested(r) PROVE Goal
    BY <1>2, <2>1
    DEF HandleReserveStockRequested, Rollback, orderVars, Decides
  <2>2. CASE UNCHANGED stockVars
    BY <2>2
  <2> QED BY <1>2, <2>1, <2>2
          DEF InventoryNext, StartRequestConsumer, ReceiveRequest, DropRequest, AckRequest,
              StockOutboxWorker, InventoryCrash, inventoryVars
<1> QED BY <1>1, <1>2 DEF Next, vars

LEMMA SameDecisions ==
  ASSUME \A e \in Events : Emitted(e)' <=> Emitted(e)
  PROVE  Decisions' = Decisions
<1>1. \A o \in Orders : DecisionOf(o)' = DecisionOf(o)
  BY EventIsEvent DEF DecisionOf, Kinds
<1> QED BY <1>1 DEF Decisions

(* A transaction commits for an order that is pending and undecided. *)
LEMMA OpenOrder ==
  ASSUME AgreementInv, NEW r \in InventoryReplicas, step[r] = "handle",
         NEW o \in Orders, o = request[r], o \notin stockInbox
  PROVE  orders[o] = "PENDING" /\ DecisionOf(o) = "open"
<1> USE DEF AgreementInv
<1>1. \A k \in Kinds : ~Emitted(Event(o, k))
  BY EventIsEvent DEF EventsAreEmitted, Event
<1>2. orders[o] # "none"
  BY DEF RequestsArePlaced
<1>3. orders[o] # "CONFIRMED" /\ orders[o] # "FAILED"
  BY <1>1 DEF StatusFollowsEvents, Kinds
<1>4. DecisionOf(o) = "open"
  BY <1>1 DEF DecisionOf, Kinds
<1> QED BY <1>2, <1>3, <1>4 DEF TypeOK, OrderTypeOK, Statuses

(* What the outbox insert of order o does to the decisions. *)
LEMMA NewDecision ==
  ASSUME AgreementInv, NEW o \in Orders, NEW k \in Kinds, InsertOutbox(o, k),
         o \notin stockInbox
  PROVE  Decisions' = [Decisions EXCEPT ![o] =
                         IF k = "StockReserved" THEN "reserved" ELSE "refused"]
<1> USE DEF AgreementInv
<1>1. stockOutbox' = [stockOutbox EXCEPT ![Event(o, k)] = "unprocessed"]
  BY DEF InsertOutbox, StockRelay!Insert, Event
<1>2. \A e \in Events : Emitted(e)' <=> (Emitted(e) \/ e = Event(o, k))
  BY <1>1, EventIsEvent DEF Emitted, TypeOK, InventoryTypeOK
<1>3. \A l \in Kinds : ~Emitted(Event(o, l))
  BY EventIsEvent DEF EventsAreEmitted, Event
<1>4. ASSUME NEW p \in Orders
      PROVE  DecisionOf(p)' = IF p = o THEN IF k = "StockReserved" THEN "reserved" ELSE "refused"
                                       ELSE DecisionOf(p)
  <2>1. \A l \in Kinds : Event(p, l) \in Events /\ (Event(p, l) = Event(o, k) <=> p = o /\ l = k)
    BY EventIsEvent DEF Event
  <2>2. \A l \in Kinds : Emitted(Event(p, l))' <=>
                           (Emitted(Event(p, l)) \/ (p = o /\ l = k))
    BY <1>2, <2>1
  <2> QED BY <1>3, <2>2 DEF DecisionOf, Kinds
<1> QED BY <1>4 DEF Decisions

(* Without two lines for one product, Taken is the quantity of the one line. *)
LEMMA TakenIsLine ==
  ASSUME NEW o \in Orders, Abstract!DistinctProducts(o), NEW p \in Stocked
  PROVE  Taken(o, p) = IF Abstract!LinesFor(o, p) = {} THEN 0
                       ELSE Items[o][CHOOSE i \in Abstract!LinesFor(o, p) : TRUE].quantity
<1>1. \A i \in Lines(o) : i \in Nat
  <2> DEFINE S == [product: Products, quantity: Nat \ {0}]
  <2>1. Items[o] \in Seq(S)
    BY InventoryAssumption
  <2> HIDE DEF S
  <2>2. Len(Items[o]) \in Nat /\ DOMAIN Items[o] = 1 .. Len(Items[o])
    BY <2>1
  <2> QED BY <2>2 DEF Lines
<1> DEFINE A == {i \in Lines(o) : Items[o][i].product = p /\ Last(o, i)}
           B == Abstract!LinesFor(o, p)
<1>2. A = B
  BY <1>1 DEF Last, Abstract!LinesFor, Abstract!DistinctProducts, Abstract!Lines, Lines
<1>3. Taken(o, p) = IF A = {} THEN 0 ELSE Items[o][CHOOSE i \in A : TRUE].quantity
  BY DEF Taken
<1> HIDE DEF A, B
<1>4. Taken(o, p) = IF B = {} THEN 0 ELSE Items[o][CHOOSE i \in B : TRUE].quantity
  BY <1>2, <1>3
<1> QED BY <1>4 DEF B

LEMMA DecisionIsAbstract ==
  ASSUME AgreementInv, NEW r \in InventoryReplicas, step[r] = "handle",
         NEW o \in Orders, o = request[r], Decides(o)
  PROVE  Abstract!Reserve(o) \/ Abstract!Refuse(o)
<1> USE DEF AgreementInv
<1>1. o \notin stockInbox /\ UNCHANGED orders
  BY DEF Decides, Commit
<1>2. orders[o] = "PENDING" /\ Decisions[o] = "open"
  BY <1>1, OpenOrder DEF Decisions
<1>3. CASE ReserveStock(o)
  <2>1. Abstract!DistinctProducts(o)
    BY <1>3 DEF ReserveStock, UniqueViolation, Abstract!DistinctProducts, Abstract!Lines, Lines
  <2>2. Abstract!Fits(o)
    BY <1>3 DEF ReserveStock, InStock, Abstract!Fits, Abstract!Lines, Lines, Stocked
  <2>3. Decisions' = [Decisions EXCEPT ![o] = "reserved"]
    BY <1>1, <1>3, NewDecision DEF ReserveStock, Kinds
  <2>4. available' = [p \in DOMAIN InitialStock |->
                        IF Abstract!LinesFor(o, p) = {} THEN available[p]
                        ELSE available[p] - Items[o][CHOOSE i \in Abstract!LinesFor(o, p) : TRUE].quantity]
    <3>1. available' = [p \in Stocked |-> available[p] - Taken(o, p)]
      BY <1>3 DEF ReserveStock
    <3>2. \A p \in Stocked : available[p] \in Nat
      BY DEF TypeOK, InventoryTypeOK
    <3> QED BY <2>1, <3>1, <3>2, TakenIsLine DEF Stocked
  <2> QED BY <1>1, <1>2, <2>1, <2>2, <2>3, <2>4 DEF Abstract!Reserve, Decisions
<1>4. CASE RefuseStock(o)
  <2>1. ~Abstract!Fits(o)
    BY <1>4 DEF RefuseStock, InStock, Abstract!Fits, Abstract!Lines, Lines, Stocked
  <2>2. Decisions' = [Decisions EXCEPT ![o] = "refused"]
    BY <1>1, <1>4, NewDecision DEF RefuseStock, Kinds
  <2> QED BY <1>1, <1>2, <1>4, <2>1, <2>2 DEF Abstract!Refuse, Decisions, RefuseStock
<1> QED BY <1>3, <1>4 DEF Decides, Commit

(* The status UPDATE of an emitted event settles the order, or is too late. *)
LEMMA UpdateIsAbstract ==
  ASSUME AgreementInv, NEW e \in Events, Emitted(e), UNCHANGED <<available>>,
         Decisions' = Decisions, orders' = StatusUpdate(e.body, NewStatus(e.kind))
  PROVE  orders' = orders \/ Abstract!Settle(e.body)
<1> USE DEF AgreementInv
<1>1. e.body \in Orders /\ e.kind \in Kinds /\ e = Event(e.body, e.kind)
  BY DEF Events, Event
<1>2. CASE orders[e.body] # "PENDING"
  BY <1>1, <1>2 DEF StatusUpdate, TypeOK, OrderTypeOK
<1>3. CASE orders[e.body] = "PENDING"
  <2>1. orders' = [orders EXCEPT ![e.body] = NewStatus(e.kind)]
    BY <1>1, <1>3 DEF StatusUpdate, TypeOK, OrderTypeOK
  <2>2. Decisions[e.body] = IF e.kind = "StockReserved" THEN "reserved" ELSE "refused"
    BY <1>1 DEF Decisions, DecisionOf, OneDecision, Kinds
  <2> QED BY <1>1, <1>3, <2>1, <2>2 DEF Abstract!Settle, NewStatus, Decisions, Kinds
<1> QED BY <1>2, <1>3

LEMMA StepIsAbstract ==
  ASSUME AgreementInv, [Next]_vars
  PROVE  [Abstract!Next]_(Abstract!sagaVars)
<1> USE DEF AgreementInv
<1> DEFINE Same == UNCHANGED <<orders, Decisions, available>>
           Goal == (\E o \in Orders : \/ Abstract!Place(o) \/ Abstract!Reserve(o)
                                      \/ Abstract!Refuse(o) \/ Abstract!Settle(o)) \/ Same
<1>1. CASE UNCHANGED <<available, stockInbox>>
  <2>1. Decisions' = Decisions
    BY <1>1, EmittedStep, SameDecisions
  <2>2. ASSUME UNCHANGED orders PROVE Goal
    BY <1>1, <2>1, <2>2
  <2>3. ASSUME NEW o \in Orders, orders[o] = "none", orders' = [orders EXCEPT ![o] = "PENDING"]
        PROVE  Goal
    BY <1>1, <2>1, <2>3 DEF Abstract!Place, Decisions
  <2>4. ASSUME NEW e \in Events, Travelling(e), orders' = StatusUpdate(e.body, NewStatus(e.kind))
        PROVE  Goal
    <3>1. Emitted(e) /\ e.body \in Orders
      BY <2>4 DEF EventsAreEmitted, Events
    <3>2. orders' = orders \/ Abstract!Settle(e.body)
      BY <1>1, <2>1, <2>4, <3>1, UpdateIsAbstract
    <3> QED BY <2>2, <3>1, <3>2
  <2>5. Goal
    BY <2>2, <2>3, <2>4, OrdersStep
  <2> QED BY <2>5 DEF Abstract!Next, Abstract!sagaVars, Decisions
<1>2. ASSUME NEW r \in InventoryReplicas, step[r] = "handle", Decides(request[r])
      PROVE  [Abstract!Next]_(Abstract!sagaVars)
  BY <1>2, DecisionIsAbstract DEF Decides, Abstract!Next
<1> QED BY <1>1, <1>2, StockStep DEF stockVars

(* The saga of order-service, inventory-service and RabbitMQ implements the  *)
(* abstract saga: stock is taken at most once per order, all lines or none,  *)
(* and the order status follows that decision, for all constants.            *)
THEOREM Refinement == Spec => ImplementsReservationSaga
<1>1. Init => Abstract!Init
  <2> SUFFICES ASSUME Init PROVE Abstract!Init
    OBVIOUS
  <2>1. \A o \in Orders : DecisionOf(o) = "open"
    BY EventIsEvent DEF Init, InventoryInit, DecisionOf, Emitted, Kinds
  <2> QED BY <2>1 DEF Init, OrderInit, InventoryInit, Abstract!Init
<1>2. AgreementInv /\ [Next]_vars => [Abstract!Next]_(Abstract!sagaVars)
  BY StepIsAbstract
<1> QED BY <1>1, <1>2, AgreementInvariance, PTL DEF Spec, ImplementsReservationSaga, Abstract!Spec

(* In every run of the saga the reserved units of a product are those its   *)
(* reservations hold, each order's once, and were taken from the available  *)
(* ones, however often requests are delivered, retried or rolled back.      *)
THEOREM StockIsCounted == Spec => []StockMatchesReservations
<1>1. Init => StockInv
  BY InitialStockMatches DEF Init
<1>2. AgreementInv /\ StockInv /\ [Next]_vars => StockInv'
  <2> SUFFICES ASSUME AgreementInv, StockInv, [Next]_vars PROVE StockInv'
    OBVIOUS
  <2>1. TypeOK /\ InventoryTypeOK
    BY DEF AgreementInv, TypeOK
  <2> QED BY <2>1, StockStep, CommitKeepsStock, SameStock DEF Decides, stockVars
<1>3. StockInv => StockMatchesReservations
  BY DEF StockInv
<1> QED BY <1>1, <1>2, <1>3, AgreementInvariance, PTL DEF Spec
=============================================================================

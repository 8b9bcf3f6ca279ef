---------------------------- MODULE OrderService ----------------------------
(***************************************************************************)
(* order-service: CreateOrder, the outbox relay for ReserveStockRequested, *)
(* and the consumers of StockReserved and StockReservationFailed with      *)
(* their inbox, retry queue and dead-letter queue.                         *)
(*                                                                         *)
(* A consumer is a pair <<replica, event kind>>.  It handles one delivery  *)
(* at a time, one SQL statement or broker call per step: IsProcessed, the  *)
(* status UPDATE, SaveProcessed and the final Ack are not one transaction. *)
(***************************************************************************)
EXTENDS Broker

CONSTANT OrderReplicas  \* processes of order-service

VARIABLES
    orders,          \* orders[o]: the status column, "none" before the insert
    orderOutbox, orderCreatedAt,   \* outbox_messages
    orderBatch, orderConfirmed,    \* the outbox worker's local state
    orderReturns,    \* returns its publisher has not read; consumers share the
                     \* connection, so a second one stalls them as well
    orderInbox,      \* inbox_messages: events recorded as processed
    pc,              \* pc[c]: where handleMessage of consumer c is
    delivery         \* delivery[c]: the unacknowledged delivery c handles

consumerVars == <<orderInbox, pc, delivery>>
orderRelayVars ==
    <<orderOutbox, orderCreatedAt, orderBatch, orderConfirmed, orderReturns>>
orderVars == <<orders, orderRelayVars, consumerVars>>

Relay == INSTANCE OutboxRelay WITH
    Rows <- Orders, Workers <- OrderReplicas, Copies <- Requests,
    copiesOf <- [o \in Orders |-> {o}],
    outbox <- orderOutbox, createdAt <- orderCreatedAt,
    batch <- orderBatch, confirmed <- orderConfirmed, queue <- requestQ,
    returns <- orderReturns,
    routable <- {o \in Orders : RequestQueue \in bound}

Consumers == OrderReplicas \X Kinds
Statuses == {"none", "PENDING", "CONFIRMED", "FAILED"}
Steps == {"idle", "isProcessed", "updateOrder", "saveProcessed",
          "retry", "deadLetter", "ack"}

OrderInit ==
    /\ orders = [o \in Orders |-> "none"]
    /\ orderOutbox = [o \in Orders |-> "absent"]
    /\ orderCreatedAt = [o \in Orders |-> 0]
    /\ orderBatch = [r \in OrderReplicas |-> {}]
    /\ orderConfirmed = [r \in OrderReplicas |-> {}]
    /\ orderReturns = [r \in OrderReplicas |-> 0]
    /\ orderInbox = {}
    /\ pc = [c \in Consumers |-> "idle"]
    /\ delivery = [c \in Consumers |-> None]

OrderTypeOK ==
    /\ orders \in [Orders -> Statuses]
    /\ orderOutbox \in [Orders -> Relay!RowStates]
    /\ orderCreatedAt \in [Orders -> Nat]
    /\ orderBatch \in [OrderReplicas -> SUBSET Orders]
    /\ orderConfirmed \in [OrderReplicas -> SUBSET Orders]
    /\ orderReturns \in [OrderReplicas -> 0..2]
    /\ orderInbox \subseteq Events
    /\ pc \in [Consumers -> Steps]
    /\ delivery \in [Consumers -> Deliveries \cup {None}]

-----------------------------------------------------------------------------
(* CreateOrder: order, items and outbox row commit in one transaction.  A   *)
(* rejected input or a rolled back transaction leaves nothing behind.       *)
CreateOrder(o) ==
    /\ orders[o] = "none"
    /\ orders' = [orders EXCEPT ![o] = "PENDING"]
    /\ \E t \in Times : Relay!Insert(o, t)
    /\ UNCHANGED <<orderBatch, orderConfirmed, orderReturns, consumerVars, brokerVars>>

(* One step of the outbox worker of replica r. *)
OrderOutboxWorker(r) ==
    /\ Relay!Work(r)
    /\ UNCHANGED <<orders, consumerVars, resultQ, retryQ, dlq, bound>>

(* Start of a consumer: retry and dead-letter queues, then the source queue *)
(* and its binding, each a call that waits for the broker's reply.          *)
StartConsumer(c) ==
    /\ c[2] \notin bound /\ ~Relay!Stalled(c[1])
    /\ bound' = bound \cup {c[2]}
    /\ UNCHANGED <<orderVars, requestQ, resultQ, retryQ, dlq, faults>>

-----------------------------------------------------------------------------
Message(c) == delivery[c].message
Goto(c, step) == pc' = [pc EXCEPT ![c] = step]

(* A delivery is taken; a body that does not parse is dead-lettered at once. *)
(* A copy that waits on the connection counts as in its queue; on a stalled  *)
(* one only what was read before the reader blocked is still taken.          *)
Receive(c, d) ==
    /\ pc[c] = "idle" /\ c[2] \in bound
    /\ d.message.kind = c[2]
    /\ resultQ[d] > 0
    /\ resultQ' = Take(resultQ, d)
    /\ delivery' = [delivery EXCEPT ![c] = d]
    /\ Goto(c, IF d.message.body \in Garbage THEN "deadLetter"
                                             ELSE "isProcessed")
    /\ UNCHANGED <<orders, orderRelayVars, orderInbox,
                   requestQ, retryQ, dlq, bound, faults>>

(* Mutant of IsProcessed: the inbox is written before the order is updated. *)
IsProcessedSavesFirst(c) ==
    /\ pc[c] = "isProcessed"
    /\ \/ Message(c) \in orderInbox /\ Goto(c, "ack")
       \/ Message(c) \notin orderInbox /\ Goto(c, "saveProcessed")
    /\ UNCHANGED <<orders, orderRelayVars, orderInbox, delivery, brokerVars>>

(* inboxRepo.IsProcessed *)
IsProcessed(c) ==
    /\ pc[c] = "isProcessed"
    /\ \/ Message(c) \in orderInbox /\ Goto(c, "ack") /\ UNCHANGED faults
       \/ Message(c) \notin orderInbox /\ Goto(c, "updateOrder") /\ UNCHANGED faults
       \/ Fault /\ Goto(c, "retry")
    /\ UNCHANGED <<orders, orderRelayVars, orderInbox, delivery,
                   requestQ, resultQ, retryQ, dlq, bound>>

(* UPDATE orders SET status ... WHERE id = o AND status = 'PENDING' *)
StatusUpdate(o, status) ==
    [orders EXCEPT ![o] = IF @ = "PENDING" THEN status ELSE @]

(* Mutant of NewStatus: both consumers call ConfirmOrder. *)
NewStatusAlwaysConfirmed(kind) == "CONFIRMED"

NewStatus(kind) == IF kind = "StockReserved" THEN "CONFIRMED" ELSE "FAILED"

(* ConfirmOrder or RejectOrder: no row matching is not an error; on an      *)
(* error the update may have been applied.                                  *)
UpdateOrder(c) ==
    LET updated == StatusUpdate(Message(c).body, NewStatus(Message(c).kind))
    IN  /\ pc[c] = "updateOrder"
        /\ \/ orders' = updated /\ Goto(c, "saveProcessed") /\ UNCHANGED faults
           \/ Fault /\ orders' \in {orders, updated} /\ Goto(c, "retry")
        /\ UNCHANGED <<orderRelayVars, orderInbox, delivery,
                       requestQ, resultQ, retryQ, dlq, bound>>

(* inboxRepo.SaveProcessed: message_id is UNIQUE, a second insert fails. *)
SaveProcessed(c) ==
    LET saved == orderInbox \cup {Message(c)}
    IN  /\ pc[c] = "saveProcessed"
        /\ \/ /\ Message(c) \notin orderInbox
              /\ orderInbox' = saved
              /\ Goto(c, "ack") /\ UNCHANGED faults
           \/ /\ Message(c) \in orderInbox
              /\ Goto(c, "retry") /\ UNCHANGED <<orderInbox, faults>>
           \/ /\ Fault
              /\ orderInbox' \in {orderInbox, saved}
              /\ Goto(c, "retry")
        /\ UNCHANGED <<orders, orderRelayVars, delivery,
                       requestQ, resultQ, retryQ, dlq, bound>>

(* delivery.Ack: the broker forgets the copy. *)
Ack(c) ==
    /\ pc[c] = "ack"
    /\ Goto(c, "idle")
    /\ delivery' = [delivery EXCEPT ![c] = None]
    /\ UNCHANGED <<orders, orderRelayVars, orderInbox, brokerVars>>

-----------------------------------------------------------------------------
(* publishThenAck: either the copy is confirmed and the original will be    *)
(* acknowledged, or the publish failed (stored or not, a lost confirm does  *)
(* not tell) and the original is requeued with Nack.                        *)
Confirmed(c) ==
    /\ ~Relay!Stalled(c[1])
    /\ Goto(c, "ack")
    /\ UNCHANGED <<delivery, resultQ, faults>>

(* Mutant of NackRequeue: Nack without requeue. *)
NackDrops(c) ==
    /\ delivery' = [delivery EXCEPT ![c] = None]
    /\ Goto(c, "idle")
    /\ UNCHANGED resultQ

NackRequeue(c) ==
    /\ resultQ' = Put(resultQ, delivery[c])
    /\ delivery' = [delivery EXCEPT ![c] = None]
    /\ Goto(c, "idle")

(* Copy d is published to q without a confirm: by a fault or, the confirm   *)
(* never being read, on a stalled connection.  (A copy that such a          *)
(* connection still carries to q is charged as a fault.)                    *)
Unconfirmed(c, q, d) ==
    \/ Fault /\ q' \in {q, Put(q, d)}
    \/ Relay!Stalled(c[1]) /\ UNCHANGED <<q, faults>>

(* Publish to the retry queue with the next attempt number. *)
ScheduleRetry(c) ==
    LET next == [delivery[c] EXCEPT !.attempt = @ + 1]
    IN  /\ \/ retryQ' = Put(retryQ, next) /\ Confirmed(c)
           \/ Unconfirmed(c, retryQ, next) /\ NackRequeue(c)
        /\ UNCHANGED dlq

(* Publish to the dead-letter exchange. *)
DeadLetter(c) ==
    /\ \/ dlq' = Put(dlq, delivery[c]) /\ Confirmed(c)
       \/ Unconfirmed(c, dlq, delivery[c]) /\ NackRequeue(c)
    /\ UNCHANGED retryQ

(* Mutant of Retry: the last attempt is not made. *)
RetryOneShort(c) ==
    /\ pc[c] = "retry"
    /\ \/ delivery[c].attempt + 1 < MaxAttempts /\ ScheduleRetry(c)
       \/ delivery[c].attempt + 1 >= MaxAttempts /\ DeadLetter(c)
    /\ UNCHANGED <<orders, orderRelayVars, orderInbox, requestQ, bound>>

(* retryPolicy.retry after a processing error. *)
Retry(c) ==
    /\ pc[c] = "retry"
    /\ \/ delivery[c].attempt < MaxAttempts /\ ScheduleRetry(c)
       \/ delivery[c].attempt >= MaxAttempts /\ DeadLetter(c)
    /\ UNCHANGED <<orders, orderRelayVars, orderInbox, requestQ, bound>>

(* The dead-lettering of a body that does not parse. *)
Reject(c) ==
    /\ pc[c] = "deadLetter"
    /\ DeadLetter(c)
    /\ UNCHANGED <<orders, orderRelayVars, orderInbox, requestQ, bound>>

(* handleMessage, one step at a time. *)
HandleMessage(c) ==
    \/ IsProcessed(c) \/ UpdateOrder(c) \/ SaveProcessed(c)
    \/ Ack(c) \/ Retry(c) \/ Reject(c)

-----------------------------------------------------------------------------
(* The process of replica r stops (crash, connection loss, shutdown: Start  *)
(* of start.go does not wait for the consumers) and is started again: the   *)
(* broker requeues what was not acknowledged, the worker's batch is lost.   *)
OrderCrash(r) ==
    /\ Fault
    /\ \/ orderBatch[r] # {} \/ orderReturns[r] > 0
       \/ \E k \in Kinds : pc[<<r, k>>] # "idle"
    /\ Relay!Forget(r) /\ Relay!Reconnect(r)
    /\ resultQ' = [d \in Deliveries |->
                     IF delivery[<<r, d.message.kind>>] = d
                     THEN resultQ[d] + 1 ELSE resultQ[d]]
    /\ pc' = [c \in Consumers |-> IF c[1] = r THEN "idle" ELSE pc[c]]
    /\ delivery' = [c \in Consumers |-> IF c[1] = r THEN None ELSE delivery[c]]
    /\ UNCHANGED <<orders, orderOutbox, orderCreatedAt, orderInbox,
                   requestQ, retryQ, dlq, bound>>

OrderNext ==
    \/ \E o \in Orders : CreateOrder(o)
    \/ \E r \in OrderReplicas : OrderOutboxWorker(r) \/ OrderCrash(r)
    \/ \E c \in Consumers :
          \/ StartConsumer(c)
          \/ \E d \in Deliveries : Receive(c, d)
          \/ HandleMessage(c)
=============================================================================

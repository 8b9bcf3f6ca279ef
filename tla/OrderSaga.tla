----------------------------- MODULE OrderSaga -----------------------------
(***************************************************************************)
(* The order saga: order-service and inventory-service composed over the   *)
(* broker.  order-service commits a PENDING order with its outbox row; the *)
(* relay publishes ReserveStockRequested; inventory-service reserves or    *)
(* refuses and relays StockReserved or StockReservationFailed; a consumer  *)
(* of order-service sets CONFIRMED or FAILED.                              *)
(***************************************************************************)
EXTENDS OrderService, InventoryService

vars == <<brokerVars, orderVars, inventoryVars>>

Init == BrokerInit /\ OrderInit /\ InventoryInit

BrokerNext ==
    \/ \E d \in Deliveries : RetryExpires(d)
    \/ \E g \in Garbage : ForeignPublish(g)

Next ==
    \/ OrderNext /\ UNCHANGED inventoryVars
    \/ InventoryNext /\ UNCHANGED orderVars
    \/ BrokerNext /\ UNCHANGED <<orderVars, inventoryVars>>

Spec == Init /\ [][Next]_vars

(***************************************************************************)
(* Fairness the code justifies.  The processes are restarted when they     *)
(* stop, consumers start with them, tickers keep firing, each call ends    *)
(* with a result or a timeout, the broker's TTL expires, and an idle       *)
(* consumer gets some message that is ready, whichever, as long as the     *)
(* reader of its connection runs: a replica stalled by its publisher gets  *)
(* no delivery and no confirm, and nothing restarts it.  Orders need not   *)
(* be placed and faults need not happen.                                   *)
(***************************************************************************)
Fairness ==
    /\ \A r \in OrderReplicas :
          WF_vars(OrderOutboxWorker(r) /\ UNCHANGED inventoryVars)
    /\ \A c \in Consumers :
          /\ WF_vars(StartConsumer(c) /\ UNCHANGED inventoryVars)
          /\ WF_vars(HandleMessage(c) /\ UNCHANGED inventoryVars)
          /\ WF_vars(/\ ~Relay!Stalled(c[1])
                     /\ \E d \in Deliveries : Receive(c, d)
                     /\ UNCHANGED inventoryVars)
    /\ WF_vars(StartRequestConsumer /\ UNCHANGED orderVars)
    /\ \A r \in InventoryReplicas :
          /\ WF_vars(StockOutboxWorker(r) /\ UNCHANGED orderVars)
          /\ WF_vars((\/ DropRequest(r) \/ HandleReserveStockRequested(r)
                      \/ AckRequest(r)) /\ UNCHANGED orderVars)
          /\ WF_vars(/\ ~StockRelay!Stalled(r)
                     /\ \E m \in Requests : ReceiveRequest(r, m)
                     /\ UNCHANGED orderVars)
    /\ \A d \in Deliveries :
          WF_vars(RetryExpires(d) /\ UNCHANGED <<orderVars, inventoryVars>>)

FairSpec == Spec /\ Fairness

-----------------------------------------------------------------------------
(* Types of the whole state. *)
TypeOK == BrokerTypeOK /\ OrderTypeOK /\ InventoryTypeOK

Event(o, k) == [body |-> o, kind |-> k]
Emitted(e) == stockOutbox[e] # "absent"
Decided(o) == orders[o] \in {"CONFIRMED", "FAILED"}

(* The two services agree although no transaction spans them: a CONFIRMED   *)
(* order holds a reservation for every line, a FAILED order holds none, for *)
(* every interleaving of duplicates, retries, lost replies and crashes.     *)
SagaAgreement ==
    \A o \in Orders :
        /\ orders[o] = "CONFIRMED" => ReservationsOf(o) \subseteq reservations
        /\ orders[o] = "FAILED" => \A x \in reservations : x.order # o

(* A copy of the request, or of an event about order o, is on its way or in *)
(* a handler that has not yet acted on it.                                  *)
RequestPending(o) ==
    \/ orderOutbox[o] = "unprocessed"
    \/ requestQ[o] > 0
    \/ \E r \in InventoryReplicas : step[r] = "handle" /\ request[r] = o

Copied(e) ==
    \/ \E d \in Deliveries :
          /\ d.message = e
          /\ resultQ[d] > 0 \/ retryQ[d] > 0 \/ dlq[d] > 0
    \/ \E c \in Consumers :
          /\ pc[c] \in {"isProcessed", "updateOrder", "saveProcessed", "retry"}
          /\ delivery[c].message = e

EventPending(e) == stockOutbox[e] = "unprocessed" \/ Copied(e)

(* No order is lost between the services: while it is PENDING, its request  *)
(* or its result still exists somewhere, at worst in the dead-letter queue. *)
(* Acknowledging early, marking an unpublished row or dropping a delivery   *)
(* on a crash would each break this.                                        *)
NoLostOrder ==
    \A o \in Orders : orders[o] = "PENDING" =>
        RequestPending(o) \/ \E k \in Kinds : EventPending(Event(o, k))

(* An event is recorded in the inbox only once its effect is in the orders  *)
(* table, so IsProcessed never skips an order that was not updated although *)
(* the two writes are separate statements.                                  *)
InboxAfterEffect ==
    \A e \in orderInbox : orders[e.body] = NewStatus(e.kind)

(* A message reaches a dead-letter queue only unparsable or on its last     *)
(* attempt: no retry round is skipped by requeues and restarts.             *)
DeadLetterOnlyExhausted ==
    \A d \in Deliveries : dlq[d] > 0 =>
        d.message.body \in Garbage \/ d.attempt = MaxAttempts

(* An order gets one decision: once inventory-service has committed an      *)
(* event for it, redelivered requests commit no other.                      *)
OneDecision ==
    \A o \in Orders : \A k, l \in Kinds :
        Emitted(Event(o, k)) /\ Emitted(Event(o, l)) => k = l

-----------------------------------------------------------------------------
(* The saga implements its abstract specification. *)
DecisionOf(o) ==
    IF Emitted(Event(o, "StockReserved")) THEN "reserved"
    ELSE IF Emitted(Event(o, "StockReservationFailed")) THEN "refused"
    ELSE "open"

Abstract == INSTANCE ReservationSaga WITH
    status <- orders,
    decision <- [o \in Orders |-> DecisionOf(o)],
    stock <- available

(* Every step of the two services is a step of the abstract saga or does    *)
(* not show: stock is taken at most once per order, all lines or none, only *)
(* for a placed order, and the status follows that decision.                *)
ImplementsReservationSaga == Abstract!Spec

(* The README's saga: order-service changes every order to CONFIRMED or     *)
(* FAILED.                                                                  *)
EveryOrderDecided == \A o \in Orders : (orders[o] = "PENDING") ~> Decided(o)

DistinctProducts(o) == Abstract!DistinctProducts(o)

DeadLettered(o) ==
    \E d \in Deliveries : d.message.body = o /\ dlq[d] > 0

(* No replica of either service waits in its reader for a publisher to look *)
(* at a return.                                                             *)
NobodyStalled ==
    /\ \A r \in OrderReplicas : ~Relay!Stalled(r)
    /\ \A r \in InventoryReplicas : ~StockRelay!Stalled(r)

(* An order whose lines name distinct products is eventually decided, or    *)
(* its result ends in the dead-letter queue, once faults stop, unless some  *)
(* replica stays stalled for good: a publish that timed out before its      *)
(* queue was bound left a return behind, a second return blocked the reader *)
(* of the connection, and with it the consumers that share it, and nobody   *)
(* restarted the process.  The order then may stay PENDING.                 *)
OrderDecidedOrDeadLettered ==
    (<>[]NobodyStalled) =>
        \A o \in Orders :
            (orders[o] = "PENDING" /\ DistinctProducts(o))
                ~> (Decided(o) \/ DeadLettered(o))

-----------------------------------------------------------------------------
(* The inductive invariant behind SagaAgreement, NoLostOrder and the        *)
(* refinement, in the order in which the facts travel through the system.   *)

(* Where a consumer is in handleMessage says what it holds. *)
HandlerShape ==
    /\ \A c \in Consumers :
          /\ pc[c] = "idle" <=> delivery[c] = None
          /\ delivery[c] # None => delivery[c].message.kind = c[2]
          /\ pc[c] \in {"isProcessed", "updateOrder", "saveProcessed", "retry"}
                => delivery[c].message \in Events
          /\ pc[c] = "deadLetter" => delivery[c].message.body \in Garbage
    /\ \A r \in InventoryReplicas : step[r] = "idle" <=> request[r] = None

(* Requests exist only for placed orders. *)
RequestsArePlaced ==
    \A o \in Orders :
        \/ orders[o] # "none"
        \/ /\ orderOutbox[o] = "absent"
           /\ \A r \in OrderReplicas :
                 o \notin orderBatch[r] /\ o \notin orderConfirmed[r]
           /\ requestQ[o] = 0
           /\ \A r \in InventoryReplicas : request[r] # o
           /\ o \notin stockInbox

(* Event e is in the order service or on its way there. *)
Travelling(e) ==
    \/ \E r \in InventoryReplicas : e \in stockBatch[r] \/ e \in stockConfirmed[r]
    \/ \E d \in Deliveries :
          /\ d.message = e
          /\ resultQ[d] > 0 \/ retryQ[d] > 0 \/ dlq[d] > 0
    \/ \E c \in Consumers : delivery[c] # None /\ delivery[c].message = e
    \/ e \in orderInbox

(* Events exist only as committed by inventory-service. *)
EventsAreEmitted ==
    \A e \in Events :
        /\ Travelling(e) => Emitted(e)
        /\ Emitted(e) => e.body \in stockInbox

(* The tables of inventory-service tell the same story as its outbox. *)
ReservationsFollowEvents ==
    /\ \A o \in Orders :
          Emitted(Event(o, "StockReserved")) => ReservationsOf(o) \subseteq reservations
    /\ \A x \in reservations : Emitted(Event(x.order, "StockReserved"))

(* The status of an order follows an event committed by inventory-service;  *)
(* a consumer that is about to save the event has seen its effect.          *)
StatusFollowsEvents ==
    /\ \A o \in Orders :
          /\ orders[o] = "CONFIRMED" => Emitted(Event(o, "StockReserved"))
          /\ orders[o] = "FAILED" => Emitted(Event(o, "StockReservationFailed"))
    /\ \A c \in Consumers : pc[c] = "saveProcessed" =>
          orders[delivery[c].message.body] = NewStatus(delivery[c].message.kind)

(* A request has left the outbox only for a place further down the line. *)
InventoryHas(o) ==
    \/ requestQ[o] > 0
    \/ \E r \in InventoryReplicas : step[r] = "handle" /\ request[r] = o
    \/ o \in stockInbox

RequestTrail ==
    /\ \A o \in Orders : orders[o] # "none" =>
          orderOutbox[o] = "unprocessed" \/ InventoryHas(o)
    /\ \A r \in OrderReplicas : \A o \in orderConfirmed[r] : InventoryHas(o)
    /\ \A r \in InventoryReplicas :
          step[r] = "ack" => request[r] \in stockInbox

(* An event has left the outbox only for a queue or a handler, and leaves   *)
(* those only when its order is decided.                                    *)
EventTrail ==
    /\ \A o \in stockInbox : \E k \in Kinds : Emitted(Event(o, k))
    /\ \A e \in Events :
          Emitted(e) => EventPending(e) \/ Decided(e.body)
    /\ \A r \in InventoryReplicas : \A e \in stockConfirmed[r] :
          Copied(e) \/ Decided(e.body)
    /\ \A c \in Consumers :
          pc[c] = "ack" /\ delivery[c].message \in Events =>
             Copied(delivery[c].message) \/ Decided(delivery[c].message.body)

SagaInv ==
    /\ TypeOK
    /\ HandlerShape
    /\ RequestsArePlaced
    /\ EventsAreEmitted
    /\ OneDecision
    /\ ReservationsFollowEvents
    /\ StatusFollowsEvents
    /\ InboxAfterEffect
    /\ RequestTrail
    /\ EventTrail
=============================================================================

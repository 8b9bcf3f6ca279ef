-------------------------- MODULE InventoryService --------------------------
(***************************************************************************)
(* inventory-service: the ReserveStockRequested consumer, the transaction  *)
(* that reserves stock and records inbox and outbox rows, and the outbox   *)
(* relay for the stock events.                                             *)
(*                                                                         *)
(* ReserveStockWithInboxAndOutbox is one PostgreSQL transaction, here one  *)
(* step that commits or rolls back.  StockReservation has its statements,  *)
(* the row locks and the UNIQUE constraints, and implements this module.   *)
(***************************************************************************)
EXTENDS Broker, Sequences

CONSTANTS
    InventoryReplicas,  \* processes of inventory-service
    Products,           \* product ids
    InitialStock,       \* inventory rows: available quantity per stocked product
    Items               \* Items[o]: the (validated, non-empty) items of order o

Stocked == DOMAIN InitialStock

ASSUME InventoryAssumption ==
    /\ Stocked \subseteq Products
    /\ InitialStock \in [Stocked -> Nat]
    /\ Items \in [Orders -> Seq([product: Products, quantity: Nat \ {0}])]
    /\ \A o \in Orders : Items[o] # <<>>

VARIABLES
    available, reserved,  \* inventory.available_quantity, reserved_quantity
    reservations,         \* stock_reservations
    stockInbox,           \* inbox_messages: requests processed
    stockOutbox, stockCreatedAt,   \* outbox_messages
    stockBatch, stockConfirmed,    \* the outbox worker's local state
    stockReturns,         \* returns its publisher has not read, on the
                          \* connection the consumer uses too
    step,                 \* step[r]: where handleMessage of replica r is
    request               \* request[r]: the unacknowledged request

stockVars == <<available, reserved, reservations, stockInbox>>
stockRelayVars ==
    <<stockOutbox, stockCreatedAt, stockBatch, stockConfirmed, stockReturns>>
handlerVars == <<step, request>>
inventoryVars == <<stockVars, stockRelayVars, handlerVars>>

StockRelay == INSTANCE OutboxRelay WITH
    Rows <- Events, Workers <- InventoryReplicas, Copies <- Deliveries,
    copiesOf <- [e \in Events |-> {[message |-> e, attempt |-> 1]}],
    outbox <- stockOutbox, createdAt <- stockCreatedAt,
    batch <- stockBatch, confirmed <- stockConfirmed, queue <- resultQ,
    returns <- stockReturns,
    routable <- {d \in Deliveries : d.message.kind \in bound}

Reservations == [order: Orders, product: Products, quantity: Nat]

InventoryInit ==
    /\ available = InitialStock
    /\ reserved = [p \in Stocked |-> 0]
    /\ reservations = {}
    /\ stockInbox = {}
    /\ stockOutbox = [e \in Events |-> "absent"]
    /\ stockCreatedAt = [e \in Events |-> 0]
    /\ stockBatch = [r \in InventoryReplicas |-> {}]
    /\ stockConfirmed = [r \in InventoryReplicas |-> {}]
    /\ stockReturns = [r \in InventoryReplicas |-> 0]
    /\ step = [r \in InventoryReplicas |-> "idle"]
    /\ request = [r \in InventoryReplicas |-> None]

InventoryTypeOK ==
    /\ available \in [Stocked -> Nat]
    /\ reserved \in [Stocked -> Nat]
    /\ reservations \subseteq Reservations
    /\ stockInbox \subseteq Orders
    /\ stockOutbox \in [Events -> StockRelay!RowStates]
    /\ stockCreatedAt \in [Events -> Nat]
    /\ stockBatch \in [InventoryReplicas -> SUBSET Events]
    /\ stockConfirmed \in [InventoryReplicas -> SUBSET Events]
    /\ stockReturns \in [InventoryReplicas -> 0..2]
    /\ step \in [InventoryReplicas -> {"idle", "handle", "ack"}]
    /\ request \in [InventoryReplicas -> Requests \cup {None}]

-----------------------------------------------------------------------------
Lines(o) == DOMAIN Items[o]

(* Mutant of InStock: the last unit is never sold. *)
InStockStrict(o) ==
    \A i \in Lines(o) :
        /\ Items[o][i].product \in Stocked
        /\ Items[o][i].quantity < available[Items[o][i].product]

(* checkAndLockStock: each line is compared with the locked row on its own. *)
InStock(o) ==
    \A i \in Lines(o) :
        /\ Items[o][i].product \in Stocked
        /\ Items[o][i].quantity <= available[Items[o][i].product]

(* Line i is the last one for its product: the absolute values reserveStock *)
(* writes from the locked row are the ones of the last line.                *)
Last(o, i) ==
    \A j \in Lines(o) : Items[o][j].product = Items[o][i].product => j <= i

(* The quantity by which reserveStock changes the row of product p. *)
Taken(o, p) ==
    LET lines == {i \in Lines(o) : Items[o][i].product = p /\ Last(o, i)}
    IN  IF lines = {} THEN 0 ELSE Items[o][CHOOSE i \in lines : TRUE].quantity

ReservationsOf(o) ==
    {[order |-> o, product |-> Items[o][i].product,
      quantity |-> Items[o][i].quantity] : i \in Lines(o)}

(* UNIQUE (order_id, product_id) of stock_reservations: two lines for one   *)
(* product, or a reservation the order already holds, fail the insert.      *)
UniqueViolation(o) ==
    \/ \E i, j \in Lines(o) :
          i # j /\ Items[o][i].product = Items[o][j].product
    \/ \E i \in Lines(o), x \in reservations :
          x.order = o /\ x.product = Items[o][i].product

InsertOutbox(o, kind) ==
    \E t \in Times : StockRelay!Insert([body |-> o, kind |-> kind], t)

(* Mutants of ReserveStock: no stock check; reserved_quantity left alone. *)
ReserveStockUnchecked(o) ==
    /\ ~UniqueViolation(o)
    /\ available' = [p \in Stocked |-> available[p] - Taken(o, p)]
    /\ reserved' = [p \in Stocked |-> reserved[p] + Taken(o, p)]
    /\ reservations' = reservations \cup ReservationsOf(o)
    /\ InsertOutbox(o, "StockReserved")

ReserveStockUncounted(o) ==
    /\ InStock(o) /\ ~UniqueViolation(o)
    /\ available' = [p \in Stocked |-> available[p] - Taken(o, p)]
    /\ reservations' = reservations \cup ReservationsOf(o)
    /\ InsertOutbox(o, "StockReserved")
    /\ UNCHANGED reserved

(* The transaction when every line is in stock. *)
ReserveStock(o) ==
    /\ InStock(o) /\ ~UniqueViolation(o)
    /\ available' = [p \in Stocked |-> available[p] - Taken(o, p)]
    /\ reserved' = [p \in Stocked |-> reserved[p] + Taken(o, p)]
    /\ reservations' = reservations \cup ReservationsOf(o)
    /\ InsertOutbox(o, "StockReserved")

(* The transaction when some product is unknown or short. *)
RefuseStock(o) ==
    /\ ~InStock(o)
    /\ InsertOutbox(o, "StockReservationFailed")
    /\ UNCHANGED <<available, reserved, reservations>>

(* Mutant of Commit: isMessageProcessed is not asked. *)
CommitAgain(o) ==
    /\ ReserveStock(o) \/ RefuseStock(o)
    /\ stockInbox' = stockInbox \cup {o}

(* What the transaction commits for a request seen for the first time. *)
Commit(o) ==
    /\ o \notin stockInbox
    /\ ReserveStock(o) \/ RefuseStock(o)
    /\ stockInbox' = stockInbox \cup {o}

Rollback == UNCHANGED <<stockVars, stockOutbox, stockCreatedAt>>

-----------------------------------------------------------------------------
(* Start of the consumer: the request queue is declared and bound by a      *)
(* replica that gets the broker's replies.                                  *)
StartRequestConsumer ==
    /\ RequestQueue \notin bound
    /\ \E r \in InventoryReplicas : ~StockRelay!Stalled(r)
    /\ bound' = bound \cup {RequestQueue}
    /\ UNCHANGED <<inventoryVars, requestQ, resultQ, retryQ, dlq, faults>>

(* As in order-service, a stalled replica still takes what it has read. *)
ReceiveRequest(r, m) ==
    /\ step[r] = "idle" /\ RequestQueue \in bound
    /\ requestQ[m] > 0
    /\ requestQ' = Take(requestQ, m)
    /\ step' = [step EXCEPT ![r] = "handle"]
    /\ request' = [request EXCEPT ![r] = m]
    /\ UNCHANGED <<stockVars, stockRelayVars, resultQ, retryQ, dlq, bound, faults>>

Done(r) ==
    /\ step' = [step EXCEPT ![r] = "idle"]
    /\ request' = [request EXCEPT ![r] = None]

Requeue(r) ==
    /\ requestQ' = Put(requestQ, request[r])
    /\ Done(r)

(* A request that does not parse: Nack without requeue, no dead-letter      *)
(* exchange is configured, so the broker drops it.                          *)
DropRequest(r) ==
    /\ step[r] = "handle" /\ request[r] \in Garbage
    /\ Done(r)
    /\ UNCHANGED <<stockVars, stockRelayVars, brokerVars>>

(* The transaction rolls back although nothing is broken: the reservations  *)
(* violate their UNIQUE constraint, or a transaction of another replica is  *)
(* in the way (a deadlock, or the inbox row of another copy).               *)
Conflict(r, o) ==
    \/ o \notin stockInbox /\ InStock(o) /\ UniqueViolation(o)
    \/ InventoryReplicas # {r}

(* HandleReserveStockRequested and the Ack or Nack(requeue) that follows.   *)
(* On an error the commit may still have happened.                          *)
HandleReserveStockRequested(r) ==
    LET o == request[r]
        Acknowledge == step' = [step EXCEPT ![r] = "ack"]
                       /\ UNCHANGED <<request, requestQ, faults>>
    IN  /\ step[r] = "handle" /\ o \in Orders
        /\ \/ o \in stockInbox /\ Rollback /\ Acknowledge
           \/ Commit(o) /\ Acknowledge
           \/ Conflict(r, o) /\ Rollback /\ Requeue(r) /\ UNCHANGED faults
           \/ (Rollback \/ Commit(o)) /\ Requeue(r) /\ Fault
        /\ UNCHANGED <<stockBatch, stockConfirmed, stockReturns,
                       resultQ, retryQ, dlq, bound>>

AckRequest(r) ==
    /\ step[r] = "ack"
    /\ Done(r)
    /\ UNCHANGED <<stockVars, stockRelayVars, brokerVars>>

(* One step of the outbox worker of replica r. *)
StockOutboxWorker(r) ==
    /\ StockRelay!Work(r)
    /\ UNCHANGED <<stockVars, handlerVars, requestQ, retryQ, dlq, bound>>

(* The process of replica r stops and is started again. *)
InventoryCrash(r) ==
    /\ Fault
    /\ stockBatch[r] # {} \/ stockReturns[r] > 0 \/ step[r] # "idle"
    /\ StockRelay!Forget(r) /\ StockRelay!Reconnect(r)
    /\ IF step[r] = "idle" THEN UNCHANGED <<requestQ, handlerVars>>
                           ELSE Requeue(r)
    /\ UNCHANGED <<stockVars, stockOutbox, stockCreatedAt,
                   resultQ, retryQ, dlq, bound>>

InventoryNext ==
    \/ StartRequestConsumer
    \/ \E r \in InventoryReplicas :
          \/ \E m \in Requests : ReceiveRequest(r, m)
          \/ DropRequest(r)
          \/ HandleReserveStockRequested(r)
          \/ AckRequest(r)
          \/ StockOutboxWorker(r)
          \/ InventoryCrash(r)

-----------------------------------------------------------------------------
(* The reserved units of product p: unit n of the order that holds it. *)
UnitsHeld(p) ==
    UNION {{x.order} \X (1..x.quantity) : x \in {y \in reservations : y.product = p}}

(* The stock rows agree with the reservations: reserved_quantity counts the *)
(* units the stock_reservations of the product hold, and they were taken    *)
(* from available_quantity, although reserveStock writes absolute values it *)
(* read earlier in the transaction and requests are delivered more than     *)
(* once.  An order holds one reservation for a product.                     *)
StockMatchesReservations ==
    /\ \A x, y \in reservations :
          x.order = y.order /\ x.product = y.product => x = y
    /\ \A p \in Stocked :
          /\ reserved[p] = Cardinality(UnitsHeld(p))
          /\ available[p] + reserved[p] = InitialStock[p]
=============================================================================

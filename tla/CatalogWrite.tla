---------------------------- MODULE CatalogWrite ----------------------------
(***************************************************************************)
(* catalog-write-service: CreateProduct and the outbox relay of its        *)
(* ProductCreated events, with the RabbitMQ connection the publisher is    *)
(* built on.  The connection is opened once, at start; nothing watches it  *)
(* and the service has no consumer that would notice its loss.             *)
(***************************************************************************)
EXTENDS CatalogEvents

CONSTANT WriteReplicas  \* processes of catalog-write-service

VARIABLES
    catalog,       \* the products table
    productOutbox, productCreatedAt,  \* outbox_messages
    productBatch, productConfirmed,   \* the outbox worker's local state
    productReturns,  \* returns its publisher has not read
    connected      \* processes whose RabbitMQ connection is open

productRelayVars ==
    <<productOutbox, productCreatedAt, productBatch, productConfirmed, productReturns>>
writeVars == <<catalog, productRelayVars, connected>>

ProductRelay == INSTANCE OutboxRelay WITH
    Rows <- Products, Workers <- WriteReplicas, Copies <- QueuedCopies,
    copiesOf <- [p \in Products |-> Queues \X {p}],
    outbox <- productOutbox, createdAt <- productCreatedAt,
    batch <- productBatch, confirmed <- productConfirmed, queue <- eventQ,
    returns <- productReturns,
    routable <- {c \in QueuedCopies : c[1] \in bound}

RowStates == {"absent", "unprocessed", "processed"}

WriteInit ==
    /\ catalog = {}
    /\ productOutbox = [p \in Products |-> "absent"]
    /\ productCreatedAt = [p \in Products |-> 0]
    /\ productBatch = [w \in WriteReplicas |-> {}]
    /\ productConfirmed = [w \in WriteReplicas |-> {}]
    /\ productReturns = [w \in WriteReplicas |-> 0]
    /\ connected = WriteReplicas

WriteTypeOK ==
    /\ catalog \subseteq Products
    /\ productOutbox \in [Products -> RowStates]
    /\ productCreatedAt \in [Products -> Nat]
    /\ productBatch \in [WriteReplicas -> SUBSET Products]
    /\ productConfirmed \in [WriteReplicas -> SUBSET Products]
    /\ productReturns \in [WriteReplicas -> 0..2]
    /\ connected \subseteq WriteReplicas

(* Mutant of CreateProduct: the event is saved without the product. *)
CreateProductEventOnly(w, p) ==
    /\ p \notin catalog
    /\ \E t \in Times : ProductRelay!Insert(p, t)
    /\ UNCHANGED <<catalog, productBatch, productConfirmed, productReturns,
                   connected, eventVars>>

(* CreateProduct: product and outbox row commit in one transaction. *)
CreateProduct(w, p) ==
    /\ p \notin catalog
    /\ catalog' = catalog \cup {p}
    /\ \E t \in Times : ProductRelay!Insert(p, t)
    /\ UNCHANGED <<productBatch, productConfirmed, productReturns,
                   connected, eventVars>>

(* On a closed channel the publish fails at once. *)
PublishOnClosed(w, p) ==
    /\ ProductRelay!NextOf(w, p)
    /\ productBatch' = [productBatch EXCEPT ![w] = @ \ {p}]
    /\ UNCHANGED <<productOutbox, productCreatedAt, productConfirmed, productReturns,
                   eventQ, faults>>

(* One step of the outbox worker of process w. *)
ProductOutboxWorker(w) ==
    /\ \/ ProductRelay!Poll(w)
       \/ \E p \in Products :
             \/ w \in connected /\ ProductRelay!Publish(w, p)
             \/ w \notin connected /\ PublishOnClosed(w, p)
    /\ UNCHANGED <<catalog, connected, bound>>

(* The broker or the network closes the connection; the process goes on,    *)
(* ready and alive, and every later publish fails.                          *)
ConnectionLost(w) ==
    /\ Fault
    /\ w \in connected
    /\ connected' = connected \ {w}
    /\ UNCHANGED <<catalog, productRelayVars, eventQ, bound>>

(* The process stops and is started again, with a new connection. *)
WriteCrash(w) ==
    /\ Fault
    /\ productBatch[w] # {} \/ productReturns[w] > 0 \/ w \notin connected
    /\ ProductRelay!Forget(w) /\ ProductRelay!Reconnect(w)
    /\ connected' = connected \cup {w}
    /\ UNCHANGED <<catalog, productOutbox, productCreatedAt, eventQ, bound>>

WriteNext ==
    \E w \in WriteReplicas :
        \/ \E p \in Products : CreateProduct(w, p)
        \/ ProductOutboxWorker(w)
        \/ ConnectionLost(w)
        \/ WriteCrash(w)
=============================================================================

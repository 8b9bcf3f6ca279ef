--------------------------- MODULE CatalogEvents ---------------------------
(***************************************************************************)
(* What catalog-write-service and catalog-read-service share: the          *)
(* ProductCreated events and the two queues the catalog.events exchange    *)
(* fans them out to.  RabbitMQ is modelled from how the services use it;   *)
(* as in Broker, a queue is a bag of copies.                               *)
(***************************************************************************)
EXTENDS Naturals, FiniteSets

CONSTANTS
    Products,   \* product ids; ProductCreated of p is published for p only
    Garbage,    \* bodies that do not parse, put there by some other client
    Declared,   \* queues that exist from an earlier deployment (durable)
    BatchSize,  \* LIMIT of FindUnprocessed (20 in the code)
    Times,      \* created_at values of outbox rows
    MaxFaults   \* bound: errors, timeouts, connection losses and crashes

(* catalog-read.product-created and catalog-search.product-created *)
Queues == {"readModel", "search"}
Bodies == Products \cup Garbage
QueuedCopies == Queues \X Bodies

ASSUME CatalogAssumption ==
    /\ BatchSize \in Nat \ {0}
    /\ Times \subseteq Nat
    /\ MaxFaults \in Nat
    /\ Declared \subseteq Queues
    /\ Products \cap Garbage = {}

VARIABLES
    eventQ,  \* eventQ[<<q, m>>]: copies of m ready in queue q
    bound,   \* queues declared and bound with product.created
    faults   \* faults that may still happen

eventVars == <<eventQ, bound, faults>>

EventsInit ==
    /\ eventQ = [c \in QueuedCopies |-> 0]
    /\ bound = Declared
    /\ faults = MaxFaults

EventsTypeOK ==
    /\ eventQ \in [QueuedCopies -> Nat]
    /\ bound \subseteq Queues
    /\ faults \in Nat

Fault == faults > 0 /\ faults' = faults - 1

(* Some other client publishes a body the consumers cannot parse. *)
ForeignPublish(q, g) ==
    /\ Fault
    /\ q \in bound
    /\ eventQ' = [eventQ EXCEPT ![<<q, g>>] = @ + 1]
    /\ UNCHANGED bound
=============================================================================

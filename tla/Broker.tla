------------------------------- MODULE Broker -------------------------------
(***************************************************************************)
(* What the order and inventory services share: the messages of the order  *)
(* saga and the RabbitMQ queues they travel through.  RabbitMQ itself is   *)
(* not part of the repository; it is modelled from how the services        *)
(* declare, publish to and consume from it.                                *)
(*                                                                         *)
(* A queue is a bag: a function from messages to the number of copies in   *)
(* the ready state.  Redelivery, requeueing and several consumers make the *)
(* order of a queue unreliable, so no step relies on it.                   *)
(***************************************************************************)
EXTENDS Naturals, FiniteSets

CONSTANTS
    Orders,       \* order ids
    Garbage,      \* bodies that do not parse, put there by some other client
    MaxAttempts,  \* maxAttempts of the retry policy (3 in the code)
    BatchSize,    \* outboxBatchSize of every outbox worker (20 in the code)
    Times,        \* created_at values of outbox rows
    MaxFaults,    \* bound: errors, timeouts and crashes in one behaviour
    None          \* "no delivery in hand"

Kinds == {"StockReserved", "StockReservationFailed"}

(* ReserveStockRequested of order o carries one message_id for good: the    *)
(* payload is stored in the outbox row, so o stands for the message.        *)
Requests == Orders \cup Garbage

(* Stock events; event ids are stored in the outbox row as well. *)
Events == [body: Orders, kind: Kinds]
Messages == [body: Requests, kind: Kinds]

(* A copy on the order service's queues: the x-delivery-attempt header      *)
(* counts the processing attempts, a message without it counts as attempt 1. *)
Attempts == 1..MaxAttempts
Deliveries == [message: Messages, attempt: Attempts]

ASSUME BrokerAssumption ==
    /\ MaxAttempts \in Nat \ {0}
    /\ BatchSize \in Nat \ {0}
    /\ Times \subseteq Nat
    /\ MaxFaults \in Nat
    /\ Orders \cap Garbage = {}
    /\ None \notin Deliveries \cup Requests

VARIABLES
    requestQ,  \* inventory.reserve-stock-requested: copies of each request
    resultQ,   \* the two stock event queues of the order service
    retryQ,    \* their .retry queues: copies wait here for the TTL
    dlq,       \* their .dlq queues; nothing consumes them
    bound,     \* queues declared and bound so far (all are durable)
    faults     \* faults that may still happen

brokerVars == <<requestQ, resultQ, retryQ, dlq, bound, faults>>

RequestQueue == "ReserveStockRequested"

BrokerInit ==
    /\ requestQ = [m \in Requests |-> 0]
    /\ resultQ = [d \in Deliveries |-> 0]
    /\ retryQ = [d \in Deliveries |-> 0]
    /\ dlq = [d \in Deliveries |-> 0]
    /\ bound = {}
    /\ faults = MaxFaults

BrokerTypeOK ==
    /\ requestQ \in [Requests -> Nat]
    /\ resultQ \in [Deliveries -> Nat]
    /\ retryQ \in [Deliveries -> Nat]
    /\ dlq \in [Deliveries -> Nat]
    /\ bound \subseteq Kinds \cup {RequestQueue}
    /\ faults \in Nat

(* One of the budgeted faults: a failed call, a lost reply, a crash. *)
Fault == faults > 0 /\ faults' = faults - 1

Put(q, m) == [q EXCEPT ![m] = @ + 1]
Take(q, m) == [q EXCEPT ![m] = @ - 1]

(* Mutant of RetryExpires: no dead-letter routing on the retry queue. *)
RetryExpiresDropped(d) ==
    /\ retryQ[d] > 0
    /\ retryQ' = Take(retryQ, d)
    /\ UNCHANGED <<requestQ, resultQ, dlq, bound, faults>>

(* The TTL of a retry queue dead-letters the copy to the source exchange    *)
(* with the source routing key, which puts it back on the source queue.     *)
RetryExpires(d) ==
    /\ retryQ[d] > 0
    /\ retryQ' = Take(retryQ, d)
    /\ resultQ' = Put(resultQ, d)
    /\ UNCHANGED <<requestQ, dlq, bound, faults>>

(* Some other client publishes a body the consumers cannot parse. *)
ForeignPublish(g) ==
    /\ Fault
    /\ \/ /\ RequestQueue \in bound
          /\ requestQ' = Put(requestQ, g)
          /\ UNCHANGED resultQ
       \/ \E k \in Kinds :
            /\ k \in bound
            /\ resultQ' = Put(resultQ, [message |-> [body |-> g, kind |-> k],
                                        attempt |-> 1])
            /\ UNCHANGED requestQ
    /\ UNCHANGED <<retryQ, dlq, bound>>
=============================================================================

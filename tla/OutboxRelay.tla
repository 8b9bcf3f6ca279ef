---------------------------- MODULE OutboxRelay ----------------------------
(***************************************************************************)
(* The transactional outbox of one service: the outbox_messages table, the *)
(* OutboxWorker that polls it and the RabbitMQPublisher it publishes with. *)
(* order-service, inventory-service and catalog-write-service run the same *)
(* code over their own tables, so the module is parameterised by the rows  *)
(* and instantiated once per service.                                      *)
(*                                                                         *)
(* retry_count is not part of the state: IncrementRetry writes it and no   *)
(* query reads it, so a failed publish just leaves the row unprocessed.    *)
(***************************************************************************)
EXTENDS Naturals, FiniteSets

CONSTANTS
    Rows,       \* outbox rows a service may insert
    Workers,    \* OutboxWorker goroutines, one per process of the service
    BatchSize,  \* LIMIT of FindUnprocessed (outboxBatchSize, 20 in the code)
    Times,      \* created_at values; taken from the clock before the commit
    Copies,     \* what the destination queues store
    copiesOf,   \* copiesOf[r]: the copies the exchange makes of row r's message,
                \* one for each queue bound with its routing key
    MaxFaults   \* bound: errors, timeouts and crashes in one behaviour

ASSUME RelayAssumption ==
    /\ BatchSize \in Nat \ {0}
    /\ Times \subseteq Nat
    /\ copiesOf \in [Rows -> SUBSET Copies]
    /\ MaxFaults \in Nat

VARIABLES
    outbox,     \* outbox[r]: absent, unprocessed (processed_at NULL), processed
    createdAt,  \* createdAt[r]: the created_at column
    batch,      \* batch[w]: rows fetched by process() and not yet dealt with
    confirmed,  \* confirmed[w]: the row Publish returned nil for, until marked
    queue,      \* queue[c]: how often c is in its destination queue
    routable,   \* copies whose destination queue is bound
    faults,     \* faults that may still happen
    returns     \* returns[w]: basic.returns on w's connection that no Publish has
                \* looked at; one fits in the returns channel, a second one
                \* blocks the connection's reader

relayVars == <<outbox, createdAt, batch, confirmed, queue, routable, faults>>

RowStates == {"absent", "unprocessed", "processed"}

(* One of the budgeted faults: a failed call, a lost reply, a crash. *)
Fault == faults > 0 /\ faults' = faults - 1

Unprocessed == {r \in Rows : outbox[r] = "unprocessed"}

(* The row is inserted by the transaction that changes the aggregate. *)
Insert(r, t) ==
    /\ outbox[r] = "absent"
    /\ outbox' = [outbox EXCEPT ![r] = "unprocessed"]
    /\ createdAt' = [createdAt EXCEPT ![r] = t]

(* Any ORDER BY created_at ASC LIMIT BatchSize result; ties are free. *)
OldestFirst(b) ==
    /\ \/ b = Unprocessed /\ Cardinality(b) <= BatchSize
       \/ Cardinality(b) = BatchSize
    /\ \A r \in b, s \in Unprocessed \ b : createdAt[r] <= createdAt[s]

(* A tick of the worker: FindUnprocessed.  A failed query changes nothing. *)
FindUnprocessed(w) ==
    /\ batch[w] = {} /\ confirmed[w] = {}
    /\ Unprocessed # {}
    /\ \E b \in SUBSET Unprocessed :
          /\ OldestFirst(b)
          /\ batch' = [batch EXCEPT ![w] = b]
    /\ UNCHANGED <<outbox, createdAt, confirmed, queue, faults>>

Routes(r) == copiesOf[r] \cap routable

(* The exchange puts a copy in each queue that is bound at this moment. *)
Accept(r) ==
    queue' = [c \in Copies |-> IF c \in Routes(r) THEN queue[c] + 1 ELSE queue[c]]

NextOf(w, r) ==
    /\ r \in batch[w] /\ confirmed[w] = {}
    /\ \A s \in batch[w] : createdAt[r] <= createdAt[s]

(* The reader of w's connection waits for room in the returns channel: it   *)
(* reads no confirm, delivery or reply until the process is restarted.      *)
Stalled(w) == returns[w] = 2

(* publisher.Publish returned nil: the broker confirmed and routed the copy. *)
PublishConfirmed(w, r) ==
    /\ returns[w] = 0 /\ Routes(r) # {}
    /\ Accept(r)
    /\ confirmed' = [confirmed EXCEPT ![w] = {r}]
    /\ UNCHANGED <<batch, faults, returns>>

(* A mandatory publish no queue is bound for comes back as basic.return. *)
PublishReturned(w, r) ==
    /\ returns[w] = 0 /\ Routes(r) = {}
    /\ UNCHANGED <<queue, faults, returns>>

(* The return an earlier publish left behind is taken for one of this       *)
(* publish, although its message was routed.                                *)
PublishMistaken(w, r) ==
    /\ returns[w] = 1 /\ Routes(r) # {}
    /\ Accept(r)
    /\ returns' = [returns EXCEPT ![w] = 0]
    /\ UNCHANGED faults

(* The return of this publish finds no room, or an earlier one did not: the *)
(* confirm is never read and the deadline passes, without any fault.  What  *)
(* a stalled connection still carries to a queue is charged to faults.      *)
PublishStalled(w, r) ==
    /\ Stalled(w) \/ (returns[w] = 1 /\ Routes(r) = {})
    /\ returns' = [returns EXCEPT ![w] = 2]
    /\ UNCHANGED <<queue, faults>>

(* Publish gave up before the confirm was read: the copy may or may not     *)
(* have been enqueued, and its return may come when nobody looks at it.     *)
PublishFailed(w, r) ==
    /\ Fault
    /\ \/ Accept(r) /\ UNCHANGED returns
       \/ UNCHANGED <<queue, returns>>
       \/ /\ Routes(r) = {} /\ ~Stalled(w)
          /\ returns' = [returns EXCEPT ![w] = @ + 1]
          /\ UNCHANGED queue

(* An error of Publish: the row is left for a later tick. *)
PublishError(w, r) ==
    /\ \/ PublishReturned(w, r) \/ PublishMistaken(w, r)
       \/ PublishStalled(w, r) \/ PublishFailed(w, r)
    /\ batch' = [batch EXCEPT ![w] = @ \ {r}]
    /\ UNCHANGED confirmed

Publish(w, r) ==
    /\ NextOf(w, r)
    /\ PublishConfirmed(w, r) \/ PublishError(w, r)
    /\ UNCHANGED <<outbox, createdAt>>

(* Mutant of MarkAsProcessed: the update never reaches the table. *)
MarkAsProcessedForgotten(w, r) ==
    /\ r \in confirmed[w]
    /\ batch' = [batch EXCEPT ![w] = @ \ {r}]
    /\ confirmed' = [confirmed EXCEPT ![w] = {}]
    /\ UNCHANGED <<outbox, createdAt, queue, faults>>

(* MarkAsProcessed; on an error the update may have been applied or not. *)
MarkAsProcessed(w, r) ==
    /\ r \in confirmed[w]
    /\ \/ /\ outbox' = [outbox EXCEPT ![r] = "processed"]
          /\ UNCHANGED faults
       \/ /\ Fault
          /\ outbox' \in {outbox, [outbox EXCEPT ![r] = "processed"]}
    /\ batch' = [batch EXCEPT ![w] = @ \ {r}]
    /\ confirmed' = [confirmed EXCEPT ![w] = {}]
    /\ UNCHANGED <<createdAt, queue>>

(* The process of worker w stops: what it had fetched is forgotten. *)
Forget(w) ==
    /\ batch' = [batch EXCEPT ![w] = {}]
    /\ confirmed' = [confirmed EXCEPT ![w] = {}]

(* Its new process has a new connection. *)
Reconnect(w) == returns' = [returns EXCEPT ![w] = 0]

Poll(w) ==
    /\ FindUnprocessed(w) \/ \E r \in Rows : MarkAsProcessed(w, r)
    /\ UNCHANGED returns

Work(w) == Poll(w) \/ \E r \in Rows : Publish(w, r)

-----------------------------------------------------------------------------
(* The relay on its own, with the rest of the system as its environment. *)

RelayInit ==
    /\ outbox = [r \in Rows |-> "absent"]
    /\ createdAt = [r \in Rows |-> 0]
    /\ batch = [w \in Workers |-> {}]
    /\ confirmed = [w \in Workers |-> {}]
    /\ queue = [c \in Copies |-> 0]
    /\ faults = MaxFaults
    /\ returns = [w \in Workers |-> 0]

Init ==
    /\ RelayInit
    /\ routable = {}

(* A transaction of the service commits. *)
Commit(r) ==
    /\ \E t \in Times : Insert(r, t)
    /\ UNCHANGED <<batch, confirmed, queue, routable, faults>>

(* A consumer declares its durable queue and binds it. *)
Bind(c) ==
    /\ c \notin routable
    /\ routable' = routable \cup {c}
    /\ UNCHANGED <<outbox, createdAt, batch, confirmed, queue, faults>>

Crash(w) ==
    /\ Fault
    /\ batch[w] # {} \/ returns[w] > 0
    /\ Forget(w) /\ Reconnect(w)
    /\ UNCHANGED <<outbox, createdAt, queue, routable>>

Next ==
    \/ \E r \in Rows : Commit(r) /\ UNCHANGED returns
    \/ \E c \in Copies : Bind(c) /\ UNCHANGED returns
    \/ \E w \in Workers : (Work(w) /\ UNCHANGED routable) \/ Crash(w)

Spec == Init /\ [][Next]_<<relayVars, returns>>

-----------------------------------------------------------------------------
(* Types of the relay's state. *)
TypeOK ==
    /\ outbox \in [Rows -> RowStates]
    /\ createdAt \in [Rows -> Nat]
    /\ batch \in [Workers -> SUBSET Rows]
    /\ confirmed \in [Workers -> SUBSET Rows]
    /\ queue \in [Copies -> Nat]
    /\ routable \subseteq Copies
    /\ faults \in Nat

(* What the outbox is for: a row leaves the poll (processed_at set) only    *)
(* after the broker has stored a copy of its message, whatever mixture of   *)
(* unroutable publishes, lost confirms, failed updates and crashes occurs.  *)
ProcessedIsQueued ==
    \A r \in Rows :
        outbox[r] = "processed" => \E c \in copiesOf[r] : queue[c] > 0

(* Every committed row is eventually published and marked, once faults stop *)
(* and the consumer's queue exists, however full the batches are.           *)
EveryRowProcessed ==
    \A r \in Rows : (outbox[r] = "unprocessed") ~> (outbox[r] = "processed")
=============================================================================

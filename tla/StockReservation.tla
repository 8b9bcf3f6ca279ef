-------------------------- MODULE StockReservation --------------------------
(***************************************************************************)
(* ReserveStockWithInboxAndOutbox statement by statement, in the READ      *)
(* COMMITTED transactions of several replicas of inventory-service.        *)
(* InventoryService takes the transaction as one step; here its SELECT ... *)
(* FOR UPDATE statements wait for row locks and deadlock, its inserts meet *)
(* the UNIQUE constraints, and other transactions commit in between.       *)
(*                                                                         *)
(* What a transaction writes is visible to nobody before the commit, and   *)
(* the rows it writes are locked, so the writes are kept as the place it   *)
(* has reached (statement, line) and applied by CommitTransaction.         *)
(* PostgreSQL's locks and its deadlock detector are external.              *)
(***************************************************************************)
EXTENDS InventoryService

CONSTANT Published  \* Published[m]: copies of m on the queue at the start

ASSUME ReservationAssumption ==
    /\ Published \in [Requests -> Nat]
    /\ None \notin InventoryReplicas

VARIABLES
    statement,    \* statement[r]: what the transaction of replica r does next
    line,         \* line[r]: the item that statement is at
    event,        \* event[r]: the event it will insert, once decided
    inventories,  \* inventories[r]: the rows checkAndLockStock has read
    holder        \* holder[p]: the replica whose transaction locks row p

txnVars == <<statement, line, event, inventories, holder>>
reservationVars == <<brokerVars, inventoryVars, txnVars>>

Statements ==
    {"none", "checkAndLockStock", "reserveStock", "insertInbox", "commit"}

Row(p) == [available |-> available[p], reserved |-> reserved[p]]

(* The durable queue as the consumers find it. *)
RequestsWaiting ==
    /\ InventoryInit
    /\ requestQ = Published
    /\ resultQ = [d \in Deliveries |-> 0]
    /\ retryQ = [d \in Deliveries |-> 0]
    /\ dlq = [d \in Deliveries |-> 0]
    /\ bound = {RequestQueue}
    /\ faults = MaxFaults

Init ==
    /\ RequestsWaiting
    /\ statement = [r \in InventoryReplicas |-> "none"]
    /\ line = [r \in InventoryReplicas |-> 0]
    /\ event = [r \in InventoryReplicas |-> "none"]
    /\ inventories = [r \in InventoryReplicas |-> <<>>]
    /\ holder = [p \in Stocked |-> None]

-----------------------------------------------------------------------------
Item(r) == Items[request[r]][line[r]]
LastLine(r) == line[r] = Len(Items[request[r]])

Goto(r, s, i) ==
    /\ statement' = [statement EXCEPT ![r] = s]
    /\ line' = [line EXCEPT ![r] = i]

(* The end of the transaction releases its locks. *)
EndTransaction(r) ==
    /\ Goto(r, "none", 0)
    /\ event' = [event EXCEPT ![r] = "none"]
    /\ inventories' = [inventories EXCEPT ![r] = <<>>]
    /\ holder' = [p \in Stocked |-> IF holder[p] = r THEN None ELSE holder[p]]

Acknowledge(r) ==
    /\ step' = [step EXCEPT ![r] = "ack"]
    /\ UNCHANGED <<request, requestQ>>

(* Mutant of Abort: Nack without requeue. *)
AbortDrops(r) ==
    /\ Rollback /\ EndTransaction(r) /\ Done(r)
    /\ UNCHANGED <<stockBatch, stockConfirmed, stockReturns,
                   requestQ, resultQ, retryQ, dlq, bound>>

(* An error: the transaction rolls back and the consumer requeues. *)
Abort(r) ==
    /\ Rollback /\ EndTransaction(r) /\ Requeue(r)
    /\ UNCHANGED <<stockBatch, stockConfirmed, stockReturns, resultQ, retryQ, dlq, bound>>

(* A step inside the transaction. *)
Inside == UNCHANGED <<brokerVars, inventoryVars>>

(* The transaction begins with a count of its inbox rows. *)
IsMessageProcessed(r) ==
    /\ step[r] = "handle" /\ request[r] \in Orders
    /\ statement[r] = "none"
    /\ \/ /\ request[r] \in stockInbox
          /\ Rollback /\ Acknowledge(r)
          /\ UNCHANGED <<stockBatch, stockConfirmed, stockReturns, txnVars,
                         resultQ, retryQ, dlq, bound, faults>>
       \/ /\ request[r] \notin stockInbox
          /\ Goto(r, "checkAndLockStock", 1)
          /\ Inside /\ UNCHANGED <<event, inventories, holder>>

Decide(r, kind) == event' = [event EXCEPT ![r] = kind]

(* The loop of checkAndLockStock returns early: the order is refused. *)
Refuse(r) ==
    /\ Decide(r, "StockReservationFailed")
    /\ Goto(r, "insertInbox", 0)
    /\ UNCHANGED inventories

(* The row is remembered; after the last line every row is locked. *)
Remember(r) ==
    /\ inventories' = [inventories EXCEPT ![r] =
          [p \in DOMAIN @ \cup {Item(r).product} |->
              IF p = Item(r).product THEN Row(p) ELSE @[p]]]
    /\ IF LastLine(r)
       THEN Goto(r, "reserveStock", 1) /\ Decide(r, "StockReserved")
       ELSE Goto(r, "checkAndLockStock", line[r] + 1) /\ UNCHANGED event

Unknown(r) ==
    /\ Item(r).product \notin Stocked
    /\ Refuse(r) /\ UNCHANGED holder

(* Mutant of LockRow: the row is read without FOR UPDATE. *)
LockRowUnlocked(r) ==
    /\ Item(r).product \in Stocked
    /\ IF available[Item(r).product] < Item(r).quantity THEN Refuse(r) ELSE Remember(r)
    /\ UNCHANGED holder

(* SELECT ... FOR UPDATE waits until no other transaction holds the row and *)
(* then returns its last committed version.                                 *)
LockRow(r) ==
    /\ Item(r).product \in Stocked
    /\ holder[Item(r).product] \in {None, r}
    /\ holder' = [holder EXCEPT ![Item(r).product] = r]
    /\ IF available[Item(r).product] < Item(r).quantity THEN Refuse(r) ELSE Remember(r)

CheckAndLockStock(r) ==
    /\ statement[r] = "checkAndLockStock"
    /\ Unknown(r) \/ LockRow(r)
    /\ Inside

(* The reservation row of this line exists: another copy of the request     *)
(* committed since isMessageProcessed, or an earlier line has the product.  *)
ReservationExists(r) ==
    \/ \E x \in reservations :
          x.order = request[r] /\ x.product = Item(r).product
    \/ \E i \in 1..(line[r] - 1) :
          Items[request[r]][i].product = Item(r).product

(* One turn of the loop of reserveStock: an UPDATE of a row that is locked, *)
(* and the insert of the reservation.                                       *)
ReserveLine(r) ==
    /\ statement[r] = "reserveStock"
    /\ \/ ReservationExists(r) /\ Abort(r) /\ UNCHANGED faults
       \/ /\ ~ReservationExists(r)
          /\ IF LastLine(r) THEN Goto(r, "insertInbox", 0)
                            ELSE Goto(r, "reserveStock", line[r] + 1)
          /\ Inside /\ UNCHANGED <<event, inventories, holder>>

(* Mutant of InsertInbox: message_id is not UNIQUE. *)
InsertInboxAnyway(r) ==
    /\ statement[r] = "insertInbox"
    /\ Goto(r, "commit", 0)
    /\ Inside /\ UNCHANGED <<event, inventories, holder>>

(* insertOutbox meets no constraint; insertInbox waits for the transaction  *)
(* that has inserted the same message_id, and fails if it committed.        *)
InsertInbox(r) ==
    /\ statement[r] = "insertInbox"
    /\ \A s \in InventoryReplicas : statement[s] = "commit" => request[s] # request[r]
    /\ \/ request[r] \in stockInbox /\ Abort(r) /\ UNCHANGED faults
       \/ /\ request[r] \notin stockInbox
          /\ Goto(r, "commit", 0)
          /\ Inside /\ UNCHANGED <<event, inventories, holder>>

(* The absolute quantities reserveStock wrote from the rows it had read; of *)
(* two lines for one product the later one would win.                       *)
Written(r, p) ==
    IF event[r] = "StockReserved" /\ p \in DOMAIN inventories[r]
    THEN [available |-> inventories[r][p].available - Taken(request[r], p),
          reserved |-> inventories[r][p].reserved + Taken(request[r], p)]
    ELSE Row(p)

(* COMMIT; its reply may be lost, and the request is then requeued. *)
CommitTransaction(r) ==
    /\ statement[r] = "commit"
    /\ available' = [p \in Stocked |-> Written(r, p).available]
    /\ reserved' = [p \in Stocked |-> Written(r, p).reserved]
    /\ reservations' = reservations \cup
          (IF event[r] = "StockReserved" THEN ReservationsOf(request[r]) ELSE {})
    /\ InsertOutbox(request[r], event[r])
    /\ stockInbox' = stockInbox \cup {request[r]}
    /\ EndTransaction(r)
    /\ \/ Acknowledge(r) /\ UNCHANGED faults
       \/ Requeue(r) /\ Fault
    /\ UNCHANGED <<stockBatch, stockConfirmed, stockReturns, resultQ, retryQ, dlq, bound>>

(* A statement fails or the processing deadline passes. *)
StatementFails(r) ==
    /\ statement[r] # "none"
    /\ Fault /\ Abort(r)

WaitsFor(r, s) ==
    /\ r # s /\ statement[r] = "checkAndLockStock"
    /\ Item(r).product \in Stocked /\ holder[Item(r).product] = s

(* Each of these transactions waits for one of them and keeps one waiting;  *)
(* as nobody waits for two, they form one or more cycles.                   *)
Deadlocked(group) ==
    \A r \in group : /\ \E s \in group : WaitsFor(r, s)
                     /\ \E s \in group : WaitsFor(s, r)

(* PostgreSQL aborts a transaction of a cycle of waiting ones. *)
DeadlockVictim(r) ==
    /\ \E group \in SUBSET InventoryReplicas : r \in group /\ Deadlocked(group)
    /\ Abort(r) /\ UNCHANGED faults

(* The process stops: its connection closes and its transaction is undone. *)
ReplicaCrash(r) == InventoryCrash(r) /\ EndTransaction(r)

Transaction(r) ==
    \/ IsMessageProcessed(r) \/ CheckAndLockStock(r) \/ ReserveLine(r)
    \/ InsertInbox(r) \/ CommitTransaction(r)

(* The consumer around it. *)
Consume(r) ==
    /\ \/ \E m \in Requests : ReceiveRequest(r, m)
       \/ DropRequest(r)
       \/ AckRequest(r)
    /\ UNCHANGED txnVars

Next ==
    \E r \in InventoryReplicas :
        \/ Consume(r) \/ Transaction(r)
        \/ StatementFails(r) \/ DeadlockVictim(r) \/ ReplicaCrash(r)

Spec == Init /\ [][Next]_reservationVars

(* A statement returns, PostgreSQL breaks deadlocks, an idle consumer gets  *)
(* some request that is waiting.  A transaction that waits for a row gets   *)
(* it when it is free again and again: new transactions do not overtake it  *)
(* for ever.                                                                *)
FairSpec ==
    /\ Spec
    /\ \A r \in InventoryReplicas :
          /\ WF_reservationVars(Transaction(r))
          /\ \A i \in UNION {Lines(o) : o \in Orders} :
                SF_reservationVars(CheckAndLockStock(r) /\ line[r] = i)
          /\ WF_reservationVars(Consume(r))
    /\ WF_reservationVars(\E r \in InventoryReplicas : DeadlockVictim(r))

-----------------------------------------------------------------------------
(* Types of the transactions: open ones belong to a request in hand, and    *)
(* an insert of the inbox row is not done twice at once.                    *)
TypeOK ==
    /\ InventoryTypeOK
    /\ statement \in [InventoryReplicas -> Statements]
    /\ event \in [InventoryReplicas -> Kinds \cup {"none"}]
    /\ holder \in [Stocked -> InventoryReplicas \cup {None}]
    /\ \A r \in InventoryReplicas :
          statement[r] # "none" => step[r] = "handle" /\ request[r] \in Orders
    /\ \A r, s \in InventoryReplicas :
          statement[r] = "commit" /\ statement[s] = "commit" /\ request[r] = request[s]
            => r = s

(* reserveStock computes absolute quantities from rows it read statements   *)
(* ago: as long as it may write them, the rows are locked by it and nobody  *)
(* has changed them, so no update of another replica is overwritten.        *)
ReadRowsAreCurrent ==
    \A r \in InventoryReplicas : \A p \in DOMAIN inventories[r] :
        holder[p] = r /\ inventories[r][p] = Row(p)

(* The statements, in any interleaving of the replicas, amount to the one   *)
(* step of InventoryService: the transaction commits what it would commit   *)
(* alone, at the moment of its commit, or nothing.                          *)
ImplementsInventoryService ==
    RequestsWaiting /\ [][InventoryNext]_<<brokerVars, inventoryVars>>

(* Every request ends in the inbox with no copy left, through deadlocks,    *)
(* races between copies of one request, lost replies and crashes.  (The     *)
(* outbox relay does not run in this module, so it cannot stall the         *)
(* connection it shares with the consumer; see OrderDecidedOrDeadLettered.) *)
EveryRequestSettled ==
    \A o \in Orders : (requestQ[o] > 0) ~> (o \in stockInbox /\ requestQ[o] = 0)
=============================================================================

----------------------- MODULE StockReservationProofs -----------------------
(***************************************************************************)
(* The statements of the reservation transactions implement the one step   *)
(* of InventoryService, for any number of replicas, orders and lines: a    *)
(* transaction keeps locked what it has read, so that at its commit the    *)
(* stock it decided on and the rows it overwrites are the committed ones.  *)
(***************************************************************************)
EXTENDS StockReservation, InventoryProofs

(* The rows r has read are locked and unchanged. *)
Current(r) ==
    /\ DOMAIN inventories[r] \subseteq Stocked
    /\ \A p \in DOMAIN inventories[r] :
          holder[p] = r /\ inventories[r][p] = Row(p)

(* Line i of the request has been checked against a row r has read.        *)
Checked(r, i) ==
    LET item == Items[request[r]][i]
    IN  item.product \in DOMAIN inventories[r]
        /\ item.quantity <= inventories[r][item.product].available

(* The lines whose reservations are inserted: no two for one product.      *)
Inserted(r) ==
    IF statement[r] = "reserveStock" THEN 1..(line[r] - 1) ELSE Lines(request[r])

(* Some line cannot be served, and that will stay so until r commits.      *)
Short(r) ==
    \E i \in Lines(request[r]) :
        LET item == Items[request[r]][i]
        IN  item.product \in Stocked =>
                holder[item.product] = r /\ available[item.product] < item.quantity

(* What a transaction knows at each statement. *)
Progress(r) ==
    /\ statement[r] \in {"checkAndLockStock", "reserveStock"} =>
          line[r] \in Lines(request[r])
    /\ statement[r] = "checkAndLockStock" => \A i \in 1..(line[r] - 1) : Checked(r, i)
    /\ statement[r] \in {"none", "checkAndLockStock"} => event[r] = "none"
    /\ statement[r] = "reserveStock" => event[r] = "StockReserved"
    /\ statement[r] \in {"insertInbox", "commit"} => event[r] \in Kinds

Decision(r) ==
    /\ event[r] = "StockReserved" =>
          /\ \A i \in Lines(request[r]) : Checked(r, i)
          /\ \A i, j \in Inserted(r) :
                Items[request[r]][i].product = Items[request[r]][j].product => i = j
    /\ event[r] = "StockReservationFailed" => Short(r)

(* Another transaction may have handled a copy of the request, but not      *)
(* after the inbox row was inserted.                                        *)
InboxRace(r) ==
    /\ statement[r] # "none" /\ request[r] \in stockInbox => InventoryReplicas # {r}
    /\ statement[r] = "commit" => request[r] \notin stockInbox

ReplicaInv(r) == Current(r) /\ Progress(r) /\ Decision(r) /\ InboxRace(r)

ReservationInv ==
    /\ TypeOK
    /\ line \in [InventoryReplicas -> Nat] /\ DOMAIN inventories = InventoryReplicas
    /\ \A r \in InventoryReplicas : ReplicaInv(r)
    /\ \A x \in reservations : x.order \in stockInbox

-----------------------------------------------------------------------------
LEMMA LineRange ==
  ASSUME NEW o \in Orders
  PROVE  /\ Len(Items[o]) \in Nat \ {0} /\ Lines(o) = 1..Len(Items[o])
         /\ 1 \in Lines(o)
<1> DEFINE S == [product: Products, quantity: Nat \ {0}]
<1>1. Items[o] \in Seq(S) /\ Items[o] # <<>>
  BY InventoryAssumption
<1> HIDE DEF S
<1> QED BY <1>1 DEF Lines

LEMMA InitReservation == Init => ReservationInv
<1> SUFFICES ASSUME Init PROVE ReservationInv
  OBVIOUS
<1> USE DEF Init, RequestsWaiting, InventoryInit
<1>1. InventoryTypeOK
  BY InventoryAssumption DEF InventoryTypeOK, StockRelay!RowStates
<1>2. TypeOK
  BY <1>1 DEF TypeOK, Statements
<1>3. ASSUME NEW r \in InventoryReplicas PROVE ReplicaInv(r)
  <2>1. inventories[r] = <<>> /\ DOMAIN <<>> = {}
    OBVIOUS
  <2>2. Current(r)
    BY <2>1 DEF Current
  <2>3. Progress(r) /\ Decision(r) /\ InboxRace(r)
    BY DEF Progress, Decision, InboxRace
  <2> QED BY <2>2, <2>3 DEF ReplicaInv
<1>4. line \in [InventoryReplicas -> Nat] /\ DOMAIN inventories = InventoryReplicas
      /\ reservations = {}
  OBVIOUS
<1> QED BY <1>2, <1>3, <1>4 DEF ReservationInv

-----------------------------------------------------------------------------
(* What a transaction decides holds of the stock as committed. *)

LEMMA ReservedFits ==
  ASSUME ReservationInv, NEW r \in InventoryReplicas, request[r] \in Orders,
         event[r] = "StockReserved"
  PROVE  /\ InStock(request[r])
         /\ \A i \in Lines(request[r]) : Items[request[r]][i].product \in DOMAIN inventories[r]
<1>1. Current(r) /\ \A i \in Lines(request[r]) : Checked(r, i)
  BY DEF ReservationInv, ReplicaInv, Decision
<1>2. ASSUME NEW i \in Lines(request[r])
      PROVE  LET p == Items[request[r]][i].product
             IN  /\ p \in DOMAIN inventories[r] /\ p \in Stocked
                 /\ Items[request[r]][i].quantity <= available[p]
  <2> DEFINE p == Items[request[r]][i].product
  <2>1. p \in DOMAIN inventories[r]
        /\ Items[request[r]][i].quantity <= inventories[r][p].available
    BY <1>1 DEF Checked
  <2>2. p \in Stocked /\ inventories[r][p] = Row(p)
    BY <1>1, <2>1 DEF Current
  <2>3. Row(p).available = available[p]
    BY DEF Row
  <2> QED BY <2>1, <2>2, <2>3
<1> QED BY <1>2 DEF InStock

LEMMA ShortIsShort ==
  ASSUME NEW r \in InventoryReplicas, request[r] \in Orders, Short(r),
         available \in [Stocked -> Nat]
  PROVE  ~InStock(request[r])
<1> SUFFICES ASSUME InStock(request[r]) PROVE FALSE
  OBVIOUS
<1>1. PICK i \in Lines(request[r]) :
         LET item == Items[request[r]][i]
         IN  item.product \in Stocked =>
                 holder[item.product] = r /\ available[item.product] < item.quantity
  BY DEF Short
<1>2. Items[request[r]][i].quantity \in Nat
  BY LineType
<1> QED BY <1>1, <1>2 DEF InStock

(* A product of no line is not taken. *)
LEMMA NotTaken ==
  ASSUME NEW o \in Orders, NEW p, \A i \in Lines(o) : Items[o][i].product # p
  PROVE  Taken(o, p) = 0
  BY DEF Taken

(* Before the commit nothing of the order is reserved and no line repeats.  *)
LEMMA CommitIsUnique ==
  ASSUME ReservationInv, NEW r \in InventoryReplicas, statement[r] = "commit",
         event[r] = "StockReserved"
  PROVE  ~UniqueViolation(request[r])
<1>1. request[r] \notin stockInbox
  BY DEF ReservationInv, ReplicaInv, InboxRace
<1>2. \A x \in reservations : x.order # request[r]
  BY <1>1 DEF ReservationInv
<1>3. \A i, j \in Lines(request[r]) :
         Items[request[r]][i].product = Items[request[r]][j].product => i = j
  BY DEF ReservationInv, ReplicaInv, Decision, Inserted
<1> QED BY <1>2, <1>3 DEF UniqueViolation

LEMMA CommitDecides ==
  ASSUME ReservationInv, NEW r \in InventoryReplicas, CommitTransaction(r)
  PROVE  Commit(request[r])
<1> DEFINE o == request[r]
<1>t. /\ o \in Orders /\ available \in [Stocked -> Nat] /\ reserved \in [Stocked -> Nat]
      /\ statement[r] = "commit"
  BY DEF ReservationInv, TypeOK, InventoryTypeOK, CommitTransaction
<1>k. event[r] \in Kinds /\ o \notin stockInbox /\ Current(r) /\ Decision(r)
  BY <1>t DEF ReservationInv, ReplicaInv, Progress, InboxRace
<1>1. CASE event[r] = "StockReserved"
  <2>1. InStock(o) /\ \A i \in Lines(o) : Items[o][i].product \in DOMAIN inventories[r]
    BY <1>t, <1>1, ReservedFits
  <2>2. ~UniqueViolation(o)
    BY <1>t, <1>1, CommitIsUnique
  <2>3. ASSUME NEW p \in Stocked
        PROVE  /\ Written(r, p).available = available[p] - Taken(o, p)
               /\ Written(r, p).reserved = reserved[p] + Taken(o, p)
    <3>1. CASE p \in DOMAIN inventories[r]
      <4>1. inventories[r][p] = Row(p)
        BY <1>k, <3>1 DEF Current
      <4>2. inventories[r][p].available = available[p]
            /\ inventories[r][p].reserved = reserved[p]
        BY <4>1 DEF Row
      <4> QED BY <1>1, <3>1, <4>2 DEF Written
    <3>2. CASE p \notin DOMAIN inventories[r]
      <4>1. Taken(o, p) = 0
        BY <1>t, <2>1, <3>2, NotTaken
      <4> QED BY <1>t, <3>2, <4>1 DEF Written, Row
    <3> QED BY <3>1, <3>2
  <2>4. /\ available' = [p \in Stocked |-> available[p] - Taken(o, p)]
        /\ reserved' = [p \in Stocked |-> reserved[p] + Taken(o, p)]
    BY <2>3 DEF CommitTransaction
  <2> QED BY <1>1, <1>k, <2>1, <2>2, <2>4 DEF CommitTransaction, Commit, ReserveStock
<1>2. CASE event[r] = "StockReservationFailed"
  <2>1. ~InStock(o)
    BY <1>2, <1>k, <1>t, ShortIsShort DEF Decision
  <2>2. \A p \in Stocked : Written(r, p).available = available[p]
                           /\ Written(r, p).reserved = reserved[p]
    BY <1>2 DEF Written, Row
  <2>3. UNCHANGED <<available, reserved, reservations>>
    BY <1>2, <1>t, <2>2 DEF CommitTransaction
  <2> QED BY <1>2, <1>k, <2>1, <2>3 DEF CommitTransaction, Commit, RefuseStock
<1> QED BY <1>1, <1>2, <1>k DEF Kinds

-----------------------------------------------------------------------------
(* Each statement is a step of InventoryService or invisible to it. *)

InventoryStep(r) ==
    \/ \E m \in Requests : ReceiveRequest(r, m)
    \/ DropRequest(r)
    \/ HandleReserveStockRequested(r)
    \/ AckRequest(r)
    \/ InventoryCrash(r)
    \/ Inside

(* A rollback by PostgreSQL is the abstract Conflict. *)
LEMMA AbortIsHandled ==
  ASSUME ReservationInv, NEW r \in InventoryReplicas, statement[r] # "none",
         Abort(r), UNCHANGED faults, Conflict(r, request[r])
  PROVE  InventoryStep(r)
<1>1. step[r] = "handle" /\ request[r] \in Orders
  BY DEF ReservationInv, TypeOK
<1> QED BY <1>1 DEF Abort, InventoryStep, HandleReserveStockRequested, Requeue

LEMMA InboxConflict ==
  ASSUME ReservationInv, NEW r \in InventoryReplicas, statement[r] # "none",
         request[r] \in stockInbox
  PROVE  Conflict(r, request[r])
  BY DEF ReservationInv, ReplicaInv, InboxRace, Conflict

(* A line that violates UNIQUE is one of an order another replica has       *)
(* handled, or repeats a product: in the abstract step as well.             *)
LEMMA ReserveLineConflict ==
  ASSUME ReservationInv, NEW r \in InventoryReplicas, statement[r] = "reserveStock",
         ReservationExists(r)
  PROVE  Conflict(r, request[r])
<1>1. request[r] \in Orders /\ event[r] = "StockReserved" /\ line[r] \in Lines(request[r])
  BY DEF ReservationInv, TypeOK, ReplicaInv, Progress
<1>2. CASE request[r] \in stockInbox
  BY <1>2, InboxConflict
<1>3. CASE request[r] \notin stockInbox
  <2>1. \A x \in reservations : x.order # request[r]
    BY <1>3 DEF ReservationInv
  <2>2. PICK i \in 1..(line[r] - 1) : Items[request[r]][i].product = Item(r).product
    BY <2>1 DEF ReservationExists
  <2>3. i \in Lines(request[r]) /\ i # line[r]
    BY <1>1, <2>2, LineRange
  <2>4. UniqueViolation(request[r])
    BY <1>1, <2>2, <2>3 DEF UniqueViolation, Item
  <2> QED BY <1>1, <1>3, <2>4, ReservedFits DEF Conflict
<1> QED BY <1>2, <1>3

LEMMA StepImplements ==
  ASSUME ReservationInv, NEW r \in InventoryReplicas,
         \/ Consume(r) \/ Transaction(r)
         \/ StatementFails(r) \/ DeadlockVictim(r) \/ ReplicaCrash(r)
  PROVE  InventoryStep(r)
<1>1. CASE Consume(r)
  BY <1>1 DEF Consume, InventoryStep
<1>2. CASE IsMessageProcessed(r)
  BY <1>2 DEF IsMessageProcessed, InventoryStep, HandleReserveStockRequested, Acknowledge
<1>3. CASE CheckAndLockStock(r)
  BY <1>3 DEF CheckAndLockStock, InventoryStep
<1>4. CASE ReserveLine(r)
  BY <1>4, ReserveLineConflict, AbortIsHandled DEF ReserveLine, InventoryStep
<1>5. CASE InsertInbox(r)
  BY <1>5, InboxConflict, AbortIsHandled DEF InsertInbox, InventoryStep
<1>6. CASE CommitTransaction(r)
  <2>1. Commit(request[r])
    BY <1>6, CommitDecides
  <2>2. step[r] = "handle" /\ request[r] \in Orders
    BY <1>6 DEF CommitTransaction, ReservationInv, TypeOK
  <2> QED BY <1>6, <2>1, <2>2
          DEF CommitTransaction, Acknowledge, InventoryStep, HandleReserveStockRequested
<1>7. CASE StatementFails(r)
  <2>1. step[r] = "handle" /\ request[r] \in Orders
    BY <1>7 DEF StatementFails, ReservationInv, TypeOK
  <2> QED BY <1>7, <2>1
          DEF StatementFails, Abort, InventoryStep, HandleReserveStockRequested
<1>8. CASE DeadlockVictim(r)
  <2>1. PICK s \in InventoryReplicas : WaitsFor(r, s)
    BY <1>8 DEF DeadlockVictim, Deadlocked
  <2>2. InventoryReplicas # {r} /\ statement[r] # "none"
    BY <2>1 DEF WaitsFor
  <2> QED BY <1>8, <2>2, AbortIsHandled DEF DeadlockVictim, Conflict
<1>9. CASE ReplicaCrash(r)
  BY <1>9 DEF ReplicaCrash, InventoryStep
<1> QED BY <1>1, <1>2, <1>3, <1>4, <1>5, <1>6, <1>7, <1>8, <1>9 DEF Transaction

LEMMA StepTypes ==
  ASSUME InventoryTypeOK, NEW r \in InventoryReplicas, InventoryStep(r)
  PROVE  InventoryTypeOK'
<1> USE DEF InventoryTypeOK, stockVars, stockRelayVars
<1>1. ASSUME NEW m \in Requests, ReceiveRequest(r, m) PROVE InventoryTypeOK'
  BY <1>1 DEF ReceiveRequest
<1>2. CASE DropRequest(r) \/ AckRequest(r)
  BY <1>2 DEF DropRequest, AckRequest, Done
<1>3. CASE HandleReserveStockRequested(r)
  <2>1. request[r] \in Orders /\ UNCHANGED <<stockBatch, stockConfirmed, stockReturns>>
    BY <1>3 DEF HandleReserveStockRequested
  <2>2. /\ step' \in [InventoryReplicas -> {"idle", "handle", "ack"}]
        /\ request' \in [InventoryReplicas -> Requests \cup {None}]
    BY <1>3 DEF HandleReserveStockRequested, Requeue, Done
  <2>3. Rollback \/ Commit(request[r])
    BY <1>3 DEF HandleReserveStockRequested
  <2> QED BY <2>1, <2>2, <2>3, CommitTypes DEF Rollback
<1>4. CASE InventoryCrash(r)
  BY <1>4 DEF InventoryCrash, StockRelay!Forget, StockRelay!Reconnect, handlerVars, Requeue, Done
<1>5. CASE Inside
  BY <1>5 DEF Inside, inventoryVars, handlerVars
<1> QED BY <1>1, <1>2, <1>3, <1>4, <1>5 DEF InventoryStep

-----------------------------------------------------------------------------
(* What a step of r does to the transactions beside it. *)

Kept(r) ==
    /\ \A s \in InventoryReplicas \ {r} :
          /\ request'[s] = request[s] /\ statement'[s] = statement[s]
          /\ line'[s] = line[s] /\ event'[s] = event[s]
          /\ inventories'[s] = inventories[s]
    /\ \A p \in Stocked : holder[p] \notin {r, None} =>
          /\ holder'[p] = holder[p]
          /\ available'[p] = available[p] /\ reserved'[p] = reserved[p]
    /\ \A o \in stockInbox' \ stockInbox : o = request[r] /\ statement[r] = "commit"

(* Nobody writes a row another transaction has locked, and nobody commits   *)
(* an inbox row beside another transaction that has inserted it.            *)
LEMMA Bystander ==
  ASSUME ReservationInv, NEW r \in InventoryReplicas, Kept(r),
         NEW s \in InventoryReplicas, s # r
  PROVE  ReplicaInv(s)'
<1>i. Current(s) /\ Progress(s) /\ Decision(s) /\ InboxRace(s)
  BY DEF ReservationInv, ReplicaInv
<1>t. s # None /\ request' [s] = request[s] /\ statement'[s] = statement[s]
      /\ line'[s] = line[s] /\ event'[s] = event[s] /\ inventories'[s] = inventories[s]
  BY ReservationAssumption DEF Kept
<1>1. \A p \in Stocked : holder[p] = s =>
         holder'[p] = s /\ available'[p] = available[p] /\ reserved'[p] = reserved[p]
  BY <1>t DEF Kept
<1>2. Current(s)'
  BY <1>i, <1>t, <1>1 DEF Current, Row
<1>3. Progress(s)'
  BY <1>i, <1>t DEF Progress, Checked
<1>4. Decision(s)'
  <2>1. ASSUME event[s] = "StockReserved"
        PROVE  /\ \A i \in Lines(request[s]) : Checked(s, i)'
               /\ \A i, j \in Inserted(s)' :
                    Items[request[s]][i].product = Items[request[s]][j].product => i = j
    BY <1>i, <1>t, <2>1 DEF Decision, Checked, Inserted
  <2>2. ASSUME event[s] = "StockReservationFailed" PROVE Short(s)'
    BY <1>i, <1>t, <1>1, <2>2 DEF Decision, Short
  <2> QED BY <1>t, <2>1, <2>2 DEF Decision
<1>5. InboxRace(s)'
  <2>1. InventoryReplicas # {s}
    OBVIOUS
  <2>2. ASSUME statement[s] = "commit" PROVE request[s] \notin stockInbox'
    BY <1>i, <2>2 DEF InboxRace, Kept, ReservationInv, TypeOK
  <2> QED BY <1>t, <2>1, <2>2 DEF InboxRace
<1> QED BY <1>2, <1>3, <1>4, <1>5 DEF ReplicaInv

(* What remains to be shown of a step of r. *)
LEMMA StepOf ==
  ASSUME ReservationInv, NEW r \in InventoryReplicas, Kept(r), TypeOK',
         line' \in [InventoryReplicas -> Nat], DOMAIN inventories' = InventoryReplicas,
         ReplicaInv(r)', \A x \in reservations' : x.order \in stockInbox'
  PROVE  ReservationInv'
<1>1. \A s \in InventoryReplicas : ReplicaInv(s)'
  BY Bystander
<1> QED BY <1>1 DEF ReservationInv

(* Between transactions nothing is known and nothing has to hold. *)
LEMMA AtRest ==
  ASSUME NEW r \in InventoryReplicas, statement'[r] = "none", event'[r] = "none",
         Current(r)'
  PROVE  ReplicaInv(r)'
  BY DEF ReplicaInv, Progress, Decision, InboxRace

(* The steps of the consumer around the transaction. *)
LEMMA ConsumeKeeps ==
  ASSUME ReservationInv, InventoryTypeOK', NEW r \in InventoryReplicas,
         statement[r] = "none", UNCHANGED <<txnVars, stockVars>>,
         NEW k, request' = [request EXCEPT ![r] = k],
         NEW l, step' = [step EXCEPT ![r] = l]
  PROVE  ReservationInv'
<1> USE DEF txnVars, stockVars
<1>1. Kept(r)
  BY DEF Kept, ReservationInv, TypeOK, InventoryTypeOK
<1>2. TypeOK'
  BY DEF ReservationInv, TypeOK, InventoryTypeOK
<1>3. ReplicaInv(r)'
  <2>1. Current(r)'
    BY DEF ReservationInv, ReplicaInv, Current, Row
  <2>2. event[r] = "none"
    BY DEF ReservationInv, ReplicaInv, Progress
  <2> QED BY <2>1, <2>2, AtRest
<1> QED BY <1>1, <1>2, <1>3, StepOf DEF ReservationInv

(* The end of a transaction that wrote nothing. *)
LEMMA EndKeeps ==
  ASSUME ReservationInv, InventoryTypeOK', NEW r \in InventoryReplicas,
         EndTransaction(r), UNCHANGED stockVars,
         NEW k, request' = [request EXCEPT ![r] = k],
         NEW l, step' = [step EXCEPT ![r] = l]
  PROVE  ReservationInv'
<1> USE DEF stockVars, EndTransaction, Goto
<1>1. Kept(r)
  BY DEF Kept, ReservationInv, TypeOK, InventoryTypeOK
<1>2. TypeOK'
  BY DEF ReservationInv, TypeOK, InventoryTypeOK, Statements
<1>3. ReplicaInv(r)'
  <2>1. statement'[r] = "none" /\ event'[r] = "none" /\ inventories'[r] = <<>>
    BY DEF ReservationInv, TypeOK
  <2>2. Current(r)'
    BY <2>1 DEF Current
  <2> QED BY <2>1, <2>2, AtRest
<1> QED BY <1>1, <1>2, <1>3, StepOf DEF ReservationInv

(* A statement inside the transaction. *)
LEMMA InsideKeeps ==
  ASSUME ReservationInv, NEW r \in InventoryReplicas, Inside,
         step[r] = "handle", request[r] \in Orders,
         Goto(r, statement'[r], line'[r]), statement'[r] \in Statements, line'[r] \in Nat,
         event' = [event EXCEPT ![r] = event'[r]], event'[r] \in Kinds \cup {"none"},
         DOMAIN inventories' = InventoryReplicas,
         \A t \in InventoryReplicas \ {r} : inventories'[t] = inventories[t],
         holder' \in [Stocked -> InventoryReplicas \cup {None}],
         \A p \in Stocked : holder[p] \notin {r, None} => holder'[p] = holder[p],
         statement'[r] = "commit" => \A t \in InventoryReplicas :
                           statement[t] = "commit" => request[t] # request[r],
         ReplicaInv(r)'
  PROVE  ReservationInv'
<1> USE DEF Inside, inventoryVars, stockVars, stockRelayVars, handlerVars, Goto
<1>1. Kept(r)
  BY DEF Kept, ReservationInv, TypeOK, InventoryTypeOK
<1>2. TypeOK'
  <2>1. InventoryTypeOK'
    BY DEF ReservationInv, TypeOK, InventoryTypeOK
  <2>2. statement' \in [InventoryReplicas -> Statements]
        /\ event' \in [InventoryReplicas -> Kinds \cup {"none"}]
    BY DEF ReservationInv, TypeOK
  <2>3. \A t \in InventoryReplicas :
           statement'[t] # "none" => step'[t] = "handle" /\ request'[t] \in Orders
    BY DEF ReservationInv, TypeOK
  <2>4. \A t, u \in InventoryReplicas :
           statement'[t] = "commit" /\ statement'[u] = "commit" /\ request'[t] = request'[u]
             => t = u
    BY DEF ReservationInv, TypeOK
  <2> QED BY <2>1, <2>2, <2>3, <2>4 DEF TypeOK
<1>3. /\ line' \in [InventoryReplicas -> Nat]
      /\ DOMAIN inventories' = InventoryReplicas
      /\ \A x \in reservations' : x.order \in stockInbox'
  BY DEF ReservationInv
<1> QED BY <1>1, <1>2, <1>3, StepOf

LEMMA BeginKeeps ==
  ASSUME ReservationInv, NEW r \in InventoryReplicas, InventoryTypeOK',
         IsMessageProcessed(r)
  PROVE  ReservationInv'
<1>t. /\ step[r] = "handle" /\ request[r] \in Orders /\ statement[r] = "none"
      /\ event[r] = "none"
  BY DEF IsMessageProcessed, ReservationInv, ReplicaInv, Progress
<1>1. CASE request[r] \in stockInbox
  <2>1. UNCHANGED <<txnVars, stockVars>> /\ step' = [step EXCEPT ![r] = "ack"]
        /\ request' = [request EXCEPT ![r] = request[r]]
    BY <1>1 DEF IsMessageProcessed, Rollback, Acknowledge, ReservationInv, TypeOK,
                InventoryTypeOK
  <2> QED BY <1>t, <2>1, ConsumeKeeps
<1>2. CASE request[r] \notin stockInbox
  <2>1. /\ Goto(r, "checkAndLockStock", 1) /\ Inside
        /\ UNCHANGED <<event, inventories, holder>>
    BY <1>2 DEF IsMessageProcessed
  <2>3. /\ statement'[r] = "checkAndLockStock" /\ line'[r] = 1
        /\ event'[r] = "none" /\ inventories'[r] = inventories[r]
        /\ UNCHANGED <<request, stockInbox, available, reserved>>
    BY <1>t, <2>1 DEF Goto, Inside, inventoryVars, stockVars, handlerVars,
                      ReservationInv, TypeOK
  <2>4. ReplicaInv(r)'
    <3>1. Current(r)'
      BY <2>1, <2>3 DEF ReservationInv, ReplicaInv, Current, Row
    <3>2. Progress(r)'
      BY <1>t, <2>3, LineRange DEF Progress
    <3>3. Decision(r)' /\ InboxRace(r)'
      BY <1>2, <2>3 DEF Decision, InboxRace
    <3> QED BY <3>1, <3>2, <3>3 DEF ReplicaInv
  <2>5. /\ event' = [event EXCEPT ![r] = event'[r]]
        /\ DOMAIN inventories' = InventoryReplicas
        /\ \A t \in InventoryReplicas \ {r} : inventories'[t] = inventories[t]
        /\ holder' \in [Stocked -> InventoryReplicas \cup {None}]
        /\ \A p \in Stocked : holder'[p] = holder[p]
    BY <2>1 DEF ReservationInv, TypeOK
  <2>6. /\ Goto(r, statement'[r], line'[r])
        /\ statement'[r] \in Statements /\ line'[r] \in Nat
        /\ event'[r] \in Kinds \cup {"none"} /\ statement'[r] # "commit"
    BY <2>1, <2>3 DEF Statements
  <2> QED BY <1>t, <2>1, <2>4, <2>5, <2>6, InsideKeeps
<1> QED BY <1>1, <1>2

(* checkAndLockStock: the row is locked before it is judged. *)
LEMMA CheckKeeps ==
  ASSUME ReservationInv, NEW r \in InventoryReplicas, CheckAndLockStock(r)
  PROVE  ReservationInv'
<1> DEFINE n == line[r]
           p == Item(r).product
<1>t. /\ step[r] = "handle" /\ request[r] \in Orders
      /\ statement[r] = "checkAndLockStock" /\ event[r] = "none"
      /\ n \in Nat /\ n \in Lines(request[r]) /\ DOMAIN inventories = InventoryReplicas
      /\ statement \in [InventoryReplicas -> Statements] /\ line \in [InventoryReplicas -> Nat]
      /\ event \in [InventoryReplicas -> Kinds \cup {"none"}]
      /\ holder \in [Stocked -> InventoryReplicas \cup {None}]
      /\ Current(r) /\ InboxRace(r) /\ \A i \in 1..(n - 1) : Checked(r, i)
      /\ available \in [Stocked -> Nat]
  BY DEF CheckAndLockStock, ReservationInv, TypeOK, InventoryTypeOK, ReplicaInv, Progress
<1>u. Inside /\ UNCHANGED <<request, stockInbox, available, reserved>>
  BY DEF CheckAndLockStock, Inside, inventoryVars, stockVars, handlerVars
<1>h. ASSUME p \in Stocked, holder' = [holder EXCEPT ![p] = r], holder[p] \in {None, r}
      PROVE  /\ holder' \in [Stocked -> InventoryReplicas \cup {None}]
             /\ holder'[p] = r
             /\ \A q \in Stocked : holder[q] = r => holder'[q] = r
             /\ \A q \in Stocked : holder[q] \notin {r, None} => holder'[q] = holder[q]
  BY <1>t, <1>h
<1>q. Item(r) = Items[request[r]][n] /\ Item(r).quantity \in Nat
  BY <1>t, LineType DEF Item
<1>i. InboxRace(r)' \/ statement'[r] = "commit"
  BY <1>t, <1>u DEF InboxRace
<1>1. ASSUME Refuse(r),
             p \in Stocked => holder'[p] = r /\ available[p] < Item(r).quantity,
             \A q \in Stocked : holder[q] = r => holder'[q] = r,
             holder' \in [Stocked -> InventoryReplicas \cup {None}],
             \A q \in Stocked : holder[q] \notin {r, None} => holder'[q] = holder[q]
      PROVE  ReservationInv'
  <2>1. /\ statement'[r] = "insertInbox" /\ line'[r] = 0
        /\ event'[r] = "StockReservationFailed" /\ UNCHANGED inventories
        /\ Goto(r, statement'[r], line'[r])
        /\ event' = [event EXCEPT ![r] = event'[r]]
    BY <1>t, <1>1 DEF Refuse, Goto, Decide
  <2>2. Current(r)'
    BY <1>t, <1>u, <1>1, <2>1 DEF Current, Row
  <2>3. Progress(r)'
    BY <2>1 DEF Progress, Kinds
  <2>4. Decision(r)'
    <3>1. Short(r)'
      BY <1>t, <1>u, <1>q, <1>1 DEF Short
    <3> QED BY <2>1, <3>1 DEF Decision
  <2>5. ReplicaInv(r)'
    BY <1>i, <2>1, <2>2, <2>3, <2>4 DEF ReplicaInv
  <2> QED BY <1>t, <1>u, <1>1, <2>1, <2>5, InsideKeeps DEF Statements, Kinds
<1>2. CASE Unknown(r)
  BY <1>1, <1>t, <1>2 DEF Unknown
<1>3. CASE LockRow(r) /\ available[p] < Item(r).quantity
  BY <1>1, <1>h, <1>3 DEF LockRow
<1>4. CASE LockRow(r) /\ Remember(r) /\ ~(available[p] < Item(r).quantity)
  <2>h. /\ p \in Stocked
        /\ holder' \in [Stocked -> InventoryReplicas \cup {None}]
        /\ holder'[p] = r
        /\ \A q \in Stocked : holder[q] = r => holder'[q] = r
        /\ \A q \in Stocked : holder[q] \notin {r, None} => holder'[q] = holder[q]
    BY <1>h, <1>4 DEF LockRow
  <2>1. /\ DOMAIN inventories' = InventoryReplicas
        /\ \A t \in InventoryReplicas \ {r} : inventories'[t] = inventories[t]
        /\ DOMAIN inventories'[r] = DOMAIN inventories[r] \cup {p}
        /\ inventories'[r][p] = Row(p)
        /\ \A q \in DOMAIN inventories[r] : q # p => inventories'[r][q] = inventories[r][q]
    BY <1>t, <1>4 DEF Remember
  <2>2. Current(r)'
    <3>1. \A q : Row(q)' = Row(q)
      BY <1>u DEF Row
    <3>2. ASSUME NEW q \in DOMAIN inventories'[r]
          PROVE  q \in Stocked /\ holder'[q] = r /\ inventories'[r][q] = Row(q)
      <4>1. CASE q = p
        BY <2>h, <2>1, <4>1
      <4>2. CASE q # p
        BY <1>t, <2>h, <2>1, <4>2 DEF Current
      <4> QED BY <4>1, <4>2
    <3> QED BY <3>1, <3>2 DEF Current
  <2>3. ASSUME NEW i \in 1..n PROVE Checked(r, i)'
    <3>1. CASE Items[request[r]][i].product = p
      <4>1. Items[request[r]][i].quantity <= available[p]
        <5>1. CASE i = n
          BY <1>q, <1>t, <1>4, <2>h, <5>1
        <5>2. CASE i # n
          <6>1. Checked(r, i)
            BY <1>t, <5>2
          <6>2. p \in DOMAIN inventories[r] /\ inventories[r][p] = Row(p)
            BY <1>t, <3>1, <6>1 DEF Checked, Current
          <6>3. inventories[r][p].available = available[p]
            BY <6>2 DEF Row
          <6> QED BY <3>1, <6>1, <6>3 DEF Checked
        <5> QED BY <5>1, <5>2
      <4>2. inventories'[r][p].available = available[p]
        BY <2>1 DEF Row
      <4> QED BY <1>u, <2>1, <3>1, <4>1, <4>2 DEF Checked
    <3>2. CASE Items[request[r]][i].product # p
      <4>1. i \in 1..(n - 1)
        BY <1>t, <1>q, <3>2
      <4> QED BY <1>t, <1>u, <2>1, <3>2, <4>1 DEF Checked
    <3> QED BY <3>1, <3>2
  <2>4. CASE LastLine(r)
    <3>1. /\ statement'[r] = "reserveStock" /\ line'[r] = 1
          /\ event'[r] = "StockReserved"
          /\ Goto(r, statement'[r], line'[r])
          /\ event' = [event EXCEPT ![r] = event'[r]]
      BY <1>t, <1>4, <2>4 DEF Remember, Goto, Decide
    <3>2. Progress(r)'
      BY <1>t, <1>u, <3>1, LineRange DEF Progress
    <3>3. Decision(r)'
      <4>1. \A i \in Lines(request[r]) : Checked(r, i)'
        BY <1>t, <2>3, <2>4, LineRange DEF LastLine
      <4>2. Inserted(r)' = {}
        BY <3>1 DEF Inserted
      <4> QED BY <1>u, <3>1, <4>1, <4>2 DEF Decision
    <3>4. ReplicaInv(r)'
      BY <1>i, <2>2, <3>1, <3>2, <3>3 DEF ReplicaInv
    <3> QED BY <1>t, <1>u, <2>h, <2>1, <3>1, <3>4, InsideKeeps DEF Statements, Kinds
  <2>5. CASE ~LastLine(r)
    <3>1. /\ statement'[r] = "checkAndLockStock" /\ line'[r] = n + 1
          /\ event'[r] = "none"
          /\ Goto(r, statement'[r], line'[r])
          /\ event' = [event EXCEPT ![r] = event'[r]]
      BY <1>t, <1>4, <2>5 DEF Remember, Goto
    <3>2. Progress(r)'
      <4>1. n + 1 \in Lines(request[r]) /\ 1..((n + 1) - 1) = 1..n
        BY <1>t, <2>5, LineRange DEF LastLine
      <4> QED BY <1>u, <2>3, <3>1, <4>1 DEF Progress
    <3>3. Decision(r)'
      BY <3>1 DEF Decision
    <3>4. ReplicaInv(r)'
      BY <1>i, <2>2, <3>1, <3>2, <3>3 DEF ReplicaInv
    <3> QED BY <1>t, <1>u, <2>h, <2>1, <3>1, <3>4, InsideKeeps DEF Statements, Kinds
  <2> QED BY <2>4, <2>5
<1> QED BY <1>2, <1>3, <1>4 DEF CheckAndLockStock, LockRow

(* reserveStock: an inserted line repeats no product of an earlier one. *)
LEMMA ReserveKeeps ==
  ASSUME ReservationInv, NEW r \in InventoryReplicas, InventoryTypeOK', ReserveLine(r)
  PROVE  ReservationInv'
<1> DEFINE n == line[r]
           items == Items[request[r]]
<1>t. /\ step[r] = "handle" /\ request[r] \in Orders
      /\ statement[r] = "reserveStock" /\ event[r] = "StockReserved"
      /\ n \in Nat /\ n \in Lines(request[r]) /\ DOMAIN inventories = InventoryReplicas
      /\ statement \in [InventoryReplicas -> Statements] /\ line \in [InventoryReplicas -> Nat]
      /\ event \in [InventoryReplicas -> Kinds \cup {"none"}]
      /\ holder \in [Stocked -> InventoryReplicas \cup {None}]
      /\ Current(r) /\ InboxRace(r) /\ Decision(r)
  BY DEF ReserveLine, ReservationInv, TypeOK, InventoryTypeOK, ReplicaInv, Progress
<1>1. CASE Abort(r)
  BY <1>1, EndKeeps DEF Abort, Requeue, Done, Rollback
<1>2. ASSUME ~ReservationExists(r), Inside, UNCHANGED <<event, inventories, holder>>,
             IF LastLine(r) THEN Goto(r, "insertInbox", 0)
                            ELSE Goto(r, "reserveStock", n + 1)
      PROVE  ReservationInv'
  <2>1. UNCHANGED <<request, stockInbox, available, reserved>>
    BY <1>2 DEF Inside, inventoryVars, stockVars, handlerVars
  <2>2. /\ IF LastLine(r) THEN statement'[r] = "insertInbox" /\ line'[r] = 0
                          ELSE statement'[r] = "reserveStock" /\ line'[r] = n + 1
        /\ Goto(r, statement'[r], line'[r])
        /\ event' = [event EXCEPT ![r] = event'[r]]
        /\ event'[r] = event[r] /\ inventories'[r] = inventories[r]
    BY <1>t, <1>2 DEF Goto
  <2>3. Current(r)'
    BY <1>t, <1>2, <2>1, <2>2 DEF Current, Row
  <2>4. Progress(r)'
    <3>1. ~LastLine(r) => n + 1 \in Lines(request[r])
      BY <1>t, LineRange DEF LastLine
    <3> QED BY <1>t, <2>1, <2>2, <3>1 DEF Progress, Kinds
  <2>5. Decision(r)'
    <3>1. Inserted(r) = 1..(n - 1) /\ Inserted(r)' = 1..n
      <4>1. LastLine(r) => Lines(request[r]) = 1..n
        BY <1>t, LineRange DEF LastLine
      <4> QED BY <1>t, <2>1, <2>2, <4>1 DEF Inserted
    <3>2. \A i, j \in 1..(n - 1) : items[i].product = items[j].product => i = j
      BY <1>t, <3>1 DEF Decision
    <3>3. \A i \in 1..(n - 1) : items[i].product # items[n].product
      BY <1>2 DEF ReservationExists, Item
    <3>4. \A i, j \in 1..n : items[i].product = items[j].product => i = j
      <4> SUFFICES ASSUME NEW i \in 1..n, NEW j \in 1..n,
                          items[i].product = items[j].product, i # j
                   PROVE  FALSE
        OBVIOUS
      <4>1. CASE i = n
        BY <1>t, <3>3, <4>1
      <4>2. CASE j = n
        BY <1>t, <3>3, <4>2
      <4>3. CASE i # n /\ j # n
        BY <1>t, <3>2, <4>3
      <4> QED BY <4>1, <4>2, <4>3
    <3>5. \A i \in Lines(request[r]) : Checked(r, i)'
      BY <1>t, <2>1, <2>2 DEF Decision, Checked
    <3> QED BY <1>t, <2>1, <2>2, <3>1, <3>4, <3>5 DEF Decision
  <2>6. ReplicaInv(r)'
    BY <1>t, <2>1, <2>2, <2>3, <2>4, <2>5 DEF ReplicaInv, InboxRace
  <2> QED BY <1>t, <1>2, <2>2, <2>6, InsideKeeps DEF Statements
<1> QED BY <1>1, <1>2 DEF ReserveLine

(* insertInbox: of the copies of a request one transaction gets past it. *)
LEMMA InsertInboxKeeps ==
  ASSUME ReservationInv, NEW r \in InventoryReplicas, InventoryTypeOK', InsertInbox(r)
  PROVE  ReservationInv'
<1>t. /\ step[r] = "handle" /\ request[r] \in Orders
      /\ statement[r] = "insertInbox" /\ event[r] \in Kinds
      /\ DOMAIN inventories = InventoryReplicas
      /\ statement \in [InventoryReplicas -> Statements] /\ line \in [InventoryReplicas -> Nat]
      /\ event \in [InventoryReplicas -> Kinds \cup {"none"}]
      /\ holder \in [Stocked -> InventoryReplicas \cup {None}]
      /\ Current(r) /\ InboxRace(r) /\ Decision(r)
  BY DEF InsertInbox, ReservationInv, TypeOK, InventoryTypeOK, ReplicaInv, Progress
<1>1. CASE Abort(r)
  BY <1>1, EndKeeps DEF Abort, Requeue, Done, Rollback
<1>2. ASSUME request[r] \notin stockInbox, Goto(r, "commit", 0), Inside,
             UNCHANGED <<event, inventories, holder>>
      PROVE  ReservationInv'
  <2>1. UNCHANGED <<request, stockInbox, available, reserved>>
    BY <1>2 DEF Inside, inventoryVars, stockVars, handlerVars
  <2>2. /\ statement'[r] = "commit" /\ line'[r] = 0
        /\ Goto(r, statement'[r], line'[r])
        /\ event' = [event EXCEPT ![r] = event'[r]]
        /\ event'[r] = event[r] /\ inventories'[r] = inventories[r]
    BY <1>t, <1>2 DEF Goto
  <2>3. Current(r)'
    BY <1>t, <1>2, <2>1, <2>2 DEF Current, Row
  <2>4. Progress(r)' /\ InboxRace(r)'
    BY <1>t, <1>2, <2>1, <2>2 DEF Progress, InboxRace
  <2>5. Decision(r)'
    <3>1. /\ Inserted(r)' = Inserted(r)
          /\ \A i \in Lines(request[r]) : Checked(r, i)' <=> Checked(r, i)
      BY <1>t, <2>1, <2>2 DEF Inserted, Checked
    <3>2. Short(r) => Short(r)'
      BY <1>2, <2>1 DEF Short
    <3> QED BY <1>t, <2>1, <2>2, <3>1, <3>2 DEF Decision
  <2>6. ReplicaInv(r)'
    BY <2>3, <2>4, <2>5 DEF ReplicaInv
  <2>7. \A t \in InventoryReplicas : statement[t] = "commit" => request[t] # request[r]
    BY DEF InsertInbox
  <2> QED BY <1>t, <1>2, <2>2, <2>6, <2>7, InsideKeeps DEF Statements
<1> QED BY <1>1, <1>2 DEF InsertInbox

(* COMMIT: every other transaction keeps the rows it has locked. *)
LEMMA CommitKeeps ==
  ASSUME ReservationInv, NEW r \in InventoryReplicas, InventoryTypeOK',
         CommitTransaction(r)
  PROVE  ReservationInv'
<1>t. /\ InventoryTypeOK /\ statement[r] = "commit" /\ request[r] \in Orders
      /\ statement \in [InventoryReplicas -> Statements] /\ line \in [InventoryReplicas -> Nat]
      /\ event \in [InventoryReplicas -> Kinds \cup {"none"}]
      /\ holder \in [Stocked -> InventoryReplicas \cup {None}]
      /\ DOMAIN inventories = InventoryReplicas /\ Current(r)
  BY DEF CommitTransaction, ReservationInv, TypeOK, ReplicaInv
<1>1. /\ stockInbox' = stockInbox \cup {request[r]}
      /\ statement' = [statement EXCEPT ![r] = "none"] /\ line' = [line EXCEPT ![r] = 0]
      /\ event' = [event EXCEPT ![r] = "none"]
      /\ inventories' = [inventories EXCEPT ![r] = <<>>]
      /\ holder' = [p \in Stocked |-> IF holder[p] = r THEN None ELSE holder[p]]
  BY DEF CommitTransaction, EndTransaction, Goto
<1>2. \A s \in InventoryReplicas \ {r} : request'[s] = request[s] /\ step'[s] = step[s]
  BY <1>t DEF CommitTransaction, Acknowledge, Requeue, Done, InventoryTypeOK
<1>3. Kept(r)
  <2>1. ASSUME NEW p \in Stocked, holder[p] \notin {r, None}
        PROVE  holder'[p] = holder[p] /\ available'[p] = available[p] /\ reserved'[p] = reserved[p]
    <3>1. p \notin DOMAIN inventories[r]
      BY <1>t, <2>1 DEF Current
    <3>2. Written(r, p).available = available[p] /\ Written(r, p).reserved = reserved[p]
      BY <3>1 DEF Written, Row
    <3> QED BY <1>1, <2>1, <3>2 DEF CommitTransaction
  <2> QED BY <1>t, <1>1, <1>2, <2>1 DEF Kept
<1>4. TypeOK'
  <2>1. \A s \in InventoryReplicas : statement'[s] # "none" => s # r
    BY <1>t, <1>1
  <2>2. \A s \in InventoryReplicas :
           statement'[s] # "none" => step'[s] = "handle" /\ request'[s] \in Orders
    BY <1>t, <1>1, <1>2, <2>1 DEF ReservationInv, TypeOK
  <2>3. \A s, u \in InventoryReplicas :
           statement'[s] = "commit" /\ statement'[u] = "commit" /\ request'[s] = request'[u]
             => s = u
    BY <1>t, <1>1, <1>2, <2>1 DEF ReservationInv, TypeOK
  <2>4. /\ statement' \in [InventoryReplicas -> Statements]
        /\ event' \in [InventoryReplicas -> Kinds \cup {"none"}]
        /\ holder' \in [Stocked -> InventoryReplicas \cup {None}]
    BY <1>t, <1>1 DEF Statements
  <2> QED BY <2>2, <2>3, <2>4 DEF TypeOK
<1>5. ReplicaInv(r)'
  <2>1. statement'[r] = "none" /\ event'[r] = "none" /\ inventories'[r] = <<>>
    BY <1>t, <1>1
  <2>2. Current(r)'
    BY <2>1 DEF Current
  <2> QED BY <2>1, <2>2, AtRest
<1>6. \A x \in reservations' : x.order \in stockInbox'
  <2>1. reservations' \subseteq reservations \cup ReservationsOf(request[r])
    BY DEF CommitTransaction
  <2>2. \A x \in ReservationsOf(request[r]) : x.order = request[r]
    BY DEF ReservationsOf
  <2> QED BY <1>1, <2>1, <2>2 DEF ReservationInv
<1> QED BY <1>t, <1>1, <1>3, <1>4, <1>5, <1>6, StepOf

LEMMA ReservationStep == ReservationInv /\ [Next]_reservationVars => ReservationInv'
<1>1. ASSUME ReservationInv, NEW r \in InventoryReplicas,
             \/ Consume(r) \/ Transaction(r)
             \/ StatementFails(r) \/ DeadlockVictim(r) \/ ReplicaCrash(r)
      PROVE  ReservationInv'
  <2> USE <1>1
  <2>t. InventoryTypeOK'
    BY StepImplements, StepTypes DEF ReservationInv, TypeOK
  <2>o. InventoryTypeOK /\ (statement[r] # "none" => step[r] = "handle" /\ request[r] \in Orders)
    BY DEF ReservationInv, TypeOK
  <2>1. CASE Consume(r)
    <3>1. UNCHANGED <<txnVars, stockVars>>
      BY <2>1 DEF Consume, ReceiveRequest, DropRequest, AckRequest
    <3>2. statement[r] = "none"
      BY <2>1, <2>o, BrokerAssumption DEF Consume, ReceiveRequest, DropRequest, AckRequest
    <3>3. ASSUME NEW m \in Requests, ReceiveRequest(r, m) PROVE ReservationInv'
      BY <2>t, <3>1, <3>2, <3>3, ConsumeKeeps DEF ReceiveRequest
    <3>4. CASE DropRequest(r) \/ AckRequest(r)
      BY <2>t, <3>1, <3>2, <3>4, ConsumeKeeps DEF DropRequest, AckRequest, Done
    <3> QED BY <2>1, <3>3, <3>4 DEF Consume
  <2>2. CASE IsMessageProcessed(r)
    BY <2>t, <2>2, BeginKeeps
  <2>3. CASE CheckAndLockStock(r)
    BY <2>3, CheckKeeps
  <2>4. CASE ReserveLine(r)
    BY <2>t, <2>4, ReserveKeeps
  <2>5. CASE InsertInbox(r)
    BY <2>t, <2>5, InsertInboxKeeps
  <2>6. CASE CommitTransaction(r)
    BY <2>t, <2>6, CommitKeeps
  <2>7. CASE StatementFails(r) \/ DeadlockVictim(r)
    <3>1. Abort(r)
      BY <2>7 DEF StatementFails, DeadlockVictim
    <3> QED BY <2>t, <3>1, EndKeeps DEF Abort, Requeue, Done, Rollback
  <2>8. CASE ReplicaCrash(r)
    <3>1. EndTransaction(r) /\ UNCHANGED stockVars
      BY <2>8 DEF ReplicaCrash, InventoryCrash
    <3>2. \/ /\ request' = [request EXCEPT ![r] = request[r]]
             /\ step' = [step EXCEPT ![r] = step[r]]
          \/ Done(r)
      BY <2>8, <2>o DEF ReplicaCrash, InventoryCrash, Requeue, handlerVars, InventoryTypeOK
    <3> QED BY <2>t, <3>1, <3>2, EndKeeps DEF Done
  <2> QED BY <2>1, <2>2, <2>3, <2>4, <2>5, <2>6, <2>7, <2>8 DEF Transaction
<1>2. ASSUME ReservationInv, UNCHANGED reservationVars PROVE ReservationInv'
  <2> USE <1>2 DEF reservationVars, inventoryVars, stockVars, stockRelayVars,
                   handlerVars, txnVars
  <2>1. TypeOK'
    BY DEF ReservationInv, TypeOK, InventoryTypeOK
  <2>2. ASSUME NEW r \in InventoryReplicas PROVE ReplicaInv(r)'
    <3>1. ReplicaInv(r)
      BY DEF ReservationInv
    <3>2. Current(r)'
      BY <3>1 DEF ReplicaInv, Current, Row
    <3>3. Progress(r)' /\ InboxRace(r)'
      BY <3>1 DEF ReplicaInv, Progress, InboxRace, Checked
    <3>4. Decision(r)'
      BY <3>1 DEF ReplicaInv, Decision, Checked, Inserted, Short
    <3> QED BY <3>2, <3>3, <3>4 DEF ReplicaInv
  <2> QED BY <2>1, <2>2 DEF ReservationInv
<1> QED BY <1>1, <1>2 DEF Next

-----------------------------------------------------------------------------
(* The results. *)

(* The invariant that carries the proofs. *)
THEOREM ReservationInvariance == Spec => []ReservationInv
<1>1. Init => ReservationInv
  BY InitReservation
<1>2. ReservationInv /\ [Next]_reservationVars => ReservationInv'
  BY ReservationStep
<1> QED BY <1>1, <1>2, PTL DEF Spec

(* Types; of the copies of a request at most one transaction is past        *)
(* insertInbox and about to commit.                                         *)
THEOREM ReservationTypes == Spec => []TypeOK
<1>1. ReservationInv => TypeOK
  BY DEF ReservationInv
<1> QED BY <1>1, ReservationInvariance, PTL

(* The rows checkAndLockStock has read are locked and unchanged until       *)
(* reserveStock has overwritten them: no update is lost.                    *)
THEOREM NoLostUpdate == Spec => []ReadRowsAreCurrent
<1>1. ReservationInv => ReadRowsAreCurrent
  BY DEF ReservationInv, ReplicaInv, Current, ReadRowsAreCurrent
<1> QED BY <1>1, ReservationInvariance, PTL

(* ReserveStockWithInboxAndOutbox, interleaved statement by statement with  *)
(* the transactions of other replicas, is the one step of InventoryService  *)
(* at its COMMIT, or a rollback that step allows, or nothing.               *)
THEOREM TransactionIsAtomic == Spec => ImplementsInventoryService
<1>1. Init => RequestsWaiting
  BY DEF Init
<1>2. ReservationInv /\ [Next]_reservationVars
        => [InventoryNext]_<<brokerVars, inventoryVars>>
  <2>1. ASSUME ReservationInv, NEW r \in InventoryReplicas,
               \/ Consume(r) \/ Transaction(r)
               \/ StatementFails(r) \/ DeadlockVictim(r) \/ ReplicaCrash(r)
        PROVE  [InventoryNext]_<<brokerVars, inventoryVars>>
    <3>1. InventoryStep(r)
      BY <2>1, StepImplements
    <3> QED BY <3>1 DEF InventoryStep, InventoryNext, Inside
  <2>2. UNCHANGED reservationVars => UNCHANGED <<brokerVars, inventoryVars>>
    BY DEF reservationVars
  <2> QED BY <2>1, <2>2 DEF Next
<1> QED BY <1>1, <1>2, ReservationInvariance, PTL DEF Spec, ImplementsInventoryService

LEMMA StepKeepsStock ==
  ASSUME InventoryTypeOK, StockInv, NEW r \in InventoryReplicas, InventoryStep(r)
  PROVE  StockInv'
<1>1. CASE HandleReserveStockRequested(r)
  <2>1. Rollback \/ (request[r] \in Orders /\ Commit(request[r]))
    BY <1>1 DEF HandleReserveStockRequested
  <2> QED BY <2>1, CommitKeepsStock, SameStock DEF Rollback, stockVars
<1>2. CASE UNCHANGED stockVars
  BY <1>2, SameStock DEF stockVars
<1> QED BY <1>1, <1>2
        DEF InventoryStep, ReceiveRequest, DropRequest, AckRequest, InventoryCrash,
            Inside, inventoryVars

(* With transactions that write absolute quantities and interleave, in the  *)
(* stock rows every reserved unit still belongs to one reservation and was  *)
(* taken from the available ones.                                           *)
THEOREM StockIsConserved == Spec => []StockMatchesReservations
<1>1. Init => StockInv
  BY InitialStockMatches DEF Init, RequestsWaiting
<1>2. ReservationInv /\ StockInv /\ [Next]_reservationVars => StockInv'
  <2>1. ASSUME ReservationInv, StockInv, NEW r \in InventoryReplicas,
               \/ Consume(r) \/ Transaction(r)
               \/ StatementFails(r) \/ DeadlockVictim(r) \/ ReplicaCrash(r)
        PROVE  StockInv'
    <3>1. InventoryStep(r)
      BY <2>1, StepImplements
    <3> QED BY <2>1, <3>1, StepKeepsStock DEF ReservationInv, TypeOK
  <2>2. ASSUME StockInv, UNCHANGED reservationVars PROVE StockInv'
    BY <2>2, SameStock DEF reservationVars, inventoryVars, stockVars
  <2> QED BY <2>1, <2>2 DEF Next
<1>3. StockInv => StockMatchesReservations
  BY DEF StockInv
<1> QED BY <1>1, <1>2, <1>3, ReservationInvariance, PTL DEF Spec
=============================================================================

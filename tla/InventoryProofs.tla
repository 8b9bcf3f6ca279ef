-------------------------- MODULE InventoryProofs --------------------------
(***************************************************************************)
(* Lemmas about the reservation transaction of inventory-service, for the  *)
(* proofs of every specification that runs it.                             *)
(***************************************************************************)
EXTENDS InventoryService, FiniteSetTheorems, TLAPS

LEMMA LineType ==
  ASSUME NEW o \in Orders, NEW i \in Lines(o)
  PROVE  /\ Items[o][i] \in [product: Products, quantity: Nat \ {0}]
         /\ Items[o][i].product \in Products
         /\ Items[o][i].quantity \in Nat
<1> DEFINE S == [product: Products, quantity: Nat \ {0}]
<1>1. Items[o] \in Seq(S)
  BY InventoryAssumption
<1>2. Items[o][i] \in S
  <2> HIDE DEF S
  <2> QED BY <1>1 DEF Lines
<1> QED BY <1>2

LEMMA LineNumber == ASSUME NEW o \in Orders PROVE Lines(o) \subseteq Nat
<1> DEFINE S == [product: Products, quantity: Nat \ {0}]
<1>1. Items[o] \in Seq(S)
  BY InventoryAssumption
<1> HIDE DEF S
<1> QED BY <1>1 DEF Lines

(* What a transaction takes from a stocked product it has checked. *)
LEMMA TakenBound ==
  ASSUME NEW o \in Orders, NEW p \in Stocked, available \in [Stocked -> Nat],
         InStock(o)
  PROVE  Taken(o, p) \in Nat /\ available[p] - Taken(o, p) \in Nat
<1> DEFINE lines == {i \in Lines(o) : Items[o][i].product = p /\ Last(o, i)}
<1>1. CASE lines = {}
  BY <1>1 DEF Taken
<1>2. CASE lines # {}
  <2> PICK i \in lines : i = CHOOSE j \in lines : TRUE
    BY <1>2
  <2>1. Taken(o, p) = Items[o][i].quantity
    BY <1>2 DEF Taken
  <2>2. Items[o][i].quantity \in Nat
    BY LineType
  <2>3. Items[o][i].quantity <= available[p]
    BY DEF InStock
  <2> QED BY <2>1, <2>2, <2>3
<1> QED BY <1>1, <1>2

LEMMA ReservationsType ==
  ASSUME NEW o \in Orders PROVE ReservationsOf(o) \subseteq Reservations
  BY LineType DEF ReservationsOf, Reservations

LEMMA InsertOutboxType ==
  ASSUME InventoryTypeOK, NEW o \in Orders, NEW k \in Kinds, InsertOutbox(o, k)
  PROVE  /\ stockOutbox' \in [Events -> StockRelay!RowStates]
         /\ stockCreatedAt' \in [Events -> Nat]
<1> DEFINE e == [body |-> o, kind |-> k]
<1>1. PICK t \in Times : StockRelay!Insert(e, t)
  BY DEF InsertOutbox
<1>2. /\ stockOutbox' = [stockOutbox EXCEPT ![e] = "unprocessed"]
      /\ stockCreatedAt' = [stockCreatedAt EXCEPT ![e] = t]
  BY <1>1 DEF StockRelay!Insert
<1>3. "unprocessed" \in StockRelay!RowStates /\ t \in Nat
  BY BrokerAssumption DEF StockRelay!RowStates
<1> HIDE DEF e
<1>4. stockOutbox' \in [Events -> StockRelay!RowStates]
  BY <1>2, <1>3 DEF InventoryTypeOK
<1>5. stockCreatedAt' \in [Events -> Nat]
  BY <1>2, <1>3 DEF InventoryTypeOK
<1> QED BY <1>4, <1>5

(* What the transaction writes. *)
LEMMA CommitTypes ==
  ASSUME InventoryTypeOK, NEW o \in Orders, Commit(o)
  PROVE  /\ available' \in [Stocked -> Nat]
         /\ reserved' \in [Stocked -> Nat]
         /\ reservations' \subseteq Reservations
         /\ stockInbox' \subseteq Orders
         /\ stockOutbox' \in [Events -> StockRelay!RowStates]
         /\ stockCreatedAt' \in [Events -> Nat]
<1> USE DEF InventoryTypeOK
<1>1. stockInbox' \subseteq Orders
  BY DEF Commit
<1>2. CASE ReserveStock(o)
  <2>1. \A p \in Stocked : Taken(o, p) \in Nat /\ available[p] - Taken(o, p) \in Nat
    BY <1>2, TakenBound DEF ReserveStock
  <2>2. available' \in [Stocked -> Nat] /\ reserved' \in [Stocked -> Nat]
    BY <1>2, <2>1 DEF ReserveStock
  <2>3. reservations' \subseteq Reservations
    BY <1>2, ReservationsType DEF ReserveStock
  <2>4. InsertOutbox(o, "StockReserved")
    BY <1>2 DEF ReserveStock
  <2> QED BY <1>1, <2>2, <2>3, <2>4, InsertOutboxType DEF Kinds
<1>3. CASE RefuseStock(o)
  <2>1. InsertOutbox(o, "StockReservationFailed")
        /\ UNCHANGED <<available, reserved, reservations>>
    BY <1>3 DEF RefuseStock
  <2> QED BY <1>1, <2>1, InsertOutboxType DEF Kinds
<1> QED BY <1>2, <1>3 DEF Commit

-----------------------------------------------------------------------------
(* Stock and reservations. *)

LEMMA UnitsOf ==
  ASSUME NEW o, NEW n \in Nat
  PROVE  IsFiniteSet({o} \X (1..n)) /\ Cardinality({o} \X (1..n)) = n
<1>1. IsFiniteSet({o}) /\ Cardinality({o}) = 1
  BY FS_Singleton
<1>2. IsFiniteSet(1..n) /\ Cardinality(1..n) = n
  BY FS_Interval
<1>3. /\ IsFiniteSet({o} \X (1..n))
      /\ Cardinality({o} \X (1..n)) = Cardinality({o}) * Cardinality(1..n)
  BY <1>1, <1>2, FS_Product, Zenon
<1> QED BY <1>1, <1>2, <1>3

(* Its own inductive form: a cardinality counts only what is finite. *)
StockInv ==
    /\ StockMatchesReservations
    /\ \A p \in Stocked : IsFiniteSet(UnitsHeld(p))

(* The units an order without two lines for a product takes of it. *)
LEMMA NewUnits ==
  ASSUME NEW o \in Orders, ~UniqueViolation(o), NEW p \in Stocked,
         reservations' = reservations \cup ReservationsOf(o)
  PROVE  /\ Taken(o, p) \in Nat
         /\ UnitsHeld(p)' = UnitsHeld(p) \cup ({o} \X (1..Taken(o, p)))
         /\ UnitsHeld(p) \cap ({o} \X (1..Taken(o, p))) = {}
<1> DEFINE lines == {i \in Lines(o) : Items[o][i].product = p /\ Last(o, i)}
           mine == {x \in ReservationsOf(o) : x.product = p}
<1>1. \A i, j \in Lines(o) : Items[o][i].product = Items[o][j].product => i = j
  BY DEF UniqueViolation
<1>2. Taken(o, p) \in Nat
      /\ UNION {{x.order} \X (1..x.quantity) : x \in mine} = {o} \X (1..Taken(o, p))
  <2>1. CASE lines = {}
    <3>1. Taken(o, p) = 0
      BY <2>1 DEF Taken
    <3>2. \A i \in Lines(o) : Last(o, i)
      BY <1>1, LineNumber DEF Last
    <3>3. \A i \in Lines(o) : Items[o][i].product # p
      BY <2>1, <3>2
    <3>4. mine = {}
      BY <3>3 DEF ReservationsOf
    <3>5. 1..Taken(o, p) = {}
      BY <3>1
    <3> HIDE DEF mine
    <3> QED BY <3>1, <3>4, <3>5
  <2>2. CASE lines # {}
    <3> PICK i \in lines : i = CHOOSE j \in lines : TRUE
      BY <2>2
    <3> DEFINE q == Items[o][i].quantity
    <3>1. Taken(o, p) = q /\ q \in Nat
      BY <2>2, LineType DEF Taken
    <3> DEFINE own == [order |-> o, product |-> p, quantity |-> q]
    <3>2. own \in mine
      BY DEF ReservationsOf
    <3>3. ASSUME NEW x \in mine PROVE x = own
      <4> PICK j \in Lines(o) : x = [order |-> o, product |-> Items[o][j].product,
                                     quantity |-> Items[o][j].quantity]
        BY <3>3 DEF ReservationsOf
      <4>1. j = i
        BY <1>1, <3>3
      <4> QED BY <4>1
    <3>4. own.order = o /\ own.quantity = Taken(o, p)
      BY <3>1
    <3> HIDE DEF mine, own
    <3>5. mine = {own}
      BY <3>2, <3>3
    <3> QED BY <3>1, <3>4, <3>5
  <2> QED BY <2>1, <2>2
<1>3. UnitsHeld(p)' = UnitsHeld(p) \cup UNION {{x.order} \X (1..x.quantity) : x \in mine}
  BY DEF UnitsHeld
<1>4. \A x \in reservations : x.product = p /\ x.order = o => Taken(o, p) = 0
  <2> SUFFICES ASSUME NEW x \in reservations, x.product = p, x.order = o
               PROVE  lines = {}
    BY DEF Taken
  <2> QED BY DEF UniqueViolation
<1>5. UnitsHeld(p) \cap ({o} \X (1..Taken(o, p))) = {}
  <2> SUFFICES ASSUME NEW u \in UnitsHeld(p), u \in {o} \X (1..Taken(o, p)) PROVE FALSE
    OBVIOUS
  <2>1. PICK x \in reservations : x.product = p /\ u \in {x.order} \X (1..x.quantity)
    BY DEF UnitsHeld
  <2>2. x.order = o
    BY <2>1
  <2> QED BY <1>4, <2>1, <2>2
<1> QED BY <1>2, <1>3, <1>5

LEMMA SameStock ==
  ASSUME StockInv, UNCHANGED <<available, reserved, reservations>>
  PROVE  StockInv'
<1>1. \A p : UnitsHeld(p)' = UnitsHeld(p)
  BY DEF UnitsHeld
<1>2. StockMatchesReservations'
  BY <1>1 DEF StockInv, StockMatchesReservations
<1> QED BY <1>1, <1>2 DEF StockInv

(* A transaction that reserves, refuses or rolls back keeps them in step. *)
LEMMA CommitKeepsStock ==
  ASSUME InventoryTypeOK, StockInv, NEW o \in Orders, Commit(o)
  PROVE  StockInv'
<1>1. CASE ReserveStock(o)
  <2>1. /\ InStock(o) /\ ~UniqueViolation(o)
        /\ available' = [p \in Stocked |-> available[p] - Taken(o, p)]
        /\ reserved' = [p \in Stocked |-> reserved[p] + Taken(o, p)]
        /\ reservations' = reservations \cup ReservationsOf(o)
    BY <1>1 DEF ReserveStock
  <2>2. ASSUME NEW x \in reservations', NEW y \in reservations',
               x.order = y.order, x.product = y.product
        PROVE  x = y
    <3>1. CASE x \in reservations /\ y \in reservations
      BY <2>2, <3>1 DEF StockInv, StockMatchesReservations
    <3>2. CASE x \in ReservationsOf(o) /\ y \in ReservationsOf(o)
      BY <2>1, <2>2, <3>2 DEF ReservationsOf, UniqueViolation
    <3>3. CASE x \in reservations /\ y \in ReservationsOf(o)
      BY <2>1, <2>2, <3>3 DEF ReservationsOf, UniqueViolation
    <3>4. CASE y \in reservations /\ x \in ReservationsOf(o)
      BY <2>1, <2>2, <3>4 DEF ReservationsOf, UniqueViolation
    <3> QED BY <2>1, <3>1, <3>2, <3>3, <3>4
  <2>3. ASSUME NEW p \in Stocked
        PROVE  /\ IsFiniteSet(UnitsHeld(p)')
               /\ reserved'[p] = Cardinality(UnitsHeld(p)')
               /\ available'[p] + reserved'[p] = InitialStock[p]
    <3> DEFINE U == UnitsHeld(p)
               T == {o} \X (1..Taken(o, p))
    <3>1. /\ Taken(o, p) \in Nat /\ available[p] \in Nat /\ reserved[p] \in Nat
          /\ UnitsHeld(p)' = U \cup T /\ U \cap T = {}
      BY <2>1, NewUnits DEF InventoryTypeOK
    <3>2. IsFiniteSet(T) /\ Cardinality(T) = Taken(o, p)
      BY <3>1, UnitsOf
    <3>3. /\ IsFiniteSet(U) /\ reserved[p] = Cardinality(U)
          /\ available[p] + reserved[p] = InitialStock[p]
      BY DEF StockInv, StockMatchesReservations
    <3> HIDE DEF U, T
    <3>4. IsFiniteSet(U \cup T) /\ Cardinality(U \cup T) = reserved[p] + Taken(o, p)
      <4>1. /\ IsFiniteSet(U \cup T)
            /\ Cardinality(U \cup T) = Cardinality(U) + Cardinality(T) - Cardinality(U \cap T)
        BY <3>2, <3>3, FS_Union
      <4>2. Cardinality(U \cap T) = 0
        BY <3>1, FS_EmptySet
      <4> QED BY <3>1, <3>2, <3>3, <4>1, <4>2
    <3> QED BY <2>1, <3>1, <3>3, <3>4
  <2>4. StockMatchesReservations'
    BY <2>2, <2>3 DEF StockMatchesReservations
  <2> QED BY <2>3, <2>4 DEF StockInv
<1>2. CASE RefuseStock(o)
  <2>1. UNCHANGED <<available, reserved, reservations>>
    BY <1>2 DEF RefuseStock
  <2> QED BY <2>1, SameStock
<1> QED BY <1>1, <1>2 DEF Commit

LEMMA InitialStockMatches == InventoryInit => StockInv
<1> SUFFICES ASSUME InventoryInit PROVE StockInv
  OBVIOUS
<1>1. reservations = {}
  BY DEF InventoryInit
<1>2. ASSUME NEW p \in Stocked
      PROVE  /\ IsFiniteSet(UnitsHeld(p)) /\ reserved[p] = Cardinality(UnitsHeld(p))
             /\ available[p] + reserved[p] = InitialStock[p]
  <2>1. UnitsHeld(p) = {}
    BY <1>1 DEF UnitsHeld
  <2>2. available[p] = InitialStock[p] /\ reserved[p] = 0 /\ InitialStock[p] \in Nat
    BY InventoryAssumption DEF InventoryInit
  <2> QED BY <2>1, <2>2, FS_EmptySet
<1> QED BY <1>1, <1>2 DEF StockInv, StockMatchesReservations
=============================================================================

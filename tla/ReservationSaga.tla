-------------------------- MODULE ReservationSaga --------------------------
(***************************************************************************)
(* What the order saga promises, without messages, retries or databases:   *)
(* an order is placed, its stock is taken all or nothing (once, and only   *)
(* if every product is in stock) or refused, and only then, according to   *)
(* that decision, the order becomes CONFIRMED or FAILED for good.          *)
(***************************************************************************)
EXTENDS Naturals

CONSTANTS
    Orders,
    Items,        \* Items[o]: sequence of order lines (product, quantity)
    InitialStock  \* [product -> quantity]

VARIABLES
    status,    \* status[o]: none, PENDING, CONFIRMED or FAILED
    decision,  \* decision[o]: open, reserved or refused
    stock      \* stock[p]: quantity that may still be reserved

sagaVars == <<status, decision, stock>>

Lines(o) == DOMAIN Items[o]
LinesFor(o, p) == {i \in Lines(o) : Items[o][i].product = p}
Fits(o) ==
    \A i \in Lines(o) :
        /\ Items[o][i].product \in DOMAIN InitialStock
        /\ Items[o][i].quantity <= stock[Items[o][i].product]

(* Every product of the order is named by one line. *)
DistinctProducts(o) ==
    \A i, j \in Lines(o) : Items[o][i].product = Items[o][j].product => i = j

Init ==
    /\ status = [o \in Orders |-> "none"]
    /\ decision = [o \in Orders |-> "open"]
    /\ stock = InitialStock

Place(o) ==
    /\ status[o] = "none"
    /\ status' = [status EXCEPT ![o] = "PENDING"]
    /\ UNCHANGED <<decision, stock>>

Reserve(o) ==
    /\ status[o] = "PENDING" /\ decision[o] = "open"
    /\ Fits(o) /\ DistinctProducts(o)
    /\ decision' = [decision EXCEPT ![o] = "reserved"]
    /\ stock' = [p \in DOMAIN InitialStock |->
                   IF LinesFor(o, p) = {} THEN stock[p]
                   ELSE stock[p] - Items[o][CHOOSE i \in LinesFor(o, p) : TRUE].quantity]
    /\ UNCHANGED status

Refuse(o) ==
    /\ status[o] = "PENDING" /\ decision[o] = "open"
    /\ ~Fits(o)
    /\ decision' = [decision EXCEPT ![o] = "refused"]
    /\ UNCHANGED <<status, stock>>

Settle(o) ==
    /\ status[o] = "PENDING"
    /\ \/ /\ decision[o] = "reserved"
          /\ status' = [status EXCEPT ![o] = "CONFIRMED"]
       \/ /\ decision[o] = "refused"
          /\ status' = [status EXCEPT ![o] = "FAILED"]
    /\ UNCHANGED <<decision, stock>>

Next == \E o \in Orders : Place(o) \/ Reserve(o) \/ Refuse(o) \/ Settle(o)

Spec == Init /\ [][Next]_sagaVars
=============================================================================

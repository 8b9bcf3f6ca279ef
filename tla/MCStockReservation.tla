------------------------- MODULE MCStockReservation -------------------------
(***************************************************************************)
(* o1 and o2 lock two products in opposite orders and compete for the last *)
(* unit of p1; o3 asks for a product that has no inventory row.            *)
(***************************************************************************)
EXTENDS StockReservation

CONSTANTS o1, o2, o3, g1, p1, p2, p3, r1, r2

Line(p, n) == [product |-> p, quantity |-> n]

MCStock == [p \in {p1, p2} |-> IF p = p1 THEN 1 ELSE 3]

MCItems ==
    [o \in Orders |-> CASE o = o1 -> <<Line(p1, 1), Line(p2, 1)>>
                        [] o = o2 -> <<Line(p2, 2), Line(p1, 1)>>
                        [] o = o3 -> <<Line(p3, 1)>>]

(* order-service has published the request of o1 and of o3 twice. *)
MCPublished == [m \in Requests |-> IF m \in {o1, o3} THEN 2 ELSE 1]
=============================================================================

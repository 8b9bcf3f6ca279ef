---------------------------- MODULE MCOrderSaga ----------------------------
(***************************************************************************)
(* Values for the constants of OrderSaga.  o1 and o2 compete for the one   *)
(* unit of p1, so whichever request is handled first wins; o3 names p2 in  *)
(* two lines, which CreateOrderInput.Validate accepts.                     *)
(***************************************************************************)
EXTENDS OrderSaga

CONSTANTS o1, o2, o3, g1, p1, p2, q1, q2

Line(p, n) == [product |-> p, quantity |-> n]

MCStock == [p \in {p1, p2} |-> IF p = p1 THEN 1 ELSE 3]

MCItems ==
    [o \in Orders |-> CASE o = o1 -> <<Line(p2, 2), Line(p1, 1)>>
                        [] o = o2 -> <<Line(p1, 1)>>
                        [] o = o3 -> <<Line(p2, 1), Line(p2, 2)>>]
=============================================================================

---------------------------- MODULE MCPublisher ----------------------------
(* Values for the constants of Publisher: rows over two timestamps, so that *)
(* ties, inversions and a batch smaller than the backlog all occur.         *)
EXTENDS Publisher

CONSTANTS r1, r2, w1, w2

MCCopiesOf == [r \in Rows |-> {r}]
=============================================================================

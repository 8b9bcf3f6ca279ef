----------------------------- MODULE MCCatalog -----------------------------
(* Values for the constants of Catalog: one or two products, one process of *)
(* each service unless a run says otherwise, one or two concurrent reads.   *)
EXTENDS Catalog

CONSTANTS a1, a2, g1, w1, w2, x1, x2
=============================================================================

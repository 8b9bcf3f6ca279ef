------------------------------ MODULE Catalog ------------------------------
(***************************************************************************)
(* The catalog's CQRS pipeline: catalog-write-service commits a product    *)
(* with its outbox row and relays ProductCreated; the exchange copies it   *)
(* to the queues bound at that moment; catalog-read-service projects it    *)
(* into MongoDB (invalidating the cache) and into Elasticsearch.           *)
(***************************************************************************)
EXTENDS CatalogWrite, CatalogRead

vars == <<eventVars, writeVars, readVars>>

Init == EventsInit /\ WriteInit /\ ReadInit

Next ==
    \/ WriteNext /\ UNCHANGED readVars
    \/ ReadNext /\ UNCHANGED writeVars
    \/ /\ \E q \in Queues, g \in Garbage : ForeignPublish(q, g)
       /\ UNCHANGED <<writeVars, readVars>>

Spec == Init /\ [][Next]_vars

(***************************************************************************)
(* Fairness: processes are restarted and consumers start with them, every  *)
(* ticker keeps firing, every call returns, the TTL runs out, and an idle  *)
(* consumer gets some message that is ready.  Requests and faults need not *)
(* happen; a process that runs on without its connection need not be       *)
(* restarted.                                                              *)
(***************************************************************************)
Fairness ==
    /\ \A w \in WriteReplicas : WF_vars(ProductOutboxWorker(w) /\ UNCHANGED readVars)
    /\ \A c \in Consumers :
          /\ WF_vars(StartConsumer(c) /\ UNCHANGED writeVars)
          /\ WF_vars(HandleMessage(c) /\ UNCHANGED writeVars)
          /\ WF_vars((\E m \in Bodies : Receive(c, m)) /\ UNCHANGED writeVars)
    /\ \A x \in Readers :
          WF_vars((FindAll(x) \/ SetProducts(x)) /\ UNCHANGED writeVars)
    /\ WF_vars(CacheExpires /\ UNCHANGED writeVars)

FairSpec == Spec /\ Fairness

-----------------------------------------------------------------------------
(* Types of the whole state. *)
TypeOK == EventsTypeOK /\ WriteTypeOK /\ ReadTypeOK

Projection(q) == IF q = "readModel" THEN readModel ELSE searchIndex

(* A copy of p is in queue q or with a consumer of q that has not finished. *)
Pending(q, p) ==
    \/ eventQ[<<q, p>>] > 0
    \/ \E c \in Consumers :
          c[2] = q /\ held[c] = p /\ pc[c] \notin {"idle", "ack"}

(* A published product is never lost on its way to a projection whose queue *)
(* exists: until it is projected a copy is queued or being handled, through *)
(* requeues, crashes and failed calls that were applied or not.             *)
NoLostProduct ==
    \A q \in Declared, p \in Products :
        productOutbox[p] = "processed" => Pending(q, p) \/ p \in Projection(q)

(* What readers can see is what was committed: projections, cache and the   *)
(* lists in readers' hands hold committed products only, and the inbox only *)
(* events whose product is in MongoDB.                                      *)
NothingInvented ==
    /\ readModel \cup searchIndex \subseteq catalog
    /\ readInbox \subseteq readModel
    /\ cache # None => cache \subseteq readModel
    /\ \A x \in Readers : found[x] \subseteq readModel

(* A request for the product list shows p, from the cache or from MongoDB. *)
Visible(p) == p \in readModel /\ (cache = None \/ p \in cache)

(* While catalog-write-service keeps a connection open, each product ends   *)
(* up in every projection whose queue existed, and from some moment on no   *)
(* cached list misses it, although readers race with the invalidation.      *)
(* (Where a queue existed no publish comes back, so no reader is blocked.)  *)
EventuallyVisible ==
    (<>[](connected # {})) =>
        \A p \in Products :
            <>[](p \in catalog =>
                    \A q \in Declared : p \in Projection(q)
                                        /\ (q = "readModel" => Visible(p)))

(* A copy that reached a queue ends in the projection of that queue, also   *)
(* of one that was declared late, whichever replica gets it and however     *)
(* often it is requeued.                                                    *)
EveryCopyProjected ==
    \A q \in Queues, p \in Products : Pending(q, p) ~> p \in Projection(q)

(* The README: the cache "is invalidated when product events are consumed", *)
(* so a cached list never misses a product whose event was processed.       *)
CacheInvalidated ==
    \A p \in readInbox : cache = None \/ p \in cache

(* The README: ProductCreated is fanned out to both projection queues, so   *)
(* every product is eventually searchable.                                  *)
EveryProductIndexed ==
    \A p \in Products : (p \in catalog) ~> (p \in searchIndex)

(* The README: the outbox is for reliable publishing, so every committed    *)
(* product is eventually published.                                         *)
EveryProductPublished ==
    \A p \in Products :
        (productOutbox[p] = "unprocessed") ~> (productOutbox[p] = "processed")
=============================================================================

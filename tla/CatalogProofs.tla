--------------------------- MODULE CatalogProofs ---------------------------
(***************************************************************************)
(* No product is lost or invented on its way from catalog-write-service    *)
(* through the exchange into the projections, for any number of products,  *)
(* processes, readers and faults and any set of queues already declared.   *)
(***************************************************************************)
EXTENDS Catalog, TLAPS

(* Where a consumer is and what it has in hand. *)
ConsumerShape ==
    \A c \in Consumers :
        /\ pc[c] = "idle" <=> held[c] = None
        /\ pc[c] \notin {"idle", "handle"} => held[c] \in Products
        /\ pc[c] \in {"upsert", "deleteProducts", "saveProcessed"} => c[2] = "readModel"

(* A row of the outbox, a copy of its event and a delivery of it exist only *)
(* for a committed product.                                                 *)
EventsAreCommitted ==
    /\ \A p \in Products : productOutbox[p] # "absent" => p \in catalog
    /\ \A w \in WriteReplicas : productBatch[w] \cup productConfirmed[w] \subseteq catalog
    /\ \A q \in Queues, p \in Products : eventQ[<<q, p>>] > 0 => p \in catalog
    /\ \A c \in Consumers : held[c] \in Products => held[c] \in catalog

(* A consumer past its store call has had the effect. *)
EffectBeforeAck ==
    \A c \in Consumers :
        /\ pc[c] \in {"deleteProducts", "saveProcessed"} => held[c] \in readModel
        /\ pc[c] = "ack" => held[c] \in Projection(c[2])

(* p has reached queue q, or has been projected from it. *)
Arrived(q, p) == Pending(q, p) \/ p \in Projection(q)

(* The worker marks only what has arrived everywhere it had to. *)
ConfirmedArrived ==
    \A w \in WriteReplicas : \A p \in productConfirmed[w] :
        \A q \in Declared : Arrived(q, p)

CatalogInv ==
    /\ TypeOK /\ ConsumerShape
    /\ EventsAreCommitted /\ EffectBeforeAck /\ NothingInvented
    /\ Declared \subseteq bound /\ ConfirmedArrived /\ NoLostProduct

-----------------------------------------------------------------------------
LEMMA ConsumerIsPair ==
  ASSUME NEW c \in Consumers
  PROVE  c[2] \in Queues /\ c[1] \in ReadReplicas /\ c = <<c[1], c[2]>>
<1>1. PICK r \in ReadReplicas, q \in Queues : c = <<r, q>>
  BY DEF Consumers
<1>2. c[1] = r /\ c[2] = q
  BY <1>1
<1>3. c[2] \in Queues /\ c[1] \in ReadReplicas
  BY <1>2
<1>4. c = <<c[1], c[2]>>
  BY <1>1, <1>2, Zenon
<1> QED BY <1>3, <1>4

LEMMA InitCatalog == Init => CatalogInv
<1> SUFFICES ASSUME Init PROVE CatalogInv
  OBVIOUS
<1> USE DEF Init, EventsInit, WriteInit, ReadInit
<1>1. TypeOK
  BY CatalogAssumption
  DEF TypeOK, EventsTypeOK, WriteTypeOK, ReadTypeOK, RowStates, Steps
<1>2. ConsumerShape /\ EffectBeforeAck
  BY DEF ConsumerShape, EffectBeforeAck
<1>3. EventsAreCommitted
  <2>1. ASSUME NEW q \in Queues, NEW p \in Products PROVE eventQ[<<q, p>>] = 0
    BY DEF QueuedCopies, Bodies
  <2>2. \A c \in Consumers : held[c] \notin Products
    BY ReadAssumption DEF Bodies
  <2> QED BY <2>1, <2>2 DEF EventsAreCommitted
<1>4. NothingInvented /\ ConfirmedArrived /\ NoLostProduct
  BY DEF NothingInvented, ConfirmedArrived, NoLostProduct
<1> QED BY <1>1, <1>2, <1>3, <1>4 DEF CatalogInv

-----------------------------------------------------------------------------
(* Types and shapes. *)

LEMMA WriteTypes ==
  ASSUME TypeOK, WriteNext, UNCHANGED readVars PROVE TypeOK'
<1> USE DEF TypeOK, EventsTypeOK, WriteTypeOK
<1>r. ReadTypeOK'
  BY DEF ReadTypeOK, readVars, storeVars, consumerVars, readerVars
<1> PICK w \in WriteReplicas :
       \/ \E p \in Products : CreateProduct(w, p)
       \/ ProductOutboxWorker(w) \/ ConnectionLost(w) \/ WriteCrash(w)
  BY DEF WriteNext
<1>1. ASSUME NEW p \in Products, CreateProduct(w, p) PROVE TypeOK'
  BY <1>r, <1>1, CatalogAssumption
  DEF CreateProduct, ProductRelay!Insert, eventVars, RowStates
<1>2. CASE /\ ProductRelay!FindUnprocessed(w)
           /\ UNCHANGED <<catalog, connected, bound, productReturns>>
  BY <1>r, <1>2 DEF ProductRelay!FindUnprocessed, ProductRelay!Unprocessed
<1>3. ASSUME NEW p \in Products, ProductRelay!Publish(w, p),
             UNCHANGED <<catalog, connected, bound>>
      PROVE  TypeOK'
  <2>1. eventQ' \in [QueuedCopies -> Nat]
    BY <1>3 DEF ProductRelay!Publish, ProductRelay!PublishConfirmed,
                ProductRelay!PublishError, ProductRelay!PublishReturned,
                ProductRelay!PublishMistaken, ProductRelay!PublishStalled,
                ProductRelay!PublishFailed,
                ProductRelay!Accept
  <2>2. productReturns' \in [WriteReplicas -> 0..2]
    <3>1. productReturns[w] \in 0..2
      OBVIOUS
    <3>2. \/ productReturns' = productReturns
          \/ \E n \in 0..2 : productReturns' = [productReturns EXCEPT ![w] = n]
      BY <1>3, <3>1
      DEF ProductRelay!Publish, ProductRelay!PublishConfirmed,
          ProductRelay!PublishError, ProductRelay!PublishReturned,
          ProductRelay!PublishMistaken, ProductRelay!PublishStalled,
          ProductRelay!PublishFailed, ProductRelay!Stalled
    <3> QED BY <3>2
  <2>3. /\ productBatch' \in [WriteReplicas -> SUBSET Products]
        /\ productConfirmed' \in [WriteReplicas -> SUBSET Products]
        /\ faults' \in Nat
        /\ UNCHANGED <<productOutbox, productCreatedAt>>
    BY <1>3
    DEF ProductRelay!Publish, ProductRelay!PublishConfirmed,
        ProductRelay!PublishError, ProductRelay!PublishReturned,
        ProductRelay!PublishMistaken, ProductRelay!PublishStalled,
        ProductRelay!PublishFailed, ProductRelay!Fault
  <2> QED BY <1>r, <1>3, <2>1, <2>2, <2>3
<1>4. ASSUME NEW p \in Products, ProductRelay!MarkAsProcessed(w, p),
             UNCHANGED <<catalog, connected, bound, productReturns>>
      PROVE  TypeOK'
  BY <1>r, <1>4 DEF ProductRelay!MarkAsProcessed, ProductRelay!Fault, RowStates
<1>5. CASE ConnectionLost(w)
  BY <1>r, <1>5 DEF ConnectionLost, Fault, productRelayVars
<1>6. CASE WriteCrash(w)
  BY <1>r, <1>6 DEF WriteCrash, Fault, ProductRelay!Forget, ProductRelay!Reconnect
<1>7. ASSUME NEW p \in Products, PublishOnClosed(w, p),
             UNCHANGED <<catalog, connected, bound>>
      PROVE  TypeOK'
  BY <1>r, <1>7 DEF PublishOnClosed
<1> QED BY <1>1, <1>2, <1>3, <1>4, <1>5, <1>6, <1>7
        DEF ProductOutboxWorker, ProductRelay!Poll

(* The steps of one delivery; every one leaves the other consumers alone.   *)
LEMMA ReadTypes ==
  ASSUME TypeOK, ConsumerShape, ReadNext, UNCHANGED writeVars PROVE TypeOK'
<1> USE DEF TypeOK, EventsTypeOK, ReadTypeOK, storeVars, consumerVars, readerVars, eventVars
<1>w. WriteTypeOK'
  BY DEF WriteTypeOK, writeVars, productRelayVars
<1>1. ASSUME NEW c \in Consumers, StartConsumer(c) PROVE TypeOK'
  BY <1>w, <1>1, ConsumerIsPair DEF StartConsumer, readVars
<1>2. ASSUME NEW c \in Consumers, NEW m \in Bodies, Receive(c, m) PROVE TypeOK'
  <2>1. <<c[2], m>> \in QueuedCopies
    BY ConsumerIsPair DEF QueuedCopies
  <2>2. eventQ' \in [QueuedCopies -> Nat]
    BY <1>2, <2>1 DEF Receive
  <2> QED BY <1>w, <1>2, <2>2 DEF Receive, Steps
<1>3. ASSUME NEW c \in Consumers, HandleMessage(c) PROVE TypeOK'
  <2> USE DEF Call, NackRequeue, Release, Goto, Fault, Steps
  <2>h. pc[c] \in {"upsert", "deleteProducts", "saveProcessed"} => held[c] \in Products
    BY DEF ConsumerShape
  <2>1. CASE Drop(c) \/ Ack(c)
    BY <1>w, <2>1 DEF Drop, Ack
  <2>2. CASE IsProcessed(c)
    BY <1>w, <2>2 DEF IsProcessed
  <2>3. CASE Upsert(c)
    BY <1>w, <2>h, <2>3 DEF Upsert
  <2>4. CASE DeleteProducts(c)
    BY <1>w, <2>4 DEF DeleteProducts
  <2>5. CASE SaveProcessed(c)
    BY <1>w, <2>h, <2>5 DEF SaveProcessed
  <2>6. CASE Index(c)
    BY <1>w, <2>6 DEF Index
  <2> QED BY <1>3, <2>1, <2>2, <2>3, <2>4, <2>5, <2>6 DEF HandleMessage
<1>4. ASSUME NEW r \in ReadReplicas, ReadCrash(r) PROVE TypeOK'
  BY <1>w, <1>4 DEF ReadCrash, Fault, Steps
<1>5. ASSUME NEW x \in Readers, GetProducts(x) \/ FindAll(x) \/ SetProducts(x) \/ ReadFails(x)
      PROVE  TypeOK'
  BY <1>w, <1>5 DEF GetProducts, FindAll, SetProducts, ReadFails, Fault
<1>6. CASE CacheExpires
  BY <1>w, <1>6 DEF CacheExpires
<1> QED BY <1>1, <1>2, <1>3, <1>4, <1>5, <1>6 DEF ReadNext

LEMMA CatalogTypes == TypeOK /\ ConsumerShape /\ [Next]_vars => TypeOK'
<1> SUFFICES ASSUME TypeOK, ConsumerShape, [Next]_vars PROVE TypeOK'
  OBVIOUS
<1>1. ASSUME NEW q \in Queues, NEW g \in Garbage, ForeignPublish(q, g),
             UNCHANGED <<writeVars, readVars>>
      PROVE  TypeOK'
  <2>1. <<q, g>> \in QueuedCopies
    BY DEF QueuedCopies, Bodies
  <2>2. eventQ' \in [QueuedCopies -> Nat]
    BY <1>1, <2>1 DEF ForeignPublish, TypeOK, EventsTypeOK
  <2> QED
  BY <1>1, <2>2 DEF ForeignPublish, Fault, TypeOK, EventsTypeOK, WriteTypeOK, ReadTypeOK,
              writeVars, productRelayVars, readVars, storeVars, consumerVars, readerVars
<1>2. CASE UNCHANGED vars
  BY <1>2 DEF vars, TypeOK, EventsTypeOK, WriteTypeOK, ReadTypeOK, eventVars,
              writeVars, productRelayVars, readVars, storeVars, consumerVars, readerVars
<1> QED BY <1>1, <1>2, WriteTypes, ReadTypes DEF Next

LEMMA ShapeStep == TypeOK /\ ConsumerShape /\ [Next]_vars => ConsumerShape'
<1> SUFFICES ASSUME TypeOK, ConsumerShape, [Next]_vars PROVE ConsumerShape'
  OBVIOUS
<1>t. pc \in [Consumers -> Steps] /\ held \in [Consumers -> Bodies \cup {None}]
  BY DEF TypeOK, ReadTypeOK
<1>n. None \notin Products /\ None \notin Bodies
  BY ReadAssumption DEF Bodies
<1>u. ASSUME UNCHANGED <<pc, held>> PROVE ConsumerShape'
  BY <1>u DEF ConsumerShape
<1>1. ASSUME NEW c \in Consumers, NEW m \in Bodies, Receive(c, m) PROVE ConsumerShape'
  BY <1>1, <1>t, <1>n DEF Receive, ConsumerShape
<1>2. ASSUME NEW c \in Consumers, HandleMessage(c) PROVE ConsumerShape'
  <2> USE DEF ConsumerShape
  <2>r. ASSUME Release(c) PROVE ConsumerShape'
    BY <1>t, <2>r DEF Release
  <2>g. ASSUME NEW s \in Steps \ {"idle"}, Goto(c, s), pc[c] # "idle",
               s # "handle" => held[c] \in Products,
               s \in {"upsert", "deleteProducts", "saveProcessed"} => c[2] = "readModel"
        PROVE  ConsumerShape'
    BY <1>t, <2>g DEF Goto
  <2>1. CASE Drop(c) \/ Ack(c)
    BY <2>r, <2>1 DEF Drop, Ack
  <2>2. CASE IsProcessed(c)
    BY <2>r, <2>g, <2>2 DEF IsProcessed, Call, NackRequeue, Steps
  <2>3. CASE Upsert(c)
    BY <2>r, <2>g, <2>3 DEF Upsert, Call, NackRequeue, Steps
  <2>4. CASE DeleteProducts(c)
    BY <2>r, <2>g, <2>4 DEF DeleteProducts, Call, NackRequeue, Steps
  <2>5. CASE SaveProcessed(c)
    BY <2>r, <2>g, <2>5 DEF SaveProcessed, Call, NackRequeue, Steps
  <2>6. CASE Index(c)
    BY <2>r, <2>g, <2>6 DEF Index, Call, NackRequeue, Steps
  <2> QED BY <1>2, <2>1, <2>2, <2>3, <2>4, <2>5, <2>6 DEF HandleMessage
<1>3. ASSUME NEW r \in ReadReplicas, ReadCrash(r) PROVE ConsumerShape'
  BY <1>3, <1>t DEF ReadCrash, ConsumerShape
<1>4. CASE UNCHANGED readVars
  BY <1>u, <1>4 DEF readVars, consumerVars
<1>5. ASSUME NEW x \in Readers, GetProducts(x) \/ FindAll(x) \/ SetProducts(x) \/ ReadFails(x)
      PROVE  ConsumerShape'
  BY <1>u, <1>5 DEF GetProducts, FindAll, SetProducts, ReadFails, consumerVars
<1>6. CASE CacheExpires
  BY <1>u, <1>6 DEF CacheExpires, consumerVars
<1>7. ASSUME NEW c \in Consumers, StartConsumer(c) PROVE ConsumerShape'
  BY <1>4, <1>7 DEF StartConsumer
<1> QED BY <1>1, <1>2, <1>3, <1>4, <1>5, <1>6, <1>7 DEF Next, ReadNext, vars

-----------------------------------------------------------------------------
(* Products, projections and bindings stay. *)

LEMMA Grows ==
  ASSUME TypeOK, [Next]_vars
  PROVE  /\ catalog \subseteq catalog' /\ bound \subseteq bound'
         /\ readModel \subseteq readModel' /\ searchIndex \subseteq searchIndex'
         /\ readInbox \subseteq readInbox'
<1> DEFINE G == /\ catalog \subseteq catalog' /\ bound \subseteq bound'
                /\ readModel \subseteq readModel' /\ searchIndex \subseteq searchIndex'
                /\ readInbox \subseteq readInbox'
<1> USE DEF storeVars, consumerVars, readerVars, eventVars
<1>1. CASE WriteNext /\ UNCHANGED readVars
  <2>1. bound' = bound /\ catalog \subseteq catalog'
    BY <1>1 DEF WriteNext, CreateProduct, ProductOutboxWorker, ConnectionLost, WriteCrash
  <2> QED BY <1>1, <2>1 DEF readVars
<1>2. CASE ReadNext /\ UNCHANGED writeVars
  <2>c. catalog' = catalog
    BY <1>2 DEF writeVars
  <2>1. ASSUME NEW c \in Consumers, StartConsumer(c) PROVE G
    BY <2>c, <2>1 DEF StartConsumer, readVars
  <2>2. ASSUME NEW c \in Consumers, NEW m \in Bodies, Receive(c, m) PROVE G
    BY <2>c, <2>2 DEF Receive
  <2>3. ASSUME NEW c \in Consumers, HandleMessage(c) PROVE G
    <3>1. bound' = bound
      BY <2>3 DEF HandleMessage, Drop, Ack, IsProcessed, Upsert, DeleteProducts,
                  SaveProcessed, Index
    <3>2. /\ readModel \subseteq readModel' /\ searchIndex \subseteq searchIndex'
          /\ readInbox \subseteq readInbox'
      BY <2>3 DEF HandleMessage, Drop, Ack, IsProcessed, Upsert, DeleteProducts,
                  SaveProcessed, Index, Call
    <3> QED BY <2>c, <3>1, <3>2
  <2>4. ASSUME NEW r \in ReadReplicas, ReadCrash(r) PROVE G
    BY <2>c, <2>4 DEF ReadCrash
  <2>5. ASSUME NEW x \in Readers, GetProducts(x) \/ FindAll(x) \/ SetProducts(x) \/ ReadFails(x)
        PROVE  G
    BY <2>c, <2>5 DEF GetProducts, FindAll, SetProducts, ReadFails
  <2>6. CASE CacheExpires
    BY <2>c, <2>6 DEF CacheExpires
  <2> QED BY <1>2, <2>1, <2>2, <2>3, <2>4, <2>5, <2>6 DEF ReadNext
<1>3. ASSUME NEW q \in Queues, NEW g \in Garbage, ForeignPublish(q, g),
             UNCHANGED <<writeVars, readVars>>
      PROVE  G
  BY <1>3 DEF ForeignPublish, writeVars, readVars
<1>4. CASE UNCHANGED vars
  BY <1>4 DEF vars, writeVars, readVars
<1> QED BY <1>1, <1>2, <1>3, <1>4 DEF Next

(* The exchange copies only the event it is given; a publish takes nothing  *)
(* out of a queue.                                                          *)
LEMMA PublishCopies ==
  ASSUME TypeOK, NEW w \in WriteReplicas, NEW p \in Products,
         ProductRelay!Publish(w, p)
  PROVE  /\ \A c \in QueuedCopies : eventQ'[c] >= eventQ[c]
         /\ \A c \in QueuedCopies : eventQ'[c] # eventQ[c] => c[2] = p
<1>1. eventQ' = eventQ \/ ProductRelay!Accept(p)
  BY DEF ProductRelay!Publish, ProductRelay!PublishConfirmed,
         ProductRelay!PublishError, ProductRelay!PublishReturned,
         ProductRelay!PublishMistaken, ProductRelay!PublishStalled,
         ProductRelay!PublishFailed
<1>2. \A c \in ProductRelay!Routes(p) : c[2] = p
  BY DEF ProductRelay!Routes
<1>3. \A c \in QueuedCopies : eventQ[c] \in Nat
  BY DEF TypeOK, EventsTypeOK
<1> QED BY <1>1, <1>2, <1>3 DEF ProductRelay!Accept

LEMMA CommittedStep ==
  TypeOK /\ ConsumerShape /\ EventsAreCommitted /\ [Next]_vars => EventsAreCommitted'
<1> SUFFICES ASSUME TypeOK, ConsumerShape, EventsAreCommitted, [Next]_vars
             PROVE  EventsAreCommitted'
  OBVIOUS
<1>g. catalog \subseteq catalog'
  BY Grows
<1>t. /\ productOutbox \in [Products -> RowStates]
      /\ productBatch \in [WriteReplicas -> SUBSET Products]
      /\ productConfirmed \in [WriteReplicas -> SUBSET Products]
      /\ eventQ \in [QueuedCopies -> Nat]
      /\ held \in [Consumers -> Bodies \cup {None}]
  BY DEF TypeOK, EventsTypeOK, WriteTypeOK, ReadTypeOK
<1>q. \A q \in Queues, p \in Products : <<q, p>> \in QueuedCopies
  BY DEF QueuedCopies, Bodies
<1>n. None \notin Products
  BY ReadAssumption DEF Bodies
<1> DEFINE W == /\ \A p \in Products : productOutbox'[p] # "absent" => p \in catalog'
                /\ \A w \in WriteReplicas :
                      productBatch'[w] \cup productConfirmed'[w] \subseteq catalog'
           Q == \A q \in Queues, p \in Products : eventQ'[<<q, p>>] > 0 => p \in catalog'
           H == \A c \in Consumers : held'[c] \in Products => held'[c] \in catalog'
<1>w. UNCHANGED writeVars => W
  BY <1>g DEF EventsAreCommitted, writeVars, productRelayVars
<1>e. eventQ' = eventQ => Q
  BY <1>g DEF EventsAreCommitted
<1>h. held' = held => H
  BY <1>g DEF EventsAreCommitted
<1>a. W /\ Q /\ H => EventsAreCommitted'
  BY DEF EventsAreCommitted
<1> HIDE DEF W, Q, H
<1>1. CASE WriteNext /\ UNCHANGED readVars
  <2>h. H
    BY <1>h, <1>1 DEF readVars, consumerVars
  <2> PICK w \in WriteReplicas :
         \/ \E p \in Products : CreateProduct(w, p)
         \/ ProductOutboxWorker(w) \/ ConnectionLost(w) \/ WriteCrash(w)
    BY <1>1 DEF WriteNext
  <2>1. ASSUME NEW p \in Products, CreateProduct(w, p) PROVE W /\ Q
    <3>1. Q
      BY <1>e, <2>1 DEF CreateProduct, eventVars
    <3>2. W
      BY <1>g, <1>t, <2>1 DEF CreateProduct, ProductRelay!Insert, EventsAreCommitted, W
    <3> QED BY <3>1, <3>2
  <2>2. ASSUME ProductRelay!FindUnprocessed(w), catalog' = catalog PROVE W /\ Q
    <3>1. eventQ' = eventQ /\ UNCHANGED <<productOutbox, productConfirmed, catalog>>
      BY <2>2 DEF ProductRelay!FindUnprocessed
    <3>2. \A v \in WriteReplicas : productBatch'[v] \subseteq
             productBatch[v] \cup {p \in Products : productOutbox[p] = "unprocessed"}
      BY <1>t, <2>2 DEF ProductRelay!FindUnprocessed, ProductRelay!Unprocessed
    <3>3. W
      BY <1>g, <3>1, <3>2 DEF EventsAreCommitted, W
    <3> QED BY <1>e, <3>1, <3>3
  <2>3. ASSUME NEW p \in Products, ProductRelay!Publish(w, p) PROVE W /\ Q
    <3>1. p \in productBatch[w] /\ p \in catalog /\ productOutbox' = productOutbox
      BY <2>3 DEF ProductRelay!Publish, ProductRelay!NextOf, EventsAreCommitted
    <3>2. Q
      <4> SUFFICES ASSUME NEW q \in Queues, NEW m \in Products, eventQ'[<<q, m>>] > 0
                   PROVE  m \in catalog'
        BY DEF Q
      <4>1. CASE eventQ'[<<q, m>>] = eventQ[<<q, m>>]
        BY <1>g, <4>1 DEF EventsAreCommitted
      <4>2. CASE eventQ'[<<q, m>>] # eventQ[<<q, m>>]
        BY <1>g, <1>q, <2>3, <3>1, <4>2, PublishCopies
      <4> QED BY <4>1, <4>2
    <3>3. \A v \in WriteReplicas :
             productBatch'[v] \cup productConfirmed'[v]
               \subseteq productBatch[v] \cup productConfirmed[v] \cup {p}
      BY <1>t, <2>3 DEF ProductRelay!Publish, ProductRelay!PublishConfirmed,
                        ProductRelay!PublishError, ProductRelay!PublishReturned,
                        ProductRelay!PublishMistaken, ProductRelay!PublishStalled,
                        ProductRelay!PublishFailed
    <3>4. W
      BY <1>g, <3>1, <3>3 DEF EventsAreCommitted, W
    <3> QED BY <3>2, <3>4
  <2>4. ASSUME NEW p \in Products, ProductRelay!MarkAsProcessed(w, p) PROVE W /\ Q
    <3>1. Q
      BY <1>e, <2>4 DEF ProductRelay!MarkAsProcessed
    <3>2. p \in catalog
      BY <2>4 DEF ProductRelay!MarkAsProcessed, EventsAreCommitted
    <3>3. W
      BY <1>g, <1>t, <2>4, <3>2 DEF ProductRelay!MarkAsProcessed, EventsAreCommitted, W
    <3> QED BY <3>1, <3>3
  <2>5. ASSUME ConnectionLost(w) \/ WriteCrash(w) PROVE W /\ Q
    <3>1. eventQ' = eventQ /\ UNCHANGED productOutbox
      BY <2>5 DEF ConnectionLost, WriteCrash, productRelayVars
    <3>2. \A v \in WriteReplicas : /\ productBatch'[v] \subseteq productBatch[v]
                                   /\ productConfirmed'[v] \subseteq productConfirmed[v]
      BY <1>t, <2>5 DEF ConnectionLost, WriteCrash, ProductRelay!Forget, ProductRelay!Reconnect, productRelayVars
    <3>3. W
      BY <1>g, <3>1, <3>2 DEF EventsAreCommitted, W
    <3> QED BY <1>e, <3>1, <3>3
  <2>6. ASSUME NEW p \in Products, PublishOnClosed(w, p) PROVE W /\ Q
    <3>1. eventQ' = eventQ /\ UNCHANGED <<productOutbox, productConfirmed>>
      BY <2>6 DEF PublishOnClosed
    <3>2. \A v \in WriteReplicas : productBatch'[v] \subseteq productBatch[v]
      BY <1>t, <2>6 DEF PublishOnClosed
    <3>3. W
      BY <1>g, <3>1, <3>2 DEF EventsAreCommitted, W
    <3> QED BY <1>e, <3>1, <3>3
  <2>7. W /\ Q
    BY <2>1, <2>2, <2>3, <2>4, <2>5, <2>6 DEF ProductOutboxWorker, ProductRelay!Work, ProductRelay!Poll
  <2> QED BY <1>a, <2>h, <2>7
<1>2. CASE ReadNext /\ UNCHANGED writeVars
  <2>w. W
    BY <1>w, <1>2
  <2>s. ASSUME UNCHANGED <<eventQ, held>> PROVE Q /\ H
    BY <1>e, <1>h, <2>s
  <2>1. ASSUME NEW c \in Consumers, NEW m \in Bodies, Receive(c, m) PROVE Q /\ H
    <3>1. \A d \in QueuedCopies : eventQ'[d] <= eventQ[d] /\ eventQ'[d] \in Nat
      BY <1>t, <2>1 DEF Receive
    <3>2. Q
      BY <1>g, <1>q, <1>t, <3>1 DEF EventsAreCommitted, Q
    <3>3. H
      BY <1>g, <1>t, <2>1, ConsumerIsPair DEF Receive, EventsAreCommitted, H
    <3> QED BY <3>2, <3>3
  <2>2. ASSUME NEW c \in Consumers, HandleMessage(c) PROVE Q /\ H
    <3>r. ASSUME Release(c) PROVE H
      BY <1>g, <1>n, <1>t, <3>r DEF Release, EventsAreCommitted, H
    <3>n. ASSUME NackRequeue(c) PROVE Q /\ H
      <4>1. ASSUME NEW q \in Queues, NEW p \in Products, eventQ'[<<q, p>>] > 0
            PROVE  p \in catalog
        <5>1. CASE eventQ[<<q, p>>] > 0
          BY <5>1 DEF EventsAreCommitted
        <5>2. CASE ~(eventQ[<<q, p>>] > 0)
          <6>1. <<c[2], held[c]>> = <<q, p>>
            BY <1>q, <1>t, <3>n, <4>1, <5>2 DEF NackRequeue
          <6> QED BY <6>1 DEF EventsAreCommitted
        <5> QED BY <5>1, <5>2
      <4> QED BY <1>g, <3>n, <3>r, <4>1 DEF NackRequeue, Q
    <3>1. \/ NackRequeue(c)
          \/ eventQ' = eventQ /\ Release(c)
          \/ eventQ' = eventQ /\ held' = held
      <4>1. CASE Drop(c) \/ Ack(c)
        BY <4>1 DEF Drop, Ack, eventVars
      <4>2. CASE IsProcessed(c) \/ Upsert(c) \/ DeleteProducts(c) \/ SaveProcessed(c) \/ Index(c)
        BY <4>2 DEF IsProcessed, Upsert, DeleteProducts, SaveProcessed, Index, Call, Goto
      <4> QED BY <2>2, <4>1, <4>2 DEF HandleMessage
    <3> QED BY <1>e, <2>s, <3>r, <3>n, <3>1
  <2>3. ASSUME NEW r \in ReadReplicas, ReadCrash(r) PROVE Q /\ H
    <3>1. H
      BY <1>g, <1>n, <1>t, <2>3 DEF ReadCrash, EventsAreCommitted, H
    <3>2. ASSUME NEW q \in Queues, NEW p \in Products, eventQ'[<<q, p>>] > 0
          PROVE  p \in catalog
      <4>1. eventQ[<<q, p>>] > 0 \/ held[<<r, q>>] = p
        BY <1>q, <2>3, <3>2 DEF ReadCrash
      <4>2. <<r, q>> \in Consumers
        BY DEF Consumers
      <4> QED BY <4>1, <4>2 DEF EventsAreCommitted
    <3> QED BY <1>g, <3>1, <3>2 DEF Q
  <2>4. ASSUME NEW c \in Consumers, StartConsumer(c) PROVE Q /\ H
    BY <2>s, <2>4 DEF StartConsumer, readVars, consumerVars
  <2>5. ASSUME NEW x \in Readers, GetProducts(x) \/ FindAll(x) \/ SetProducts(x) \/ ReadFails(x)
        PROVE  Q /\ H
    BY <2>s, <2>5 DEF GetProducts, FindAll, SetProducts, ReadFails, consumerVars, eventVars
  <2>6. ASSUME CacheExpires PROVE Q /\ H
    BY <2>s, <2>6 DEF CacheExpires, consumerVars, eventVars
  <2>7. Q /\ H
    BY <1>2, <2>1, <2>2, <2>3, <2>4, <2>5, <2>6 DEF ReadNext
  <2> QED BY <1>a, <2>w, <2>7
<1>3. ASSUME NEW q \in Queues, NEW g \in Garbage, ForeignPublish(q, g),
             UNCHANGED <<writeVars, readVars>>
      PROVE  EventsAreCommitted'
  <2>1. W /\ H
    BY <1>w, <1>h, <1>3 DEF readVars, consumerVars
  <2>2. \A s \in Queues, p \in Products : eventQ'[<<s, p>>] = eventQ[<<s, p>>]
    BY <1>q, <1>t, <1>3, CatalogAssumption DEF ForeignPublish
  <2>3. Q
    BY <1>g, <2>2 DEF EventsAreCommitted, Q
  <2> QED BY <1>a, <2>1, <2>3
<1>4. CASE UNCHANGED vars
  BY <1>w, <1>e, <1>h, <1>a, <1>4 DEF vars, eventVars, readVars, consumerVars
<1> QED BY <1>1, <1>2, <1>3, <1>4 DEF Next

-----------------------------------------------------------------------------
(* Effects before acknowledgements, and nothing a reader could not have seen. *)

EffectsInv == TypeOK /\ ConsumerShape /\ EventsAreCommitted /\ EffectBeforeAck /\ NothingInvented

LEMMA EffectStep == EffectsInv /\ [Next]_vars => EffectBeforeAck'
<1> SUFFICES ASSUME EffectsInv, [Next]_vars PROVE EffectBeforeAck'
  OBVIOUS
<1>i. TypeOK /\ ConsumerShape /\ EffectBeforeAck /\ readInbox \subseteq readModel
  BY DEF EffectsInv, NothingInvented
<1>t. pc \in [Consumers -> Steps] /\ held \in [Consumers -> Bodies \cup {None}]
  BY <1>i DEF TypeOK, ReadTypeOK
<1>g. readModel \subseteq readModel' /\ searchIndex \subseteq searchIndex'
  BY <1>i, Grows
(* What is to be shown of the consumers d whose step has not changed. *)
<1>o. ASSUME NEW d \in Consumers, pc'[d] = pc[d], held'[d] = held[d]
      PROVE  /\ pc'[d] \in {"deleteProducts", "saveProcessed"} => held'[d] \in readModel'
             /\ pc'[d] = "ack" => held'[d] \in Projection(d[2])'
  BY <1>i, <1>g, <1>o DEF EffectBeforeAck, Projection
<1>u. ASSUME UNCHANGED <<pc, held>> PROVE EffectBeforeAck'
  BY <1>o, <1>u DEF EffectBeforeAck
<1>1. ASSUME NEW c \in Consumers, NEW m \in Bodies, Receive(c, m) PROVE EffectBeforeAck'
  <2>1. pc'[c] = "handle" /\ \A d \in Consumers \ {c} : pc'[d] = pc[d] /\ held'[d] = held[d]
    BY <1>1, <1>t DEF Receive
  <2> QED BY <1>o, <2>1 DEF EffectBeforeAck
<1>2. ASSUME NEW c \in Consumers, HandleMessage(c) PROVE EffectBeforeAck'
  <2>r. ASSUME Release(c) PROVE EffectBeforeAck'
    <3>1. pc'[c] = "idle" /\ \A d \in Consumers \ {c} : pc'[d] = pc[d] /\ held'[d] = held[d]
      BY <1>t, <2>r DEF Release
    <3> QED BY <1>o, <3>1 DEF EffectBeforeAck
  <2>g. ASSUME NEW s \in Steps, Goto(c, s),
               s \in {"deleteProducts", "saveProcessed"} => held[c] \in readModel',
               s = "ack" => held[c] \in Projection(c[2])'
        PROVE  EffectBeforeAck'
    <3>1. /\ pc'[c] = s /\ held' = held
          /\ \A d \in Consumers \ {c} : pc'[d] = pc[d] /\ held'[d] = held[d]
      BY <1>t, <2>g DEF Goto
    <3> QED BY <1>o, <2>g, <3>1 DEF EffectBeforeAck
  <2> USE DEF Call, NackRequeue, Steps
  <2>1. CASE Drop(c) \/ Ack(c)
    BY <2>r, <2>1 DEF Drop, Ack
  <2>2. CASE IsProcessed(c)
    <3>1. c[2] = "readModel" /\ (held[c] \in readInbox => held[c] \in readModel')
      BY <1>i, <1>g, <2>2 DEF IsProcessed
    <3> QED BY <2>r, <2>g, <2>2, <3>1 DEF IsProcessed, Projection
  <2>3. CASE Upsert(c)
    BY <2>r, <2>g, <2>3 DEF Upsert
  <2>4. CASE DeleteProducts(c)
    <3>1. held[c] \in readModel'
      BY <1>i, <1>g, <2>4 DEF DeleteProducts, EffectBeforeAck
    <3> QED BY <2>r, <2>g, <2>4, <3>1 DEF DeleteProducts
  <2>5. CASE SaveProcessed(c)
    <3>1. held[c] \in readModel' /\ c[2] = "readModel"
      BY <1>i, <1>g, <2>5 DEF SaveProcessed, EffectBeforeAck, ConsumerShape
    <3> QED BY <2>r, <2>g, <2>5, <3>1 DEF SaveProcessed, Projection
  <2>6. CASE Index(c)
    BY <2>r, <2>g, <2>6 DEF Index, Projection
  <2> QED BY <1>2, <2>1, <2>2, <2>3, <2>4, <2>5, <2>6 DEF HandleMessage
<1>3. ASSUME NEW r \in ReadReplicas, ReadCrash(r) PROVE EffectBeforeAck'
  <2>1. \A d \in Consumers : pc'[d] = "idle" \/ (pc'[d] = pc[d] /\ held'[d] = held[d])
    BY <1>3, <1>t DEF ReadCrash
  <2> QED BY <1>o, <2>1 DEF EffectBeforeAck
<1>4. CASE UNCHANGED readVars
  BY <1>u, <1>4 DEF readVars, consumerVars
<1>5. ASSUME NEW x \in Readers, GetProducts(x) \/ FindAll(x) \/ SetProducts(x) \/ ReadFails(x)
      PROVE  EffectBeforeAck'
  BY <1>u, <1>5 DEF GetProducts, FindAll, SetProducts, ReadFails, consumerVars
<1>6. CASE CacheExpires
  BY <1>u, <1>6 DEF CacheExpires, consumerVars
<1>7. ASSUME NEW c \in Consumers, StartConsumer(c) PROVE EffectBeforeAck'
  BY <1>4, <1>7 DEF StartConsumer
<1> QED BY <1>1, <1>2, <1>3, <1>4, <1>5, <1>6, <1>7 DEF Next, ReadNext, vars

LEMMA InventedStep == EffectsInv /\ [Next]_vars => NothingInvented'
<1> SUFFICES ASSUME EffectsInv, [Next]_vars PROVE NothingInvented'
  OBVIOUS
<1>i. TypeOK /\ ConsumerShape /\ EffectBeforeAck /\ NothingInvented /\ EventsAreCommitted
  BY DEF EffectsInv
<1>t. reading \in [Readers -> {"idle", "findAll", "setProducts"}]
      /\ found \in [Readers -> SUBSET Products]
  BY <1>i DEF TypeOK, ReadTypeOK
<1>g. readModel \subseteq readModel' /\ searchIndex \subseteq searchIndex' /\ catalog \subseteq catalog'
  BY <1>i, Grows
<1>e. ASSUME readModel' \cup searchIndex' \subseteq catalog, readInbox' \subseteq readModel',
             cache' \in {cache, None}, found' = found
      PROVE  NothingInvented'
  BY <1>i, <1>g, <1>e DEF NothingInvented
<1>u. ASSUME UNCHANGED <<storeVars, readerVars>> PROVE NothingInvented'
  BY <1>e, <1>i, <1>u DEF storeVars, readerVars, NothingInvented
<1>1. ASSUME NEW c \in Consumers, NEW m \in Bodies, Receive(c, m) PROVE NothingInvented'
  BY <1>u, <1>1 DEF Receive
<1>2. ASSUME NEW c \in Consumers, HandleMessage(c) PROVE NothingInvented'
  <2> USE DEF Call, storeVars, readerVars
  <2>n. readModel \cup searchIndex \subseteq catalog /\ readInbox \subseteq readModel
    BY <1>i DEF NothingInvented
  <2>1. CASE Drop(c) \/ Ack(c) \/ IsProcessed(c)
    BY <1>u, <2>1 DEF Drop, Ack, IsProcessed
  <2>2. CASE Upsert(c)
    <3>1. held[c] \in catalog
      BY <1>i, <2>2 DEF Upsert, ConsumerShape, EventsAreCommitted
    <3>2. UNCHANGED <<searchIndex, cache, readInbox, found>>
          /\ readModel' \in {readModel, readModel \cup {held[c]}}
      BY <2>2 DEF Upsert
    <3> QED BY <1>e, <2>n, <3>1, <3>2
  <2>3. CASE DeleteProducts(c)
    <3>1. UNCHANGED <<readModel, searchIndex, readInbox, found>> /\ cache' \in {cache, None}
      BY <2>3 DEF DeleteProducts
    <3> QED BY <1>e, <2>n, <3>1
  <2>4. CASE SaveProcessed(c)
    <3>1. held[c] \in readModel
      BY <1>i, <2>4 DEF SaveProcessed, EffectBeforeAck
    <3>2. UNCHANGED <<readModel, searchIndex, cache, found>>
          /\ readInbox' \in {readInbox, readInbox \cup {held[c]}}
      BY <2>4 DEF SaveProcessed
    <3> QED BY <1>e, <2>n, <3>1, <3>2
  <2>5. CASE Index(c)
    <3>1. held[c] \in catalog
      BY <1>i, <2>5 DEF Index, EventsAreCommitted
    <3>2. UNCHANGED <<readModel, cache, readInbox, found>>
          /\ searchIndex' \in {searchIndex, searchIndex \cup {held[c]}}
      BY <2>5 DEF Index
    <3> QED BY <1>e, <2>n, <3>1, <3>2
  <2> QED BY <1>2, <2>1, <2>2, <2>3, <2>4, <2>5 DEF HandleMessage
<1>3. ASSUME NEW r \in ReadReplicas, ReadCrash(r) PROVE NothingInvented'
  BY <1>u, <1>3 DEF ReadCrash
<1>4. CASE UNCHANGED readVars
  BY <1>u, <1>4 DEF readVars
<1>5. ASSUME NEW x \in Readers, GetProducts(x) \/ FindAll(x) \/ SetProducts(x) \/ ReadFails(x)
      PROVE  NothingInvented'
  <2>1. UNCHANGED <<readModel, searchIndex, readInbox>>
    BY <1>5 DEF GetProducts, FindAll, SetProducts, ReadFails, storeVars
  <2>2. cache' \in {cache, found[x]}
    BY <1>5 DEF GetProducts, FindAll, SetProducts, ReadFails, storeVars
  <2>3. \A y \in Readers : found'[y] \in {found[y], readModel, {}}
    BY <1>t, <1>5 DEF GetProducts, FindAll, SetProducts, ReadFails
  <2> QED BY <1>i, <1>g, <2>1, <2>2, <2>3 DEF NothingInvented
<1>6. CASE CacheExpires
  <2>1. UNCHANGED <<readModel, searchIndex, readInbox, found>> /\ cache' = None
    BY <1>6 DEF CacheExpires, readerVars
  <2> QED BY <1>e, <1>i, <2>1 DEF NothingInvented
<1>7. ASSUME NEW c \in Consumers, StartConsumer(c) PROVE NothingInvented'
  BY <1>4, <1>7 DEF StartConsumer
<1> QED BY <1>1, <1>2, <1>3, <1>4, <1>5, <1>6, <1>7 DEF Next, ReadNext, vars

-----------------------------------------------------------------------------
(* A product that has reached a queue stays there, with a consumer, or in   *)
(* the projection: only an acknowledgement that follows the effect ends it. *)

LEMMA ArrivedStays ==
  ASSUME EffectsInv, [Next]_vars, NEW q \in Queues, NEW p \in Products, Arrived(q, p)
  PROVE  Arrived(q, p)'
<1>i. TypeOK /\ ConsumerShape /\ EffectBeforeAck'
  BY EffectStep DEF EffectsInv
<1>t. /\ eventQ \in [QueuedCopies -> Nat]
      /\ pc \in [Consumers -> Steps] /\ held \in [Consumers -> Bodies \cup {None}]
  BY <1>i DEF TypeOK, EventsTypeOK, ReadTypeOK
<1>q. <<q, p>> \in QueuedCopies /\ eventQ[<<q, p>>] \in Nat
  BY <1>t DEF QueuedCopies, Bodies
<1>p. p \in Projection(q) => Arrived(q, p)'
  BY <1>i, Grows DEF Arrived, Projection
<1> DEFINE With(c) == c[2] = q /\ held[c] = p /\ pc[c] \notin {"idle", "ack"}
<1>w. p \in Projection(q) \/ eventQ[<<q, p>>] > 0 \/ \E c \in Consumers : With(c)
  BY DEF Arrived, Pending
<1>e. eventQ'[<<q, p>>] > 0 => Arrived(q, p)'
  BY DEF Arrived, Pending
<1>c. ASSUME NEW c \in Consumers, c[2] = q, held'[c] = p, pc'[c] \notin {"idle", "ack"}
      PROVE  Arrived(q, p)'
  BY <1>c DEF Arrived, Pending
<1>u. ASSUME eventQ'[<<q, p>>] \in Nat, eventQ'[<<q, p>>] >= eventQ[<<q, p>>],
             UNCHANGED <<pc, held>>
      PROVE  Arrived(q, p)'
  BY <1>c, <1>e, <1>p, <1>q, <1>u, <1>w
<1>1. CASE WriteNext /\ UNCHANGED readVars
  <2>1. /\ eventQ'[<<q, p>>] >= eventQ[<<q, p>>]
    <3> PICK w \in WriteReplicas :
           \/ \E m \in Products : CreateProduct(w, m)
           \/ ProductOutboxWorker(w) \/ ConnectionLost(w) \/ WriteCrash(w)
      BY <1>1 DEF WriteNext
    <3>1. ASSUME NEW m \in Products, ProductRelay!Publish(w, m)
          PROVE  eventQ'[<<q, p>>] >= eventQ[<<q, p>>]
      BY <1>i, <1>q, <3>1, PublishCopies
    <3>2. ASSUME eventQ' = eventQ PROVE eventQ'[<<q, p>>] >= eventQ[<<q, p>>]
      BY <1>q, <3>2
    <3> QED BY <3>1, <3>2
            DEF CreateProduct, ProductOutboxWorker, PublishOnClosed, ConnectionLost, WriteCrash, eventVars,
                ProductRelay!Work, ProductRelay!Poll, ProductRelay!FindUnprocessed, ProductRelay!MarkAsProcessed
  <2>2. eventQ' \in [QueuedCopies -> Nat]
    BY <1>i, CatalogTypes DEF TypeOK, EventsTypeOK
  <2> QED BY <1>1, <1>q, <1>u, <2>1, <2>2 DEF readVars, consumerVars
<1>2. ASSUME NEW c \in Consumers, NEW m \in Bodies, Receive(c, m) PROVE Arrived(q, p)'
  <2>1. /\ held'[c] = m /\ pc'[c] = "handle" /\ pc[c] = "idle"
        /\ \A d \in Consumers \ {c} : pc'[d] = pc[d] /\ held'[d] = held[d]
    BY <1>2, <1>t DEF Receive
  <2>2. CASE c[2] = q /\ m = p
    BY <1>c, <2>1, <2>2
  <2>3. CASE ~(c[2] = q /\ m = p)
    <3>1. <<c[2], m>> # <<q, p>>
      BY <2>3
    <3>2. eventQ'[<<q, p>>] = eventQ[<<q, p>>]
      BY <1>2, <1>q, <1>t, <3>1 DEF Receive
    <3> QED BY <1>c, <1>e, <1>p, <1>w, <2>1, <3>2
  <2> QED BY <2>2, <2>3
<1>3. ASSUME NEW c \in Consumers, HandleMessage(c) PROVE Arrived(q, p)'
  <2>1. \A d \in Consumers \ {c} : pc'[d] = pc[d] /\ held'[d] = held[d]
    <3>1. (\E s \in Steps : Goto(c, s)) \/ Release(c)
      BY <1>3 DEF HandleMessage, Drop, Ack, IsProcessed, Upsert, DeleteProducts,
                  SaveProcessed, Index, Call, NackRequeue, Steps
    <3> QED BY <1>t, <3>1 DEF Goto, Release
  <2>n. ASSUME NackRequeue(c) PROVE Arrived(q, p)'
    <3>1. eventQ'[<<q, p>>] >= eventQ[<<q, p>>]
      BY <1>q, <1>t, <2>n DEF NackRequeue
    <3>2. ASSUME With(c) PROVE eventQ'[<<q, p>>] > 0
      <4>1. eventQ'[<<q, p>>] = eventQ[<<q, p>>] + 1
        BY <1>q, <1>t, <2>n, <3>2 DEF NackRequeue
      <4> QED BY <1>q, <4>1
    <3>3. eventQ'[<<q, p>>] \in Nat
      BY <1>q, <1>t, <2>n DEF NackRequeue
    <3> QED BY <1>c, <1>e, <1>p, <1>q, <1>w, <2>1, <3>1, <3>2, <3>3
  <2>g. ASSUME NEW s \in Steps \ {"idle"}, Goto(c, s), eventQ' = eventQ
        PROVE  Arrived(q, p)'
    <3>1. pc'[c] = s /\ held'[c] = held[c]
      BY <1>t, <2>g DEF Goto
    <3>2. ASSUME With(c) PROVE Arrived(q, p)'
      <4>1. s = "ack" => p \in Projection(q)'
        BY <1>i, <3>1, <3>2 DEF EffectBeforeAck
      <4> QED BY <1>c, <3>1, <3>2, <4>1 DEF Arrived
    <3> QED BY <1>c, <1>e, <1>p, <1>w, <2>1, <2>g, <3>2
  <2>r. ASSUME Drop(c) \/ Ack(c) PROVE Arrived(q, p)'
    <3>1. ~With(c) /\ eventQ' = eventQ
      BY <2>r, CatalogAssumption DEF Drop, Ack, eventVars
    <3> QED BY <1>c, <1>e, <1>p, <1>w, <2>1, <3>1
  <2>2. CASE IsProcessed(c) \/ Upsert(c) \/ DeleteProducts(c) \/ SaveProcessed(c) \/ Index(c)
    <3>1. \/ NackRequeue(c)
          \/ eventQ' = eventQ /\ \E s \in Steps \ {"idle"} : Goto(c, s)
      BY <2>2 DEF IsProcessed, Upsert, DeleteProducts, SaveProcessed, Index, Call, Steps
    <3> QED BY <2>g, <2>n, <3>1
  <2> QED BY <1>3, <2>r, <2>2 DEF HandleMessage
<1>4. ASSUME NEW r \in ReadReplicas, ReadCrash(r) PROVE Arrived(q, p)'
  <2>1. eventQ'[<<q, p>>] = IF held[<<r, q>>] = p THEN eventQ[<<q, p>>] + 1
                                                   ELSE eventQ[<<q, p>>]
    BY <1>4, <1>q DEF ReadCrash
  <2>2. ASSUME NEW d \in Consumers, With(d) PROVE Arrived(q, p)'
    <3>1. CASE d[1] = r
      <4>1. d = <<r, q>>
        BY <2>2, <3>1, ConsumerIsPair
      <4> QED BY <1>e, <1>q, <2>1, <2>2, <4>1
    <3>2. CASE d[1] # r
      <4>1. pc'[d] = pc[d] /\ held'[d] = held[d]
        BY <1>4, <3>2 DEF ReadCrash
      <4> QED BY <1>c, <2>2, <4>1
    <3> QED BY <3>1, <3>2
  <2> QED BY <1>e, <1>p, <1>q, <1>w, <2>1, <2>2
<1>5. ASSUME eventQ' = eventQ, UNCHANGED <<pc, held>> PROVE Arrived(q, p)'
  BY <1>q, <1>u, <1>5
<1>6. ASSUME NEW x \in Readers, GetProducts(x) \/ FindAll(x) \/ SetProducts(x) \/ ReadFails(x)
      PROVE  Arrived(q, p)'
  BY <1>5, <1>6 DEF GetProducts, FindAll, SetProducts, ReadFails, consumerVars, eventVars
<1>7. CASE CacheExpires
  BY <1>5, <1>7 DEF CacheExpires, consumerVars, eventVars
<1>8. ASSUME NEW c \in Consumers, StartConsumer(c) PROVE Arrived(q, p)'
  BY <1>5, <1>8 DEF StartConsumer, readVars, consumerVars
<1>9. ASSUME NEW s \in Queues, NEW g \in Garbage, ForeignPublish(s, g), UNCHANGED readVars
      PROVE  Arrived(q, p)'
  <2>1. eventQ'[<<q, p>>] = eventQ[<<q, p>>]
    BY <1>9, <1>q, <1>t, CatalogAssumption DEF ForeignPublish
  <2> QED BY <1>9, <1>q, <1>u, <2>1 DEF readVars, consumerVars
<1>10. CASE UNCHANGED vars
  BY <1>5, <1>10 DEF vars, eventVars, readVars, consumerVars
<1> QED BY <1>1, <1>2, <1>3, <1>4, <1>6, <1>7, <1>8, <1>9, <1>10 DEF Next, ReadNext

(* A confirmed publish has put a copy in every queue declared before.       *)
LEMMA ConfirmMeansArrived ==
  ASSUME TypeOK, Declared \subseteq bound, NEW w \in WriteReplicas, NEW p \in Products,
         ProductRelay!PublishConfirmed(w, p), NEW q \in Declared
  PROVE  Arrived(q, p)'
<1>1. q \in Queues /\ q \in bound /\ <<q, p>> \in QueuedCopies
  BY CatalogAssumption DEF QueuedCopies, Bodies
<1>2. <<q, p>> \in ProductRelay!Routes(p)
  BY <1>1 DEF ProductRelay!Routes
<1>3. eventQ'[<<q, p>>] = eventQ[<<q, p>>] + 1 /\ eventQ[<<q, p>>] \in Nat
  BY <1>1, <1>2 DEF ProductRelay!PublishConfirmed, ProductRelay!Accept, TypeOK, EventsTypeOK
<1> QED BY <1>3 DEF Arrived, Pending

LEMMA DeliveryStep ==
  CatalogInv /\ [Next]_vars => ConfirmedArrived' /\ NoLostProduct'
<1> SUFFICES ASSUME CatalogInv, [Next]_vars PROVE ConfirmedArrived' /\ NoLostProduct'
  OBVIOUS
<1>i. TypeOK /\ EffectsInv /\ Declared \subseteq bound
  BY DEF CatalogInv, EffectsInv
<1>t. /\ productOutbox \in [Products -> RowStates]
      /\ productConfirmed \in [WriteReplicas -> SUBSET Products]
  BY <1>i DEF TypeOK, WriteTypeOK
<1>d. Declared \subseteq Queues
  BY CatalogAssumption
<1> DEFINE All(p) == \A q \in Declared : Arrived(q, p)
<1>s. ASSUME NEW p \in Products, All(p) PROVE All(p)'
  BY <1>d, <1>i, <1>s, ArrivedStays
<1>o. /\ \A v \in WriteReplicas : \A p \in productConfirmed[v] : All(p)
      /\ \A p \in Products : productOutbox[p] = "processed" => All(p)
  BY DEF CatalogInv, ConfirmedArrived, NoLostProduct, Arrived
<1>g. ASSUME \A v \in WriteReplicas : \A p \in productConfirmed'[v] :
                p \in productConfirmed[v] \/ All(p)',
             \A p \in Products : productOutbox'[p] = "processed" =>
                productOutbox[p] = "processed" \/ All(p)'
      PROVE  ConfirmedArrived' /\ NoLostProduct'
  <2>1. ASSUME NEW v \in WriteReplicas, NEW p \in productConfirmed'[v] PROVE All(p)'
    BY <1>g, <1>o, <1>s, <1>t
  <2>2. ASSUME NEW p \in Products, productOutbox'[p] = "processed" PROVE All(p)'
    BY <1>g, <1>o, <1>s, <2>2
  <2> QED BY <2>1, <2>2 DEF ConfirmedArrived, NoLostProduct, Arrived
<1>u. ASSUME UNCHANGED <<productOutbox, productConfirmed>>
      PROVE  ConfirmedArrived' /\ NoLostProduct'
  BY <1>g, <1>u
<1> HIDE DEF All
<1>1. ASSUME NEW w \in WriteReplicas, NEW p \in Products, CreateProduct(w, p)
      PROVE  ConfirmedArrived' /\ NoLostProduct'
  <2>1. productConfirmed' = productConfirmed
        /\ \A m \in Products : productOutbox'[m] = "processed" => productOutbox[m] = "processed"
    BY <1>1, <1>t DEF CreateProduct, ProductRelay!Insert
  <2> QED BY <1>g, <2>1
<1>2. ASSUME NEW w \in WriteReplicas, ProductOutboxWorker(w)
      PROVE  ConfirmedArrived' /\ NoLostProduct'
  <2>1. CASE ProductRelay!FindUnprocessed(w)
    BY <1>u, <2>1 DEF ProductRelay!FindUnprocessed
  <2>2. ASSUME NEW p \in Products, ProductRelay!Publish(w, p)
        PROVE  ConfirmedArrived' /\ NoLostProduct'
    <3>1. CASE ProductRelay!PublishConfirmed(w, p)
      <4>1. All(p)'
        BY <1>i, <3>1, ConfirmMeansArrived DEF All
      <4>2. \A v \in WriteReplicas : productConfirmed'[v] \subseteq productConfirmed[v] \cup {p}
        BY <1>t, <3>1 DEF ProductRelay!PublishConfirmed
      <4>3. productOutbox' = productOutbox
        BY <2>2 DEF ProductRelay!Publish
      <4> QED BY <1>g, <4>1, <4>2, <4>3
    <3>2. CASE UNCHANGED <<productOutbox, productConfirmed>>
      BY <1>u, <3>2
    <3> QED BY <2>2, <3>1, <3>2
            DEF ProductRelay!Publish, ProductRelay!PublishError, ProductRelay!PublishReturned,
                ProductRelay!PublishMistaken, ProductRelay!PublishStalled,
                ProductRelay!PublishFailed
  <2>3. ASSUME NEW p \in Products, ProductRelay!MarkAsProcessed(w, p)
        PROVE  ConfirmedArrived' /\ NoLostProduct'
    <3>1. All(p)'
      BY <1>o, <1>s, <2>3 DEF ProductRelay!MarkAsProcessed
    <3>2. \A v \in WriteReplicas : productConfirmed'[v] \subseteq productConfirmed[v]
      BY <1>t, <2>3 DEF ProductRelay!MarkAsProcessed
    <3>3. \A m \in Products : productOutbox'[m] = "processed" =>
             m = p \/ productOutbox[m] = "processed"
      BY <1>t, <2>3 DEF ProductRelay!MarkAsProcessed
    <3> QED BY <1>g, <3>1, <3>2, <3>3
  <2>4. ASSUME NEW p \in Products, PublishOnClosed(w, p)
        PROVE  ConfirmedArrived' /\ NoLostProduct'
    BY <1>u, <2>4 DEF PublishOnClosed
  <2> QED BY <1>2, <2>1, <2>2, <2>3, <2>4 DEF ProductOutboxWorker, ProductRelay!Work, ProductRelay!Poll
<1>3. ASSUME NEW w \in WriteReplicas, ConnectionLost(w)
      PROVE  ConfirmedArrived' /\ NoLostProduct'
  BY <1>3, <1>u DEF ConnectionLost, productRelayVars
<1>4. ASSUME NEW w \in WriteReplicas, WriteCrash(w)
      PROVE  ConfirmedArrived' /\ NoLostProduct'
  <2>1. productOutbox' = productOutbox
        /\ \A v \in WriteReplicas : productConfirmed'[v] \subseteq productConfirmed[v]
    BY <1>4, <1>t DEF WriteCrash, ProductRelay!Forget, ProductRelay!Reconnect
  <2> QED BY <1>g, <2>1
<1>5. CASE UNCHANGED writeVars
  BY <1>5, <1>u DEF writeVars, productRelayVars
<1> QED BY <1>1, <1>2, <1>3, <1>4, <1>5 DEF Next, WriteNext, vars

LEMMA CatalogStep == CatalogInv /\ [Next]_vars => CatalogInv'
<1> SUFFICES ASSUME CatalogInv, [Next]_vars PROVE CatalogInv'
  OBVIOUS
<1>1. TypeOK' /\ ConsumerShape'
  BY CatalogTypes, ShapeStep DEF CatalogInv
<1>2. EventsAreCommitted'
  BY CommittedStep DEF CatalogInv
<1>3. EffectBeforeAck' /\ NothingInvented'
  BY EffectStep, InventedStep DEF CatalogInv, EffectsInv
<1>4. Declared \subseteq bound'
  BY Grows DEF CatalogInv
<1> QED BY <1>1, <1>2, <1>3, <1>4, DeliveryStep DEF CatalogInv

-----------------------------------------------------------------------------
(* The results. *)

(* The invariant that carries the proofs. *)
THEOREM CatalogInvariance == Spec => []CatalogInv
  BY InitCatalog, CatalogStep, PTL DEF Spec

(* Types of the catalog pipeline. *)
THEOREM CatalogTypesCorrect == Spec => []TypeOK
<1>1. CatalogInv => TypeOK
  BY DEF CatalogInv
<1> QED BY <1>1, CatalogInvariance, PTL

(* MongoDB, Elasticsearch, Redis and the lists in readers' hands hold only  *)
(* products catalog-write-service has committed, and the inbox only events  *)
(* whose product is in MongoDB.                                             *)
THEOREM ReadersSeeCommitted == Spec => []NothingInvented
<1>1. CatalogInv => NothingInvented
  BY DEF CatalogInv
<1> QED BY <1>1, CatalogInvariance, PTL

(* A product whose outbox row is processed has reached every projection     *)
(* whose queue existed at the start, or is still on its way there.          *)
THEOREM ProductsAreDelivered == Spec => []NoLostProduct
<1>1. CatalogInv => NoLostProduct
  BY DEF CatalogInv
<1> QED BY <1>1, CatalogInvariance, PTL
=============================================================================

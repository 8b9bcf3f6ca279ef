---------------------------- MODULE CatalogRead ----------------------------
(***************************************************************************)
(* catalog-read-service: the consumer that projects ProductCreated into    *)
(* MongoDB and invalidates the Redis cache, the consumer that indexes it   *)
(* in Elasticsearch, and the cache-aside read path of GetProducts.         *)
(*                                                                         *)
(* Every call to MongoDB, Redis, Elasticsearch or the broker is a step of  *)
(* its own: no transaction spans them, and reads run beside the consumers. *)
(***************************************************************************)
EXTENDS CatalogEvents

CONSTANTS
    ReadReplicas,  \* processes of catalog-read-service
    Readers,       \* GetProducts requests being served at a time
    None           \* "no delivery", "no cached value"

ASSUME ReadAssumption == None \notin Bodies

VARIABLES
    readModel,    \* the MongoDB products collection
    searchIndex,  \* the Elasticsearch index
    cache,        \* the Redis key with the product list, or None
    readInbox,    \* the MongoDB inbox_messages collection
    pc, held,     \* per consumer: step of handleMessage, unacknowledged body
    reading,      \* reading[x]: step of GetProducts request x
    found         \* found[x]: what request x read from MongoDB

consumerVars == <<pc, held>>
readerVars == <<reading, found>>
storeVars == <<readModel, searchIndex, cache, readInbox>>
readVars == <<storeVars, consumerVars, readerVars>>

Consumers == ReadReplicas \X Queues
Steps == {"idle", "handle", "upsert", "deleteProducts", "saveProcessed", "ack"}

ReadInit ==
    /\ readModel = {}
    /\ searchIndex = {}
    /\ cache = None
    /\ readInbox = {}
    /\ pc = [c \in Consumers |-> "idle"]
    /\ held = [c \in Consumers |-> None]
    /\ reading = [x \in Readers |-> "idle"]
    /\ found = [x \in Readers |-> {}]

ReadTypeOK ==
    /\ readModel \subseteq Products
    /\ searchIndex \subseteq Products
    /\ cache \in (SUBSET Products) \cup {None}
    /\ readInbox \subseteq Products
    /\ pc \in [Consumers -> Steps]
    /\ held \in [Consumers -> Bodies \cup {None}]
    /\ reading \in [Readers -> {"idle", "findAll", "setProducts"}]
    /\ found \in [Readers -> SUBSET Products]

-----------------------------------------------------------------------------
(* Start of a consumer: its queue is declared and bound. *)
StartConsumer(c) ==
    /\ c[2] \notin bound
    /\ bound' = bound \cup {c[2]}
    /\ UNCHANGED <<readVars, eventQ, faults>>

Goto(c, step) == pc' = [pc EXCEPT ![c] = step] /\ UNCHANGED held

Receive(c, m) ==
    /\ pc[c] = "idle" /\ c[2] \in bound
    /\ eventQ[<<c[2], m>>] > 0
    /\ eventQ' = [eventQ EXCEPT ![<<c[2], m>>] = @ - 1]
    /\ pc' = [pc EXCEPT ![c] = "handle"]
    /\ held' = [held EXCEPT ![c] = m]
    /\ UNCHANGED <<storeVars, readerVars, bound, faults>>

Release(c) ==
    /\ pc' = [pc EXCEPT ![c] = "idle"]
    /\ held' = [held EXCEPT ![c] = None]

(* Mutant of NackRequeue: Nack without requeue. *)
NackDrops(c) == Release(c) /\ UNCHANGED eventQ

(* Nack(requeue) after a failed call, the handler's only error path. *)
NackRequeue(c) ==
    /\ eventQ' = [eventQ EXCEPT ![<<c[2], held[c]>>] = @ + 1]
    /\ Release(c)

(* A store call of the handler: it succeeds and the handler goes on, or it  *)
(* fails, applied or not, and the delivery is requeued.                     *)
Call(c, var, applied, next) ==
    \/ applied /\ Goto(c, next) /\ UNCHANGED <<eventQ, faults>>
    \/ (applied \/ UNCHANGED var) /\ NackRequeue(c) /\ Fault

(* A body that does not parse is dropped: Nack without requeue, and the     *)
(* queues have no dead-letter exchange.                                     *)
Drop(c) ==
    /\ pc[c] = "handle" /\ held[c] \in Garbage
    /\ Release(c)
    /\ UNCHANGED <<storeVars, readerVars, eventVars>>

(* Mutant of IsProcessed: the unmarshal error is ignored. *)
IsProcessedUnparsed(c) ==
    /\ c[2] = "readModel" /\ pc[c] = "handle"
    /\ Goto(c, IF held[c] \in readInbox THEN "ack" ELSE "upsert")
    /\ UNCHANGED <<storeVars, readerVars, eventVars>>

(* inboxRepo.IsProcessed *)
IsProcessed(c) ==
    /\ c[2] = "readModel" /\ pc[c] = "handle" /\ held[c] \in Products
    /\ Call(c, storeVars, UNCHANGED storeVars,
            IF held[c] \in readInbox THEN "ack" ELSE "upsert")
    /\ UNCHANGED <<readerVars, bound>>

Upsert(c) ==
    /\ pc[c] = "upsert"
    /\ Call(c, readModel, readModel' = readModel \cup {held[c]}, "deleteProducts")
    /\ UNCHANGED <<searchIndex, cache, readInbox, readerVars, bound>>

DeleteProducts(c) ==
    /\ pc[c] = "deleteProducts"
    /\ Call(c, cache, cache' = None, "saveProcessed")
    /\ UNCHANGED <<readModel, searchIndex, readInbox, readerVars, bound>>

(* inboxRepo.SaveProcessed: message_id is unique, a second insert fails. *)
SaveProcessed(c) ==
    /\ pc[c] = "saveProcessed"
    /\ \/ /\ held[c] \notin readInbox
          /\ Call(c, readInbox, readInbox' = readInbox \cup {held[c]}, "ack")
       \/ /\ held[c] \in readInbox
          /\ NackRequeue(c) /\ UNCHANGED <<readInbox, faults>>
    /\ UNCHANGED <<readModel, searchIndex, cache, readerVars, bound>>

(* The search consumer has no inbox: the document id makes Index idempotent. *)
Index(c) ==
    /\ c[2] = "search" /\ pc[c] = "handle" /\ held[c] \in Products
    /\ Call(c, searchIndex, searchIndex' = searchIndex \cup {held[c]}, "ack")
    /\ UNCHANGED <<readModel, cache, readInbox, readerVars, bound>>

Ack(c) ==
    /\ pc[c] = "ack"
    /\ Release(c)
    /\ UNCHANGED <<storeVars, readerVars, eventVars>>

HandleMessage(c) ==
    \/ Drop(c) \/ IsProcessed(c) \/ Upsert(c) \/ DeleteProducts(c)
    \/ SaveProcessed(c) \/ Index(c) \/ Ack(c)

(* The process of replica r stops (crash, shutdown, or the shutdown that a  *)
(* closed deliveries channel triggers) and is started again.                *)
ReadCrash(r) ==
    /\ Fault
    /\ \E q \in Queues : pc[<<r, q>>] # "idle"
    /\ eventQ' = [c \in QueuedCopies |->
                    IF held[<<r, c[1]>>] = c[2] THEN eventQ[c] + 1 ELSE eventQ[c]]
    /\ pc' = [c \in Consumers |-> IF c[1] = r THEN "idle" ELSE pc[c]]
    /\ held' = [c \in Consumers |-> IF c[1] = r THEN None ELSE held[c]]
    /\ UNCHANGED <<storeVars, readerVars, bound>>

-----------------------------------------------------------------------------
(* GetProducts on a cache miss; a hit answers from the cache. *)
GetProducts(x) ==
    /\ reading[x] = "idle" /\ cache = None
    /\ reading' = [reading EXCEPT ![x] = "findAll"]
    /\ UNCHANGED <<found, storeVars, consumerVars, eventVars>>

FindAll(x) ==
    /\ reading[x] = "findAll"
    /\ reading' = [reading EXCEPT ![x] = "setProducts"]
    /\ found' = [found EXCEPT ![x] = readModel]
    /\ UNCHANGED <<storeVars, consumerVars, eventVars>>

SetProducts(x) ==
    /\ reading[x] = "setProducts"
    /\ reading' = [reading EXCEPT ![x] = "idle"]
    /\ found' = [found EXCEPT ![x] = {}]
    /\ cache' = found[x]
    /\ UNCHANGED <<readModel, searchIndex, readInbox, consumerVars, eventVars>>

(* A failed call, a deadline or a stopped process ends the request early; a *)
(* SetProducts whose reply is lost may have stored the list.                *)
ReadFails(x) ==
    /\ Fault
    /\ reading[x] # "idle"
    /\ \/ UNCHANGED cache
       \/ reading[x] = "setProducts" /\ cache' = found[x]
    /\ reading' = [reading EXCEPT ![x] = "idle"]
    /\ found' = [found EXCEPT ![x] = {}]
    /\ UNCHANGED <<readModel, searchIndex, readInbox, consumerVars, eventQ, bound>>

(* Mutant of CacheExpires: the key is stored without a TTL. *)
CacheNeverExpires ==
    /\ cache # None
    /\ cache' = cache /\ FALSE
    /\ UNCHANGED <<readModel, searchIndex, readInbox, consumerVars, readerVars, eventVars>>

(* The key's TTL (5 minutes) runs out. *)
CacheExpires ==
    /\ cache # None
    /\ cache' = None
    /\ UNCHANGED <<readModel, searchIndex, readInbox, consumerVars, readerVars, eventVars>>

ReadNext ==
    \/ \E c \in Consumers :
          \/ StartConsumer(c)
          \/ \E m \in Bodies : Receive(c, m)
          \/ HandleMessage(c)
    \/ \E r \in ReadReplicas : ReadCrash(r)
    \/ \E x \in Readers :
          GetProducts(x) \/ FindAll(x) \/ SetProducts(x) \/ ReadFails(x)
    \/ CacheExpires
=============================================================================

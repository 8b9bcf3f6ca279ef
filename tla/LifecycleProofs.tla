-------------------------- MODULE LifecycleProofs --------------------------
(***************************************************************************)
(* What the order of a process's Fx hooks guarantees: a resource is closed *)
(* only after everything that waits for its users, and readiness is        *)
(* reported only between the last start and the first stop.  The proofs    *)
(* use of the hook lists that no hook occurs twice, that ManageReadiness   *)
(* comes last, and that a worker or server comes after what it works with. *)
(***************************************************************************)
EXTENDS Lifecycle, TLAPS

(* A hook list as the proofs need it. *)
RunsIn(t) == IF t = "handler" THEN "grpc" ELSE HookOf(t)

Distinct(H) == \A i, j \in 1..Len(H) : H[i] = H[j] => i = j

WellOrdered(H, U, early) ==
    /\ Len(H) \in Nat \ {0} /\ DOMAIN H = 1..Len(H)
    /\ Distinct(H)
    /\ H[Len(H)] = "readiness"
    /\ \A t \in DOMAIN U \ {"handler"} : \E i \in 1..Len(H) : H[i] = HookOf(t)
    /\ \A i \in 1..Len(H) : H[i] = "grpc" => "handler" \in DOMAIN U
    /\ \A i \in 1..Len(H), t \in DOMAIN U :
          RunsIn(t) = H[i] => \A x \in U[t] \ early : \E j \in 1..i : H[j] = x

LEMMA ByPosition ==
  ASSUME NEW H, NEW pos, \A i \in 1..Len(H) : pos[H[i]] = i
  PROVE  Distinct(H)
  BY DEF Distinct

LEMMA OrderWellOrdered == WellOrdered(OrderHooks, OrderUses, {})
<1> DEFINE H == OrderHooks
           pos == [db |-> 1, conn |-> 2, publisherChannel |-> 3,
                   outboxWorker |-> 4, stockReservedChannel |-> 5,
                   stockNotReservedChannel |-> 6, consumers |-> 7,
                   grpc |-> 8, health |-> 9, readiness |-> 10]
<1>1. /\ Len(H) = 10 /\ DOMAIN H = 1..10
      /\ H[1] = "db" /\ H[2] = "conn" /\ H[3] = "publisherChannel"
      /\ H[4] = "outboxWorker" /\ H[5] = "stockReservedChannel" /\ H[6] = "stockNotReservedChannel"
      /\ H[7] = "consumers" /\ H[8] = "grpc" /\ H[9] = "health"
      /\ H[10] = "readiness"
  BY DEF OrderHooks
<1>2. \A i \in 1..10 : pos[H[i]] = i
  <2> SUFFICES ASSUME NEW i \in 1..10 PROVE pos[H[i]] = i
    OBVIOUS
  <2>1. i = 1 \/ i = 2 \/ i = 3 \/ i = 4 \/ i = 5 \/ i = 6
        \/ i = 7 \/ i = 8 \/ i = 9 \/ i = 10
    OBVIOUS
  <2> HIDE DEF H
  <2> QED BY <1>1, <2>1
<1>3. Distinct(H)
  <2> HIDE DEF pos, H
  <2> QED BY <1>1, <1>2, ByPosition
<1>4. /\ DOMAIN OrderUses = {"outbox", "stockReserved", "stockNotReserved", "handler"}
      /\ OrderUses["outbox"] = {"db", "conn", "publisherChannel"}
      /\ OrderUses["stockReserved"] = {"db", "conn", "stockReservedChannel"}
      /\ OrderUses["stockNotReserved"] = {"db", "conn", "stockNotReservedChannel"}
      /\ OrderUses["handler"] = {"db"}
  BY DEF OrderUses
<1> HIDE DEF H
<1>5. \A i \in 1..10 : /\ H[i] = "outboxWorker" => i = 4
                       /\ H[i] = "consumers" => i = 7
                       /\ H[i] = "grpc" => i = 8
  BY <1>1, <1>3 DEF Distinct
<1>6. \A t \in DOMAIN OrderUses \ {"handler"} : \E i \in 1..10 : H[i] = HookOf(t)
  BY <1>1, <1>4 DEF HookOf
<1>7. ASSUME NEW i \in 1..10, NEW t \in DOMAIN OrderUses, RunsIn(t) = H[i],
             NEW x \in OrderUses[t] \ {}
      PROVE  \E j \in 1..i : H[j] = x
  <2>1. CASE t = "outbox"
    <3>1. H[i] = "outboxWorker"
      BY <1>7, <2>1 DEF RunsIn, HookOf
    <3>2. i = 4 /\ x \in {"db", "conn", "publisherChannel"}
      BY <1>4, <1>5, <1>7, <2>1, <3>1
    <3> QED BY <1>1, <3>2
  <2>2. CASE t = "stockReserved"
    <3>1. H[i] = "consumers"
      BY <1>7, <2>2 DEF RunsIn, HookOf
    <3>2. i = 7 /\ x \in {"db", "conn", "stockReservedChannel"}
      BY <1>4, <1>5, <1>7, <2>2, <3>1
    <3> QED BY <1>1, <3>2
  <2>3. CASE t = "stockNotReserved"
    <3>1. H[i] = "consumers"
      BY <1>7, <2>3 DEF RunsIn, HookOf
    <3>2. i = 7 /\ x \in {"db", "conn", "stockNotReservedChannel"}
      BY <1>4, <1>5, <1>7, <2>3, <3>1
    <3> QED BY <1>1, <3>2
  <2>4. CASE t = "handler"
    <3>1. H[i] = "grpc"
      BY <1>7, <2>4 DEF RunsIn, HookOf
    <3>2. i = 8 /\ x \in {"db"}
      BY <1>4, <1>5, <1>7, <2>4, <3>1
    <3> QED BY <1>1, <3>2
  <2> QED BY <1>4, <2>1, <2>2, <2>3, <2>4
<1>8. \A i \in 1..10 : H[i] = "grpc" => "handler" \in DOMAIN OrderUses
  BY <1>1, <1>4
<1> QED BY <1>1, <1>3, <1>6, <1>7, <1>8 DEF WellOrdered, H

LEMMA InventoryWellOrdered == WellOrdered(InventoryHooks, InventoryUses, {})
<1> DEFINE H == InventoryHooks
           pos == [db |-> 1, conn |-> 2, publisherChannel |-> 3,
                   outboxWorker |-> 4, consumerChannel |-> 5,
                   consumers |-> 6, health |-> 7, readiness |-> 8]
<1>1. /\ Len(H) = 8 /\ DOMAIN H = 1..8
      /\ H[1] = "db" /\ H[2] = "conn" /\ H[3] = "publisherChannel"
      /\ H[4] = "outboxWorker" /\ H[5] = "consumerChannel" /\ H[6] = "consumers"
      /\ H[7] = "health" /\ H[8] = "readiness"
  BY DEF InventoryHooks
<1>2. \A i \in 1..8 : pos[H[i]] = i
  <2> SUFFICES ASSUME NEW i \in 1..8 PROVE pos[H[i]] = i
    OBVIOUS
  <2>1. i = 1 \/ i = 2 \/ i = 3 \/ i = 4 \/ i = 5 \/ i = 6
        \/ i = 7 \/ i = 8
    OBVIOUS
  <2> HIDE DEF H
  <2> QED BY <1>1, <2>1
<1>3. Distinct(H)
  <2> HIDE DEF pos, H
  <2> QED BY <1>1, <1>2, ByPosition
<1>4. /\ DOMAIN InventoryUses = {"outbox", "reserveStockRequested"}
      /\ InventoryUses["outbox"] = {"db", "conn", "publisherChannel"}
      /\ InventoryUses["reserveStockRequested"] = {"db", "conn", "consumerChannel"}
  BY DEF InventoryUses
<1> HIDE DEF H
<1>5. \A i \in 1..8 : /\ H[i] = "outboxWorker" => i = 4
                      /\ H[i] = "consumers" => i = 6
  BY <1>1, <1>3 DEF Distinct
<1>6. \A t \in DOMAIN InventoryUses \ {"handler"} : \E i \in 1..8 : H[i] = HookOf(t)
  BY <1>1, <1>4 DEF HookOf
<1>7. ASSUME NEW i \in 1..8, NEW t \in DOMAIN InventoryUses, RunsIn(t) = H[i],
             NEW x \in InventoryUses[t] \ {}
      PROVE  \E j \in 1..i : H[j] = x
  <2>1. CASE t = "outbox"
    <3>1. H[i] = "outboxWorker"
      BY <1>7, <2>1 DEF RunsIn, HookOf
    <3>2. i = 4 /\ x \in {"db", "conn", "publisherChannel"}
      BY <1>4, <1>5, <1>7, <2>1, <3>1
    <3> QED BY <1>1, <3>2
  <2>2. CASE t = "reserveStockRequested"
    <3>1. H[i] = "consumers"
      BY <1>7, <2>2 DEF RunsIn, HookOf
    <3>2. i = 6 /\ x \in {"db", "conn", "consumerChannel"}
      BY <1>4, <1>5, <1>7, <2>2, <3>1
    <3> QED BY <1>1, <3>2
  <2> QED BY <1>4, <2>1, <2>2
<1>8. \A i \in 1..8 : H[i] = "grpc" => "handler" \in DOMAIN InventoryUses
  BY <1>1, <1>4
<1> QED BY <1>1, <1>3, <1>6, <1>7, <1>8 DEF WellOrdered, H

LEMMA CatalogWriteWellOrdered == WellOrdered(CatalogWriteHooks, CatalogWriteUses, {})
<1> DEFINE H == CatalogWriteHooks
           pos == [db |-> 1, publisher |-> 2, outboxWorker |-> 3,
                   grpc |-> 4, health |-> 5, readiness |-> 6]
<1>1. /\ Len(H) = 6 /\ DOMAIN H = 1..6
      /\ H[1] = "db" /\ H[2] = "publisher" /\ H[3] = "outboxWorker"
      /\ H[4] = "grpc" /\ H[5] = "health" /\ H[6] = "readiness"
  BY DEF CatalogWriteHooks
<1>2. \A i \in 1..6 : pos[H[i]] = i
  <2> SUFFICES ASSUME NEW i \in 1..6 PROVE pos[H[i]] = i
    OBVIOUS
  <2>1. i = 1 \/ i = 2 \/ i = 3 \/ i = 4 \/ i = 5 \/ i = 6
    OBVIOUS
  <2> HIDE DEF H
  <2> QED BY <1>1, <2>1
<1>3. Distinct(H)
  <2> HIDE DEF pos, H
  <2> QED BY <1>1, <1>2, ByPosition
<1>4. /\ DOMAIN CatalogWriteUses = {"outbox", "handler"}
      /\ CatalogWriteUses["outbox"] = {"db", "publisher"}
      /\ CatalogWriteUses["handler"] = {"db"}
  BY DEF CatalogWriteUses
<1> HIDE DEF H
<1>5. \A i \in 1..6 : /\ H[i] = "outboxWorker" => i = 3
                      /\ H[i] = "grpc" => i = 4
  BY <1>1, <1>3 DEF Distinct
<1>6. \A t \in DOMAIN CatalogWriteUses \ {"handler"} : \E i \in 1..6 : H[i] = HookOf(t)
  BY <1>1, <1>4 DEF HookOf
<1>7. ASSUME NEW i \in 1..6, NEW t \in DOMAIN CatalogWriteUses, RunsIn(t) = H[i],
             NEW x \in CatalogWriteUses[t] \ {}
      PROVE  \E j \in 1..i : H[j] = x
  <2>1. CASE t = "outbox"
    <3>1. H[i] = "outboxWorker"
      BY <1>7, <2>1 DEF RunsIn, HookOf
    <3>2. i = 3 /\ x \in {"db", "publisher"}
      BY <1>4, <1>5, <1>7, <2>1, <3>1
    <3> QED BY <1>1, <3>2
  <2>2. CASE t = "handler"
    <3>1. H[i] = "grpc"
      BY <1>7, <2>2 DEF RunsIn, HookOf
    <3>2. i = 4 /\ x \in {"db"}
      BY <1>4, <1>5, <1>7, <2>2, <3>1
    <3> QED BY <1>1, <3>2
  <2> QED BY <1>4, <2>1, <2>2
<1>8. \A i \in 1..6 : H[i] = "grpc" => "handler" \in DOMAIN CatalogWriteUses
  BY <1>1, <1>4
<1> QED BY <1>1, <1>3, <1>6, <1>7, <1>8 DEF WellOrdered, H

LEMMA CatalogReadWellOrdered == WellOrdered(CatalogReadHooks, CatalogReadUses, {"mongo", "redis"})
<1> DEFINE H == CatalogReadHooks
           pos == [conn |-> 1, channel |-> 2, searchChannel |-> 3,
                   consumers |-> 4, grpc |-> 5, mongo |-> 6, redis |-> 7,
                   health |-> 8, readiness |-> 9]
<1>1. /\ Len(H) = 9 /\ DOMAIN H = 1..9
      /\ H[1] = "conn" /\ H[2] = "channel" /\ H[3] = "searchChannel"
      /\ H[4] = "consumers" /\ H[5] = "grpc" /\ H[6] = "mongo"
      /\ H[7] = "redis" /\ H[8] = "health" /\ H[9] = "readiness"
  BY DEF CatalogReadHooks
<1>2. \A i \in 1..9 : pos[H[i]] = i
  <2> SUFFICES ASSUME NEW i \in 1..9 PROVE pos[H[i]] = i
    OBVIOUS
  <2>1. i = 1 \/ i = 2 \/ i = 3 \/ i = 4 \/ i = 5 \/ i = 6
        \/ i = 7 \/ i = 8 \/ i = 9
    OBVIOUS
  <2> HIDE DEF H
  <2> QED BY <1>1, <2>1
<1>3. Distinct(H)
  <2> HIDE DEF pos, H
  <2> QED BY <1>1, <1>2, ByPosition
<1>4. /\ DOMAIN CatalogReadUses = {"productCreated", "searchIndex", "handler"}
      /\ CatalogReadUses["productCreated"] = {"conn", "channel", "mongo", "redis"}
      /\ CatalogReadUses["searchIndex"] = {"conn", "searchChannel"}
      /\ CatalogReadUses["handler"] = {"mongo", "redis"}
  BY DEF CatalogReadUses
<1> HIDE DEF H
<1>5. \A i \in 1..9 : /\ H[i] = "consumers" => i = 4
                      /\ H[i] = "grpc" => i = 5
  BY <1>1, <1>3 DEF Distinct
<1>6. \A t \in DOMAIN CatalogReadUses \ {"handler"} : \E i \in 1..9 : H[i] = HookOf(t)
  BY <1>1, <1>4 DEF HookOf
<1>7. ASSUME NEW i \in 1..9, NEW t \in DOMAIN CatalogReadUses, RunsIn(t) = H[i],
             NEW x \in CatalogReadUses[t] \ {"mongo", "redis"}
      PROVE  \E j \in 1..i : H[j] = x
  <2>1. CASE t = "productCreated"
    <3>1. H[i] = "consumers"
      BY <1>7, <2>1 DEF RunsIn, HookOf
    <3>2. i = 4 /\ x \in {"conn", "channel"}
      BY <1>4, <1>5, <1>7, <2>1, <3>1
    <3> QED BY <1>1, <3>2
  <2>2. CASE t = "searchIndex"
    <3>1. H[i] = "consumers"
      BY <1>7, <2>2 DEF RunsIn, HookOf
    <3>2. i = 4 /\ x \in {"conn", "searchChannel"}
      BY <1>4, <1>5, <1>7, <2>2, <3>1
    <3> QED BY <1>1, <3>2
  <2>3. CASE t = "handler"
    <3>1. H[i] = "grpc"
      BY <1>7, <2>3 DEF RunsIn, HookOf
    <3>2. i = 5 /\ x \in {}
      BY <1>4, <1>5, <1>7, <2>3, <3>1
    <3> QED BY <1>1, <3>2
  <2> QED BY <1>4, <2>1, <2>2, <2>3
<1>8. \A i \in 1..9 : H[i] = "grpc" => "handler" \in DOMAIN CatalogReadUses
  BY <1>1, <1>4
<1> QED BY <1>1, <1>3, <1>6, <1>7, <1>8 DEF WellOrdered, H

LEMMA HooksWellOrdered ==
  ASSUME service \in Services
  PROVE  WellOrdered(Hooks[service], Uses[service], ClosedEarly)
<1>1. service \in {"order", "inventory", "catalogWrite", "catalogRead"}
  BY ServicesAssumption DEF Hooks
<1>2. CASE service = "order"
  BY <1>2, OrderWellOrdered DEF Hooks, Uses, ClosedEarly
<1>3. CASE service = "inventory"
  BY <1>3, InventoryWellOrdered DEF Hooks, Uses, ClosedEarly
<1>4. CASE service = "catalogWrite"
  BY <1>4, CatalogWriteWellOrdered DEF Hooks, Uses, ClosedEarly
<1>5. CASE service = "catalogRead"
  BY <1>5, CatalogReadWellOrdered DEF Hooks, Uses, ClosedEarly
<1> QED BY <1>1, <1>2, <1>3, <1>4, <1>5

(* The hooks that are started and not stopped. *)
Up == {Hooks[service][i] : i \in 1..numStarted}

Undisturbed == phase \in {"starting", "running"}

CleanUntilStopped == Undisturbed => canceled = {} /\ closed = {}

ReadyAtTheTop ==
    ready => /\ numStarted = Len(Hooks[service])
             /\ canceled = {} /\ closed = {}
             /\ Undisturbed \/ shutdown

ServingUntilShutdown ==
    Undisturbed /\ ~shutdown =>
        /\ open = Servers \cap Up
        /\ \A t \in Tasks : task[t] \in IF HookOf(t) \in Up THEN {"idle", "busy"}
                                        ELSE {"unstarted"}

WaitedForFirst ==
    phase # "exited" =>
        /\ \A t \in Tasks \ Unwaited : task[t] \in {"idle", "busy"} => HookOf(t) \in Up
        /\ call => "grpc" \in Up

HooksInv ==
    /\ CleanUntilStopped
    /\ ReadyAtTheTop
    /\ ServingUntilShutdown
    /\ open \subseteq Up
    /\ closed \cap Up = {}
    /\ WaitedForFirst

LifecycleInv == TypeOK /\ HooksInv

LEMMA SameService ==
  ASSUME service' = service
  PROVE  /\ Tasks' = Tasks /\ Servers' = Servers /\ Resources' = Resources
         /\ Unwaited' = Unwaited /\ Hooks[service]' = Hooks[service]
  BY DEF Tasks, Servers, Resources, Unwaited, TasksOf

LEMMA Kinds ==
  /\ \A h \in Resources : h \notin WorkerHooks \cup ServerHooks \cup {"readiness"}
  /\ Servers \subseteq ServerHooks
  /\ \A t : HookOf(t) \in WorkerHooks
  /\ WorkerHooks = {"outboxWorker", "consumers"}
  /\ ServerHooks = {"grpc", "health"}
  /\ \A t \in Tasks, h \in WorkerHooks : t \in TasksOf(h) => HookOf(t) = h
  /\ \A t \in Tasks : t \in TasksOf(HookOf(t))
  BY DEF Resources, Servers, HookOf, WorkerHooks, ServerHooks, TasksOf

LEMMA UpGrows ==
  ASSUME TypeOK, NEW h, Starting(h), numStarted' = numStarted + 1, service' = service
  PROVE  /\ Up' = Up \cup {h} /\ h \notin Up
         /\ numStarted' \in 0..Len(Hooks[service])
         /\ numStarted # Len(Hooks[service])
         /\ h \in Range(Hooks[service])
         /\ h = "readiness" => numStarted' = Len(Hooks[service])
<1> DEFINE H == Hooks[service]
<1>1. /\ Len(H) \in Nat \ {0} /\ DOMAIN H = 1..Len(H) /\ Distinct(H)
      /\ H[Len(H)] = "readiness"
  BY HooksWellOrdered DEF TypeOK, WellOrdered
<1>2. /\ numStarted \in 0..Len(H) /\ numStarted < Len(H) /\ h = H[numStarted + 1]
  BY DEF TypeOK, Starting
<1>3. Up = {H[i] : i \in 1..numStarted} /\ Up' = {H[i] : i \in 1..(numStarted + 1)}
  BY DEF Up
<1>4. h \in Range(H)
  BY <1>1, <1>2 DEF Range
<1> HIDE DEF H
<1> QED BY <1>1, <1>2, <1>3, <1>4 DEF Distinct, H

LEMMA UpShrinks ==
  ASSUME TypeOK, NEW h, Stopping(h), numStarted' = numStarted - 1, service' = service
  PROVE  /\ Up' = Up \ {h} /\ h \in Up
         /\ numStarted' \in 0..Len(Hooks[service])
<1> DEFINE H == Hooks[service]
<1>1. /\ Len(H) \in Nat \ {0} /\ DOMAIN H = 1..Len(H) /\ Distinct(H)
  BY HooksWellOrdered DEF TypeOK, WellOrdered
<1>2. /\ numStarted \in 0..Len(H) /\ numStarted > 0 /\ h = H[numStarted]
  BY DEF TypeOK, Stopping
<1>3. Up = {H[i] : i \in 1..numStarted} /\ Up' = {H[i] : i \in 1..(numStarted - 1)}
  BY DEF Up
<1> HIDE DEF H
<1> QED BY <1>1, <1>2, <1>3 DEF Distinct, H

LEMMA ReadyOnTop ==
  ASSUME TypeOK, ReadyAtTheTop, ready, NEW h, Stopping(h)
  PROVE  h = "readiness"
  BY HooksWellOrdered DEF TypeOK, ReadyAtTheTop, Stopping, WellOrdered

(* Every step preserves the invariant: the starts, the stops, and the rest. *)
LEMMA StartKeeps ==
  ASSUME LifecycleInv, NEW h, StartWorker(h) \/ StartServer(h) \/ StartResource(h)
                              \/ (h = "readiness" /\ StartReadiness)
  PROVE  LifecycleInv'
<1> USE DEF Undisturbed
<1>1. /\ Starting(h) /\ Started /\ phase = "starting" /\ phase' = phase
      /\ service' = service /\ numStarted' = numStarted + 1
      /\ UNCHANGED <<shutdown, canceled, closed, call>>
  BY DEF StartWorker, StartServer, StartResource, StartReadiness, Starting, Started
<1>2. /\ Up' = Up \cup {h} /\ h \notin Up
      /\ numStarted' \in 0..Len(Hooks[service])
      /\ numStarted # Len(Hooks[service])
      /\ h \in Range(Hooks[service])
      /\ h = "readiness" => numStarted' = Len(Hooks[service])
  BY <1>1, UpGrows DEF LifecycleInv
<1>3. canceled = {} /\ closed = {} /\ ~ready
  BY <1>1, <1>2 DEF LifecycleInv, HooksInv, CleanUntilStopped, ReadyAtTheTop
<1>4. /\ ready' \in BOOLEAN
      /\ ready' => h = "readiness"
  <2>1. ready' = ready \/ (ready' = TRUE /\ h = "readiness")
    BY Zenon DEF StartWorker, StartServer, StartResource, StartReadiness
  <2>2. ready \in BOOLEAN
    BY DEF LifecycleInv, TypeOK
  <2>3. ready' \in BOOLEAN
    BY <2>1, <2>2, Zenon
  <2>4. ready' => h = "readiness"
    BY <1>3, <2>1, Zenon
  <2> QED BY <2>3, <2>4
<1>5. /\ open' = open \cup ({h} \cap ServerHooks)
      /\ open' \subseteq Servers
  <2>1. open' = open \cup ({h} \cap ServerHooks)
    BY Kinds DEF StartWorker, StartServer, StartResource, StartReadiness
  <2>2. {h} \cap ServerHooks \subseteq Servers
    BY <1>2 DEF Servers
  <2> QED BY <2>1, <2>2 DEF LifecycleInv, TypeOK
<1>6. /\ task' \in [Tasks -> {"unstarted", "idle", "busy", "returned", "failed"}]
      /\ \A t \in Tasks : task'[t] = IF HookOf(t) = h THEN "idle" ELSE task[t]
  <2>1. CASE StartWorker(h)
    BY <2>1, Kinds DEF LifecycleInv, TypeOK, StartWorker
  <2>2. CASE ~StartWorker(h)
    <3>1. task' = task /\ h \notin WorkerHooks
      BY <2>2, Kinds DEF StartServer, StartResource, StartReadiness
    <3> QED BY <3>1, Kinds DEF LifecycleInv, TypeOK
  <2> QED BY <2>1, <2>2
<1>7. TypeOK'
  BY <1>1, <1>2, <1>4, <1>5, <1>6, SameService DEF LifecycleInv, TypeOK
<1>8. CleanUntilStopped' /\ ReadyAtTheTop'
  BY <1>1, <1>2, <1>3, <1>4, SameService DEF CleanUntilStopped, ReadyAtTheTop
<1>9. ServingUntilShutdown'
  <2> SUFFICES ASSUME ~shutdown
               PROVE  /\ open' = Servers \cap Up'
                      /\ \A t \in Tasks : task'[t] \in IF HookOf(t) \in Up'
                                             THEN {"idle", "busy"} ELSE {"unstarted"}
    BY <1>1, SameService DEF ServingUntilShutdown
  <2>1. /\ open = Servers \cap Up
        /\ \A t \in Tasks : task[t] \in IF HookOf(t) \in Up
                               THEN {"idle", "busy"} ELSE {"unstarted"}
    BY <1>1 DEF LifecycleInv, HooksInv, ServingUntilShutdown
  <2>2. open' = Servers \cap Up'
    BY <1>2, <1>5, <2>1, Kinds
  <2> QED BY <1>2, <1>6, <2>1, <2>2
<1>10. (open \subseteq Up)' /\ (closed \cap Up = {})'
  BY <1>1, <1>2, <1>3, <1>5 DEF LifecycleInv, HooksInv
<1>11. WaitedForFirst'
  BY <1>1, <1>2, <1>6, SameService DEF LifecycleInv, HooksInv, WaitedForFirst
<1> QED BY <1>7, <1>8, <1>9, <1>10, <1>11 DEF LifecycleInv, HooksInv

LEMMA StopKeeps ==
  ASSUME LifecycleInv, NEW h, ServerDrained(h) \/ WaitForDone(h) \/ CloseResource(h)
                              \/ (h = "readiness" /\ StopReadiness)
  PROVE  LifecycleInv'
<1> USE DEF Undisturbed
<1>1. /\ Stopping(h) /\ phase = "stopping" /\ phase' = phase
      /\ service' = service /\ numStarted' = numStarted - 1
      /\ UNCHANGED <<shutdown, canceled, open, task, call>>
  BY DEF ServerDrained, WaitForDone, CloseResource, StopReadiness, Stopping
<1>2. /\ Up' = Up \ {h} /\ h \in Up
      /\ numStarted' \in 0..Len(Hooks[service])
  BY <1>1, UpShrinks DEF LifecycleInv
<1>3. ready' = FALSE
  <2>1. ready => h = "readiness"
    BY <1>1, ReadyOnTop DEF LifecycleInv, HooksInv
  <2>2. CASE h = "readiness"
    <3>1. canceled \subseteq WorkerHooks
      BY DEF LifecycleInv, TypeOK
    <3> QED BY <2>2, <3>1, Kinds DEF ServerDrained, WaitForDone, CloseResource, StopReadiness
  <2>3. CASE h # "readiness"
    BY <2>1, <2>3 DEF LifecycleInv, TypeOK, ServerDrained, WaitForDone, CloseResource
  <2> QED BY <2>2, <2>3
<1>4. closed' \in {closed, closed \cup ({h} \cap Resources)}
  BY DEF ServerDrained, WaitForDone, CloseResource, StopReadiness
<1>5. h \notin open
  <2>1. open \subseteq ServerHooks /\ canceled \subseteq WorkerHooks
    BY Kinds DEF LifecycleInv, TypeOK
  <2> QED BY <2>1, Kinds DEF ServerDrained, WaitForDone, CloseResource
<1>6. TypeOK'
  BY <1>1, <1>2, <1>3, <1>4, SameService DEF LifecycleInv, TypeOK
<1>7. CleanUntilStopped' /\ ReadyAtTheTop' /\ ServingUntilShutdown'
  BY <1>1, <1>3 DEF CleanUntilStopped, ReadyAtTheTop, ServingUntilShutdown
<1>8. (open \subseteq Up)' /\ (closed \cap Up = {})'
  BY <1>1, <1>2, <1>4, <1>5 DEF LifecycleInv, HooksInv
<1>9. ASSUME NEW t \in Tasks \ Unwaited, task[t] \in {"idle", "busy"}
      PROVE  HookOf(t) # h
  <2> SUFFICES ASSUME HookOf(t) = h PROVE FALSE
    OBVIOUS
  <2>1. h \in WorkerHooks /\ t \in TasksOf(h)
    BY Kinds
  <2>2. Done(h)
    BY <2>1, Kinds DEF ServerDrained, WaitForDone, CloseResource
  <2>3. ~(service = "order" /\ h = "consumers")
    BY <1>9, <2>1 DEF Unwaited
  <2> QED BY <1>9, <2>1, <2>2, <2>3 DEF Done
<1>10. call => h # "grpc"
  <2>1. canceled \subseteq WorkerHooks
    BY DEF LifecycleInv, TypeOK
  <2> QED BY <2>1, Kinds DEF ServerDrained, WaitForDone, CloseResource
<1>11. WaitedForFirst'
  BY <1>1, <1>2, <1>9, <1>10, SameService DEF LifecycleInv, HooksInv, WaitedForFirst
<1> QED BY <1>6, <1>7, <1>8, <1>11 DEF LifecycleInv, HooksInv

LEMMA RunKeeps ==
  ASSUME LifecycleInv,
         \/ \E h \in HookNames : StartFails(h) \/ CloseListener(h) \/ CancelWorker(h)
         \/ Run \/ Signal \/ BeginStop \/ Exit \/ StopTimeout
  PROVE  LifecycleInv'
<1> USE DEF Undisturbed
<1>1. UNCHANGED <<service, numStarted, ready, closed, task, call>>
  BY DEF StartFails, CloseListener, CancelWorker, Run, Signal, BeginStop, Exit, StopTimeout
<1>2. Up' = Up
  BY <1>1 DEF Up
<1>3. /\ phase' \in {"starting", "running", "stopping", "exited"}
      /\ shutdown' \in BOOLEAN /\ (shutdown => shutdown')
      /\ open' \subseteq open
      /\ canceled' \subseteq WorkerHooks
      /\ phase' # "exited" => phase # "exited"
  <2>1. /\ phase' \in {"starting", "running", "stopping", "exited"}
        /\ phase' # "exited" => phase # "exited"
    BY DEF LifecycleInv, TypeOK, StartFails, CloseListener, CancelWorker, Run, Signal,
           BeginStop, Exit, StopTimeout, Starting, Stopping
  <2>2. shutdown' \in {shutdown, TRUE}
    BY DEF StartFails, CloseListener, CancelWorker, Run, Signal, BeginStop, Exit, StopTimeout
  <2>3. shutdown' \in BOOLEAN /\ (shutdown => shutdown')
    BY <2>2, Zenon DEF LifecycleInv, TypeOK
  <2>4. open' \subseteq open
    BY DEF StartFails, CloseListener, CancelWorker, Run, Signal, BeginStop, Exit, StopTimeout
  <2>5. canceled' \subseteq WorkerHooks
    BY DEF LifecycleInv, TypeOK, StartFails, CloseListener, CancelWorker, Run, Signal,
           BeginStop, Exit, StopTimeout
  <2> QED BY <2>1, <2>3, <2>4, <2>5
<1>4. TypeOK'
  BY <1>1, <1>3, SameService DEF LifecycleInv, TypeOK
<1>5. Undisturbed' => /\ Undisturbed
                      /\ canceled' = canceled /\ open' = open
  BY DEF StartFails, CloseListener, CancelWorker, Run, Signal, BeginStop, Exit,
         StopTimeout, Stopping
<1>6. CleanUntilStopped'
  BY <1>1, <1>5 DEF LifecycleInv, HooksInv, CleanUntilStopped
<1>7. ReadyAtTheTop'
  <2> SUFFICES ASSUME ready
               PROVE  canceled' = {} /\ (Undisturbed' \/ shutdown')
    BY <1>1, SameService DEF LifecycleInv, HooksInv, ReadyAtTheTop
  <2>1. /\ numStarted = Len(Hooks[service]) /\ Len(Hooks[service]) \in Nat \ {0}
        /\ canceled = {} /\ (Undisturbed \/ shutdown)
    BY HooksWellOrdered DEF LifecycleInv, TypeOK, HooksInv, ReadyAtTheTop, WellOrdered
  <2>2. \A h : Stopping(h) => h \notin WorkerHooks
    BY ReadyOnTop, Kinds DEF LifecycleInv, HooksInv
  <2>3. canceled' = {}
    <3>1. canceled' = canceled \/ \E h : Stopping(h) /\ h \in WorkerHooks
      BY Zenon DEF StartFails, CloseListener, CancelWorker, Run, Signal, BeginStop,
                   Exit, StopTimeout
    <3> QED BY <2>1, <2>2, <3>1
  <2>4. Undisturbed' \/ shutdown'
    <3>1. CASE shutdown
      BY <1>3, <3>1
    <3>2. CASE ~shutdown
      <4>1. Undisturbed
        BY <2>1, <3>2
      <4>2. ~\E h : Starting(h) /\ numStarted = Len(Hooks[service])
        BY <2>1 DEF Starting
      <4> QED BY <2>1, <3>2, <4>1, <4>2
              DEF StartFails, Starting, CloseListener, CancelWorker, Run, Signal,
                  BeginStop, Exit, StopTimeout, Stopping
    <3> QED BY <3>1, <3>2
  <2> QED BY <2>3, <2>4
<1>8. ServingUntilShutdown'
  BY <1>1, <1>2, <1>3, <1>5, SameService DEF LifecycleInv, HooksInv, ServingUntilShutdown
<1>9. (open \subseteq Up)' /\ (closed \cap Up = {})'
  BY <1>1, <1>2, <1>3 DEF LifecycleInv, HooksInv
<1>10. WaitedForFirst'
  BY <1>1, <1>2, <1>3, SameService DEF LifecycleInv, HooksInv, WaitedForFirst
<1> QED BY <1>4, <1>6, <1>7, <1>8, <1>9, <1>10 DEF LifecycleInv, HooksInv

LEMMA TasksKeep ==
  ASSUME LifecycleInv, NEW t \in Tasks,
         TaskBegins(t) \/ TaskEnds(t) \/ TaskReturns(t) \/ ConsumerFails(t)
  PROVE  LifecycleInv'
<1> USE DEF Undisturbed
<1>1. /\ UNCHANGED <<service, phase, numStarted, ready, open, canceled, closed, call>>
      /\ phase # "exited"
  BY DEF TaskBegins, TaskEnds, TaskReturns, ConsumerFails, Step
<1>2. Up' = Up
  BY <1>1 DEF Up
<1>3. PICK to \in {"idle", "busy", "returned", "failed"} :
          /\ task[t] \in {"idle", "busy"}
          /\ task' = [task EXCEPT ![t] = to]
          /\ to = "returned" => HookOf(t) \in canceled
          /\ to = "failed" => /\ t # "outbox" /\ task[t] = "idle"
                              /\ shutdown' = (shutdown \/ ~Done("consumers"))
          /\ to # "failed" => shutdown' = shutdown
  BY DEF TaskBegins, TaskEnds, TaskReturns, ConsumerFails, Step
<1>4. shutdown' \in BOOLEAN /\ (shutdown => shutdown')
  <2>1. shutdown \in BOOLEAN
    BY DEF LifecycleInv, TypeOK
  <2>2. shutdown' = shutdown \/ shutdown' = (shutdown \/ ~Done("consumers"))
    BY <1>3
  <2>3. shutdown' \in BOOLEAN
    BY <2>1, <2>2, Zenon
  <2>4. shutdown => shutdown'
    BY <2>2, Zenon
  <2> QED BY <2>3, <2>4
<1>5. /\ task' \in [Tasks -> {"unstarted", "idle", "busy", "returned", "failed"}]
      /\ task'[t] = to
      /\ \A u \in Tasks : u # t => task'[u] = task[u]
  BY <1>3 DEF LifecycleInv, TypeOK
<1>6. TypeOK'
  BY <1>1, <1>4, <1>5, SameService DEF LifecycleInv, TypeOK
<1>7. CleanUntilStopped' /\ ReadyAtTheTop'
  BY <1>1, <1>4, SameService DEF LifecycleInv, HooksInv, CleanUntilStopped, ReadyAtTheTop
<1>8. ServingUntilShutdown'
  <2> SUFFICES ASSUME Undisturbed, ~shutdown'
               PROVE  /\ open = Servers \cap Up
                      /\ \A u \in Tasks : task'[u] \in IF HookOf(u) \in Up
                                             THEN {"idle", "busy"} ELSE {"unstarted"}
    BY <1>1, <1>2, SameService DEF ServingUntilShutdown
  <2>1. /\ open = Servers \cap Up
        /\ \A u \in Tasks : task[u] \in IF HookOf(u) \in Up
                               THEN {"idle", "busy"} ELSE {"unstarted"}
        /\ canceled = {}
    BY <1>4 DEF LifecycleInv, HooksInv, ServingUntilShutdown, CleanUntilStopped
  <2>2. to # "failed"
    <3> SUFFICES ASSUME to = "failed" PROVE FALSE
      OBVIOUS
    <3>1. Done("consumers")
      BY <1>3
    <3>2. t \in TasksOf("consumers") /\ task[t] = "idle"
      BY <1>3 DEF TasksOf
    <3>3. \A u \in TasksOf("consumers") : task[u] # "failed"
      BY <2>1 DEF TasksOf
    <3> QED BY <2>1, <3>1, <3>2, <3>3 DEF Done
  <2>3. to \in {"idle", "busy"}
    BY <1>3, <2>1, <2>2
  <2> QED BY <1>3, <1>5, <2>1, <2>3
<1>9. (open \subseteq Up)' /\ (closed \cap Up = {})'
  BY <1>1, <1>2 DEF LifecycleInv, HooksInv
<1>10. WaitedForFirst'
  <2> SUFFICES ASSUME NEW u \in Tasks \ Unwaited, task'[u] \in {"idle", "busy"}
               PROVE  HookOf(u) \in Up
    BY <1>1, <1>2, SameService DEF LifecycleInv, HooksInv, WaitedForFirst
  <2>1. task[u] \in {"idle", "busy"}
    BY <1>3, <1>5
  <2> QED BY <1>1, <2>1 DEF LifecycleInv, HooksInv, WaitedForFirst
<1> QED BY <1>6, <1>7, <1>8, <1>9, <1>10 DEF LifecycleInv, HooksInv

LEMMA ServingKeeps ==
  ASSUME LifecycleInv, CallBegins \/ CallEnds \/ \E h \in ServerHooks : ServeFails(h)
  PROVE  LifecycleInv'
<1> USE DEF Undisturbed
<1>1. /\ UNCHANGED <<service, phase, numStarted, ready, canceled, closed, task>>
      /\ open' \subseteq open
      /\ shutdown' \in BOOLEAN /\ (shutdown => shutdown')
      /\ open' # open => shutdown'
      /\ call' \in BOOLEAN /\ (call' => call \/ "grpc" \in open)
  <2>1. /\ UNCHANGED <<service, phase, numStarted, ready, canceled, closed, task>>
        /\ open' \subseteq open
        /\ shutdown' = TRUE \/ (shutdown' = shutdown /\ open' = open)
        /\ \/ call' = call \/ call' = FALSE
           \/ call' = TRUE /\ "grpc" \in open
    BY DEF CallBegins, CallEnds, ServeFails
  <2>2. shutdown \in BOOLEAN /\ call \in BOOLEAN
    BY DEF LifecycleInv, TypeOK
  <2>3. shutdown' \in BOOLEAN
    BY <2>1, <2>2, Zenon
  <2>4. (shutdown => shutdown') /\ (open' # open => shutdown')
    <3>1. CASE shutdown' = TRUE
      BY <3>1
    <3>2. CASE shutdown' = shutdown /\ open' = open
      BY <3>2
    <3> QED BY <2>1, <3>1, <3>2
  <2>5. call' \in BOOLEAN
    <3>1. CASE call' = call
      BY <2>2, <3>1, Zenon
    <3>2. CASE call' = FALSE \/ call' = TRUE
      BY <3>2, Zenon
    <3> QED BY <2>1, <3>1, <3>2
  <2>6. call' => call \/ "grpc" \in open
    BY <2>1, Zenon
  <2> QED BY <2>1, <2>3, <2>4, <2>5, <2>6
<1>2. Up' = Up
  BY <1>1 DEF Up
<1>3. TypeOK'
  BY <1>1, SameService DEF LifecycleInv, TypeOK
<1>4. CleanUntilStopped' /\ ReadyAtTheTop'
  BY <1>1, SameService DEF LifecycleInv, HooksInv, CleanUntilStopped, ReadyAtTheTop
<1>5. ServingUntilShutdown'
  BY <1>1, <1>2, SameService DEF LifecycleInv, HooksInv, ServingUntilShutdown
<1>6. (open \subseteq Up)' /\ (closed \cap Up = {})'
  BY <1>1, <1>2 DEF LifecycleInv, HooksInv
<1>7. WaitedForFirst'
  BY <1>1, <1>2, SameService DEF LifecycleInv, HooksInv, WaitedForFirst
<1> QED BY <1>3, <1>4, <1>5, <1>6, <1>7 DEF LifecycleInv, HooksInv

LEMMA InitHolds == Init => LifecycleInv
<1> SUFFICES ASSUME Init PROVE LifecycleInv
  OBVIOUS
<1>1. Up = {}
  BY DEF Init, Up
<1>2. TypeOK
  <2>1. service \in Services /\ Len(Hooks[service]) \in Nat \ {0}
    BY HooksWellOrdered DEF Init, WellOrdered
  <2>2. task \in [Tasks -> {"unstarted", "idle", "busy", "returned", "failed"}]
    BY DEF Init
  <2>3. numStarted \in 0..Len(Hooks[service])
    BY <2>1 DEF Init
  <2> QED BY <2>1, <2>2, <2>3 DEF Init, TypeOK
<1>3. HooksInv
  BY <1>1, <1>2, HooksWellOrdered
     DEF Init, HooksInv, CleanUntilStopped, ReadyAtTheTop, ServingUntilShutdown, WaitedForFirst
<1> QED BY <1>2, <1>3 DEF LifecycleInv

LEMMA StepKeeps == LifecycleInv /\ [Next]_vars => LifecycleInv'
<1> SUFFICES ASSUME LifecycleInv, [Next]_vars PROVE LifecycleInv'
  OBVIOUS
<1>1. CASE StartHook
  BY <1>1, StartKeeps, RunKeeps DEF StartHook
<1>2. CASE StopHook
  BY <1>2, StopKeeps, RunKeeps DEF StopHook
<1>3. CASE Signal \/ StopTimeout \/ \E h \in HookNames : StartFails(h)
  BY <1>3, RunKeeps
<1>4. CASE \E t \in Tasks : TaskBegins(t) \/ TaskEnds(t) \/ TaskReturns(t) \/ ConsumerFails(t)
  BY <1>4, TasksKeep
<1>5. CASE CallBegins \/ CallEnds \/ \E h \in ServerHooks : ServeFails(h)
  BY <1>5, ServingKeeps
<1>6. CASE UNCHANGED vars
  <2>1. Up' = Up
    BY <1>6 DEF Up, vars
  <2> QED
    BY <1>6, <2>1, SameService
       DEF vars, LifecycleInv, TypeOK, HooksInv, CleanUntilStopped, ReadyAtTheTop,
           ServingUntilShutdown, WaitedForFirst, Undisturbed
<1> QED BY <1>1, <1>2, <1>3, <1>4, <1>5, <1>6 DEF Next, Exited

LEMMA AlwaysLifecycle == Spec => []LifecycleInv
  BY InitHolds, StepKeeps, PTL DEF Spec

-----------------------------------------------------------------------------
(* A process's hooks, servers, goroutines and resources stay what app/      *)
(* module.go makes them.                                                    *)
THEOREM LifecycleTypes == Spec => []TypeOK
<1>1. LifecycleInv => TypeOK
  BY DEF LifecycleInv
<1> QED BY <1>1, AlwaysLifecycle, PTL

(* Readiness is reported only by a process that can serve: every hook is    *)
(* started, nothing is canceled or closed, and until a stop is asked for    *)
(* every server listens and every goroutine runs (ManageReadiness).         *)
THEOREM ReadyMeansServing == Spec => []ReadyOnlyWhenServing
<1>1. LifecycleInv => ReadyOnlyWhenServing
  <2> SUFFICES ASSUME LifecycleInv, ready, phase # "exited"
               PROVE  /\ numStarted = Len(Hooks[service])
                      /\ canceled = {} /\ closed = {}
                      /\ \/ shutdown
                         \/ open = Servers /\ \A t \in Tasks : task[t] \in {"idle", "busy"}
    BY DEF ReadyOnlyWhenServing
  <2>1. /\ numStarted = Len(Hooks[service])
        /\ canceled = {} /\ closed = {}
        /\ Undisturbed \/ shutdown
    BY DEF LifecycleInv, HooksInv, ReadyAtTheTop
  <2>2. ASSUME ~shutdown
        PROVE  open = Servers /\ \A t \in Tasks : task[t] \in {"idle", "busy"}
    <3>1. WellOrdered(Hooks[service], Uses[service], ClosedEarly)
      BY HooksWellOrdered DEF LifecycleInv, TypeOK
    <3>2. Servers \subseteq Up
      BY <2>1, <3>1 DEF Up, Servers, Range, WellOrdered
    <3>3. \A t \in Tasks : HookOf(t) \in Up
      BY <2>1, <3>1 DEF Up, Tasks, WellOrdered
    <3> QED BY <2>1, <2>2, <3>2, <3>3 DEF LifecycleInv, HooksInv, ServingUntilShutdown
  <2> QED BY <2>1, <2>2
<1> QED BY <1>1, AlwaysLifecycle, PTL

(* No connection, channel, pool or client is closed under a goroutine or a  *)
(* gRPC handler that works with it, but for the two exceptions the          *)
(* property names (waitForDone, GracefulStop, the order of the hooks).      *)
THEOREM NothingClosedUnderWork == Spec => []GracefulStop
<1>1. LifecycleInv => GracefulStop
  <2> SUFFICES ASSUME LifecycleInv, phase # "exited"
               PROVE  /\ \A t \in Tasks \ Unwaited :
                            task[t] = "busy" =>
                                Uses[service][t] \cap closed \subseteq ClosedEarly
                      /\ call => Uses[service]["handler"] \cap closed \subseteq ClosedEarly
    BY DEF GracefulStop
  <2>1. /\ WellOrdered(Hooks[service], Uses[service], ClosedEarly)
        /\ numStarted \in 0..Len(Hooks[service])
        /\ closed \cap Up = {}
    BY HooksWellOrdered DEF LifecycleInv, TypeOK, HooksInv
  <2>2. ASSUME NEW t \in DOMAIN Uses[service], RunsIn(t) \in Up
        PROVE  Uses[service][t] \cap closed \subseteq ClosedEarly
    <3>1. PICK i \in 1..numStarted : Hooks[service][i] = RunsIn(t)
      BY <2>2 DEF Up
    <3>2. i \in 1..Len(Hooks[service]) /\ 1..i \subseteq 1..numStarted
      BY <2>1, <3>1 DEF WellOrdered
    <3>3. \A x \in Uses[service][t] \ ClosedEarly : \E j \in 1..i : Hooks[service][j] = x
      BY <2>1, <2>2, <3>1, <3>2 DEF WellOrdered
    <3>4. Uses[service][t] \ ClosedEarly \subseteq Up
      BY <3>2, <3>3 DEF Up
    <3> QED BY <2>1, <3>4
  <2>3. ASSUME NEW t \in Tasks \ Unwaited, task[t] = "busy"
        PROVE  t \in DOMAIN Uses[service] /\ RunsIn(t) \in Up
    BY <2>3 DEF LifecycleInv, HooksInv, WaitedForFirst, Tasks, RunsIn
  <2>4. ASSUME call
        PROVE  "handler" \in DOMAIN Uses[service] /\ RunsIn("handler") \in Up
    <3>1. "grpc" \in Up
      BY <2>4 DEF LifecycleInv, HooksInv, WaitedForFirst
    <3>2. "handler" \in DOMAIN Uses[service]
      BY <2>1, <3>1 DEF Up, WellOrdered
    <3> QED BY <3>1, <3>2 DEF RunsIn
  <2> QED BY <2>2, <2>3, <2>4
<1> QED BY <1>1, AlwaysLifecycle, PTL
=============================================================================

------------------------------ MODULE Lifecycle ------------------------------
(***************************************************************************)
(* One process of a service from fx.App.Run to its exit: the Fx hooks that *)
(* app/module.go appends, the goroutines they start, the readiness flag    *)
(* and the way back through the hooks.  Fx starts hooks in the order in    *)
(* which they were appended and stops the started ones in reverse.         *)
(*                                                                         *)
(* A constructor runs, and appends its hook, when the first function of    *)
(* fx.Invoke that needs its result is called, so the hook lists below      *)
(* follow from the Invoke lists and the parameters of what they start.     *)
(* The logger's hook (first to start, last to stop) is left out.           *)
(***************************************************************************)
EXTENDS Naturals, Sequences, Functions

CONSTANT Services  \* the services whose process is considered

VARIABLES
    service,     \* the service this process runs
    phase,       \* where fx.App.Run is
    numStarted,  \* hooks started and not yet stopped
    shutdown,    \* a signal or requestShutdown has asked Fx to stop
    ready,       \* health.Handler.ready
    open,        \* servers that accept connections
    canceled,    \* worker hooks whose context is canceled
    closed,      \* resources that are closed
    task,        \* state of the goroutines started by the worker hooks
    call         \* a gRPC request is being handled

vars == <<service, phase, numStarted, shutdown, ready, open, canceled,
          closed, task, call>>

-----------------------------------------------------------------------------
(* The four services: their hooks, the goroutines of each worker hook, and *)
(* the resources each goroutine and each gRPC handler works with.          *)

OrderHooks ==
    <<"db", "conn", "publisherChannel", "outboxWorker", "stockReservedChannel",
      "stockNotReservedChannel", "consumers", "grpc", "health", "readiness">>

OrderUses ==
    [outbox |-> {"db", "conn", "publisherChannel"},
     stockReserved |-> {"db", "conn", "stockReservedChannel"},
     stockNotReserved |-> {"db", "conn", "stockNotReservedChannel"},
     handler |-> {"db"}]

(* Mutant of InventoryHooks: the process reports ready before it listens. *)
InventoryHooksReadyEarly ==
    <<"db", "conn", "publisherChannel", "outboxWorker", "consumerChannel",
      "readiness", "consumers", "health">>

InventoryHooks ==
    <<"db", "conn", "publisherChannel", "outboxWorker", "consumerChannel",
      "consumers", "health", "readiness">>

InventoryUses ==
    [outbox |-> {"db", "conn", "publisherChannel"},
     reserveStockRequested |-> {"db", "conn", "consumerChannel"}]

CatalogWriteHooks ==
    <<"db", "publisher", "outboxWorker", "grpc", "health", "readiness">>

CatalogWriteUses == [outbox |-> {"db", "publisher"}, handler |-> {"db"}]

(* The consumers and the gRPC server reach their handlers through mediatr, *)
(* not through a constructor: MongoDB and Redis are first needed by        *)
(* RegisterMediatorHandlers, after both hooks have been appended.          *)
CatalogReadHooks ==
    <<"conn", "channel", "searchChannel", "consumers", "grpc", "mongo",
      "redis", "health", "readiness">>

CatalogReadUses ==
    [productCreated |-> {"conn", "channel", "mongo", "redis"},
     searchIndex |-> {"conn", "searchChannel"},
     handler |-> {"mongo", "redis"}]

Hooks == [order |-> OrderHooks, inventory |-> InventoryHooks,
          catalogWrite |-> CatalogWriteHooks, catalogRead |-> CatalogReadHooks]

Uses == [order |-> OrderUses, inventory |-> InventoryUses,
         catalogWrite |-> CatalogWriteUses, catalogRead |-> CatalogReadUses]

ASSUME ServicesAssumption == Services \subseteq DOMAIN Hooks

WorkerHooks == {"outboxWorker", "consumers"}
ServerHooks == {"grpc", "health"}

Resources == Range(Hooks[service]) \ (WorkerHooks \cup ServerHooks \cup {"readiness"})
Servers == Range(Hooks[service]) \cap ServerHooks
Tasks == DOMAIN Uses[service] \ {"handler"}
TasksOf(h) == IF h = "outboxWorker" THEN {"outbox"}
              ELSE IF h = "consumers" THEN Tasks \ {"outbox"} ELSE {}
HookOf(t) == IF t = "outbox" THEN "outboxWorker" ELSE "consumers"

(* The done channel of worker hook h is closed.  messaging.Start of        *)
(* order-service returns on the first error and on cancellation, without   *)
(* waiting for its two consumers; elsewhere every goroutine has returned.  *)
Done(h) ==
    IF service = "order" /\ h = "consumers"
    THEN h \in canceled \/ \E t \in TasksOf(h) : task[t] = "failed"
    ELSE \A t \in TasksOf(h) : task[t] \in {"returned", "failed"}

-----------------------------------------------------------------------------
TypeOK ==
    /\ service \in Services
    /\ phase \in {"starting", "running", "stopping", "exited"}
    /\ numStarted \in 0..Len(Hooks[service])
    /\ shutdown \in BOOLEAN /\ ready \in BOOLEAN /\ call \in BOOLEAN
    /\ open \subseteq Servers
    /\ canceled \subseteq WorkerHooks
    /\ closed \subseteq Resources
    /\ task \in [Tasks -> {"unstarted", "idle", "busy", "returned", "failed"}]

Init ==
    /\ service \in Services
    /\ phase = "starting"
    /\ numStarted = 0
    /\ shutdown = FALSE /\ ready = FALSE /\ call = FALSE
    /\ open = {} /\ canceled = {} /\ closed = {}
    /\ task = [t \in Tasks |-> "unstarted"]

-----------------------------------------------------------------------------
(* Start: the OnStart of the next hook.                                    *)

Starting(h) ==
    /\ phase = "starting"
    /\ numStarted < Len(Hooks[service])
    /\ h = Hooks[service][numStarted + 1]

Started ==
    /\ numStarted' = numStarted + 1
    /\ UNCHANGED <<service, phase, shutdown, canceled, closed, call>>

(* StartOutboxWorker, StartConsumers: the goroutines run from here on. *)
StartWorker(h) ==
    /\ Starting(h)
    /\ h \in WorkerHooks
    /\ task' = [t \in Tasks |-> IF t \in TasksOf(h) THEN "idle" ELSE task[t]]
    /\ Started
    /\ UNCHANGED <<ready, open>>

(* StartGRPCServer, StartHealthServer: Listen, then Serve in a goroutine. *)
StartServer(h) ==
    /\ Starting(h)
    /\ h \in ServerHooks
    /\ open' = open \cup {h}
    /\ Started
    /\ UNCHANGED <<ready, task>>

(* ManageReadiness: SetReady(true). *)
StartReadiness ==
    /\ Starting("readiness")
    /\ ready' = TRUE
    /\ Started
    /\ UNCHANGED <<open, task>>

(* A resource was opened by its constructor; only Redis has an OnStart. *)
StartResource(h) ==
    /\ Starting(h)
    /\ h \in Resources
    /\ Started
    /\ UNCHANGED <<ready, open, task>>

(* Listen or the Redis ping fails: Fx rolls the started hooks back. *)
StartFails(h) ==
    /\ Starting(h)
    /\ h \in ServerHooks \cup {"redis"}
    /\ phase' = "stopping"
    /\ UNCHANGED <<service, numStarted, shutdown, ready, open, canceled,
                   closed, task, call>>

(* Every hook has started: Run waits for a signal or for requestShutdown,  *)
(* one that came while hooks were starting included.                       *)
Run ==
    /\ phase = "starting"
    /\ numStarted = Len(Hooks[service])
    /\ phase' = "running"
    /\ UNCHANGED <<service, numStarted, shutdown, ready, open, canceled,
                   closed, task, call>>

Signal ==
    /\ phase = "running"
    /\ shutdown' = TRUE
    /\ UNCHANGED <<service, phase, numStarted, ready, open, canceled, closed,
                   task, call>>

BeginStop ==
    /\ phase = "running"
    /\ shutdown
    /\ phase' = "stopping"
    /\ UNCHANGED <<service, numStarted, shutdown, ready, open, canceled,
                   closed, task, call>>

-----------------------------------------------------------------------------
(* Stop: the OnStop of the hook that was started last.                     *)

Stopping(h) ==
    /\ phase = "stopping"
    /\ numStarted > 0
    /\ h = Hooks[service][numStarted]

StopReadiness ==
    /\ Stopping("readiness")
    /\ ready' = FALSE
    /\ numStarted' = numStarted - 1
    /\ UNCHANGED <<service, phase, shutdown, open, canceled, closed, task, call>>

(* GracefulStop and Shutdown first close the listener ... *)
CloseListener(h) ==
    /\ Stopping(h)
    /\ h \in open
    /\ open' = open \ {h}
    /\ UNCHANGED <<service, phase, numStarted, shutdown, ready, canceled,
                   closed, task, call>>

(* ... and then wait for the requests that are being handled. *)
ServerDrained(h) ==
    /\ Stopping(h)
    /\ h \in ServerHooks \ open
    /\ h = "grpc" => ~call
    /\ numStarted' = numStarted - 1
    /\ UNCHANGED <<service, phase, shutdown, ready, open, canceled, closed,
                   task, call>>

(* Mutant of CancelWorker: the hook waits for goroutines nobody canceled. *)
CancelWorkerForgotten(h) ==
    /\ Stopping(h)
    /\ h \in WorkerHooks \ canceled
    /\ UNCHANGED vars

CancelWorker(h) ==
    /\ Stopping(h)
    /\ h \in WorkerHooks \ canceled
    /\ canceled' = canceled \cup {h}
    /\ UNCHANGED <<service, phase, numStarted, shutdown, ready, open, closed,
                   task, call>>

(* Mutant of WaitForDone: the hook cancels its goroutines and goes on. *)
WaitForDoneSkipped(h) ==
    /\ Stopping(h)
    /\ h \in canceled
    /\ numStarted' = numStarted - 1
    /\ UNCHANGED <<service, phase, shutdown, ready, open, canceled, closed,
                   task, call>>

WaitForDone(h) ==
    /\ Stopping(h)
    /\ h \in canceled
    /\ Done(h)
    /\ numStarted' = numStarted - 1
    /\ UNCHANGED <<service, phase, shutdown, ready, open, canceled, closed,
                   task, call>>

(* Mutant of CloseResource: a worker hook is released like a connection. *)
CloseResourceAny(h) ==
    /\ Stopping(h)
    /\ h \notin ServerHooks
    /\ closed' = closed \cup {h}
    /\ numStarted' = numStarted - 1
    /\ UNCHANGED <<service, phase, shutdown, ready, open, canceled, task, call>>

CloseResource(h) ==
    /\ Stopping(h)
    /\ h \in Resources
    /\ closed' = closed \cup {h}
    /\ numStarted' = numStarted - 1
    /\ UNCHANGED <<service, phase, shutdown, ready, open, canceled, task, call>>

(* Every hook is stopped, or Fx's stop timeout has passed. *)
Exit ==
    /\ phase = "stopping"
    /\ numStarted = 0
    /\ phase' = "exited"
    /\ UNCHANGED <<service, numStarted, shutdown, ready, open, canceled,
                   closed, task, call>>

StopTimeout ==
    /\ phase = "stopping"
    /\ numStarted > 0
    /\ phase' = "exited"
    /\ UNCHANGED <<service, numStarted, shutdown, ready, open, canceled,
                   closed, task, call>>

Exited == phase = "exited" /\ UNCHANGED vars

-----------------------------------------------------------------------------
(* The goroutines of the worker hooks and the gRPC handlers, which run     *)
(* beside the hooks until the process has exited.                          *)

Step(t, from, to) ==
    /\ phase # "exited"
    /\ task[t] = from
    /\ task' = [task EXCEPT ![t] = to]
    /\ UNCHANGED <<service, phase, numStarted, ready, open, canceled, closed, call>>

(* A tick or a delivery.  select picks at random between it and a canceled *)
(* context, so a canceled goroutine may still take one.                    *)
TaskBegins(t) == Step(t, "idle", "busy") /\ UNCHANGED shutdown

TaskEnds(t) == Step(t, "busy", "idle") /\ UNCHANGED shutdown

TaskReturns(t) ==
    /\ HookOf(t) \in canceled
    /\ Step(t, "idle", "returned")
    /\ UNCHANGED shutdown

(* Mutant of ConsumerFails: the error is logged and no shutdown requested. *)
ConsumerFailsQuietly(t) ==
    /\ t # "outbox"
    /\ Step(t, "idle", "failed")
    /\ UNCHANGED shutdown

(* A declaration fails or the deliveries channel closes: Start returns an  *)
(* error and requestShutdown asks Fx to stop.  An error that comes after   *)
(* done was closed is read by nobody.                                      *)
ConsumerFails(t) ==
    /\ t # "outbox"
    /\ Step(t, "idle", "failed")
    /\ shutdown' = (shutdown \/ ~Done("consumers"))

(* Serve returns an error of its own, its listener closed: requestShutdown. *)
ServeFails(h) ==
    /\ phase # "exited"
    /\ h \in open
    /\ open' = open \ {h}
    /\ shutdown' = TRUE
    /\ UNCHANGED <<service, phase, numStarted, ready, canceled, closed, task, call>>

CallBegins ==
    /\ phase # "exited"
    /\ "grpc" \in open
    /\ ~call
    /\ call' = TRUE
    /\ UNCHANGED <<service, phase, numStarted, shutdown, ready, open, canceled,
                   closed, task>>

CallEnds ==
    /\ phase # "exited"
    /\ call
    /\ call' = FALSE
    /\ UNCHANGED <<service, phase, numStarted, shutdown, ready, open, canceled,
                   closed, task>>

-----------------------------------------------------------------------------
HookNames == UNION {Range(Hooks[s]) : s \in DOMAIN Hooks}

StartHook ==
    \/ \E h \in HookNames : StartWorker(h) \/ StartServer(h) \/ StartResource(h)
    \/ StartReadiness
    \/ Run

StopHook ==
    \/ \E h \in HookNames :
          \/ CloseListener(h) \/ ServerDrained(h)
          \/ CancelWorker(h) \/ WaitForDone(h)
          \/ CloseResource(h)
    \/ StopReadiness
    \/ BeginStop
    \/ Exit

Next ==
    \/ StartHook
    \/ \E h \in HookNames : StartFails(h)
    \/ Signal
    \/ StopHook
    \/ StopTimeout
    \/ \E t \in Tasks : TaskBegins(t) \/ TaskEnds(t) \/ TaskReturns(t) \/ ConsumerFails(t)
    \/ \E h \in ServerHooks : ServeFails(h)
    \/ CallBegins
    \/ CallEnds
    \/ Exited

AllTasks == UNION {DOMAIN Uses[s] : s \in DOMAIN Uses} \ {"handler"}

(* Fx goes on with the hooks; a handler's context has a deadline, so it    *)
(* ends; select does not ignore a canceled context for ever (strong        *)
(* fairness).  Nothing is assumed of StopTimeout: a stop completes without *)
(* its help.                                                               *)
Fairness ==
    /\ WF_vars(StartHook) /\ WF_vars(StopHook)
    /\ \A t \in AllTasks : /\ WF_vars(t \in Tasks /\ TaskEnds(t))
                           /\ SF_vars(t \in Tasks /\ TaskReturns(t))
    /\ WF_vars(CallEnds)

Spec == Init /\ [][Next]_vars
FairSpec == Spec /\ Fairness

-----------------------------------------------------------------------------
(* /health/readiness answers 200 only while the process can serve: every   *)
(* hook has started, no worker has been canceled and no resource closed,   *)
(* during start, rollback and stop; and until a stop is requested every    *)
(* server listens and every goroutine runs (ManageReadiness is the last    *)
(* hook to start and the first to stop, requestShutdown follows a failure).*)
ReadyOnlyWhenServing ==
    ready /\ phase # "exited" =>
        /\ numStarted = Len(Hooks[service])
        /\ canceled = {} /\ closed = {}
        /\ \/ shutdown
           \/ open = Servers /\ \A t \in Tasks : task[t] \in {"idle", "busy"}

(* Once a consumer or a server has failed, a signal has come or a hook has *)
(* failed to start, the process exits: the request to stop is not lost     *)
(* when it comes while hooks are still starting, and no OnStop waits for   *)
(* something that only a later one would end (requestShutdown,             *)
(* waitForDone, GracefulStop).  Closing a channel or a connection waits for *)
(* the broker's reply and is taken to return; it would not while the reader *)
(* of the connection is stalled (OutboxRelay), where Fx's timeout ends it.  *)
EveryStopCompletes ==
    (shutdown \/ phase = "stopping" \/ \E t \in Tasks : task[t] = "failed")
        ~> phase = "exited"

(* What the hooks of a service leave exposed, by the order they happen to   *)
(* be appended in: the stores of catalog-read-service close before its      *)
(* server and consumers stop.                                               *)
ClosedEarly == IF service = "catalogRead" THEN {"mongo", "redis"} ELSE {}

(* messaging.Start of order-service does not wait for its consumers. *)
Unwaited == IF service = "order" THEN TasksOf("consumers") ELSE {}

(* No connection, channel, pool or client is closed while a goroutine or a  *)
(* gRPC handler that works with it is busy: OnStop waits for what it owns   *)
(* (waitForDone, GracefulStop) before the hooks below it close.  The two    *)
(* exceptions above are all there are; in particular the outbox workers and *)
(* the handlers of order-service never lose what they use.                  *)
GracefulStop ==
    phase # "exited" =>
        /\ \A t \in Tasks \ Unwaited :
              task[t] = "busy" => Uses[service][t] \cap closed \subseteq ClosedEarly
        /\ call => Uses[service]["handler"] \cap closed \subseteq ClosedEarly
=============================================================================

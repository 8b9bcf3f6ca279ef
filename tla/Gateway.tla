------------------------------ MODULE Gateway ------------------------------
(***************************************************************************)
(* api-gateway: HTTP requests that become gRPC calls under two deadlines,  *)
(* the status codes that come back through the gRPC servers' and the       *)
(* gateway's error mappings, and the process around them, from New to the  *)
(* end of Shutdown.                                                        *)
(*                                                                         *)
(* Time is counted in ticks since a request's header was read.  What the   *)
(* gateway does at a deadline it does before the next tick; a service may  *)
(* take any time, and goes on after the gateway has given up.  HTTP        *)
(* statuses are strings.                                                   *)
(***************************************************************************)
EXTENDS Naturals, FiniteSets

CONSTANTS
    Requests,        \* HTTP requests
    Routes,          \* Routes[x]: the methods that request x may ask for
    OptionSets,      \* AppOptions the gateway may be started with
    ShutdownTimeout, \* ticks of the 15 s in main and Shutdown
    None             \* no answer yet

(* The gRPC methods behind the handlers; getOrders and getProducts are      *)
(* getOrder and searchProducts with fewer outcomes.                         *)
Methods == {"createOrder", "getOrder", "createProduct", "searchProducts"}
Creates == {"createOrder", "createProduct"}
Codes == {"OK", "InvalidArgument", "NotFound", "DeadlineExceeded", "Canceled",
          "Internal", "Unavailable", "Unknown"}

(* HTTP statuses; "late" and "gone" are answers that do not reach anybody. *)
Statuses == {"200", "201", "400", "404", "500", "502", "504", "late", "gone"}

ASSUME GatewayAssumption ==
    /\ \A o \in OptionSets :
          /\ DOMAIN o = {"request", "grpcRead", "grpcWrite", "read", "write"}
          /\ \A f \in DOMAIN o : o[f] \in Nat
    /\ ShutdownTimeout \in Nat
    /\ Routes \in [Requests -> SUBSET Methods]
    /\ None \notin Statuses

VARIABLES
    options,   \* the AppOptions of this process
    phase,     \* where main is
    ready,     \* health.Handler.ready
    failed,    \* servers whose Serve returned an error
    errCh,     \* messages in errCh (capacity 1)
    draining,  \* ticks since Shutdown began
    closed,    \* the gRPC client connections are closed
    stage,     \* stage[x]: none, body, call, done
    method,    \* method[x]: the handler's gRPC method
    age,       \* age[x]: ticks since the header was read
    deadline,  \* deadline[x]: the age at which the call's context ends
    answer,    \* answer[x]: the status the client got
    rpc,       \* rpc[x]: none, running at the server, or over
    code,      \* code[x]: the gRPC status the server returned
    stored     \* stored[x]: the service has committed the order or product

processVars == <<options, phase, ready, failed, errCh, draining, closed>>
requestVars == <<stage, method, age, deadline, answer>>
serverVars == <<rpc, code, stored>>
vars == <<processVars, requestVars, serverVars>>

Active == {x \in Requests : stage[x] \in {"body", "call"}}
Servers == {"http", "management"}

(* Mutant of Validate: equal timeouts are accepted. *)
ValidateLoose(o) ==
    /\ \A f \in DOMAIN o : o[f] > 0
    /\ o.write >= o.request
    /\ o.grpcRead < o.request /\ o.grpcWrite < o.request

(* AppOptions.Validate. *)
Validate(o) ==
    /\ \A f \in DOMAIN o : o[f] > 0
    /\ o.write > o.request
    /\ o.grpcRead < o.request /\ o.grpcWrite < o.request

(* New fails on options that are not valid; Run sets readiness. *)
Init ==
    /\ options \in OptionSets
    /\ phase = IF Validate(options) THEN "running" ELSE "exited"
    /\ ready = Validate(options)
    /\ failed = {} /\ errCh = 0 /\ draining = 0 /\ closed = FALSE
    /\ stage = [x \in Requests |-> "none"]
    /\ method = [x \in Requests |-> "getOrder"]
    /\ age = [x \in Requests |-> 0]
    /\ deadline = [x \in Requests |-> 0]
    /\ answer = [x \in Requests |-> None]
    /\ rpc = [x \in Requests |-> "none"]
    /\ code = [x \in Requests |-> "OK"]
    /\ stored = [x \in Requests |-> FALSE]

-----------------------------------------------------------------------------
(* Requests. *)

Arrive(x) ==
    /\ phase = "running" /\ "http" \notin failed
    /\ stage[x] = "none"
    /\ stage' = [stage EXCEPT ![x] = "body"]
    /\ \E m \in Routes[x] : method' = [method EXCEPT ![x] = m]
    /\ UNCHANGED <<processVars, age, deadline, answer, serverVars>>

(* How long the body of x may take: only a POST has one, and the read       *)
(* deadline runs since before the header, so it comes before age read.      *)
BodyLimit(x) == IF method[x] \in Creates THEN options.read - 1 ELSE 0

(* The handler returns; what it knew of the request and its call goes.     *)
Leave(x, status) ==
    /\ stage' = [stage EXCEPT ![x] = "done"]
    /\ answer' = [answer EXCEPT ![x] = status]
    /\ age' = [age EXCEPT ![x] = 0]
    /\ deadline' = [deadline EXCEPT ![x] = 0]
    /\ code' = [code EXCEPT ![x] = "OK"]

(* The handler writes its answer; after the write deadline of the server   *)
(* the client does not get it.                                             *)
Answer(x, status) == Leave(x, IF age[x] < options.write THEN status ELSE "late")

(* ShouldBindJSON or Validate of the gateway's dto fails, at the latest     *)
(* when the read deadline cuts the body off, or the search has no text.     *)
RefuseRequest(x) ==
    /\ stage[x] = "body" /\ method[x] # "getOrder"
    /\ Answer(x, "400")
    /\ UNCHANGED <<processVars, method, rpc, stored>>

(* The context of RequestTimeout, narrowed by the gRPC client. *)
CallDeadline(x) ==
    LET own == age[x] + (IF method[x] \in Creates THEN options.grpcWrite
                                                  ELSE options.grpcRead)
    IN  IF own < options.request THEN own ELSE options.request

(* The request is bound and the client calls the service; when the body    *)
(* took longer than the request's context, the call fails at once.         *)
Call(x) ==
    /\ stage[x] = "body"
    /\ \/ /\ age[x] >= options.request
          /\ Answer(x, "504")
          /\ UNCHANGED rpc
       \/ /\ age[x] < options.request
          /\ stage' = [stage EXCEPT ![x] = "call"]
          /\ deadline' = [deadline EXCEPT ![x] = CallDeadline(x)]
          /\ rpc' = [rpc EXCEPT ![x] = "running"]
          /\ UNCHANGED <<age, answer, code>>
    /\ UNCHANGED <<processVars, method, stored>>

(* writeServiceError: the HTTP status of a gRPC status. *)
HTTPStatus(c) ==
    CASE c = "DeadlineExceeded" -> "504"
      [] c = "InvalidArgument" -> "400"
      [] c = "NotFound" -> "404"
      [] c = "Unavailable" -> "502"
      [] c \in {"Canceled", "Internal", "Unknown"} -> "500"

(* The call returns the server's reply. *)
CallReturns(x) ==
    /\ stage[x] = "call" /\ rpc[x] = "over"
    /\ Answer(x, IF code[x] # "OK" THEN HTTPStatus(code[x])
                 ELSE IF method[x] \in Creates THEN "201" ELSE "200")
    /\ UNCHANGED <<processVars, method, rpc, stored>>

(* Mutant of CallExpires: the call gets a context of its own. *)
CallExpiresNever(x) == stage[x] = "call" /\ FALSE /\ UNCHANGED vars

(* The call's context ends first: the client library gives up. *)
CallExpires(x) ==
    /\ stage[x] = "call" /\ age[x] >= deadline[x]
    /\ Answer(x, HTTPStatus("DeadlineExceeded"))
    /\ UNCHANGED <<processVars, method, rpc, stored>>

(* Shutdown has closed the connection under the call. *)
CallCut(x) ==
    /\ stage[x] = "call" /\ closed
    /\ Answer(x, HTTPStatus("Canceled"))
    /\ UNCHANGED <<processVars, method, rpc, stored>>

(* The client goes away; its context is canceled, the answer reaches nobody. *)
Disconnect(x) ==
    /\ x \in Active
    /\ Leave(x, "gone")
    /\ UNCHANGED <<processVars, method, rpc, stored>>

-----------------------------------------------------------------------------
(* The gRPC servers of order-service and catalog-write-service. *)

(* Mutant of ErrorCode: order-service maps like catalog-write-service. *)
ErrorCodeInvalid(m, err) == "InvalidArgument"

(* serviceError of order-service looks at the error; CreateProduct of       *)
(* catalog-write-service returns InvalidArgument whatever happened; the     *)
(* handlers of catalog-read-service leave the choice to the library.        *)
ErrorCode(m, err) ==
    IF m = "createProduct" THEN "InvalidArgument"
    ELSE CASE err = "deadline" -> "DeadlineExceeded"
           [] err = "canceled" -> "Canceled"
           [] err = "notFound" -> "NotFound"
           [] err = "invalid" -> "InvalidArgument"
           [] err = "other" -> IF m = "searchProducts" THEN "Unknown" ELSE "Internal"

(* Nobody reads the reply to a call that was given up. *)
Reply(x, c) ==
    /\ rpc' = [rpc EXCEPT ![x] = "over"]
    /\ code' = IF stage[x] = "call" THEN [code EXCEPT ![x] = c] ELSE code

(* The transaction commits if the call is one that creates something. *)
Commits(x) == stored' = [stored EXCEPT ![x] = method[x] \in Creates]

(* Errors after the arguments were accepted: the context ended, because of  *)
(* the propagated deadline or because the gateway went away, or a query     *)
(* failed.                                                                  *)
Errors(x) ==
    {"other"} \cup (IF age[x] >= deadline[x] THEN {"deadline"} ELSE {})
              \cup (IF stage[x] = "done" THEN {"canceled"} ELSE {})

ServerSucceeds(x) ==
    /\ rpc[x] = "running"
    /\ Commits(x) /\ Reply(x, "OK")
    /\ UNCHANGED <<processVars, requestVars>>

(* The server's own validation refuses, or nothing is found. *)
ServerRefuses(x) ==
    /\ rpc[x] = "running" /\ method[x] # "searchProducts"
    /\ \E err \in {"invalid"} \cup (IF method[x] = "getOrder" THEN {"notFound"} ELSE {}) :
          Reply(x, ErrorCode(method[x], err))
    /\ UNCHANGED <<processVars, requestVars, stored>>

(* An error may be returned for a transaction that was committed; a broken  *)
(* connection or a stopped service says nothing about it either.            *)
ServerFails(x) ==
    /\ rpc[x] = "running"
    /\ Commits(x) \/ UNCHANGED stored
    /\ \/ \E err \in Errors(x) : Reply(x, ErrorCode(method[x], err))
       \/ Reply(x, "Unavailable")
    /\ UNCHANGED <<processVars, requestVars>>

-----------------------------------------------------------------------------
(* The process. *)

(* Mutant of ServeFails: the channel takes more than it has room for. *)
ServeFailsOverflows(s) ==
    /\ phase = "running" /\ s \notin failed
    /\ failed' = failed \cup {s}
    /\ ready' = FALSE
    /\ errCh' = errCh + 1
    /\ UNCHANGED <<options, phase, draining, closed, requestVars, serverVars>>

(* Mutant of ServeFails: the error is logged and not sent to main. *)
ServeFailsQuietly(s) ==
    /\ phase = "running" /\ s \notin failed
    /\ failed' = failed \cup {s}
    /\ ready' = FALSE
    /\ UNCHANGED <<options, phase, errCh, draining, closed, requestVars, serverVars>>

(* Serve of one of the two servers returns an error; the second message     *)
(* would block its goroutine, which nobody waits for.                       *)
ServeFails(s) ==
    /\ phase = "running" /\ s \notin failed
    /\ failed' = failed \cup {s}
    /\ ready' = FALSE
    /\ errCh' = 1
    /\ UNCHANGED <<options, phase, draining, closed, requestVars, serverVars>>

(* main leaves its select on a signal or an error and calls Shutdown, which *)
(* clears readiness and closes the listener.                                *)
BeginShutdown ==
    /\ phase = "running"
    /\ phase' = "draining"
    /\ ready' = FALSE
    /\ errCh' = 0
    /\ UNCHANGED <<options, failed, draining, closed, requestVars, serverVars>>

(* A signal may come at any time; an error must be taken. *)
TakeError == errCh = 1 /\ BeginShutdown
TakeSignal == errCh = 0 /\ BeginShutdown

(* Mutant of HTTPDrained: closeAll comes first. *)
HTTPDrainedAtOnce ==
    /\ phase = "draining"
    /\ phase' = "closing"
    /\ UNCHANGED <<options, ready, failed, errCh, draining, closed, requestVars, serverVars>>

(* HTTPServer.Shutdown returns when no request is active or its time is up; *)
(* the management server has no long requests.                              *)
HTTPDrained ==
    /\ phase = "draining"
    /\ Active = {} \/ draining >= ShutdownTimeout
    /\ phase' = "closing"
    /\ UNCHANGED <<options, ready, failed, errCh, draining, closed, requestVars, serverVars>>

CloseAll ==
    /\ phase = "closing" /\ ~closed
    /\ closed' = TRUE
    /\ UNCHANGED <<options, phase, ready, failed, errCh, draining, requestVars, serverVars>>

Exit ==
    /\ phase = "closing" /\ closed
    /\ phase' = "exited"
    /\ UNCHANGED <<options, ready, failed, errCh, draining, closed, requestVars, serverVars>>

(* Time passes while requests or the shutdown wait, up to a deadline. *)
Tick ==
    /\ phase \in {"running", "draining"}
    /\ Active # {}
    /\ \A x \in Active : age[x] < IF stage[x] = "body" THEN BodyLimit(x) ELSE deadline[x]
    /\ draining < ShutdownTimeout
    /\ age' = [x \in Requests |-> IF x \in Active THEN age[x] + 1 ELSE age[x]]
    /\ draining' = IF phase = "draining" THEN draining + 1 ELSE 0
    /\ UNCHANGED <<options, phase, ready, failed, errCh, closed,
                   stage, method, deadline, answer, serverVars>>

GatewayStep(x) ==
    \/ RefuseRequest(x) \/ Call(x) \/ CallReturns(x) \/ CallExpires(x) \/ CallCut(x)

ServerStep(x) == ServerSucceeds(x) \/ ServerRefuses(x) \/ ServerFails(x)

Main == TakeError \/ HTTPDrained \/ CloseAll \/ Exit

Next ==
    \/ /\ phase # "exited"
       /\ \/ \E x \in Requests : Arrive(x) \/ GatewayStep(x) \/ Disconnect(x)
          \/ \E s \in Servers : ServeFails(s)
          \/ TakeSignal \/ Main \/ Tick
    \/ \E x \in Requests : ServerStep(x)

Spec == Init /\ [][Next]_vars

(* Time passes, and main and the handlers run.  Nothing is assumed of the   *)
(* services (they may hang), of clients, or of signals.                     *)
FairSpec ==
    /\ Spec
    /\ WF_vars(Tick) /\ WF_vars(phase # "exited" /\ Main)
    /\ \A x \in Requests :
          WF_vars(/\ phase # "exited" /\ GatewayStep(x)
                  /\ stage[x] = "body" => age[x] >= BodyLimit(x))

-----------------------------------------------------------------------------
(* Types of the gateway's state. *)
TypeOK ==
    /\ options \in OptionSets
    /\ phase \in {"running", "draining", "closing", "exited"}
    /\ ready \in BOOLEAN /\ closed \in BOOLEAN
    /\ failed \subseteq Servers /\ errCh \in 0..1
    /\ draining \in 0..ShutdownTimeout
    /\ stage \in [Requests -> {"none", "body", "call", "done"}]
    /\ method \in [Requests -> Methods]
    /\ age \in [Requests -> Nat] /\ deadline \in [Requests -> Nat]
    /\ answer \in [Requests -> Statuses \cup {None}]
    /\ rpc \in [Requests -> {"none", "running", "over"}]
    /\ code \in [Requests -> Codes]
    /\ stored \in [Requests -> BOOLEAN]

(* What a client may conclude about its order: created means committed, and *)
(* a refusal means that nothing was and nothing will be committed, also by  *)
(* a call that outlives the answer.  500, 502 and 504 leave it open.        *)
HonestAnswers ==
    \A x \in Requests :
        /\ answer[x] = "201" => stored[x]
        /\ answer[x] \in {"400", "404"} /\ method[x] # "createProduct" =>
              ~stored[x] /\ rpc[x] # "running"

(* Every accepted configuration leaves room for the answer: no handler      *)
(* writes it after the server's write deadline, whatever the service does.  *)
(* Validate does not relate the read and the write timeout; a body that may *)
(* take longer than the write timeout loses its answer.  Writing an answer  *)
(* takes no time here; with equal read and write timeouts the code has only *)
(* what the server spent on reading the header left for it.                 *)
AnswersInTime ==
    \A x \in Requests : answer[x] = "late" => options.read > options.write

(* Shutdown closes the gRPC connections under no call in progress, if the   *)
(* request timeout is below the shutdown timeout, which nothing validates.  *)
(* With equal timeouts the two end at the same moment, in either order.     *)
ClosedAfterCalls ==
    closed /\ options.request < ShutdownTimeout =>
        \A x \in Requests : stage[x] # "call"

(* Every request is answered although a service may hang for ever. *)
EveryRequestAnswered ==
    \A x \in Requests : (x \in Active) ~> (answer[x] # None \/ phase = "exited")

(* A server that fails takes the process down, whichever fails first or     *)
(* both at once, so that it is restarted.                                   *)
FailureExits == (failed # {}) ~> (phase = "exited")
=============================================================================

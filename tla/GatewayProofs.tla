--------------------------- MODULE GatewayProofs ---------------------------
(***************************************************************************)
(* The gateway's safety properties for any number of requests, any         *)
(* configuration that New accepts and any shutdown timeout.                *)
(***************************************************************************)
EXTENDS Gateway, TLAPS

(* The clock of a request: it runs from Arrive to the answer, and never     *)
(* passes the limit of the stage the request is in.                         *)
OnTime(x) ==
    /\ x \notin Active => age[x] = 0
    /\ stage[x] = "body" => age[x] <= BodyLimit(x)
    /\ stage[x] = "call" => age[x] <= deadline[x] /\ deadline[x] <= options.request

(* The call of a request: nothing is stored before the server is done, and  *)
(* the code of a reply that is still waited for says what was stored.       *)
CallState(x) ==
    /\ stage[x] \in {"none", "body"} =>
          rpc[x] = "none" /\ ~stored[x] /\ answer[x] = None
    /\ stage[x] = "call" => rpc[x] # "none"
    /\ rpc[x] = "running" => ~stored[x]
    /\ stage[x] = "call" /\ rpc[x] = "over" =>
          /\ code[x] = "OK" /\ method[x] \in Creates => stored[x]
          /\ code[x] \in {"InvalidArgument", "NotFound"} /\ method[x] # "createProduct" =>
                ~stored[x]

(* The status tells a client no more than what is settled. *)
Tells(x, status) ==
    /\ status = "201" => stored[x] /\ rpc[x] = "over"
    /\ status \in {"400", "404"} /\ method[x] # "createProduct" =>
          ~stored[x] /\ rpc[x] # "running"
    /\ status = "late" => options.read > options.write

RequestInv(x) == OnTime(x) /\ CallState(x) /\ Tells(x, answer[x])

(* Requests are only taken with a valid configuration. *)
Accepted == phase = "running" \/ (\E x \in Requests : stage[x] # "none") => Validate(options)

(* A request that is active during the shutdown is at least as old as it.   *)
Draining ==
    /\ phase = "running" => draining = 0
    /\ phase = "draining" => \A x \in Active : age[x] >= draining

(* After HTTPDrained no call is in progress and none can begin. *)
Drained ==
    /\ closed => phase \in {"closing", "exited"}
    /\ phase \in {"closing", "exited"} /\ options.request < ShutdownTimeout =>
          \A x \in Active : stage[x] = "body" /\ age[x] >= options.request

GatewayInv ==
    /\ TypeOK
    /\ \A x \in Requests : RequestInv(x)
    /\ Accepted /\ Draining /\ Drained

-----------------------------------------------------------------------------
(* The mappings and the constants. *)

LEMMA OptionTypes ==
  ASSUME options \in OptionSets
  PROVE  /\ options.request \in Nat /\ options.grpcRead \in Nat
         /\ options.grpcWrite \in Nat /\ options.read \in Nat /\ options.write \in Nat
  BY GatewayAssumption

LEMMA ValidOptions ==
  ASSUME options \in OptionSets, Validate(options)
  PROVE  /\ options.request > 0 /\ options.grpcRead > 0 /\ options.grpcWrite > 0
         /\ options.read > 0 /\ options.write > options.request
  BY GatewayAssumption DEF Validate

(* No error is reported as OK, and only a refusal looks like one. *)
LEMMA ErrorCodes ==
  ASSUME NEW m \in Methods,
         NEW err \in {"deadline", "canceled", "notFound", "invalid", "other"}
  PROVE  /\ ErrorCode(m, err) \in Codes \ {"OK"}
         /\ m # "createProduct" /\ err \in {"deadline", "canceled", "other"} =>
               ErrorCode(m, err) \notin {"InvalidArgument", "NotFound"}
  BY DEF ErrorCode, Codes

LEMMA ErrorStatus ==
  ASSUME NEW c \in Codes \ {"OK"}
  PROVE  /\ HTTPStatus(c) \in Statuses \ {"201", "late"}
         /\ HTTPStatus(c) \in {"400", "404"} => c \in {"InvalidArgument", "NotFound"}
  BY DEF HTTPStatus, Codes, Statuses

-----------------------------------------------------------------------------
(* Initial states. *)

LEMMA InitGateway == Init => GatewayInv
<1> SUFFICES ASSUME Init PROVE GatewayInv
  OBVIOUS
<1>1. TypeOK
  <2>1. ready \in BOOLEAN
    BY DEF Init, Validate
  <2>2. phase \in {"running", "exited"}
    BY DEF Init
  <2>3. closed \in BOOLEAN /\ stored \in [Requests -> BOOLEAN]
    BY Zenon DEF Init
  <2>4. /\ options \in OptionSets /\ failed \subseteq Servers /\ errCh \in 0..1
        /\ draining \in 0..ShutdownTimeout
    BY GatewayAssumption DEF Init
  <2>5. /\ stage \in [Requests -> {"none", "body", "call", "done"}]
        /\ method \in [Requests -> Methods]
        /\ age \in [Requests -> Nat] /\ deadline \in [Requests -> Nat]
        /\ answer \in [Requests -> Statuses \cup {None}]
        /\ rpc \in [Requests -> {"none", "running", "over"}]
        /\ code \in [Requests -> Codes]
    BY DEF Init, Methods, Codes
  <2> QED BY <2>1, <2>2, <2>3, <2>4, <2>5 DEF TypeOK
<1>2. ASSUME NEW x \in Requests PROVE RequestInv(x)
  BY GatewayAssumption DEF Init, RequestInv, OnTime, CallState, Tells, Active, Statuses
<1>3. Accepted /\ Draining /\ Drained
  BY DEF Init, Accepted, Draining, Drained, Active
<1> QED BY <1>1, <1>2, <1>3 DEF GatewayInv

-----------------------------------------------------------------------------
(* Type correctness. *)

LEMMA LeaveType ==
  ASSUME TypeOK, NEW x \in Requests, NEW status \in Statuses, Leave(x, status)
  PROVE  /\ stage' \in [Requests -> {"none", "body", "call", "done"}]
         /\ age' \in [Requests -> Nat] /\ deadline' \in [Requests -> Nat]
         /\ answer' \in [Requests -> Statuses \cup {None}]
         /\ code' \in [Requests -> Codes]
  BY DEF TypeOK, Leave, Codes

(* A request that is still active has answers in time, unless its body may  *)
(* take longer than the write timeout.                                      *)
LEMMA InTime ==
  ASSUME GatewayInv, NEW x \in Active
  PROVE  age[x] >= options.write => options.read > options.write
<1>1. x \in Requests /\ Validate(options) /\ OnTime(x) /\ age[x] \in Nat /\ deadline[x] \in Nat
  BY DEF Active, GatewayInv, RequestInv, Accepted, TypeOK
<1>2. options \in OptionSets
  BY DEF GatewayInv, TypeOK
<1> QED BY <1>1, <1>2, OptionTypes, ValidOptions DEF OnTime, BodyLimit, Active

LEMMA AnswerTells ==
  ASSUME GatewayInv, NEW x \in Active, NEW status \in Statuses \ {"late"},
         Tells(x, status), Answer(x, status)
  PROVE  \E s \in Statuses : Leave(x, s) /\ Tells(x, s)
<1>1. CASE age[x] < options.write
  BY <1>1 DEF Answer
<1>2. CASE ~(age[x] < options.write)
  <2>1. age[x] >= options.write
    BY <1>2, OptionTypes DEF GatewayInv, TypeOK, Active
  <2>2. Leave(x, "late") /\ Tells(x, "late")
    BY <1>2, <2>1, InTime DEF Answer, Tells
  <2> QED BY <2>2 DEF Statuses
<1> QED BY <1>1, <1>2

(* What the handler may answer, step by step. *)
Ends(x) == /\ \E s \in Statuses : Leave(x, s) /\ Tells(x, s)
           /\ UNCHANGED <<processVars, method, rpc, stored>>

LEMMA RequestEnds ==
  ASSUME GatewayInv, NEW x \in Requests,
         \/ RefuseRequest(x) \/ CallReturns(x) \/ CallExpires(x) \/ CallCut(x) \/ Disconnect(x)
         \/ Call(x) /\ age[x] >= options.request
  PROVE  x \in Active /\ Ends(x)
<1>r. RequestInv(x)
  BY DEF GatewayInv
<1>1. CASE RefuseRequest(x)
  <2>1. x \in Active /\ Tells(x, "400")
    BY <1>1, <1>r DEF RefuseRequest, Active, RequestInv, CallState, Tells
  <2> QED BY <1>1, <2>1, AnswerTells DEF RefuseRequest, Ends, Statuses
<1>2. CASE CallReturns(x)
  <2> DEFINE status == IF code[x] # "OK" THEN HTTPStatus(code[x])
                       ELSE IF method[x] \in Creates THEN "201" ELSE "200"
  <2>1. x \in Active /\ stage[x] = "call" /\ rpc[x] = "over" /\ code[x] \in Codes
    BY <1>2 DEF CallReturns, Active, GatewayInv, TypeOK
  <2>2. code[x] # "OK" => /\ HTTPStatus(code[x]) \in Statuses \ {"201", "late"}
                          /\ HTTPStatus(code[x]) \in {"400", "404"} =>
                                code[x] \in {"InvalidArgument", "NotFound"}
    BY <2>1, ErrorStatus
  <2>3. status \in Statuses \ {"late"} /\ Tells(x, status)
    BY <1>r, <2>1, <2>2 DEF RequestInv, CallState, Tells, Statuses
  <2>4. Answer(x, status)
    BY <1>2 DEF CallReturns
  <2> HIDE DEF status
  <2> QED BY <1>2, <2>1, <2>3, <2>4, AnswerTells DEF CallReturns, Ends
<1>3. CASE CallExpires(x) \/ CallCut(x)
  <2>1. x \in Active
    BY <1>3 DEF CallExpires, CallCut, Active
  <2>2. \A c \in {"DeadlineExceeded", "Canceled"} :
           HTTPStatus(c) \in Statuses \ {"late"} /\ Tells(x, HTTPStatus(c))
    BY DEF HTTPStatus, Statuses, Tells
  <2> QED BY <1>3, <2>1, <2>2, AnswerTells DEF CallExpires, CallCut, Ends
<1>4. CASE Disconnect(x)
  BY <1>4 DEF Disconnect, Ends, Tells, Statuses
<1>5. CASE Call(x) /\ age[x] >= options.request
  <2>1. x \in Active /\ Tells(x, "504")
    BY <1>5 DEF Call, Active, Tells
  <2>2. Answer(x, "504") /\ UNCHANGED <<processVars, method, rpc, stored>>
    BY <1>5, OptionTypes DEF Call, GatewayInv, TypeOK
  <2> QED BY <2>1, <2>2, AnswerTells DEF Ends, Statuses
<1> QED BY <1>1, <1>2, <1>3, <1>4, <1>5

-----------------------------------------------------------------------------
(* Steps of requests. *)

(* Nothing of request y changes. *)
Same(y) ==
    /\ stage'[y] = stage[y] /\ method'[y] = method[y] /\ age'[y] = age[y]
    /\ deadline'[y] = deadline[y] /\ answer'[y] = answer[y]
    /\ rpc'[y] = rpc[y] /\ code'[y] = code[y] /\ (stored'[y] <=> stored[y])

LEMMA Untouched ==
  ASSUME NEW y \in Requests, RequestInv(y), Same(y), UNCHANGED options
  PROVE  RequestInv(y)'
<1>1. (y \in Active)' <=> y \in Active
  BY DEF Same, Active
<1>2. OnTime(y)'
  BY <1>1 DEF RequestInv, OnTime, BodyLimit, Same
<1>3. CallState(y)'
  BY DEF RequestInv, CallState, Same
<1>4. Tells(y, answer[y])'
  BY DEF RequestInv, Tells, Same
<1> QED BY <1>2, <1>3, <1>4 DEF RequestInv

(* Steps of one request leave the process alone. *)
LEMMA OneRequest ==
  ASSUME GatewayInv, NEW x \in Requests, UNCHANGED processVars,
         TypeOK', RequestInv(x)', \A y \in Requests \ {x} : Same(y),
         stage'[x] # "none" => Validate(options),
         x \in Active' => /\ phase = "draining" => age'[x] >= draining
                          /\ phase \in {"closing", "exited"} /\ options.request < ShutdownTimeout =>
                                stage'[x] = "body" /\ age'[x] >= options.request
  PROVE  GatewayInv'
<1>0. UNCHANGED <<options, phase, draining, closed>>
  BY DEF processVars
<1>1. \A y \in Requests : RequestInv(y)'
  BY <1>0, Untouched DEF GatewayInv
<1>2. \A y \in Requests \ {x} : (y \in Active' <=> y \in Active) /\ stage'[y] = stage[y]
                                /\ age'[y] = age[y]
  BY DEF Same, Active
<1>3. Active' \subseteq Requests
  BY DEF Active
<1>4. Accepted'
  BY <1>0, <1>2 DEF GatewayInv, Accepted
<1>5. Draining'
  BY <1>0, <1>2, <1>3 DEF GatewayInv, Draining
<1>6. Drained'
  BY <1>0, <1>2, <1>3 DEF GatewayInv, Drained
<1> QED BY <1>1, <1>4, <1>5, <1>6 DEF GatewayInv

LEMMA ArriveStep ==
  ASSUME GatewayInv, NEW x \in Requests, Arrive(x)
  PROVE  GatewayInv'
<1>t. TypeOK
  BY DEF GatewayInv
<1>r. RequestInv(x)
  BY DEF GatewayInv
<1>m. PICK m \in Routes[x] : method' = [method EXCEPT ![x] = m]
  BY DEF Arrive
<1>1. m \in Methods
  BY GatewayAssumption
<1>2. TypeOK'
  BY <1>t, <1>m, <1>1 DEF TypeOK, Arrive, processVars, serverVars
<1>3. \A y \in Requests \ {x} : Same(y)
  BY <1>t, <1>m DEF Same, Arrive, TypeOK, serverVars
<1>4. /\ stage'[x] = "body" /\ age'[x] = 0 /\ answer'[x] = None
      /\ rpc'[x] = "none" /\ (~stored[x])'
  BY <1>t, <1>r DEF Arrive, TypeOK, RequestInv, OnTime, CallState, Active, serverVars
<1>5. options' = options /\ phase = "running" /\ Validate(options) /\ options \in OptionSets
  BY <1>t DEF Arrive, GatewayInv, Accepted, TypeOK, processVars
<1>6. RequestInv(x)'
  <2>1. OnTime(x)'
    BY <1>4, <1>5, OptionTypes, ValidOptions DEF OnTime, Active, BodyLimit
  <2>2. CallState(x)'
    BY <1>4 DEF CallState
  <2>3. Tells(x, answer[x])'
    BY <1>4, GatewayAssumption DEF Tells, Statuses
  <2> QED BY <2>1, <2>2, <2>3 DEF RequestInv
<1> QED BY <1>2, <1>3, <1>5, <1>6, OneRequest DEF Arrive

LEMMA EndStep ==
  ASSUME GatewayInv, NEW x \in Active, Ends(x)
  PROVE  GatewayInv'
<1>t. TypeOK /\ x \in Requests
  BY DEF GatewayInv, Active
<1>r. RequestInv(x)
  BY <1>t DEF GatewayInv
<1>s. PICK s \in Statuses : Leave(x, s) /\ Tells(x, s)
  BY DEF Ends
<1>u. UNCHANGED <<processVars, method, rpc, stored>>
  BY DEF Ends
<1>2. TypeOK'
  BY <1>t, <1>s, <1>u, LeaveType DEF TypeOK, processVars
<1>3. \A y \in Requests \ {x} : Same(y)
  BY <1>t, <1>s, <1>u DEF Same, Leave, TypeOK
<1>4. stage'[x] = "done" /\ age'[x] = 0 /\ answer'[x] = s /\ options' = options
  BY <1>t, <1>s, <1>u DEF Leave, TypeOK, processVars
<1>5. RequestInv(x)'
  <2>1. OnTime(x)'
    BY <1>4 DEF OnTime, Active
  <2>2. CallState(x)'
    BY <1>4, <1>u, <1>r DEF RequestInv, CallState
  <2>3. Tells(x, answer[x])'
    BY <1>4, <1>s, <1>u DEF Tells
  <2> QED BY <2>1, <2>2, <2>3 DEF RequestInv
<1>6. Validate(options)
  BY <1>t DEF GatewayInv, Accepted, Active
<1>7. x \notin Active'
  BY <1>4 DEF Active
<1> QED BY <1>t, <1>u, <1>2, <1>3, <1>5, <1>6, <1>7, OneRequest

LEMMA CallStep ==
  ASSUME GatewayInv, NEW x \in Requests, Call(x), ~(age[x] >= options.request)
  PROVE  GatewayInv'
<1>t. TypeOK /\ x \in Active
  BY DEF GatewayInv, Active, Call
<1>r. RequestInv(x)
  BY DEF GatewayInv
<1>v. Validate(options) /\ options \in OptionSets /\ age[x] \in Nat
  BY <1>t DEF GatewayInv, Accepted, Active, TypeOK
<1>1. /\ age[x] < options.request
      /\ stage' = [stage EXCEPT ![x] = "call"]
      /\ deadline' = [deadline EXCEPT ![x] = CallDeadline(x)]
      /\ rpc' = [rpc EXCEPT ![x] = "running"]
      /\ UNCHANGED <<age, answer, code, processVars, method, stored>>
  BY <1>v, OptionTypes DEF Call
<1>2. CallDeadline(x) \in Nat /\ age[x] <= CallDeadline(x) /\ CallDeadline(x) <= options.request
  BY <1>1, <1>v, OptionTypes DEF CallDeadline
<1>3. TypeOK'
  BY <1>t, <1>1, <1>2 DEF TypeOK, processVars
<1>4. \A y \in Requests \ {x} : Same(y)
  BY <1>t, <1>1 DEF Same, TypeOK
<1>5. stage'[x] = "call" /\ rpc'[x] = "running" /\ deadline'[x] = CallDeadline(x)
  BY <1>t, <1>1 DEF TypeOK
<1>6. stage[x] = "body" /\ options' = options
  BY <1>1 DEF Call, processVars
<1>7. RequestInv(x)'
  <2>1. OnTime(x)'
    BY <1>1, <1>2, <1>5, <1>6 DEF OnTime, Active
  <2>2. CallState(x)'
    BY <1>1, <1>5, <1>6, <1>r DEF RequestInv, CallState
  <2>3. answer[x] = None
    BY <1>6, <1>r DEF RequestInv, CallState
  <2>4. Tells(x, answer[x])'
    BY <1>1, <2>3, GatewayAssumption DEF Tells, Statuses
  <2> QED BY <2>1, <2>2, <2>4 DEF RequestInv
<1>8. phase = "draining" => age'[x] >= draining
  BY <1>t, <1>1 DEF GatewayInv, Draining
<1>9. ~(phase \in {"closing", "exited"} /\ options.request < ShutdownTimeout)
  BY <1>t, <1>1, <1>v, OptionTypes DEF GatewayInv, Drained
<1> QED BY <1>1, <1>v, <1>3, <1>4, <1>7, <1>8, <1>9, OneRequest

LEMMA ReplyTypes ==
  ASSUME TypeOK, NEW x \in Requests, NEW c \in Codes, Reply(x, c),
         Commits(x) \/ UNCHANGED stored
  PROVE  /\ rpc' \in [Requests -> {"none", "running", "over"}]
         /\ code' \in [Requests -> Codes]
         /\ stored' \in [Requests -> BOOLEAN]
<1>1. stored' \in [Requests -> BOOLEAN]
  <2> DEFINE made == method[x] \in Creates
  <2>1. made \in BOOLEAN
    OBVIOUS
  <2>2. stored' = stored \/ stored' = [stored EXCEPT ![x] = made]
    BY Zenon DEF Commits
  <2> HIDE DEF made
  <2> QED BY <2>1, <2>2, Zenon DEF TypeOK
<1>2. rpc' \in [Requests -> {"none", "running", "over"}] /\ code' \in [Requests -> Codes]
  BY DEF TypeOK, Reply
<1> QED BY <1>1, <1>2

(* What the server returns: OK only after a commit, a refusal only without. *)
LEMMA ServerReplies ==
  ASSUME GatewayInv, NEW x \in Requests, ServerStep(x)
  PROVE  \E c \in Codes :
           /\ Reply(x, c)
           /\ Commits(x) \/ UNCHANGED stored
           /\ c = "OK" => Commits(x)
           /\ c \in {"InvalidArgument", "NotFound"} /\ method[x] # "createProduct" =>
                 UNCHANGED stored
<1>m. method[x] \in Methods
  BY DEF GatewayInv, TypeOK
<1>1. CASE ServerSucceeds(x)
  BY <1>1 DEF ServerSucceeds, Codes
<1>2. CASE ServerRefuses(x)
  <2> PICK err \in {"invalid", "notFound"} : Reply(x, ErrorCode(method[x], err))
    BY <1>2 DEF ServerRefuses
  <2> QED BY <1>2, <1>m, ErrorCodes DEF ServerRefuses
<1>3. CASE ServerFails(x)
  <2>1. CASE Reply(x, "Unavailable")
    BY <1>3, <2>1 DEF ServerFails, Codes
  <2>2. CASE \E err \in Errors(x) : Reply(x, ErrorCode(method[x], err))
    <3> PICK err \in {"other", "deadline", "canceled"} : Reply(x, ErrorCode(method[x], err))
      BY <2>2 DEF Errors
    <3> QED BY <1>3, <1>m, ErrorCodes DEF ServerFails
  <2> QED BY <1>3, <2>1, <2>2 DEF ServerFails
<1> QED BY <1>1, <1>2, <1>3 DEF ServerStep

LEMMA ServerKeeps ==
  ASSUME GatewayInv, NEW x \in Requests, ServerStep(x)
  PROVE  GatewayInv'
<1>t. TypeOK
  BY DEF GatewayInv
<1>r. RequestInv(x)
  BY DEF GatewayInv
<1>u. UNCHANGED <<processVars, requestVars>> /\ rpc[x] = "running"
  BY DEF ServerStep, ServerSucceeds, ServerRefuses, ServerFails
<1>c. PICK c \in Codes :
         /\ Reply(x, c)
         /\ Commits(x) \/ UNCHANGED stored
         /\ c = "OK" => Commits(x)
         /\ c \in {"InvalidArgument", "NotFound"} /\ method[x] # "createProduct" =>
               UNCHANGED stored
  BY ServerReplies
<1>1. TypeOK'
  BY <1>t, <1>u, <1>c, ReplyTypes DEF TypeOK, processVars, requestVars
<1>2. \A y \in Requests \ {x} : Same(y)
  <2> TAKE y \in Requests \ {x}
  <2>1. rpc'[y] = rpc[y] /\ code'[y] = code[y]
    BY <1>t, <1>c DEF TypeOK, Reply
  <2>2. stored'[y] <=> stored[y]
    BY <1>t, <1>c, Zenon DEF TypeOK, Commits
  <2> QED BY <1>u, <2>1, <2>2 DEF Same, requestVars
<1>3. rpc'[x] = "over" /\ (stage[x] = "call" => code'[x] = c)
  BY <1>t, <1>c DEF TypeOK, Reply
<1>4. Commits(x) => (stored'[x] <=> method[x] \in Creates)
  BY <1>t, Zenon DEF TypeOK, Commits
<1>5. /\ ~stored[x] /\ stage[x] \notin {"none", "body"}
      /\ answer[x] # "201"
      /\ ~(answer[x] \in {"400", "404"} /\ method[x] # "createProduct")
  BY <1>r, <1>u DEF RequestInv, CallState, Tells
<1>6. RequestInv(x)'
  <2>1. OnTime(x)'
    BY <1>r, <1>u DEF RequestInv, OnTime, Active, BodyLimit, processVars, requestVars
  <2>2. CallState(x)'
    BY <1>c, <1>u, <1>3, <1>4, <1>5 DEF CallState, requestVars
  <2>3. Tells(x, answer[x])'
    BY <1>r, <1>u, <1>5 DEF RequestInv, Tells, processVars, requestVars
  <2> QED BY <2>1, <2>2, <2>3 DEF RequestInv
<1>7. Validate(options)
  BY <1>5 DEF GatewayInv, Accepted
<1>8. stage' = stage /\ age' = age /\ Active' = Active
  BY <1>u DEF requestVars, Active
<1> QED BY <1>u, <1>1, <1>2, <1>6, <1>7, <1>8, OneRequest
        DEF GatewayInv, Draining, Drained

-----------------------------------------------------------------------------
(* Steps of the process and of time. *)

ProcessStep ==
    \/ \E s \in Servers : ServeFails(s)
    \/ TakeSignal \/ Main

LEMMA ProcessKeeps ==
  ASSUME GatewayInv, ProcessStep
  PROVE  GatewayInv'
<1>t. TypeOK
  BY DEF GatewayInv
<1>o. options \in OptionSets /\ draining \in Nat
  BY <1>t, GatewayAssumption DEF TypeOK
<1>u. UNCHANGED <<options, draining, requestVars, serverVars>>
  BY DEF ProcessStep, ServeFails, TakeSignal, TakeError, Main, BeginShutdown, HTTPDrained,
         CloseAll, Exit
<1>1. TypeOK'
  <2>1. ready' \in BOOLEAN /\ closed' \in BOOLEAN
    BY <1>t, Zenon DEF TypeOK, ProcessStep, ServeFails, TakeSignal, TakeError, Main, BeginShutdown,
           HTTPDrained, CloseAll, Exit
  <2>2. /\ phase' \in {"running", "draining", "closing", "exited"}
        /\ failed' \subseteq Servers /\ errCh' \in 0..1
    BY <1>t DEF TypeOK, ProcessStep, ServeFails, TakeSignal, TakeError, Main, BeginShutdown,
           HTTPDrained, CloseAll, Exit
  <2> QED BY <1>t, <1>u, <2>1, <2>2 DEF TypeOK, requestVars, serverVars
<1>2. \A y \in Requests : RequestInv(y)'
  BY <1>u, Untouched DEF GatewayInv, Same, requestVars, serverVars
<1>3. Active' = Active /\ age' = age /\ stage' = stage
  BY <1>u DEF Active, requestVars
<1>4. \A x \in Active : age[x] \in Nat /\ deadline[x] \in Nat /\ OnTime(x)
                        /\ stage[x] \in {"body", "call"}
  BY <1>t DEF TypeOK, Active, GatewayInv, RequestInv
<1>5. Accepted' /\ Draining' /\ Drained'
  <2>1. CASE \E s \in Servers : ServeFails(s)
    BY <1>u, <1>3, <2>1 DEF GatewayInv, Accepted, Draining, Drained, ServeFails
  <2>2. CASE BeginShutdown
    <3>1. phase = "running" /\ phase' = "draining" /\ closed' = closed /\ draining = 0
      BY <2>2 DEF BeginShutdown, GatewayInv, Draining
    <3>2. Accepted' /\ Drained'
      BY <1>u, <1>3, <3>1 DEF GatewayInv, Accepted, Drained
    <3>3. Draining'
      BY <1>3, <1>4, <1>u, <3>1 DEF Draining
    <3> QED BY <3>2, <3>3
  <2>3. CASE HTTPDrained
    <3>1. phase = "draining" /\ phase' = "closing" /\ closed' = closed
      BY <2>3 DEF HTTPDrained
    <3>2. Accepted' /\ Draining'
      BY <1>u, <1>3, <3>1 DEF GatewayInv, Accepted, Draining
    <3>3. ASSUME options.request < ShutdownTimeout, NEW x \in Active
          PROVE  stage[x] = "body" /\ age[x] >= options.request
      <4>1. age[x] >= draining /\ draining >= ShutdownTimeout
        BY <2>3, <3>1, <3>3 DEF HTTPDrained, GatewayInv, Draining
      <4> QED BY <1>4, <1>o, <3>3, <4>1, OptionTypes, GatewayAssumption DEF OnTime
    <3>4. Drained'
      BY <1>u, <1>3, <3>1, <3>3 DEF Drained
    <3> QED BY <3>2, <3>4
  <2>4. CASE CloseAll \/ Exit
    BY <1>u, <1>3, <2>4 DEF GatewayInv, Accepted, Draining, Drained, CloseAll, Exit
  <2> QED BY <2>1, <2>2, <2>3, <2>4 DEF ProcessStep, TakeSignal, TakeError, Main
<1> QED BY <1>1, <1>2, <1>5 DEF GatewayInv

LEMMA TickKeeps ==
  ASSUME GatewayInv, Tick
  PROVE  GatewayInv'
<1>t. TypeOK
  BY DEF GatewayInv
<1>u. UNCHANGED <<options, phase, ready, failed, errCh, closed, stage, method, deadline,
                  answer, serverVars>>
  BY DEF Tick
<1>a. \A x \in Requests : age[x] \in Nat /\ deadline[x] \in Nat
  BY <1>t DEF TypeOK
<1>b. options \in OptionSets /\ draining \in Nat
  BY <1>t, GatewayAssumption DEF TypeOK
<1>1. Active' = Active /\ Active \subseteq Requests
  BY <1>u DEF Active
<1>2. \A x \in Requests : age'[x] = IF x \in Active THEN age[x] + 1 ELSE age[x]
  BY DEF Tick
<1>3. TypeOK'
  <2>1. age' \in [Requests -> Nat]
    BY <1>a DEF Tick
  <2>2. draining' \in 0..ShutdownTimeout
    BY <1>t, GatewayAssumption DEF Tick, TypeOK
  <2> QED BY <1>t, <1>u, <2>1, <2>2 DEF TypeOK, serverVars
<1>4. ASSUME NEW x \in Requests PROVE RequestInv(x)'
  <2>1. RequestInv(x)
    BY DEF GatewayInv
  <2>2. OnTime(x)'
    <3>1. CASE x \notin Active
      BY <1>1, <1>2, <1>u, <2>1, <3>1 DEF RequestInv, OnTime, Active
    <3>2. CASE stage[x] = "body"
      <4>0. x \in Active
        BY <3>2 DEF Active
      <4>1. age[x] < BodyLimit(x)
        BY <3>2, <4>0 DEF Tick
      <4>2. BodyLimit(x) \in Nat
        <5>1. Validate(options)
          BY <3>2 DEF GatewayInv, Accepted
        <5> QED BY <1>b, <5>1, OptionTypes, ValidOptions DEF BodyLimit
      <4>3. age'[x] = age[x] + 1 /\ BodyLimit(x)' = BodyLimit(x)
        BY <1>2, <1>u, <4>0 DEF BodyLimit
      <4> QED BY <1>1, <1>a, <1>u, <3>2, <4>0, <4>1, <4>2, <4>3 DEF OnTime
    <3>3. CASE stage[x] = "call"
      <4>0. x \in Active
        BY <3>3 DEF Active
      <4>1. age[x] < deadline[x]
        BY <3>3, <4>0 DEF Tick
      <4> QED BY <1>1, <1>2, <1>a, <1>u, <2>1, <3>3, <4>0, <4>1 DEF RequestInv, OnTime
    <3> QED BY <3>1, <3>2, <3>3 DEF Active
  <2>3. CallState(x)'
    BY <1>u, <2>1 DEF RequestInv, CallState, serverVars
  <2>4. Tells(x, answer[x])'
    BY <1>u, <2>1 DEF RequestInv, Tells, serverVars
  <2> QED BY <2>2, <2>3, <2>4 DEF RequestInv
<1>5. Accepted'
  BY <1>u DEF GatewayInv, Accepted
<1>6. Draining'
  BY <1>1, <1>2, <1>a, <1>b, <1>u DEF GatewayInv, Draining, Tick
<1>7. Drained'
  BY <1>u DEF GatewayInv, Drained, Tick
<1> QED BY <1>3, <1>4, <1>5, <1>6, <1>7 DEF GatewayInv

-----------------------------------------------------------------------------
LEMMA GatewayKeeps == GatewayInv /\ [Next]_vars => GatewayInv'
<1> SUFFICES ASSUME GatewayInv, [Next]_vars PROVE GatewayInv'
  OBVIOUS
<1>1. ASSUME NEW x \in Requests, Arrive(x) PROVE GatewayInv'
  BY <1>1, ArriveStep
<1>2. ASSUME NEW x \in Requests, GatewayStep(x) \/ Disconnect(x) PROVE GatewayInv'
  <2>1. CASE Call(x) /\ ~(age[x] >= options.request)
    BY <2>1, CallStep
  <2>2. CASE ~(Call(x) /\ ~(age[x] >= options.request))
    <3>1. x \in Active /\ Ends(x)
      BY <1>2, <2>2, RequestEnds DEF GatewayStep
    <3> QED BY <3>1, EndStep
  <2> QED BY <2>1, <2>2
<1>3. ASSUME NEW x \in Requests, ServerStep(x) PROVE GatewayInv'
  BY <1>3, ServerKeeps
<1>4. CASE ProcessStep
  BY <1>4, ProcessKeeps
<1>5. CASE Tick
  BY <1>5, TickKeeps
<1>6. CASE UNCHANGED vars
  <2>1. TypeOK' /\ Accepted' /\ Draining' /\ Drained'
    BY <1>6 DEF GatewayInv, TypeOK, Accepted, Draining, Drained, Active, vars, processVars,
                requestVars, serverVars
  <2>2. \A y \in Requests : RequestInv(y)'
    BY <1>6, Untouched DEF GatewayInv, Same, vars, processVars, requestVars, serverVars
  <2> QED BY <2>1, <2>2 DEF GatewayInv
<1> QED BY <1>1, <1>2, <1>3, <1>4, <1>5, <1>6 DEF Next, ProcessStep

LEMMA GatewayInvariance == Spec => []GatewayInv
  BY InitGateway, GatewayKeeps, PTL DEF Spec

(* The types of every component, for any number of requests: errCh never    *)
(* holds more than it has room for, draining ends at the shutdown timeout.  *)
THEOREM GatewayTypes == Spec => []TypeOK
<1>1. GatewayInv => TypeOK
  BY DEF GatewayInv
<1> QED BY <1>1, GatewayInvariance, PTL

(* What a client may conclude from its answer about its order (the error    *)
(* mappings of order-server.go and handler/error.go), although calls        *)
(* outlive answers.                                                         *)
THEOREM AnswersAreHonest == Spec => []HonestAnswers
<1>1. GatewayInv => HonestAnswers
  BY DEF GatewayInv, RequestInv, Tells, HonestAnswers
<1> QED BY <1>1, GatewayInvariance, PTL

(* AppOptions.Validate is enough for every handler to write its answer in   *)
(* time, for any timeouts it accepts with a read timeout within the write   *)
(* timeout.                                                                 *)
THEOREM ValidateSuffices == Spec => []AnswersInTime
<1>1. GatewayInv => AnswersInTime
  BY DEF GatewayInv, RequestInv, Tells, AnswersInTime
<1> QED BY <1>1, GatewayInvariance, PTL

(* Shutdown waits for the calls if the request timeout is below its own     *)
(* timeout (application.go, Shutdown and closeAll).                         *)
THEOREM ShutdownWaits == Spec => []ClosedAfterCalls
<1>1. GatewayInv => ClosedAfterCalls
  BY DEF GatewayInv, Drained, Active, ClosedAfterCalls
<1> QED BY <1>1, GatewayInvariance, PTL
=============================================================================

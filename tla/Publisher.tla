----------------------------- MODULE Publisher -----------------------------
(***************************************************************************)
(* RabbitMQPublisher.Publish frame by frame.  OutboxRelay takes a publish  *)
(* as one step with one of its outcomes; here the message, the basic.return *)
(* and the confirm travel on the connection, the goroutine of the AMQP     *)
(* library reads them, and the publisher's deadline falls anywhere between. *)
(*                                                                         *)
(* The returns channel has room for one basic.return.  Publish looks at it *)
(* only after a positive confirm, so the return of a publish that gave up  *)
(* stays there; the library's reader blocks on the next one, and with it   *)
(* every later confirm.  Here returns counts what is in the channel, 0..1,  *)
(* and the frame it blocks on is the next one on the wire.  The library and *)
(* the broker are external.                                                *)
(***************************************************************************)
EXTENDS OutboxRelay, Sequences

CONSTANT WireSize  \* frames the buffers of a connection hold in one direction

(* A queued copy is a copy of one row: its message_id is the row's. *)
ASSUME PublisherAssumption ==
    /\ WireSize \in Nat /\ WireSize >= 2
    /\ IsFiniteSet(Workers)
    /\ \A r, s \in Rows : r # s => copiesOf[r] \cap copiesOf[s] = {}

VARIABLES
    publishing,  \* publishing[w]: the row Publish was called with
    verdict,     \* verdict[w]: the confirm of that publish, once read
    toBroker,    \* toBroker[w]: publishes the broker has not read yet
    fromBroker   \* fromBroker[w]: returns and confirms not read yet

publishVars == <<publishing, verdict, toBroker, fromBroker, returns>>
publisherVars == <<relayVars, publishVars>>

(* live: some Publish still waits for the confirm of this message. *)
Publishes == [row: Rows, live: BOOLEAN]
Frames == [kind: {"return", "ack", "nack"}, live: BOOLEAN]

PublisherInit ==
    /\ Init
    /\ publishing = [w \in Workers |-> {}]
    /\ verdict = [w \in Workers |-> "none"]
    /\ toBroker = [w \in Workers |-> <<>>]
    /\ fromBroker = [w \in Workers |-> <<>>]

(* The message is handed to the connection; a full socket blocks the write, *)
(* which no deadline interrupts.                                            *)
Send(w, r) ==
    /\ NextOf(w, r) /\ publishing[w] = {}
    /\ Len(toBroker[w]) < WireSize
    /\ publishing' = [publishing EXCEPT ![w] = {r}]
    /\ toBroker' = [toBroker EXCEPT ![w] = Append(@, [row |-> r, live |-> TRUE])]
    /\ UNCHANGED <<relayVars, verdict, fromBroker, returns>>

(* The frames the broker answers with: a return precedes its confirm. *)
Answer(m) ==
    LET frame(k) == [kind |-> k, live |-> m.live]
    IN  IF Routes(m.row) = {} THEN <<frame("return"), frame("ack")>>
                              ELSE <<frame("ack")>>

Reply(w, frames) ==
    /\ Len(fromBroker[w]) + Len(frames) <= WireSize
    /\ toBroker' = [toBroker EXCEPT ![w] = Tail(@)]
    /\ fromBroker' = [fromBroker EXCEPT ![w] = @ \o frames]

(* The broker stores the message wherever a queue is bound, or nacks it. *)
BrokerHandles(w) ==
    /\ toBroker[w] # <<>>
    /\ LET m == Head(toBroker[w])
       IN  \/ Reply(w, Answer(m)) /\ Accept(m.row) /\ UNCHANGED faults
           \/ /\ Reply(w, <<[kind |-> "nack", live |-> m.live]>>)
              /\ Fault /\ UNCHANGED queue
    /\ UNCHANGED <<outbox, createdAt, batch, confirmed, routable,
                   publishing, verdict, returns>>

(* The reader cannot hand over a return while the buffer is full. *)
Blocked(w) ==
    /\ fromBroker[w] # <<>> /\ Head(fromBroker[w]).kind = "return"
    /\ returns[w] = 1

(* The library's reader goroutine takes the next frame off the connection. *)
ReadFrame(w) ==
    /\ fromBroker[w] # <<>> /\ ~Blocked(w)
    /\ fromBroker' = [fromBroker EXCEPT ![w] = Tail(@)]
    /\ LET f == Head(fromBroker[w])
       IN  IF f.kind = "return"
           THEN returns' = [returns EXCEPT ![w] = 1] /\ UNCHANGED verdict
           ELSE /\ verdict' = [verdict EXCEPT ![w] = IF f.live THEN f.kind ELSE @]
                /\ UNCHANGED returns
    /\ UNCHANGED <<relayVars, publishing, toBroker>>

(* Publish is over: the row is left for a later tick, or waits to be marked. *)
Finish(w) ==
    /\ publishing' = [publishing EXCEPT ![w] = {}]
    /\ verdict' = [verdict EXCEPT ![w] = "none"]

Fail(w) ==
    /\ batch' = [batch EXCEPT ![w] = @ \ publishing[w]]
    /\ UNCHANGED confirmed
    /\ Finish(w)

Succeed(w) ==
    /\ confirmed' = [confirmed EXCEPT ![w] = publishing[w]]
    /\ UNCHANGED batch
    /\ Finish(w)

(* Mutant of Confirmed: the return is not looked at, nil is returned. *)
ConfirmedUnchecked(w) ==
    /\ verdict[w] = "ack"
    /\ Succeed(w) /\ UNCHANGED returns

(* Mutant of Confirmed: the mutex stays locked when a return is reported. *)
ConfirmedStaysLocked(w) ==
    /\ verdict[w] = "ack"
    /\ \/ /\ returns[w] = 1 /\ returns' = [returns EXCEPT ![w] = 0]
          /\ batch' = [batch EXCEPT ![w] = @ \ publishing[w]]
          /\ verdict' = [verdict EXCEPT ![w] = "none"]
          /\ UNCHANGED <<confirmed, publishing>>
       \/ returns[w] = 0 /\ Succeed(w) /\ UNCHANGED returns

(* WaitContext returned a confirm; a return in the buffer is taken for the  *)
(* one of this publish, whichever publish it belongs to.                    *)
Confirmed(w) ==
    /\ verdict[w] = "ack"
    /\ \/ returns[w] = 1 /\ Fail(w) /\ returns' = [returns EXCEPT ![w] = 0]
       \/ returns[w] = 0 /\ Succeed(w) /\ UNCHANGED returns

Nacked(w) ==
    /\ verdict[w] = "nack"
    /\ Fail(w) /\ UNCHANGED returns

PublishReturns(w) ==
    /\ Confirmed(w) \/ Nacked(w)
    /\ UNCHANGED <<outbox, createdAt, queue, routable, faults, toBroker, fromBroker>>

Abandon(s) == [i \in DOMAIN s |-> [s[i] EXCEPT !.live = FALSE]]

(* Mutant of GiveUp: the abandoned publish still counts as waited for. *)
GiveUpKeepsWaiting(w) ==
    /\ publishing[w] # {}
    /\ Fault \/ (Blocked(w) /\ UNCHANGED faults)
    /\ Fail(w)
    /\ UNCHANGED <<outbox, createdAt, queue, routable, toBroker, fromBroker, returns>>

(* The deadline of Publish passes before WaitContext returns the confirm.   *)
(* It is a fault unless the reader is blocked, when nothing else can happen. *)
GiveUp(w) ==
    /\ publishing[w] # {}
    /\ Fault \/ (Blocked(w) /\ UNCHANGED faults)
    /\ Fail(w)
    /\ toBroker' = [toBroker EXCEPT ![w] = Abandon(@)]
    /\ fromBroker' = [fromBroker EXCEPT ![w] = Abandon(@)]
    /\ UNCHANGED <<outbox, createdAt, queue, routable, returns>>

(* The process stops and is started again, with a new connection.  What the *)
(* broker had not read is lost; that it reads it first is another order of  *)
(* steps.  A failed write closes the connection and comes to the same.      *)
Restart(w) ==
    /\ Fault
    /\ batch[w] # {} \/ Blocked(w)
    /\ Forget(w) /\ Finish(w)
    /\ toBroker' = [toBroker EXCEPT ![w] = <<>>]
    /\ fromBroker' = [fromBroker EXCEPT ![w] = <<>>]
    /\ returns' = [returns EXCEPT ![w] = 0]
    /\ UNCHANGED <<outbox, createdAt, queue, routable>>

(* The goroutine of the outbox worker. *)
WorkerStep(w) ==
    \/ /\ FindUnprocessed(w) \/ \E r \in Rows : MarkAsProcessed(w, r)
       /\ UNCHANGED <<routable, publishVars>>
    \/ \E r \in Rows : Send(w, r)
    \/ PublishReturns(w)
    \/ GiveUp(w)

PublisherNext ==
    \/ \E r \in Rows : Commit(r) /\ UNCHANGED publishVars
    \/ \E c \in Copies : Bind(c) /\ UNCHANGED publishVars
    \/ \E w \in Workers :
          WorkerStep(w) \/ BrokerHandles(w) \/ ReadFrame(w) \/ Restart(w)

PublisherSpec == PublisherInit /\ [][PublisherNext]_publisherVars

(* The worker's ticker fires and its calls return or reach their deadline,  *)
(* the broker reads its connections, the library's reader runs, and the     *)
(* consumers are started.                                                   *)
FairPublisherSpec ==
    /\ PublisherSpec
    /\ \A c \in Copies : WF_publisherVars(Bind(c) /\ UNCHANGED publishVars)
    /\ \A w \in Workers :
          /\ WF_publisherVars(WorkerStep(w))
          /\ WF_publisherVars(BrokerHandles(w))
          /\ WF_publisherVars(ReadFrame(w))

-----------------------------------------------------------------------------
(* Types of the publishers' state; the last message on a connection is the  *)
(* only one a publish can be waiting for, so a confirm cannot be taken for  *)
(* that of another publish.                                                 *)
PublisherTypeOK ==
    /\ TypeOK
    /\ publishing \in [Workers -> {{}} \cup {{r} : r \in Rows}]
    /\ verdict \in [Workers -> {"none", "ack", "nack"}]
    /\ toBroker \in [Workers -> Seq(Publishes)]
    /\ fromBroker \in [Workers -> Seq(Frames)]
    /\ returns \in [Workers -> 0..1]
    /\ \A w \in Workers :
          /\ \A i \in DOMAIN toBroker[w] :
                toBroker[w][i].live => i = Len(toBroker[w]) /\ publishing[w] # {}
          /\ verdict[w] # "none" => publishing[w] # {}

(* Duplicates have a cause: beyond one copy per running worker, every extra *)
(* copy of a row was paid for by a fault (a lost confirm, a failed          *)
(* MarkAsProcessed, a crash between the two, a stale return that makes a    *)
(* routed publish look unroutable).  A fault pays for more than one copy    *)
(* only when its stale return blocks the reader: publishes then go on until *)
(* their confirms fill the connection behind the return that is stuck.      *)
DuplicatesPaidByFaults ==
    \A c \in Copies :
        queue[c] <= Cardinality(Workers) + (WireSize - 1) * (MaxFaults - faults)
=============================================================================

-------------------------- MODULE PublisherProofs --------------------------
(***************************************************************************)
(* The outbox's promise: a row is marked only after its message is in a    *)
(* queue, for any number of rows, workers, queues and faults; first with a *)
(* publish as one step, then with every frame on the wire, where the       *)
(* publisher may take the return of one publish for that of another and    *)
(* may be told of a confirm at any time, for any buffers.                  *)
(***************************************************************************)
EXTENDS Publisher, SequenceTheorems, FiniteSetTheorems, TLAPS

-----------------------------------------------------------------------------
(* The relay with a publish as one step, as the services' modules take it.  *)

Queued(r) == \E c \in copiesOf[r] : queue[c] > 0

(* The worker's memory is as good as the table: a row it is about to mark   *)
(* is queued.                                                               *)
RelayInv ==
    /\ TypeOK
    /\ \A w \in Workers : \A r \in confirmed[w] : Queued(r)
    /\ ProcessedIsQueued

LEMMA InitRelay == Init => RelayInv
  BY RelayAssumption DEF Init, RelayInit, RelayInv, TypeOK, RowStates, ProcessedIsQueued

LEMMA RelayTypeStep == TypeOK /\ [Next]_<<relayVars, returns>> => TypeOK'
<1> SUFFICES ASSUME TypeOK, [Next]_<<relayVars, returns>> PROVE TypeOK'
  OBVIOUS
<1> USE RelayAssumption DEF TypeOK, RowStates
<1>1. ASSUME NEW r \in Rows, Commit(r) PROVE TypeOK'
  BY <1>1 DEF Commit, Insert
<1>2. ASSUME NEW c \in Copies, Bind(c) PROVE TypeOK'
  BY <1>2 DEF Bind
<1>3. ASSUME NEW w \in Workers, FindUnprocessed(w), UNCHANGED routable PROVE TypeOK'
  BY <1>3 DEF FindUnprocessed, Unprocessed
<1>4. ASSUME NEW w \in Workers, NEW r \in Rows, Publish(w, r), UNCHANGED routable
      PROVE  TypeOK'
  <2>1. queue' \in [Copies -> Nat]
    BY <1>4 DEF Publish, PublishConfirmed, PublishError, PublishReturned, PublishMistaken,
                PublishStalled, PublishFailed, Accept
  <2> QED BY <1>4, <2>1
          DEF Publish, PublishConfirmed, PublishError, PublishReturned, PublishMistaken,
              PublishStalled, PublishFailed, Fault
<1>5. ASSUME NEW w \in Workers, NEW r \in Rows, MarkAsProcessed(w, r), UNCHANGED routable
      PROVE  TypeOK'
  BY <1>5 DEF MarkAsProcessed, Fault
<1>6. ASSUME NEW w \in Workers, Crash(w) PROVE TypeOK'
  BY <1>6 DEF Crash, Forget, Fault
<1>7. CASE UNCHANGED relayVars
  BY <1>7 DEF relayVars
<1> QED BY <1>1, <1>2, <1>3, <1>4, <1>5, <1>6, <1>7 DEF Next, Work, Poll

(* Nothing leaves a queue in this specification, so a queued row stays so. *)
LEMMA StaysQueued ==
  ASSUME TypeOK, [Next]_<<relayVars, returns>>, NEW r \in Rows, Queued(r)
  PROVE  Queued(r)'
<1>1. \A c \in Copies : queue'[c] >= queue[c]
  BY DEF TypeOK, Next, Commit, Bind, Work, Poll, FindUnprocessed, Publish, PublishConfirmed,
         PublishError, PublishReturned, PublishMistaken, PublishStalled, PublishFailed,
         Accept, MarkAsProcessed, Crash, relayVars
<1>2. \A c \in Copies : queue[c] \in Nat /\ queue'[c] \in Nat
  BY RelayTypeStep DEF TypeOK
<1> QED BY <1>1, <1>2, RelayAssumption DEF Queued

LEMMA RelayStep == RelayInv /\ [Next]_<<relayVars, returns>> => RelayInv'
<1> SUFFICES ASSUME RelayInv, [Next]_<<relayVars, returns>> PROVE RelayInv'
  OBVIOUS
<1> USE DEF RelayInv
<1>t. TypeOK'
  BY RelayTypeStep
<1>k. \A r \in Rows : Queued(r) => Queued(r)'
  BY StaysQueued
<1>c. \A w \in Workers : confirmed[w] \subseteq Rows
  BY DEF TypeOK
<1> DEFINE Good == /\ \A w \in Workers : \A r \in confirmed'[w] : Queued(r)'
                   /\ \A r \in Rows : outbox'[r] = "processed" => Queued(r)'
<1>p. \A r \in Rows : outbox[r] = "processed" => Queued(r)
  BY DEF ProcessedIsQueued, Queued
<1>1. ASSUME NEW r \in Rows, Commit(r) PROVE Good
  BY <1>1, <1>c, <1>k, <1>p DEF Commit, Insert, TypeOK
<1>2. ASSUME NEW w \in Workers, NEW r \in Rows, Publish(w, r) PROVE Good
  <2>1. CASE PublishConfirmed(w, r)
    <3>1. PICK c \in Routes(r) : TRUE
      BY <2>1 DEF PublishConfirmed
    <3>2. c \in copiesOf[r] /\ c \in Copies
      BY <3>1, RelayAssumption DEF Routes
    <3>3. queue'[c] = queue[c] + 1 /\ queue[c] \in Nat
      BY <2>1, <3>1, <3>2 DEF PublishConfirmed, Accept, TypeOK
    <3>4. Queued(r)'
      BY <3>2, <3>3 DEF Queued
    <3> QED BY <1>2, <1>c, <1>k, <1>p, <2>1, <3>4 DEF Publish, PublishConfirmed, TypeOK
  <2>2. CASE UNCHANGED confirmed
    BY <1>2, <1>c, <1>k, <1>p, <2>2 DEF Publish
  <2> QED BY <1>2, <2>1, <2>2 DEF Publish, PublishError
<1>3. ASSUME NEW w \in Workers, NEW r \in Rows, MarkAsProcessed(w, r) PROVE Good
  <2>1. Queued(r)'
    BY <1>3, <1>k DEF MarkAsProcessed
  <2>2. \A s \in Rows : outbox'[s] = "processed" => s = r \/ outbox[s] = "processed"
    BY <1>3 DEF MarkAsProcessed, TypeOK
  <2>3. \A v \in Workers : confirmed'[v] \subseteq confirmed[v]
    BY <1>3 DEF MarkAsProcessed, TypeOK
  <2> QED BY <1>c, <1>k, <1>p, <2>1, <2>2, <2>3
<1>4. ASSUME NEW w \in Workers, Crash(w) PROVE Good
  <2>1. \A v \in Workers : confirmed'[v] \subseteq confirmed[v]
    BY <1>4 DEF Crash, Forget, TypeOK
  <2> QED BY <1>4, <1>c, <1>k, <1>p, <2>1 DEF Crash
<1>5. ASSUME UNCHANGED <<outbox, confirmed>> PROVE Good
  BY <1>5, <1>c, <1>k, <1>p
<1>6. Good
  BY <1>1, <1>2, <1>3, <1>4, <1>5
  DEF Next, Bind, Work, Poll, FindUnprocessed, relayVars
<1> QED BY <1>t, <1>6 DEF ProcessedIsQueued, Queued

(* The outbox pattern's promise (outbox_worker.go, rabbitmq_publisher.go):   *)
(* processed_at is set only for rows the broker stored, whatever fails.      *)
THEOREM OutboxSound == Spec => []ProcessedIsQueued
<1>1. RelayInv => ProcessedIsQueued
  BY DEF RelayInv
<1> QED BY <1>1, InitRelay, RelayStep, PTL DEF Spec

-----------------------------------------------------------------------------
(* The relay with its frames on the wire. *)

(* The publish of w is answered for: its row is queued, or a return is in   *)
(* the buffer and Confirmed will not take the confirm for a success.        *)
Backed(w) == (\A r \in publishing[w] : Queued(r)) \/ returns[w] = 1

Dead(s) == \A i \in DOMAIN s : ~s[i].live

(* Where the publish that w waits for is: the last message to the broker... *)
Outgoing(w) ==
    \A i \in DOMAIN toBroker[w] : toBroker[w][i].live =>
        /\ i = Len(toBroker[w]) /\ publishing[w] = {toBroker[w][i].row}
        /\ verdict[w] = "none" /\ Dead(fromBroker[w])

(* ... the last frames from it, the return before the confirm ...           *)
Incoming(w) ==
    \A i \in DOMAIN fromBroker[w] : fromBroker[w][i].live =>
        /\ toBroker[w] = <<>> /\ publishing[w] # {} /\ verdict[w] = "none"
        /\ fromBroker[w][i].kind # "return" => i = Len(fromBroker[w])
        /\ fromBroker[w][i].kind = "ack" =>
              \/ Backed(w)
              \/ \E j \in 1..(i - 1) : fromBroker[w][j].kind = "return"

(* ... or it is over.                                                       *)
Judged(w) ==
    /\ verdict[w] # "none" =>
          publishing[w] # {} /\ Dead(toBroker[w]) /\ Dead(fromBroker[w])
    /\ verdict[w] = "ack" => Backed(w)

(* Publish is called with one row, or is not running. *)
OneRow == {{}} \cup {{r} : r \in Rows}

WireTypeOK ==
    /\ TypeOK
    /\ publishing \in [Workers -> OneRow]
    /\ verdict \in [Workers -> {"none", "ack", "nack"}]
    /\ toBroker \in [Workers -> Seq(Publishes)]
    /\ fromBroker \in [Workers -> Seq(Frames)]
    /\ returns \in [Workers -> 0..1]

Tracked(w) == Outgoing(w) /\ Incoming(w) /\ Judged(w)

PublisherInv ==
    /\ WireTypeOK
    /\ \A w \in Workers : Tracked(w)
    /\ \A w \in Workers : \A r \in confirmed[w] : Queued(r)
    /\ ProcessedIsQueued

LEMMA OneRowFacts ==
  /\ {} \in OneRow
  /\ \A r \in Rows : {r} \in OneRow
  /\ \A s \in OneRow : s \subseteq Rows
  BY DEF OneRow

LEMMA InitWire == PublisherInit => PublisherInv
<1> SUFFICES ASSUME PublisherInit PROVE PublisherInv
  OBVIOUS
<1>1. RelayInv
  BY InitRelay DEF PublisherInit
<1>2. WireTypeOK
  BY <1>1, EmptySeq, OneRowFacts DEF RelayInv, WireTypeOK, PublisherInit, Init, RelayInit
<1>3. ASSUME NEW w \in Workers PROVE Tracked(w)
  BY <1>3 DEF PublisherInit, Tracked, Outgoing, Incoming, Judged, Dead
<1> QED BY <1>1, <1>2, <1>3 DEF RelayInv, PublisherInv

-----------------------------------------------------------------------------
(* Types. *)

LEMMA AnswerFrames ==
  ASSUME NEW m \in Publishes
  PROVE  /\ Answer(m) \in Seq(Frames)
         /\ Routes(m.row) = {} =>
               Answer(m) = <<[kind |-> "return", live |-> m.live],
                             [kind |-> "ack", live |-> m.live]>>
         /\ Routes(m.row) # {} => Answer(m) = <<[kind |-> "ack", live |-> m.live]>>
<1>1. /\ [kind |-> "return", live |-> m.live] \in Frames
      /\ [kind |-> "ack", live |-> m.live] \in Frames
  BY DEF Publishes, Frames
<1> QED BY <1>1 DEF Answer

(* What Abandon makes of a sequence of records. *)
LEMMA AbandonSeq ==
  ASSUME NEW S, NEW s \in Seq(S), \A x \in S : [x EXCEPT !.live = FALSE] \in S,
         \A x \in S : [x EXCEPT !.live = FALSE].live = FALSE
  PROVE  Abandon(s) \in Seq(S) /\ Dead(Abandon(s))
<1>1. DOMAIN s = 1..Len(s) /\ Len(s) \in Nat
  BY LenProperties
<1>2. \A i \in 1..Len(s) : s[i] \in S
  BY ElementOfSeq
<1>3. \A i \in 1..Len(s) : [s[i] EXCEPT !.live = FALSE] \in S
  BY <1>2
<1>4. [i \in 1..Len(s) |-> [s[i] EXCEPT !.live = FALSE]] \in Seq(S)
  BY <1>1, <1>3, IsASeq
<1>5. Abandon(s) \in Seq(S)
  BY <1>1, <1>4 DEF Abandon
<1>6. ASSUME NEW i \in DOMAIN Abandon(s) PROVE ~Abandon(s)[i].live
  <2>1. i \in 1..Len(s) /\ Abandon(s)[i] = [s[i] EXCEPT !.live = FALSE]
    BY <1>1, <1>6 DEF Abandon
  <2> QED BY <1>2, <2>1
<1> QED BY <1>5, <1>6 DEF Dead

LEMMA AbandonFrames ==
  ASSUME NEW s \in Seq(Frames)
  PROVE  Abandon(s) \in Seq(Frames) /\ Dead(Abandon(s))
<1>1. \A x \in Frames : /\ [x EXCEPT !.live = FALSE] \in Frames
                        /\ [x EXCEPT !.live = FALSE].live = FALSE
  BY DEF Frames
<1> QED BY <1>1, AbandonSeq

LEMMA AbandonPublishes ==
  ASSUME NEW s \in Seq(Publishes)
  PROVE  Abandon(s) \in Seq(Publishes) /\ Dead(Abandon(s))
<1>1. \A x \in Publishes : /\ [x EXCEPT !.live = FALSE] \in Publishes
                           /\ [x EXCEPT !.live = FALSE].live = FALSE
  BY DEF Publishes
<1> QED BY <1>1, AbandonSeq

LEMMA WireTypeStep ==
  ASSUME WireTypeOK, [PublisherNext]_publisherVars
  PROVE  WireTypeOK'
<1> USE RelayAssumption, OneRowFacts
<1> USE DEF WireTypeOK
<1>1. ASSUME NEW r \in Rows, Commit(r), UNCHANGED publishVars PROVE WireTypeOK'
  BY <1>1 DEF Commit, Insert, TypeOK, RowStates, publishVars
<1>2. ASSUME NEW c \in Copies, Bind(c), UNCHANGED publishVars PROVE WireTypeOK'
  BY <1>2 DEF Bind, TypeOK, publishVars
<1>3. ASSUME NEW w \in Workers, FindUnprocessed(w), UNCHANGED <<routable, publishVars>>
      PROVE  WireTypeOK'
  BY <1>3 DEF FindUnprocessed, Unprocessed, TypeOK, publishVars
<1>4. ASSUME NEW w \in Workers, NEW r \in Rows, MarkAsProcessed(w, r),
             UNCHANGED <<routable, publishVars>>
      PROVE  WireTypeOK'
  <2>1. TypeOK'
    <3>1. outbox' = outbox \/ outbox' = [outbox EXCEPT ![r] = "processed"]
      BY <1>4 DEF MarkAsProcessed
    <3>2. outbox' \in [Rows -> RowStates]
      BY <3>1 DEF TypeOK, RowStates
    <3>3. faults' = faults \/ (faults > 0 /\ faults' = faults - 1)
      BY <1>4 DEF MarkAsProcessed, Fault
    <3>4. faults' \in Nat
      BY <3>3 DEF TypeOK
    <3> QED BY <1>4, <3>2, <3>4 DEF MarkAsProcessed, TypeOK
  <2> QED BY <1>4, <2>1 DEF publishVars
<1>5. ASSUME NEW w \in Workers, NEW r \in Rows, Send(w, r) PROVE WireTypeOK'
  <2>1. [row |-> r, live |-> TRUE] \in Publishes
    BY DEF Publishes
  <2>2. Append(toBroker[w], [row |-> r, live |-> TRUE]) \in Seq(Publishes)
    BY <2>1, AppendProperties
  <2>3. toBroker' \in [Workers -> Seq(Publishes)]
    BY <1>5, <2>2 DEF Send
  <2> QED BY <1>5, <2>3 DEF Send, TypeOK, relayVars
<1>6. ASSUME NEW w \in Workers, PublishReturns(w) PROVE WireTypeOK'
  <2>1. /\ batch' \in [Workers -> SUBSET Rows]
        /\ confirmed' \in [Workers -> SUBSET Rows]
    <3>1. Fail(w) \/ Succeed(w)
      BY <1>6 DEF PublishReturns, Confirmed, Nacked
    <3>2. CASE Fail(w)
      BY <3>2 DEF Fail, TypeOK
    <3>3. CASE Succeed(w)
      <4>1. publishing[w] \in SUBSET Rows
        BY DEF OneRow
      <4> QED BY <3>3, <4>1 DEF Succeed, TypeOK
    <3> QED BY <3>1, <3>2, <3>3
  <2>2. TypeOK'
    BY <1>6, <2>1 DEF PublishReturns, TypeOK
  <2>3. Finish(w) /\ (returns' = returns \/ returns' = [returns EXCEPT ![w] = 0])
    BY <1>6 DEF PublishReturns, Confirmed, Nacked, Fail, Succeed
  <2>4. returns' \in [Workers -> 0..1]
    <3>1. [returns EXCEPT ![w] = 0] \in [Workers -> 0..1]
      OBVIOUS
    <3> QED BY <2>3, <3>1
  <2>5. /\ publishing' \in [Workers -> OneRow]
        /\ verdict' \in [Workers -> {"none", "ack", "nack"}]
    BY <2>3 DEF Finish
  <2> QED BY <1>6, <2>2, <2>4, <2>5 DEF PublishReturns
<1>7. ASSUME NEW w \in Workers, GiveUp(w) PROVE WireTypeOK'
  <2>1. Abandon(toBroker[w]) \in Seq(Publishes) /\ Abandon(fromBroker[w]) \in Seq(Frames)
    BY AbandonPublishes, AbandonFrames
  <2>2. /\ toBroker' \in [Workers -> Seq(Publishes)]
        /\ fromBroker' \in [Workers -> Seq(Frames)]
    BY <1>7, <2>1 DEF GiveUp
  <2>3. TypeOK'
    BY <1>7 DEF GiveUp, Fail, Fault, TypeOK
  <2>4. /\ publishing' \in [Workers -> OneRow]
        /\ verdict' \in [Workers -> {"none", "ack", "nack"}]
    BY <1>7 DEF GiveUp, Fail, Finish
  <2> QED BY <1>7, <2>2, <2>3, <2>4 DEF GiveUp
<1>8. ASSUME NEW w \in Workers, BrokerHandles(w) PROVE WireTypeOK'
  <2> DEFINE m == Head(toBroker[w])
             nack == [kind |-> "nack", live |-> m.live]
  <2>1. m \in Publishes /\ Tail(toBroker[w]) \in Seq(Publishes)
    BY <1>8, HeadTailProperties DEF BrokerHandles
  <2>2. Answer(m) \in Seq(Frames) /\ <<nack>> \in Seq(Frames)
    <3>1. nack \in Frames
      BY <2>1 DEF Publishes, Frames
    <3>2. <<nack>> \in Seq(Frames)
      BY <3>1
    <3> QED BY <2>1, <3>2, AnswerFrames
  <2>3. ASSUME NEW frames \in Seq(Frames), Reply(w, frames)
        PROVE  /\ toBroker' \in [Workers -> Seq(Publishes)]
               /\ fromBroker' \in [Workers -> Seq(Frames)]
    <3>1. fromBroker[w] \o frames \in Seq(Frames)
      BY <2>3, ConcatProperties
    <3> QED BY <2>1, <2>3, <3>1 DEF Reply
  <2>4. /\ toBroker' \in [Workers -> Seq(Publishes)]
        /\ fromBroker' \in [Workers -> Seq(Frames)]
    BY <1>8, <2>2, <2>3 DEF BrokerHandles
  <2>5. queue' \in [Copies -> Nat] /\ faults' \in Nat
    <3>1. CASE Accept(m.row) /\ UNCHANGED faults
      BY <3>1 DEF Accept, TypeOK
    <3>2. CASE Fault /\ UNCHANGED queue
      BY <3>2 DEF Fault, TypeOK
    <3> QED BY <1>8, <3>1, <3>2 DEF BrokerHandles
  <2> QED BY <1>8, <2>4, <2>5 DEF BrokerHandles, TypeOK
<1>9. ASSUME NEW w \in Workers, ReadFrame(w) PROVE WireTypeOK'
  <2>1. Head(fromBroker[w]) \in Frames /\ Tail(fromBroker[w]) \in Seq(Frames)
    BY <1>9, HeadTailProperties DEF ReadFrame
  <2>2. fromBroker' \in [Workers -> Seq(Frames)]
    BY <1>9, <2>1 DEF ReadFrame
  <2>3. Head(fromBroker[w]).kind \in {"return", "ack", "nack"}
    BY <2>1 DEF Frames
  <2>4. verdict' \in [Workers -> {"none", "ack", "nack"}] /\ returns' \in [Workers -> 0..1]
    <3>1. CASE Head(fromBroker[w]).kind = "return"
      <4>1. returns' = [returns EXCEPT ![w] = 1] /\ verdict' = verdict
        BY <1>9, <3>1 DEF ReadFrame
      <4> QED BY <4>1
    <3>2. CASE Head(fromBroker[w]).kind # "return"
      <4>1. verdict' = [verdict EXCEPT ![w] =
               IF Head(fromBroker[w]).live THEN Head(fromBroker[w]).kind ELSE verdict[w]]
        BY <1>9, <3>2 DEF ReadFrame
      <4>2. returns' = returns
        BY <1>9, <3>2 DEF ReadFrame
      <4> QED BY <2>3, <3>2, <4>1, <4>2
    <3> QED BY <3>1, <3>2
  <2> QED BY <1>9, <2>2, <2>4 DEF ReadFrame, relayVars, TypeOK
<1>10. ASSUME NEW w \in Workers, Restart(w) PROVE WireTypeOK'
  <2>1. /\ toBroker' \in [Workers -> Seq(Publishes)]
        /\ fromBroker' \in [Workers -> Seq(Frames)]
    BY <1>10, EmptySeq DEF Restart
  <2>2. TypeOK'
    BY <1>10 DEF Restart, Forget, Fault, TypeOK
  <2>3. /\ publishing' \in [Workers -> OneRow]
        /\ verdict' \in [Workers -> {"none", "ack", "nack"}]
        /\ returns' \in [Workers -> 0..1]
    BY <1>10 DEF Restart, Finish
  <2> QED BY <2>1, <2>2, <2>3
<1>11. CASE UNCHANGED publisherVars
  BY <1>11 DEF publisherVars, relayVars, publishVars, TypeOK
<1> QED BY <1>1, <1>2, <1>3, <1>4, <1>5, <1>6, <1>7, <1>8, <1>9, <1>10, <1>11
        DEF PublisherNext, WorkerStep

-----------------------------------------------------------------------------
(* Nothing leaves a queue: a queued row stays so. *)
LEMMA QueuedStays ==
  ASSUME WireTypeOK, [PublisherNext]_publisherVars, NEW r \in Rows, Queued(r)
  PROVE  Queued(r)'
<1>1. \A c \in Copies : queue[c] \in Nat
  BY DEF WireTypeOK, TypeOK
<1>2. ASSUME NEW w \in Workers, BrokerHandles(w), NEW c \in Copies
      PROVE  queue'[c] >= queue[c]
  BY <1>1, <1>2 DEF BrokerHandles, Accept
<1>3. UNCHANGED queue \/ \E w \in Workers : BrokerHandles(w)
  BY DEF PublisherNext, WorkerStep, Commit, Bind, FindUnprocessed, MarkAsProcessed, Send,
     PublishReturns, GiveUp, ReadFrame, Restart, publisherVars, relayVars
<1>5. \A c \in Copies : queue'[c] >= queue[c]
  BY <1>1, <1>2, <1>3
<1>4. \A c \in Copies : queue'[c] \in Nat
  BY WireTypeStep DEF WireTypeOK, TypeOK
<1> QED BY <1>1, <1>4, <1>5, RelayAssumption DEF Queued

(* A publisher whose own state does not change. *)
LEMMA Bystander ==
  ASSUME PublisherInv, [PublisherNext]_publisherVars, NEW v \in Workers,
         publishing'[v] = publishing[v], verdict'[v] = verdict[v],
         toBroker'[v] = toBroker[v], fromBroker'[v] = fromBroker[v],
         returns'[v] = returns[v]
  PROVE  Tracked(v)'
<1>1. Backed(v) => Backed(v)'
  <2>1. publishing[v] \subseteq Rows
    BY OneRowFacts DEF PublisherInv, WireTypeOK
  <2>2. \A r \in publishing[v] : Queued(r) => Queued(r)'
    BY <2>1, QueuedStays DEF PublisherInv
  <2> QED BY <2>2 DEF Backed
<1>2. Outgoing(v) /\ Incoming(v) /\ Judged(v)
  BY DEF PublisherInv, Tracked
<1>3. Outgoing(v)'
  BY <1>2 DEF Outgoing, Dead
<1>4. Incoming(v)'
  BY <1>1, <1>2 DEF Incoming
<1>5. Judged(v)'
  BY <1>1, <1>2 DEF Judged, Dead
<1> QED BY <1>3, <1>4, <1>5 DEF Tracked

LEMMA SendTracks ==
  ASSUME PublisherInv, NEW w \in Workers, NEW r \in Rows, Send(w, r)
  PROVE  Tracked(w)'
<1> DEFINE x == [row |-> r, live |-> TRUE]
<1>1. /\ publishing[w] = {} /\ publishing'[w] = {r}
      /\ toBroker'[w] = Append(toBroker[w], x)
      /\ verdict'[w] = verdict[w] /\ fromBroker'[w] = fromBroker[w]
  BY DEF Send, PublisherInv, WireTypeOK
<1>2. Tracked(w) /\ toBroker[w] \in Seq(Publishes)
  BY DEF PublisherInv, WireTypeOK
<1>3. verdict[w] = "none" /\ Dead(toBroker[w]) /\ Dead(fromBroker[w])
  BY <1>1, <1>2 DEF Tracked, Outgoing, Incoming, Judged, Dead
<1>4. Outgoing(w)'
  <2> SUFFICES ASSUME NEW i \in DOMAIN toBroker'[w], toBroker'[w][i].live
               PROVE  /\ i = Len(toBroker'[w])
                      /\ publishing'[w] = {toBroker'[w][i].row}
                      /\ verdict'[w] = "none" /\ Dead(fromBroker'[w])
    BY DEF Outgoing, Dead
  <2>1. /\ Len(toBroker'[w]) = Len(toBroker[w]) + 1 /\ Len(toBroker[w]) \in Nat
        /\ DOMAIN toBroker'[w] = 1..(Len(toBroker[w]) + 1)
        /\ DOMAIN toBroker[w] = 1..Len(toBroker[w])
        /\ \A j \in 1..Len(toBroker[w]) : toBroker'[w][j] = toBroker[w][j]
        /\ toBroker'[w][Len(toBroker[w]) + 1] = x
    BY <1>1, <1>2, AppendProperties, LenProperties
  <2>2. i = Len(toBroker[w]) + 1
    BY <1>3, <2>1 DEF Dead
  <2> QED BY <1>1, <1>3, <2>1, <2>2
<1>5. Incoming(w)' /\ Judged(w)'
  BY <1>1, <1>3 DEF Incoming, Judged, Dead
<1> QED BY <1>4, <1>5 DEF Tracked

LEMMA FinishTracks ==
  ASSUME PublisherInv, NEW w \in Workers, Finish(w),
         Dead(toBroker'[w]), Dead(fromBroker'[w])
  PROVE  Tracked(w)'
<1>1. publishing'[w] = {} /\ verdict'[w] = "none"
  BY DEF Finish, PublisherInv, WireTypeOK
<1> QED BY <1>1 DEF Tracked, Outgoing, Incoming, Judged, Dead

LEMMA ReadTracks ==
  ASSUME PublisherInv, NEW w \in Workers, ReadFrame(w)
  PROVE  Tracked(w)'
<1> DEFINE s == fromBroker[w]
           f == Head(s)
<1>1. /\ publishing'[w] = publishing[w] /\ toBroker'[w] = toBroker[w] /\ queue' = queue
  BY DEF ReadFrame, relayVars
<1>t. fromBroker'[w] = Tail(s) /\ s # <<>> /\ s \in Seq(Frames)
  BY DEF ReadFrame, PublisherInv, WireTypeOK
<1>2. /\ Len(s) \in Nat \ {0} /\ DOMAIN s = 1..Len(s) /\ f = s[1]
      /\ Len(fromBroker'[w]) = Len(s) - 1 /\ DOMAIN fromBroker'[w] = 1..(Len(s) - 1)
      /\ \A i \in 1..(Len(s) - 1) : fromBroker'[w][i] = s[i + 1]
  <2>1. Tail(s) \in Seq(Frames)
    BY <1>t, HeadTailProperties
  <2>2. Len(Tail(s)) = Len(s) - 1 /\ f = s[1]
    BY <1>t, HeadTailProperties
  <2>3. Len(s) \in Nat /\ Len(s) # 0 /\ DOMAIN s = 1..Len(s) /\ DOMAIN Tail(s) = 1..Len(Tail(s))
    BY <1>t, <2>1, LenProperties, EmptySeq
  <2>4. \A i \in 1..(Len(s) - 1) : Tail(s)[i] = s[i + 1]
    BY <1>t, <2>2, <2>3, HeadTailProperties
  <2> QED BY <1>t, <2>2, <2>3, <2>4
<1>3. Outgoing(w) /\ Incoming(w) /\ Judged(w)
  BY DEF PublisherInv, Tracked
<1>q. \A r : Queued(r)' <=> Queued(r)
  BY <1>1 DEF Queued
<1>b. returns'[w] = returns[w] => (Backed(w)' <=> Backed(w))
  BY <1>1, <1>q DEF Backed
<1>d. Dead(s) => Dead(fromBroker'[w])
  <2> SUFFICES ASSUME Dead(s), NEW i \in 1..(Len(s) - 1) PROVE ~fromBroker'[w][i].live
    BY <1>2 DEF Dead
  <2>1. i + 1 \in DOMAIN s /\ fromBroker'[w][i] = s[i + 1]
    BY <1>2
  <2> QED BY <2>1 DEF Dead
<1>i. ASSUME verdict'[w] = verdict[w], NEW i \in 1..(Len(s) - 1), s[i + 1].live
      PROVE  /\ toBroker'[w] = <<>> /\ publishing'[w] # {} /\ verdict'[w] = "none"
             /\ s[i + 1].kind # "return" => i = Len(s) - 1
             /\ s[i + 1].kind = "ack" =>
                   Backed(w) \/ \E j \in 1..i : s[j].kind = "return"
  <2>1. i + 1 \in 1..Len(s) /\ (i + 1) - 1 = i
    BY <1>2
  <2> QED BY <1>1, <1>2, <1>3, <1>i, <2>1 DEF Incoming
<1>4. CASE f.kind = "return"
  <2>1. returns'[w] = 1 /\ verdict'[w] = verdict[w]
    BY <1>4 DEF ReadFrame, PublisherInv, WireTypeOK
  <2>2. Backed(w)'
    BY <2>1 DEF Backed
  <2>3. Outgoing(w)'
    BY <1>1, <1>3, <1>d, <2>1 DEF Outgoing, Dead
  <2>4. Incoming(w)'
    BY <1>2, <1>i, <2>1, <2>2 DEF Incoming
  <2>5. Judged(w)'
    BY <1>1, <1>3, <1>d, <2>1, <2>2 DEF Judged, Dead
  <2> QED BY <2>3, <2>4, <2>5 DEF Tracked
<1>5. CASE f.kind # "return" /\ ~f.live
  <2>1. returns'[w] = returns[w] /\ verdict'[w] = verdict[w]
    BY <1>5 DEF ReadFrame, PublisherInv, WireTypeOK
  <2>3. Outgoing(w)'
    BY <1>1, <1>3, <1>d, <2>1 DEF Outgoing, Dead
  <2>4. Incoming(w)'
    <3> SUFFICES ASSUME NEW i \in DOMAIN fromBroker'[w], fromBroker'[w][i].live
                 PROVE  /\ toBroker'[w] = <<>> /\ publishing'[w] # {} /\ verdict'[w] = "none"
                        /\ fromBroker'[w][i].kind # "return" => i = Len(fromBroker'[w])
                        /\ fromBroker'[w][i].kind = "ack" =>
                              \/ Backed(w)'
                              \/ \E j \in 1..(i - 1) : fromBroker'[w][j].kind = "return"
      BY DEF Incoming
    <3>1. i \in 1..(Len(s) - 1) /\ fromBroker'[w][i] = s[i + 1]
      BY <1>2
    <3>2. ASSUME NEW j \in 1..i, s[j].kind = "return"
          PROVE  \E k \in 1..(i - 1) : fromBroker'[w][k].kind = "return"
      <4>1. j # 1
        BY <1>2, <1>5, <3>2
      <4>2. j - 1 \in 1..(i - 1) /\ j - 1 \in 1..(Len(s) - 1) /\ (j - 1) + 1 = j
        BY <1>2, <3>1, <4>1
      <4>3. fromBroker'[w][j - 1] = s[j]
        BY <1>2, <4>2
      <4> QED BY <3>2, <4>2, <4>3
    <3> QED BY <1>2, <1>b, <1>i, <2>1, <3>1, <3>2
  <2>5. Judged(w)'
    BY <1>1, <1>3, <1>b, <1>d, <2>1 DEF Judged, Dead
  <2> QED BY <2>3, <2>4, <2>5 DEF Tracked
<1>6. CASE f.kind # "return" /\ f.live
  <2>1. returns'[w] = returns[w] /\ verdict'[w] = f.kind
    BY <1>6 DEF ReadFrame, PublisherInv, WireTypeOK
  <2>2. /\ toBroker[w] = <<>> /\ publishing[w] # {} /\ Len(s) = 1
        /\ f.kind = "ack" => Backed(w)
    <3>1. 1 \in DOMAIN s /\ ~\E j \in 1..(1 - 1) : s[j].kind = "return"
      BY <1>2
    <3> QED BY <1>2, <1>3, <1>6, <3>1 DEF Incoming
  <2>3. Dead(toBroker'[w]) /\ Dead(fromBroker'[w])
    BY <1>1, <1>2, <2>2 DEF Dead
  <2> QED BY <1>1, <1>b, <2>1, <2>2, <2>3 DEF Tracked, Outgoing, Incoming, Judged, Dead
<1> QED BY <1>4, <1>5, <1>6

(* The broker answers the publish that w waits for: it was queued or the     *)
(* return goes ahead of the confirm.                                         *)
LEMMA AnswerTracks ==
  ASSUME PublisherInv, NEW w \in Workers, BrokerHandles(w),
         NEW frames \in Seq(Frames), Reply(w, frames),
         NEW q \in Rows, q = Head(toBroker[w]).row,
         \A k \in 1..Len(frames) : frames[k].live = Head(toBroker[w]).live,
         \A k \in 1..Len(frames) : frames[k].kind # "return" => k = Len(frames),
         \A k \in 1..Len(frames) : frames[k].kind = "ack" =>
            Queued(q)' \/ (k = 2 /\ frames[1].kind = "return"),
         \A r \in publishing[w] : Queued(r) => Queued(r)'
  PROVE  Tracked(w)'
<1> DEFINE t == toBroker[w]
           f == fromBroker[w]
           m == Head(t)
<1>1. /\ publishing'[w] = publishing[w] /\ verdict'[w] = verdict[w]
      /\ returns'[w] = returns[w] /\ t # <<>>
  BY DEF BrokerHandles
<1>2. toBroker'[w] = Tail(t) /\ fromBroker'[w] = f \o frames
  BY DEF Reply, PublisherInv, WireTypeOK
<1>3. t \in Seq(Publishes) /\ f \in Seq(Frames) /\ Outgoing(w) /\ Incoming(w) /\ Judged(w)
  BY DEF PublisherInv, WireTypeOK, Tracked
<1>4. /\ Len(t) \in Nat \ {0} /\ DOMAIN t = 1..Len(t) /\ m = t[1]
      /\ Len(toBroker'[w]) = Len(t) - 1 /\ DOMAIN toBroker'[w] = 1..(Len(t) - 1)
      /\ \A i \in 1..(Len(t) - 1) : toBroker'[w][i] = t[i + 1]
  <2>1. Tail(t) \in Seq(Publishes)
    BY <1>1, <1>3, HeadTailProperties
  <2>2. Len(Tail(t)) = Len(t) - 1 /\ m = t[1]
    BY <1>1, <1>3, HeadTailProperties
  <2>3. Len(t) \in Nat /\ Len(t) # 0 /\ DOMAIN t = 1..Len(t) /\ DOMAIN Tail(t) = 1..Len(Tail(t))
    BY <1>1, <1>3, <2>1, LenProperties, EmptySeq
  <2>4. \A i \in 1..(Len(t) - 1) : Tail(t)[i] = t[i + 1]
    BY <1>1, <1>3, <2>2, <2>3, HeadTailProperties
  <2> QED BY <1>2, <2>2, <2>3, <2>4
<1>5. /\ Len(f) \in Nat /\ Len(frames) \in Nat /\ DOMAIN f = 1..Len(f)
      /\ Len(fromBroker'[w]) = Len(f) + Len(frames)
      /\ DOMAIN fromBroker'[w] = 1..(Len(f) + Len(frames))
      /\ \A i \in 1..Len(f) : fromBroker'[w][i] = f[i]
      /\ \A k \in 1..Len(frames) : fromBroker'[w][Len(f) + k] = frames[k]
  <2>1. f \o frames \in Seq(Frames) /\ Len(f \o frames) = Len(f) + Len(frames)
    BY <1>3, ConcatProperties
  <2>2. /\ Len(f) \in Nat /\ Len(frames) \in Nat /\ DOMAIN f = 1..Len(f)
        /\ DOMAIN (f \o frames) = 1..(Len(f) + Len(frames))
    BY <1>3, <2>1, LenProperties
  <2>3. \A i \in 1..(Len(f) + Len(frames)) :
           (f \o frames)[i] = IF i <= Len(f) THEN f[i] ELSE frames[i - Len(f)]
    BY <1>3, ConcatProperties
  <2>4. \A i \in 1..Len(f) : (f \o frames)[i] = f[i]
    BY <2>2, <2>3
  <2>5. ASSUME NEW k \in 1..Len(frames) PROVE (f \o frames)[Len(f) + k] = frames[k]
    <3>1. Len(f) + k \in 1..(Len(f) + Len(frames)) /\ ~(Len(f) + k <= Len(f))
          /\ (Len(f) + k) - Len(f) = k
      BY <2>2
    <3> QED BY <2>3, <3>1
  <2> QED BY <1>2, <2>1, <2>2, <2>4, <2>5
<1>b. Backed(w) => Backed(w)'
  BY <1>1 DEF Backed
<1>d. Dead(f)
  BY <1>1, <1>3 DEF Incoming, Dead
<1>6. CASE m.live
  <2>1. Len(t) = 1 /\ publishing[w] = {m.row} /\ verdict[w] = "none"
    <3>1. 1 \in DOMAIN t /\ t[1].live
      BY <1>4, <1>6
    <3> QED BY <1>3, <1>4, <3>1 DEF Outgoing
  <2>2. toBroker'[w] = <<>>
    <3>1. Tail(t) \in Seq(Publishes) /\ Len(Tail(t)) = 0
      BY <1>1, <1>2, <1>3, <1>4, <2>1, HeadTailProperties
    <3> QED BY <1>2, <3>1, EmptySeq
  <2>3. Outgoing(w)' /\ Judged(w)'
    BY <1>1, <2>1, <2>2 DEF Outgoing, Judged
  <2>4. Incoming(w)'
    <3> SUFFICES ASSUME NEW i \in DOMAIN fromBroker'[w], fromBroker'[w][i].live
                 PROVE  /\ fromBroker'[w][i].kind # "return" => i = Len(fromBroker'[w])
                        /\ fromBroker'[w][i].kind = "ack" =>
                              \/ Backed(w)'
                              \/ \E j \in 1..(i - 1) : fromBroker'[w][j].kind = "return"
      BY <1>1, <2>1, <2>2 DEF Incoming
    <3>1. i \notin 1..Len(f)
      BY <1>5, <1>d DEF Dead
    <3>2. PICK k \in 1..Len(frames) : i = Len(f) + k
      <4>1. i - Len(f) \in 1..Len(frames) /\ i = Len(f) + (i - Len(f))
        BY <1>5, <3>1
      <4> QED BY <4>1
    <3>3. fromBroker'[w][i] = frames[k]
      BY <1>5, <3>2
    <3>4. frames[k].kind # "return" => i = Len(fromBroker'[w])
      BY <1>5, <3>2
    <3>5. ASSUME frames[k].kind = "ack"
          PROVE  Backed(w)' \/ \E j \in 1..(i - 1) : fromBroker'[w][j].kind = "return"
      <4>1. CASE Queued(q)'
        BY <1>1, <2>1, <4>1 DEF Backed
      <4>2. CASE k = 2 /\ frames[1].kind = "return"
        <5>1. Len(f) + 1 \in 1..(i - 1) /\ 1 \in 1..Len(frames)
          BY <1>5, <3>2, <4>2
        <5>2. fromBroker'[w][Len(f) + 1] = frames[1]
          BY <1>5, <5>1
        <5> QED BY <4>2, <5>1, <5>2
      <4> QED BY <3>5, <4>1, <4>2
    <3> QED BY <3>3, <3>4, <3>5
  <2> QED BY <2>3, <2>4 DEF Tracked
<1>7. CASE ~m.live
  <2>1. Dead(fromBroker'[w])
    <3> SUFFICES ASSUME NEW i \in DOMAIN fromBroker'[w] PROVE ~fromBroker'[w][i].live
      BY DEF Dead
    <3>1. CASE i \in 1..Len(f)
      BY <1>5, <1>d, <3>1 DEF Dead
    <3>2. CASE i \notin 1..Len(f)
      <4>1. i - Len(f) \in 1..Len(frames) /\ i = Len(f) + (i - Len(f))
        BY <1>5, <3>2
      <4>2. fromBroker'[w][i] = frames[i - Len(f)]
        BY <1>5, <4>1
      <4> QED BY <1>7, <4>1, <4>2
    <3> QED BY <3>1, <3>2
  <2>2. Incoming(w)'
    BY <2>1 DEF Incoming, Dead
  <2>3. ASSUME NEW i \in DOMAIN toBroker'[w], toBroker'[w][i].live
        PROVE  /\ i = Len(toBroker'[w]) /\ publishing[w] = {toBroker'[w][i].row}
               /\ verdict[w] = "none" /\ ~Dead(t)
    <3>1. i + 1 \in DOMAIN t /\ toBroker'[w][i] = t[i + 1]
      BY <1>4
    <3> QED BY <1>3, <1>4, <2>3, <3>1 DEF Outgoing, Dead
  <2>4. Outgoing(w)'
    BY <1>1, <2>1, <2>3 DEF Outgoing, Dead
  <2>5. Judged(w)'
    <3>1. Dead(t) => Dead(toBroker'[w])
      BY <2>3 DEF Dead
    <3> QED BY <1>1, <1>3, <1>b, <2>1, <3>1 DEF Judged, Dead
  <2> QED BY <2>2, <2>4, <2>5 DEF Tracked
<1> QED BY <1>6, <1>7

LEMMA BrokerTracks ==
  ASSUME PublisherInv, [PublisherNext]_publisherVars, NEW w \in Workers, BrokerHandles(w)
  PROVE  Tracked(w)'
<1> DEFINE m == Head(toBroker[w])
<1>1. m \in Publishes
  BY HeadTailProperties DEF BrokerHandles, PublisherInv, WireTypeOK
<1>2. PICK q \in Rows : q = m.row
  BY <1>1 DEF Publishes
<1>3. \A r \in publishing[w] : Queued(r) => Queued(r)'
  <2>1. publishing[w] \subseteq Rows
    BY OneRowFacts DEF PublisherInv, WireTypeOK
  <2> QED BY <2>1, QueuedStays DEF PublisherInv
<1>4. CASE Reply(w, Answer(m)) /\ Accept(q)
  <2>1. CASE Routes(q) = {}
    <3> DEFINE a == <<[kind |-> "return", live |-> m.live], [kind |-> "ack", live |-> m.live]>>
    <3>1. Answer(m) = a /\ a \in Seq(Frames)
      BY <1>1, <1>2, <2>1, AnswerFrames
    <3>2. /\ Len(a) = 2 /\ a[1].kind = "return" /\ a[2].kind = "ack"
          /\ a[1].live = m.live /\ a[2].live = m.live
      OBVIOUS
    <3>3. \A k \in 1..Len(a) : k = 1 \/ k = 2
      BY <3>2
    <3> HIDE DEF a
    <3> QED BY <1>2, <1>3, <1>4, <3>1, <3>2, <3>3, AnswerTracks
  <2>2. CASE Routes(q) # {}
    <3> DEFINE a == <<[kind |-> "ack", live |-> m.live]>>
    <3>1. Answer(m) = a /\ a \in Seq(Frames)
      BY <1>1, <1>2, <2>2, AnswerFrames
    <3>2. Len(a) = 1 /\ a[1].kind = "ack" /\ a[1].live = m.live
      OBVIOUS
    <3>3. \A k \in 1..Len(a) : k = 1
      BY <3>2
    <3>4. Queued(q)'
      <4>1. PICK c \in Routes(q) : TRUE
        BY <2>2
      <4>2. c \in copiesOf[q] /\ c \in Copies
        BY <4>1, RelayAssumption DEF Routes
      <4>3. queue'[c] = queue[c] + 1 /\ queue[c] \in Nat
        BY <1>4, <4>1, <4>2 DEF Accept, PublisherInv, WireTypeOK, TypeOK
      <4> QED BY <4>2, <4>3 DEF Queued
    <3> HIDE DEF a
    <3> QED BY <1>2, <1>3, <1>4, <3>1, <3>2, <3>3, <3>4, AnswerTracks
  <2> QED BY <2>1, <2>2
<1>5. CASE Reply(w, <<[kind |-> "nack", live |-> m.live]>>)
  <2> DEFINE a == <<[kind |-> "nack", live |-> m.live]>>
  <2>1. [kind |-> "nack", live |-> m.live] \in Frames
    BY <1>1 DEF Publishes, Frames
  <2>2. a \in Seq(Frames)
    BY <2>1
  <2>3. Len(a) = 1 /\ a[1].kind = "nack" /\ a[1].live = m.live
    OBVIOUS
  <2>4. \A k \in 1..Len(a) : k = 1
    BY <2>3
  <2>5. Reply(w, a)
    BY <1>5
  <2> HIDE DEF a
  <2> QED BY <1>2, <1>3, <2>2, <2>3, <2>4, <2>5, AnswerTracks
<1> QED BY <1>2, <1>4, <1>5 DEF BrokerHandles

LEMMA TrackedStep ==
  ASSUME PublisherInv, [PublisherNext]_publisherVars
  PROVE  \A v \in Workers : Tracked(v)'
<1> DEFINE Same(v) == /\ publishing'[v] = publishing[v] /\ verdict'[v] = verdict[v]
                      /\ toBroker'[v] = toBroker[v] /\ fromBroker'[v] = fromBroker[v]
                      /\ returns'[v] = returns[v]
<1>0. \A v \in Workers : Same(v) => Tracked(v)'
  BY Bystander
<1>t. WireTypeOK
  BY DEF PublisherInv
<1>1. ASSUME UNCHANGED publishVars PROVE \A v \in Workers : Same(v)
  BY <1>1 DEF publishVars
<1>2. ASSUME NEW w \in Workers, NEW r \in Rows, Send(w, r)
      PROVE  Tracked(w)' /\ \A v \in Workers \ {w} : Same(v)
  BY <1>2, <1>t, SendTracks DEF Send, WireTypeOK
<1>3. ASSUME NEW w \in Workers, PublishReturns(w)
      PROVE  Tracked(w)' /\ \A v \in Workers \ {w} : Same(v)
  <2>1. /\ Finish(w) /\ verdict[w] # "none" /\ UNCHANGED <<toBroker, fromBroker>>
        /\ returns' = returns \/ returns' = [returns EXCEPT ![w] = 0]
    BY <1>3 DEF PublishReturns, Confirmed, Nacked, Fail, Succeed
  <2>2. Dead(toBroker'[w]) /\ Dead(fromBroker'[w])
    BY <2>1 DEF PublisherInv, Tracked, Judged
  <2>3. Tracked(w)'
    BY <2>1, <2>2, FinishTracks
  <2>4. \A v \in Workers \ {w} : returns'[v] = returns[v]
    BY <1>t, <2>1 DEF WireTypeOK
  <2> QED BY <1>t, <2>1, <2>3, <2>4 DEF Finish, WireTypeOK
<1>4. ASSUME NEW w \in Workers, GiveUp(w)
      PROVE  Tracked(w)' /\ \A v \in Workers \ {w} : Same(v)
  <2>1. toBroker'[w] = Abandon(toBroker[w]) /\ fromBroker'[w] = Abandon(fromBroker[w])
    BY <1>4, <1>t DEF GiveUp, WireTypeOK
  <2>2. Dead(toBroker'[w]) /\ Dead(fromBroker'[w])
    BY <1>t, <2>1, AbandonPublishes, AbandonFrames DEF WireTypeOK
  <2>3. Finish(w)
    BY <1>4 DEF GiveUp, Fail
  <2>4. Tracked(w)'
    BY <2>2, <2>3, FinishTracks
  <2> QED BY <1>4, <1>t, <2>3, <2>4 DEF GiveUp, Finish, WireTypeOK
<1>5. ASSUME NEW w \in Workers, BrokerHandles(w)
      PROVE  Tracked(w)' /\ \A v \in Workers \ {w} : Same(v)
  BY <1>5, <1>t, BrokerTracks DEF BrokerHandles, Reply, WireTypeOK
<1>6. ASSUME NEW w \in Workers, ReadFrame(w)
      PROVE  Tracked(w)' /\ \A v \in Workers \ {w} : Same(v)
  <2>1. Tracked(w)'
    BY <1>6, ReadTracks
  <2>2. \A v \in Workers \ {w} : verdict'[v] = verdict[v] /\ returns'[v] = returns[v]
    BY <1>6, <1>t DEF ReadFrame, WireTypeOK
  <2> QED BY <1>6, <1>t, <2>1, <2>2 DEF ReadFrame, WireTypeOK
<1>7. ASSUME NEW w \in Workers, Restart(w)
      PROVE  Tracked(w)' /\ \A v \in Workers \ {w} : Same(v)
  <2>1. Finish(w) /\ toBroker'[w] = <<>> /\ fromBroker'[w] = <<>>
    BY <1>7, <1>t DEF Restart, WireTypeOK
  <2>2. Dead(toBroker'[w]) /\ Dead(fromBroker'[w])
    BY <2>1 DEF Dead
  <2>3. Tracked(w)'
    BY <2>1, <2>2, FinishTracks
  <2> QED BY <1>7, <1>t, <2>1, <2>3 DEF Restart, Finish, WireTypeOK
<1> HIDE DEF Same
<1>8. \/ UNCHANGED publishVars
      \/ \E w \in Workers :
            \/ \E r \in Rows : Send(w, r)
            \/ PublishReturns(w) \/ GiveUp(w) \/ BrokerHandles(w) \/ ReadFrame(w) \/ Restart(w)
  BY DEF PublisherNext, WorkerStep, publisherVars
<1> QED BY <1>0, <1>1, <1>2, <1>3, <1>4, <1>5, <1>6, <1>7, <1>8

LEMMA PublisherStep == PublisherInv /\ [PublisherNext]_publisherVars => PublisherInv'
<1> SUFFICES ASSUME PublisherInv, [PublisherNext]_publisherVars PROVE PublisherInv'
  OBVIOUS
<1>t. WireTypeOK /\ WireTypeOK'
  BY WireTypeStep DEF PublisherInv
<1>k. \A r \in Rows : Queued(r) => Queued(r)'
  BY <1>t, QueuedStays
<1>p. /\ \A w \in Workers : confirmed[w] \subseteq Rows /\ \A r \in confirmed[w] : Queued(r)
      /\ \A r \in Rows : outbox[r] = "processed" => Queued(r)
  BY DEF PublisherInv, ProcessedIsQueued, Queued, WireTypeOK, TypeOK
<1> DEFINE Good == /\ \A w \in Workers : \A r \in confirmed'[w] : Queued(r)'
                   /\ \A r \in Rows : outbox'[r] = "processed" => Queued(r)'
<1>1. ASSUME NEW r \in Rows, Commit(r) PROVE Good
  BY <1>1, <1>k, <1>p, <1>t DEF Commit, Insert, WireTypeOK, TypeOK
<1>2. ASSUME NEW w \in Workers, NEW r \in Rows, MarkAsProcessed(w, r) PROVE Good
  <2>1. Queued(r)'
    BY <1>2, <1>k, <1>p DEF MarkAsProcessed
  <2>2. \A s \in Rows : outbox'[s] = "processed" => s = r \/ outbox[s] = "processed"
    BY <1>2, <1>t DEF MarkAsProcessed, WireTypeOK, TypeOK
  <2>3. \A v \in Workers : confirmed'[v] \subseteq confirmed[v]
    BY <1>2, <1>t DEF MarkAsProcessed, WireTypeOK, TypeOK
  <2> QED BY <1>k, <1>p, <2>1, <2>2, <2>3
<1>3. ASSUME NEW w \in Workers, PublishReturns(w) PROVE Good
  <2>0. outbox' = outbox
    BY <1>3 DEF PublishReturns
  <2>1. CASE UNCHANGED confirmed
    BY <1>k, <1>p, <2>0, <2>1
  <2>2. CASE verdict[w] = "ack" /\ returns[w] = 0 /\ Succeed(w)
    <3>1. \A r \in publishing[w] : Queued(r)
      BY <2>2 DEF PublisherInv, Tracked, Judged, Backed
    <3>2. publishing[w] \subseteq Rows
      BY <1>t, OneRowFacts DEF WireTypeOK
    <3>3. \A v \in Workers : confirmed'[v] = IF v = w THEN publishing[w] ELSE confirmed[v]
      BY <1>t, <2>2 DEF Succeed, WireTypeOK, TypeOK
    <3> QED BY <1>k, <1>p, <2>0, <3>1, <3>2, <3>3
  <2> QED BY <1>3, <2>1, <2>2 DEF PublishReturns, Confirmed, Nacked, Fail
<1>4. ASSUME NEW w \in Workers, Restart(w) PROVE Good
  <2>1. \A v \in Workers : confirmed'[v] \subseteq confirmed[v]
    BY <1>4, <1>t DEF Restart, Forget, WireTypeOK, TypeOK
  <2> QED BY <1>4, <1>k, <1>p, <2>1 DEF Restart
<1>5. ASSUME UNCHANGED <<outbox, confirmed>> PROVE Good
  BY <1>5, <1>k, <1>p
<1>6. Good
  BY <1>1, <1>2, <1>3, <1>4, <1>5
  DEF PublisherNext, WorkerStep, Bind, FindUnprocessed, Send, GiveUp, Fail, BrokerHandles,
      ReadFrame, publisherVars, relayVars
<1> QED BY <1>t, <1>6, TrackedStep DEF PublisherInv, ProcessedIsQueued, Queued

LEMMA PublisherInvariance == PublisherSpec => []PublisherInv
  BY InitWire, PublisherStep, PTL DEF PublisherSpec

(* Publish never takes the confirm of another publish for its own: only the  *)
(* last message on a connection is waited for, and a verdict belongs to the  *)
(* Publish that is running (rabbitmq_publisher.go, Publish).                 *)
THEOREM ConfirmsMatch == PublisherSpec => []PublisherTypeOK
<1>1. PublisherInv => PublisherTypeOK
  BY DEF PublisherInv, PublisherTypeOK, WireTypeOK, OneRow, Tracked, Outgoing, Judged
<1> QED BY <1>1, PublisherInvariance, PTL

(* The outbox pattern's promise with every frame of rabbitmq_publisher.go's  *)
(* connection as a step: processed_at is set only for rows the broker has    *)
(* stored, also when a return is left behind and taken for a later publish.  *)
THEOREM PublisherSound == PublisherSpec => []ProcessedIsQueued
<1>1. PublisherInv => ProcessedIsQueued
  BY DEF PublisherInv
<1> QED BY <1>1, PublisherInvariance, PTL

-----------------------------------------------------------------------------
(* Duplicates.  Potential(w, r) bounds the copies of row r that worker w    *)
(* can still add to a queue without another fault: each copy uses it up,    *)
(* and a fault raises it by at most WireSize - 1.                           *)

Has(s, kind, live) == \E i \in DOMAIN s : s[i].kind = kind /\ s[i].live = live

(* The publish that w waits for has a positive confirm, read or not, and    *)
(* its return, if there was one, has been read.                             *)
Acked(w) ==
    \/ verdict[w] = "ack"
    \/ Has(fromBroker[w], "ack", TRUE) /\ ~Has(fromBroker[w], "return", TRUE)

(* A return that will be taken for that of a later publish: one is still on *)
(* the connection, or in the buffer while no confirm is due that takes it.  *)
StaleOnWire(w) == Has(fromBroker[w], "return", FALSE)
Stale(w) == StaleOnWire(w) \/ (returns[w] = 1 /\ ~Acked(w))

(* Publishes nobody waits for and the broker has not read. *)
Abandoned(w) ==
    IF Dead(toBroker[w]) THEN Len(toBroker[w]) ELSE Len(toBroker[w]) - 1

(* w has published r and will not do so again, if no fault intervenes. *)
Settled(w, r) ==
    \/ outbox[r] = "processed" /\ r \notin batch[w]
    \/ r \in confirmed[w]
    \/ publishing[w] = {r} /\ Acked(w) /\ (returns[w] = 0 \/ StaleOnWire(w))

Due(w, r) == IF Settled(w, r) THEN 0 ELSE 1

(* What earlier faults still allow w: each of these may leave a stale return *)
(* that blocks the reader with a connection's worth of publishes behind it.  *)
Credit(w) == Abandoned(w) + (IF Stale(w) THEN 1 ELSE 0)

Owed(due, credit) == due + (WireSize - 1) * credit

Potential(w, r) ==
    IF Blocked(w) THEN WireSize - Len(fromBroker[w]) ELSE Owed(Due(w, r), Credit(w))

(* One token for each of f[w] copies of each worker w. *)
Tokens(f) == UNION {{w} \X (1..f[w]) : w \in Workers}
Expected(r) == [w \in Workers |-> Potential(w, r)]

(* Rows are published out of the batch and marked one by one; a verdict     *)
(* leaves nothing on the connection; a return comes right before its ack.   *)
Shape(w) ==
    /\ publishing[w] \cup confirmed[w] \subseteq batch[w]
    /\ confirmed[w] \in OneRow
    /\ publishing[w] # {} => confirmed[w] = {}
    /\ Len(fromBroker[w]) <= WireSize
    /\ verdict[w] # "none" => toBroker[w] = <<>> /\ fromBroker[w] = <<>>
    /\ \A i \in DOMAIN fromBroker[w] :
          fromBroker[w][i].live /\ fromBroker[w][i].kind = "return" =>
              /\ i + 1 = Len(fromBroker[w])
              /\ fromBroker[w][i + 1] = [kind |-> "ack", live |-> TRUE]

(* Every copy made and every copy to come is paid for. *)
Paid ==
    \A r \in Rows : \A c \in copiesOf[r] :
        queue[c] + Cardinality(Tokens(Expected(r)))
            <= Cardinality(Workers) + (WireSize - 1) * (MaxFaults - faults)

(* Only a row's message makes copies. *)
CopiesHaveRows == \A c \in Copies : (\A r \in Rows : c \notin copiesOf[r]) => queue[c] = 0

WireInv == PublisherInv /\ \A w \in Workers : Shape(w)

DuplicatesInv ==
    /\ WireInv
    /\ faults <= MaxFaults
    /\ Paid /\ CopiesHaveRows
-----------------------------------------------------------------------------
(* Counting tokens, and what is owed. *)

LEMMA TokensOf ==
  ASSUME NEW w, NEW n \in Nat
  PROVE  IsFiniteSet({w} \X (1..n)) /\ Cardinality({w} \X (1..n)) = n
<1>1. IsFiniteSet({w}) /\ Cardinality({w}) = 1
  BY FS_Singleton
<1>2. IsFiniteSet(1..n) /\ Cardinality(1..n) = n
  BY FS_Interval
<1>3. /\ IsFiniteSet({w} \X (1..n))
      /\ Cardinality({w} \X (1..n)) = Cardinality({w}) * Cardinality(1..n)
  BY <1>1, <1>2, FS_Product, Zenon
<1> QED BY <1>1, <1>2, <1>3

LEMMA TokensFinite ==
  ASSUME NEW f \in [Workers -> Nat]
  PROVE  IsFiniteSet(Tokens(f)) /\ Cardinality(Tokens(f)) \in Nat
<1> DEFINE S == {{w} \X (1..f[w]) : w \in Workers}
           g == [w \in Workers |-> {w} \X (1..f[w])]
<1>1. g \in Surjection(Workers, S)
  BY DEF Surjection
<1>2. IsFiniteSet(S)
  <2> HIDE DEF S, g
  <2> QED BY <1>1, PublisherAssumption, FS_Surjection
<1>3. \A T \in S : IsFiniteSet(T)
  <2> SUFFICES ASSUME NEW w \in Workers PROVE IsFiniteSet({w} \X (1..f[w]))
    OBVIOUS
  <2>1. f[w] \in Nat
    OBVIOUS
  <2> QED BY <2>1, TokensOf
<1>4. IsFiniteSet(UNION S)
  <2> HIDE DEF S
  <2> QED BY <1>2, <1>3, FS_UNION
<1> QED BY <1>4, FS_CardinalityType DEF Tokens

(* The tokens of one worker and of the rest. *)
LEMMA TokensSplit ==
  ASSUME NEW f \in [Workers -> Nat], NEW w \in Workers, NEW R,
         R = UNION {{v} \X (1..f[v]) : v \in Workers \ {w}}
  PROVE  /\ IsFiniteSet(R) /\ Cardinality(R) \in Nat
         /\ Cardinality(Tokens(f)) = Cardinality(R) + f[w]
<1> DEFINE mine == {w} \X (1..f[w])
<1>1. Tokens(f) = R \cup mine
  BY DEF Tokens
<1>2. R \cap mine = {}
  <2>1. ASSUME NEW x \in R PROVE x \notin mine
    <3>1. PICK v \in Workers \ {w} : x \in {v} \X (1..f[v])
      BY <2>1, Zenon
    <3> QED BY <3>1
  <2> QED BY <2>1
<1>3. IsFiniteSet(R) /\ Cardinality(R) \in Nat
  <2>1. R \in SUBSET Tokens(f)
    BY <1>1
  <2> QED BY <2>1, TokensFinite, FS_Subset, FS_CardinalityType
<1>4. f[w] \in Nat /\ IsFiniteSet(mine) /\ Cardinality(mine) = f[w]
  BY TokensOf
<1> HIDE DEF mine
<1>5. Cardinality(R \cup mine) = Cardinality(R) + Cardinality(mine) - Cardinality(R \cap mine)
  BY <1>3, <1>4, FS_Union
<1>6. Cardinality(R \cap mine) = 0
  BY <1>2, FS_EmptySet
<1> QED BY <1>1, <1>3, <1>4, <1>5, <1>6

(* One worker's entry changes by at most d, no other one grows. *)
LEMMA TokensStep ==
  ASSUME NEW f \in [Workers -> Nat], NEW g \in [Workers -> Nat], NEW w \in Workers,
         NEW d \in Int, g[w] <= f[w] + d, \A v \in Workers \ {w} : g[v] <= f[v]
  PROVE  Cardinality(Tokens(g)) <= Cardinality(Tokens(f)) + d
<1> DEFINE R == UNION {{v} \X (1..f[v]) : v \in Workers \ {w}}
           Q == UNION {{v} \X (1..g[v]) : v \in Workers \ {w}}
<1>1. /\ IsFiniteSet(R) /\ Cardinality(R) \in Nat
      /\ Cardinality(Tokens(f)) = Cardinality(R) + f[w]
  <2> HIDE DEF R
  <2>1. R = UNION {{v} \X (1..f[v]) : v \in Workers \ {w}}
    BY DEF R
  <2> QED BY <2>1, TokensSplit
<1>2. /\ Cardinality(Q) \in Nat
      /\ Cardinality(Tokens(g)) = Cardinality(Q) + g[w]
  <2> HIDE DEF Q
  <2>1. Q = UNION {{v} \X (1..g[v]) : v \in Workers \ {w}}
    BY DEF Q
  <2> QED BY <2>1, TokensSplit
<1>3. Q \in SUBSET R
  <2>1. ASSUME NEW x \in Q PROVE x \in R
    <3>1. PICK v \in Workers \ {w} : x \in {v} \X (1..g[v])
      BY <2>1, Zenon
    <3>2. g[v] <= f[v] /\ g[v] \in Nat /\ f[v] \in Nat
      OBVIOUS
    <3>3. x \in {v} \X (1..f[v])
      BY <3>1, <3>2
    <3> QED BY <3>3, Zenon
  <2> QED BY <2>1
<1>4. Cardinality(Q) <= Cardinality(R)
  <2> HIDE DEF R, Q
  <2> QED BY <1>1, <1>3, FS_Subset
<1>5. f[w] \in Nat /\ g[w] \in Nat
  OBVIOUS
<1> HIDE DEF R, Q
<1> QED BY <1>1, <1>2, <1>4, <1>5

LEMMA OneTokenEach == Cardinality(Tokens([w \in Workers |-> 1])) = Cardinality(Workers)
<1> DEFINE f == [w \in Workers |-> 1]
<1>1. Tokens(f) = Workers \X (1..1)
  <2>1. \A w \in Workers : f[w] = 1
    OBVIOUS
  <2>2. Tokens(f) = UNION {{w} \X (1..1) : w \in Workers}
    BY <2>1 DEF Tokens
  <2>3. ASSUME NEW x \in Tokens(f) PROVE x \in Workers \X (1..1)
    <3>1. PICK w \in Workers : x \in {w} \X (1..1)
      BY <2>2, <2>3, Zenon
    <3> QED BY <3>1
  <2>4. ASSUME NEW x \in Workers \X (1..1) PROVE x \in Tokens(f)
    <3>1. PICK w \in Workers : x \in {w} \X (1..1)
      BY <2>4
    <3> QED BY <2>2, <3>1, Zenon
  <2> QED BY <2>3, <2>4
<1>2. IsFiniteSet(1..1) /\ Cardinality(1..1) = 1
  <2>1. \A n \in Nat : IsFiniteSet(1..n) /\ Cardinality(1..n) = n
    BY FS_Interval
  <2> QED BY <2>1
<1>3. Cardinality(Workers \X (1..1)) = Cardinality(Workers) * Cardinality(1..1)
  BY <1>2, PublisherAssumption, FS_Product, Zenon
<1>4. Cardinality(Workers) \in Nat
  BY PublisherAssumption, FS_CardinalityType
<1>5. Cardinality(Tokens(f)) = Cardinality(Workers) * 1
  BY <1>1, <1>2, <1>3
<1> QED BY <1>4, <1>5

LEMMA OwedFacts ==
  ASSUME NEW b \in 0..1, NEW n \in Nat
  PROVE  /\ Owed(b, n) \in Nat
         /\ Owed(b, n + 1) = Owed(b, n) + (WireSize - 1)
         /\ n > 0 => Owed(b, n) >= WireSize - 1
         /\ n = 0 => Owed(b, n) = b
<1> DEFINE k == WireSize - 1
<1>1. k \in Nat
  BY PublisherAssumption
<1> HIDE DEF k
<1>2. k * n \in Nat /\ k * (n + 1) = k * n + k
  BY <1>1
<1>3. n > 0 => k * n >= k
  BY <1>1
<1>4. n = 0 => k * n = 0
  BY <1>1
<1>5. Owed(b, n) = b + k * n /\ Owed(b, n + 1) = b + k * (n + 1)
  BY DEF Owed, k
<1>6. WireSize - 1 = k
  BY DEF k
<1> QED BY <1>1, <1>2, <1>3, <1>4, <1>5, <1>6

LEMMA OwedGrows ==
  ASSUME NEW a \in 0..1, NEW b \in 0..1, NEW m \in Nat, NEW n \in Nat, a <= b, m <= n
  PROVE  Owed(a, m) <= Owed(b, n)
<1> DEFINE k == WireSize - 1
<1>1. k \in Nat
  BY PublisherAssumption
<1>2. PICK e \in Nat : n = m + e
  <2>1. n - m \in Nat /\ n = m + (n - m)
    OBVIOUS
  <2> QED BY <2>1
<1> HIDE DEF k
<1>3. k * e \in Nat /\ k * m \in Nat /\ k * (m + e) = k * m + k * e
  BY <1>1
<1>4. Owed(a, m) = a + k * m /\ Owed(b, n) = b + k * (m + e)
  BY <1>2 DEF Owed, k
<1> QED BY <1>3, <1>4
-----------------------------------------------------------------------------
(* What the steps do to the frames on a connection. *)

LEMMA TailFacts ==
  ASSUME NEW S, NEW s \in Seq(S), s # <<>>
  PROVE  /\ Len(s) \in Nat \ {0} /\ DOMAIN s = 1..Len(s) /\ Head(s) = s[1] /\ s[1] \in S
         /\ Tail(s) \in Seq(S) /\ Len(Tail(s)) = Len(s) - 1
         /\ DOMAIN Tail(s) = 1..(Len(s) - 1)
         /\ \A i \in 1..(Len(s) - 1) : Tail(s)[i] = s[i + 1]
<1>1. Tail(s) \in Seq(S) /\ Len(Tail(s)) = Len(s) - 1
  BY HeadTailProperties
<1>2. Len(s) \in Nat \ {0} /\ DOMAIN s = 1..Len(s) /\ DOMAIN Tail(s) = 1..Len(Tail(s))
  BY <1>1, LenProperties, EmptySeq
<1>3. \A i \in 1..(Len(s) - 1) : Tail(s)[i] = s[i + 1]
  BY <1>1, <1>2, HeadTailProperties
<1>4. Head(s) = s[1] /\ s[1] \in S
  BY <1>2, HeadTailProperties
<1> QED BY <1>1, <1>2, <1>3, <1>4

LEMMA ConcatFacts ==
  ASSUME NEW S, NEW s \in Seq(S), NEW t \in Seq(S)
  PROVE  /\ s \o t \in Seq(S) /\ Len(s \o t) = Len(s) + Len(t)
         /\ Len(s) \in Nat /\ Len(t) \in Nat /\ DOMAIN s = 1..Len(s) /\ DOMAIN t = 1..Len(t)
         /\ DOMAIN (s \o t) = 1..(Len(s) + Len(t))
         /\ \A i \in 1..Len(s) : (s \o t)[i] = s[i]
         /\ \A i \in 1..Len(t) : (s \o t)[Len(s) + i] = t[i]
<1>1. s \o t \in Seq(S) /\ Len(s \o t) = Len(s) + Len(t)
  BY ConcatProperties
<1>2. /\ Len(s) \in Nat /\ Len(t) \in Nat /\ DOMAIN s = 1..Len(s) /\ DOMAIN t = 1..Len(t)
      /\ DOMAIN (s \o t) = 1..(Len(s) + Len(t))
  BY <1>1, LenProperties
<1>3. \A i \in 1..(Len(s) + Len(t)) :
         (s \o t)[i] = IF i <= Len(s) THEN s[i] ELSE t[i - Len(s)]
  BY ConcatProperties
<1>4. \A i \in 1..Len(s) : (s \o t)[i] = s[i]
  BY <1>2, <1>3
<1>5. ASSUME NEW i \in 1..Len(t) PROVE (s \o t)[Len(s) + i] = t[i]
  <2>1. /\ Len(s) + i \in 1..(Len(s) + Len(t)) /\ ~(Len(s) + i <= Len(s))
        /\ (Len(s) + i) - Len(s) = i
    BY <1>2
  <2> QED BY <1>3, <2>1
<1> QED BY <1>1, <1>2, <1>4, <1>5

LEMMA HasTail ==
  ASSUME NEW s \in Seq(Frames), s # <<>>, NEW k, NEW l
  PROVE  Has(s, k, l) <=> (s[1].kind = k /\ s[1].live = l) \/ Has(Tail(s), k, l)
<1>1. /\ Len(s) \in Nat \ {0} /\ DOMAIN s = 1..Len(s) /\ DOMAIN Tail(s) = 1..(Len(s) - 1)
      /\ \A i \in 1..(Len(s) - 1) : Tail(s)[i] = s[i + 1]
  BY TailFacts
<1>2. ASSUME NEW i \in DOMAIN s, s[i].kind = k /\ s[i].live = l, i # 1
      PROVE  Has(Tail(s), k, l)
  <2>1. i - 1 \in DOMAIN Tail(s) /\ Tail(s)[i - 1] = s[i]
    BY <1>1, <1>2
  <2> QED BY <1>2, <2>1 DEF Has
<1>3. ASSUME NEW i \in DOMAIN Tail(s), Tail(s)[i].kind = k /\ Tail(s)[i].live = l
      PROVE  Has(s, k, l)
  <2>1. i + 1 \in DOMAIN s /\ Tail(s)[i] = s[i + 1]
    BY <1>1
  <2> QED BY <1>3, <2>1 DEF Has
<1>4. 1 \in DOMAIN s
  BY <1>1
<1> QED BY <1>2, <1>3, <1>4, Zenon DEF Has

LEMMA HasConcat ==
  ASSUME NEW s \in Seq(Frames), NEW t \in Seq(Frames), NEW k, NEW l
  PROVE  Has(s \o t, k, l) <=> Has(s, k, l) \/ Has(t, k, l)
<1>1. /\ Len(s) \in Nat /\ Len(t) \in Nat /\ DOMAIN s = 1..Len(s) /\ DOMAIN t = 1..Len(t)
      /\ DOMAIN (s \o t) = 1..(Len(s) + Len(t))
      /\ \A i \in 1..Len(s) : (s \o t)[i] = s[i]
      /\ \A i \in 1..Len(t) : (s \o t)[Len(s) + i] = t[i]
  BY ConcatFacts
<1>2. ASSUME NEW i \in DOMAIN s, s[i].kind = k /\ s[i].live = l
      PROVE  Has(s \o t, k, l)
  <2>1. i \in DOMAIN (s \o t) /\ (s \o t)[i] = s[i]
    BY <1>1
  <2> QED BY <1>2, <2>1 DEF Has
<1>3. ASSUME NEW i \in DOMAIN t, t[i].kind = k /\ t[i].live = l
      PROVE  Has(s \o t, k, l)
  <2>1. Len(s) + i \in DOMAIN (s \o t) /\ (s \o t)[Len(s) + i] = t[i]
    BY <1>1
  <2> QED BY <1>3, <2>1 DEF Has
<1>4. ASSUME NEW i \in DOMAIN (s \o t), (s \o t)[i].kind = k /\ (s \o t)[i].live = l
      PROVE  Has(s, k, l) \/ Has(t, k, l)
  <2>1. CASE i <= Len(s)
    <3>1. i \in DOMAIN s /\ (s \o t)[i] = s[i]
      BY <1>1, <2>1
    <3> QED BY <1>4, <3>1 DEF Has
  <2>2. CASE ~(i <= Len(s))
    <3>1. i - Len(s) \in DOMAIN t /\ i = Len(s) + (i - Len(s))
      BY <1>1, <2>2
    <3>2. (s \o t)[i] = t[i - Len(s)]
      BY <1>1, <3>1
    <3> QED BY <1>4, <3>1, <3>2 DEF Has
  <2> QED BY <2>1, <2>2
<1>5. Has(s \o t, k, l) => Has(s, k, l) \/ Has(t, k, l)
  BY <1>4, Zenon DEF Has
<1>6. Has(s, k, l) \/ Has(t, k, l) => Has(s \o t, k, l)
  BY <1>2, <1>3, Zenon DEF Has
<1> QED BY <1>5, <1>6

LEMMA HasAbandon ==
  ASSUME NEW s \in Seq(Frames)
  PROVE  /\ Len(Abandon(s)) = Len(s)
         /\ s # <<>> => Abandon(s) # <<>> /\ Head(Abandon(s)).kind = Head(s).kind
         /\ \A k : Has(Abandon(s), k, FALSE) <=> Has(s, k, TRUE) \/ Has(s, k, FALSE)
<1>1. Len(s) \in Nat /\ DOMAIN s = 1..Len(s) /\ \A i \in 1..Len(s) : s[i] \in Frames
  BY LenProperties, ElementOfSeq
<1>2. Abandon(s) \in Seq(Frames) /\ DOMAIN Abandon(s) = DOMAIN s
  BY AbandonFrames DEF Abandon
<1>3. \A i \in DOMAIN s : Abandon(s)[i].kind = s[i].kind /\ Abandon(s)[i].live = FALSE
  BY <1>1 DEF Abandon, Frames
<1>4. Len(Abandon(s)) = Len(s)
  BY <1>1, <1>2, LenProperties
<1>5. s # <<>> => Abandon(s) # <<>> /\ Head(Abandon(s)).kind = Head(s).kind
  <2> SUFFICES ASSUME s # <<>> PROVE Abandon(s) # <<>> /\ Head(Abandon(s)).kind = Head(s).kind
    OBVIOUS
  <2>1. Len(s) # 0
    BY EmptySeq
  <2>2. Abandon(s) # <<>>
    BY <1>4, <2>1, EmptySeq
  <2>3. Head(s) = s[1] /\ Head(Abandon(s)) = Abandon(s)[1] /\ 1 \in DOMAIN s
    BY <1>2, <2>2, TailFacts
  <2> QED BY <1>3, <2>2, <2>3
<1>6. \A i \in DOMAIN s : s[i].live = TRUE \/ s[i].live = FALSE
  BY <1>1 DEF Frames
<1>7. \A k : Has(Abandon(s), k, FALSE) <=> Has(s, k, TRUE) \/ Has(s, k, FALSE)
  BY <1>2, <1>3, <1>6 DEF Has
<1> QED BY <1>4, <1>5, <1>7

LEMMA DeadHas ==
  ASSUME NEW s, Dead(s), NEW k
  PROVE  ~Has(s, k, TRUE)
  BY DEF Dead, Has

(* The number of abandoned publishes. *)
LEMMA AbandonedNat ==
  ASSUME NEW t \in Seq(Publishes)
  PROVE  /\ Len(t) \in Nat /\ DOMAIN t = 1..Len(t)
         /\ ~Dead(t) => Len(t) > 0
         /\ t = <<>> => Len(t) = 0 /\ Dead(t)
<1>1. Len(t) \in Nat /\ DOMAIN t = 1..Len(t)
  BY LenProperties
<1>2. ~Dead(t) => Len(t) > 0
  BY <1>1 DEF Dead
<1>3. t = <<>> => Len(t) = 0 /\ Dead(t)
  BY EmptySeq DEF Dead
<1> QED BY <1>1, <1>2, <1>3

SizesOK(w, r) ==
    /\ Due(w, r) \in 0..1 /\ Abandoned(w) \in Nat /\ Credit(w) \in Nat
    /\ Stale(w) => Credit(w) > 0
    /\ Potential(w, r) \in Nat

Sized == \A w \in Workers, r \in Rows : SizesOK(w, r)

LEMMA WireSized == WireInv => Sized
<1> SUFFICES ASSUME WireInv, NEW w \in Workers, NEW r \in Rows PROVE SizesOK(w, r)
  BY DEF Sized
<1>1. toBroker[w] \in Seq(Publishes) /\ fromBroker[w] \in Seq(Frames)
  BY DEF WireInv, PublisherInv, WireTypeOK
<1>2. Due(w, r) \in 0..1
  BY DEF Due
<1>3. Abandoned(w) \in Nat
  BY <1>1, AbandonedNat DEF Abandoned
<1>4. Credit(w) \in Nat /\ (Stale(w) => Credit(w) > 0)
  <2> DEFINE b == IF Stale(w) THEN 1 ELSE 0
  <2>1. b \in Nat /\ (Stale(w) => b = 1)
    OBVIOUS
  <2>2. Credit(w) = Abandoned(w) + b
    BY DEF Credit
  <2> QED BY <1>3, <2>1, <2>2
<1>5. Potential(w, r) \in Nat
  <2>1. CASE Blocked(w)
    <3>1. Len(fromBroker[w]) <= WireSize /\ Len(fromBroker[w]) \in Nat
      BY <1>1, LenProperties DEF WireInv, Shape
    <3> QED BY <2>1, <3>1, PublisherAssumption DEF Potential
  <2>2. CASE ~Blocked(w)
    BY <1>2, <1>4, <2>2, OwedFacts DEF Potential
  <2> QED BY <2>1, <2>2
<1> QED BY <1>2, <1>3, <1>4, <1>5 DEF SizesOK

LEMMA StaysSized == WireInv' => Sized'
  BY WireSized, PTL
-----------------------------------------------------------------------------
(* The shape of a publisher's state. *)

Mine(w) ==
    /\ publishing[w] \cup confirmed[w] \subseteq batch[w]
    /\ confirmed[w] \in OneRow
    /\ publishing[w] # {} => confirmed[w] = {}

LEMMA InitShape == PublisherInit => \A w \in Workers : Shape(w)
<1> SUFFICES ASSUME PublisherInit, NEW w \in Workers PROVE Shape(w)
  OBVIOUS
<1>1. /\ publishing[w] = {} /\ confirmed[w] = {} /\ verdict[w] = "none"
      /\ fromBroker[w] = <<>> /\ batch[w] = {}
  BY DEF PublisherInit, Init, RelayInit
<1>2. Len(fromBroker[w]) = 0 /\ DOMAIN fromBroker[w] = {}
  BY <1>1
<1> QED BY <1>1, <1>2, OneRowFacts, PublisherAssumption DEF Shape

(* What the publish that w waits for says of the connection. *)
LEMMA LiveFrames ==
  ASSUME WireInv, NEW w \in Workers
  PROVE  /\ publishing[w] = {} =>
               verdict[w] = "none" /\ Dead(toBroker[w]) /\ Dead(fromBroker[w])
         /\ ~Dead(toBroker[w]) => verdict[w] = "none" /\ Dead(fromBroker[w])
         /\ ~Dead(fromBroker[w]) =>
               toBroker[w] = <<>> /\ publishing[w] # {} /\ verdict[w] = "none"
         /\ \A i \in DOMAIN fromBroker[w] :
               fromBroker[w][i].live /\ fromBroker[w][i].kind # "return" =>
                  i = Len(fromBroker[w])
<1>1. Outgoing(w) /\ Incoming(w) /\ Judged(w)
  BY DEF WireInv, PublisherInv, Tracked
<1> QED BY <1>1 DEF Outgoing, Incoming, Judged, Dead

LEMMA FailShape ==
  ASSUME WireInv, NEW w \in Workers, publishing[w] # {}, Fail(w)
  PROVE  Mine(w)' /\ verdict'[w] = "none"
<1>1. /\ publishing'[w] = {} /\ verdict'[w] = "none" /\ confirmed' = confirmed
  BY DEF Fail, Finish, WireInv, PublisherInv, WireTypeOK
<1>2. confirmed[w] = {}
  BY DEF WireInv, Shape
<1> QED BY <1>1, <1>2, OneRowFacts DEF Mine

LEMMA ReadShape ==
  ASSUME WireInv, NEW w \in Workers, ReadFrame(w)
  PROVE  Shape(w)'
<1> DEFINE s == fromBroker[w]
<1>1. s \in Seq(Frames) /\ s # <<>> /\ fromBroker'[w] = Tail(s)
  BY DEF ReadFrame, WireInv, PublisherInv, WireTypeOK
<1>2. /\ Len(s) \in Nat \ {0} /\ DOMAIN s = 1..Len(s) /\ Head(s) = s[1]
      /\ Len(Tail(s)) = Len(s) - 1 /\ DOMAIN Tail(s) = 1..(Len(s) - 1)
      /\ Tail(s) \in Seq(Frames)
      /\ \A i \in 1..(Len(s) - 1) : Tail(s)[i] = s[i + 1]
  BY <1>1, TailFacts
<1>3. Shape(w) /\ verdict[w] = "none"
  BY <1>1 DEF WireInv, Shape
<1>4. Mine(w)'
  BY <1>3 DEF ReadFrame, relayVars, Shape, Mine
<1>5. Len(Tail(s)) <= WireSize
  BY <1>2, <1>3, PublisherAssumption DEF Shape
<1>6. verdict'[w] # "none" => toBroker'[w] = <<>> /\ fromBroker'[w] = <<>>
  <2> SUFFICES ASSUME verdict'[w] # "none" PROVE toBroker'[w] = <<>> /\ fromBroker'[w] = <<>>
    OBVIOUS
  <2>1. s[1].live /\ s[1].kind # "return" /\ toBroker' = toBroker
    BY <1>2, <1>3 DEF ReadFrame, WireInv, PublisherInv, WireTypeOK
  <2>2. 1 \in DOMAIN s /\ ~Dead(s)
    BY <1>2, <2>1 DEF Dead
  <2>3. Len(s) = 1 /\ toBroker[w] = <<>>
    BY <2>1, <2>2, LiveFrames
  <2>4. Tail(s) = <<>>
    BY <1>2, <2>3, EmptySeq
  <2> QED BY <1>1, <2>1, <2>3, <2>4
<1>7. ASSUME NEW i \in DOMAIN Tail(s), Tail(s)[i].live /\ Tail(s)[i].kind = "return"
      PROVE  /\ i + 1 = Len(Tail(s))
             /\ Tail(s)[i + 1] = [kind |-> "ack", live |-> TRUE]
  <2>1. i + 1 \in DOMAIN s /\ Tail(s)[i] = s[i + 1]
    BY <1>2
  <2>2. (i + 1) + 1 = Len(s) /\ s[(i + 1) + 1] = [kind |-> "ack", live |-> TRUE]
    BY <1>3, <1>7, <2>1 DEF Shape
  <2>3. i + 1 = Len(Tail(s)) /\ i + 1 \in 1..(Len(s) - 1)
    BY <1>2, <2>2
  <2> QED BY <1>2, <2>2, <2>3
<1> HIDE DEF s
<1> QED BY <1>1, <1>4, <1>5, <1>6, <1>7 DEF Shape, Mine

(* The frames of an answer follow frames nobody waits for. *)
LEMMA ReplyShape ==
  ASSUME WireInv, NEW w \in Workers, BrokerHandles(w), NEW a \in Seq(Frames), Reply(w, a),
         \A i \in DOMAIN a : a[i].live /\ a[i].kind = "return" =>
            i + 1 = Len(a) /\ a[i + 1] = [kind |-> "ack", live |-> TRUE]
  PROVE  Shape(w)'
<1> DEFINE s == fromBroker[w]
<1>1. /\ s \in Seq(Frames) /\ fromBroker'[w] = s \o a /\ toBroker[w] # <<>>
      /\ Len(s) + Len(a) <= WireSize
  BY DEF BrokerHandles, Reply, WireInv, PublisherInv, WireTypeOK
<1>2. /\ Len(s \o a) = Len(s) + Len(a)
      /\ Len(s) \in Nat /\ Len(a) \in Nat /\ DOMAIN s = 1..Len(s) /\ DOMAIN a = 1..Len(a)
      /\ DOMAIN (s \o a) = 1..(Len(s) + Len(a))
      /\ \A i \in 1..Len(s) : (s \o a)[i] = s[i]
      /\ \A i \in 1..Len(a) : (s \o a)[Len(s) + i] = a[i]
  BY <1>1, ConcatFacts
<1>3. Dead(s) /\ verdict[w] = "none"
  BY <1>1, LiveFrames DEF WireInv, Shape
<1>4. Mine(w)' /\ verdict'[w] = "none"
  BY <1>3 DEF BrokerHandles, WireInv, Shape, Mine
<1>5. ASSUME NEW i \in DOMAIN (s \o a), (s \o a)[i].live /\ (s \o a)[i].kind = "return"
      PROVE  /\ i + 1 = Len(s \o a)
             /\ (s \o a)[i + 1] = [kind |-> "ack", live |-> TRUE]
  <2>1. ~(i <= Len(s))
    BY <1>2, <1>3, <1>5 DEF Dead
  <2>2. PICK k \in DOMAIN a : i = Len(s) + k
    <3>1. i - Len(s) \in DOMAIN a /\ i = Len(s) + (i - Len(s))
      BY <1>2, <2>1
    <3> QED BY <3>1
  <2>3. (s \o a)[i] = a[k]
    BY <1>2, <2>2
  <2>4. k + 1 = Len(a) /\ a[k + 1] = [kind |-> "ack", live |-> TRUE]
    BY <1>5, <2>3
  <2>5. k + 1 \in 1..Len(a) /\ i + 1 = Len(s) + (k + 1) /\ i + 1 = Len(s \o a)
    <3>1. k \in 1..Len(a) /\ Len(s) \in Nat /\ Len(a) \in Nat
      BY <1>2
    <3>2. Len(s \o a) = Len(s) + Len(a) /\ i = Len(s) + k /\ k + 1 = Len(a)
      BY <1>2, <2>2, <2>4
    <3>3. \A x, y, z \in Nat : x + (y + 1) = (x + y) + 1
      OBVIOUS
    <3>4. k + 1 \in 1..Len(a)
      BY <3>1, <3>2
    <3>5. i + 1 = Len(s) + (k + 1)
      BY <3>1, <3>2, <3>3
    <3>6. i + 1 = Len(s \o a)
      BY <3>1, <3>2, <3>5
    <3> QED BY <3>4, <3>5, <3>6
  <2> QED BY <1>2, <2>4, <2>5
<1> HIDE DEF s
<1> QED BY <1>1, <1>2, <1>4, <1>5 DEF Shape, Mine

(* The answers a broker gives, and what they say of the row. *)
LEMMA Answers ==
  ASSUME WireInv, NEW w \in Workers, BrokerHandles(w)
  PROVE  LET m == Head(toBroker[w])
             return == [kind |-> "return", live |-> m.live]
             ack == [kind |-> "ack", live |-> m.live]
             nack == [kind |-> "nack", live |-> m.live]
         IN  /\ m \in Publishes
             /\ return \in Frames /\ ack \in Frames /\ nack \in Frames
             /\ \/ /\ Reply(w, <<return, ack>>) /\ Routes(m.row) = {}
                   /\ Accept(m.row) /\ UNCHANGED faults
                \/ /\ Reply(w, <<ack>>) /\ Routes(m.row) # {}
                   /\ Accept(m.row) /\ UNCHANGED faults
                \/ Reply(w, <<nack>>) /\ Fault /\ UNCHANGED queue
<1> DEFINE m == Head(toBroker[w])
<1>1. m \in Publishes
  BY HeadTailProperties DEF BrokerHandles, WireInv, PublisherInv, WireTypeOK
<1>2. /\ [kind |-> "return", live |-> m.live] \in Frames
      /\ [kind |-> "ack", live |-> m.live] \in Frames
      /\ [kind |-> "nack", live |-> m.live] \in Frames
  BY <1>1 DEF Publishes, Frames
<1>3. \/ Reply(w, Answer(m)) /\ Accept(m.row) /\ UNCHANGED faults
      \/ Reply(w, <<[kind |-> "nack", live |-> m.live]>>) /\ Fault /\ UNCHANGED queue
  BY DEF BrokerHandles
<1> HIDE DEF m
<1>4. \/ /\ Reply(w, <<[kind |-> "return", live |-> m.live], [kind |-> "ack", live |-> m.live]>>)
         /\ Routes(m.row) = {} /\ Accept(m.row) /\ UNCHANGED faults
      \/ /\ Reply(w, <<[kind |-> "ack", live |-> m.live]>>)
         /\ Routes(m.row) # {} /\ Accept(m.row) /\ UNCHANGED faults
      \/ Reply(w, <<[kind |-> "nack", live |-> m.live]>>) /\ Fault /\ UNCHANGED queue
  BY <1>1, <1>3, AnswerFrames
<1> QED BY <1>1, <1>2, <1>4 DEF m
LEMMA ShapeStep ==
  ASSUME WireInv, [PublisherNext]_publisherVars, NEW v \in Workers
  PROVE  Shape(v)'
<1> DEFINE Same(w) == /\ publishing'[w] = publishing[w] /\ verdict'[w] = verdict[w]
                      /\ toBroker'[w] = toBroker[w] /\ fromBroker'[w] = fromBroker[w]
           Kept(w) == batch'[w] = batch[w] /\ confirmed'[w] = confirmed[w]
<1>t. WireTypeOK /\ \A w \in Workers : Shape(w)
  BY DEF WireInv, PublisherInv
<1>0. ASSUME NEW w \in Workers, Same(w), Mine(w)' PROVE Shape(w)'
  BY <1>0, <1>t DEF Shape, Mine
<1>k. ASSUME NEW w \in Workers, Same(w), Kept(w) PROVE Shape(w)'
  BY <1>0, <1>k, <1>t DEF Shape, Mine
<1>1. ASSUME UNCHANGED <<publishVars, batch, confirmed>> PROVE Shape(v)'
  BY <1>1, <1>k DEF publishVars
<1>2. ASSUME NEW w \in Workers, FindUnprocessed(w), UNCHANGED publishVars PROVE Shape(v)'
  <2>1. CASE v = w
    <3>1. batch[w] = {} /\ confirmed[w] = {} /\ publishing[w] = {}
      BY <1>2, <1>t DEF FindUnprocessed, Shape
    <3>2. confirmed' = confirmed /\ publishing' = publishing
      BY <1>2 DEF FindUnprocessed, publishVars
    <3>3. Mine(w)'
      BY <3>1, <3>2, OneRowFacts DEF Mine
    <3> QED BY <1>0, <1>2, <2>1, <3>3 DEF publishVars
  <2>2. CASE v # w
    BY <1>2, <1>k, <1>t, <2>2 DEF FindUnprocessed, publishVars, WireTypeOK, TypeOK
  <2> QED BY <2>1, <2>2
<1>3. ASSUME NEW w \in Workers, NEW r \in Rows, MarkAsProcessed(w, r), UNCHANGED publishVars
      PROVE  Shape(v)'
  <2>1. CASE v = w
    <3>1. confirmed'[w] = {} /\ publishing'[w] = publishing[w]
      BY <1>3, <1>t DEF MarkAsProcessed, publishVars, WireTypeOK, TypeOK
    <3>2. publishing[w] = {}
      BY <1>3, <1>t DEF MarkAsProcessed, Shape
    <3>3. Mine(w)'
      BY <3>1, <3>2, OneRowFacts DEF Mine
    <3> QED BY <1>0, <1>3, <2>1, <3>3 DEF publishVars
  <2>2. CASE v # w
    BY <1>3, <1>k, <1>t, <2>2 DEF MarkAsProcessed, publishVars, WireTypeOK, TypeOK
  <2> QED BY <2>1, <2>2
<1>4. ASSUME NEW w \in Workers, NEW r \in Rows, Send(w, r) PROVE Shape(v)'
  <2>1. CASE v = w
    <3>1. verdict[w] = "none"
      BY <1>4, LiveFrames DEF Send
    <3>2. Mine(w)'
      BY <1>4, <1>t, OneRowFacts DEF Send, NextOf, relayVars, Shape, Mine, WireTypeOK
    <3> QED BY <1>4, <1>t, <2>1, <3>1, <3>2 DEF Send, Shape, Mine
  <2>2. CASE v # w
    BY <1>4, <1>k, <1>t, <2>2 DEF Send, relayVars, WireTypeOK
  <2> QED BY <2>1, <2>2
<1>5. ASSUME NEW w \in Workers, PublishReturns(w) PROVE Shape(v)'
  <2>1. CASE v = w
    <3>1. publishing[w] # {} /\ toBroker'[w] = toBroker[w] /\ fromBroker'[w] = fromBroker[w]
      BY <1>5, LiveFrames DEF PublishReturns, Confirmed, Nacked
    <3>2. Mine(w)' /\ verdict'[w] = "none"
      <4>1. CASE Fail(w)
        BY <3>1, <4>1, FailShape
      <4>2. CASE Succeed(w)
        BY <4>2, <1>t, OneRowFacts DEF Succeed, Finish, Mine, Shape, WireTypeOK, TypeOK
      <4> QED BY <1>5, <4>1, <4>2 DEF PublishReturns, Confirmed, Nacked
    <3> QED BY <1>t, <2>1, <3>1, <3>2 DEF Shape, Mine
  <2>2. CASE v # w
    BY <1>5, <1>k, <1>t, <2>2
    DEF PublishReturns, Confirmed, Nacked, Fail, Succeed, Finish, WireTypeOK, TypeOK
  <2> QED BY <2>1, <2>2
<1>6. ASSUME NEW w \in Workers, GiveUp(w) PROVE Shape(v)'
  <2>1. CASE v = w
    <3>1. fromBroker'[w] = Abandon(fromBroker[w]) /\ fromBroker[w] \in Seq(Frames)
      BY <1>6, <1>t DEF GiveUp, WireTypeOK
    <3>2. Mine(w)' /\ verdict'[w] = "none"
      BY <1>6, FailShape DEF GiveUp
    <3>3. Len(fromBroker'[w]) = Len(fromBroker[w]) /\ Dead(fromBroker'[w])
      BY <3>1, HasAbandon, AbandonFrames
    <3> QED BY <1>t, <2>1, <3>2, <3>3 DEF Shape, Mine, Dead
  <2>2. CASE v # w
    BY <1>6, <1>k, <1>t, <2>2 DEF GiveUp, Fail, Finish, WireTypeOK, TypeOK
  <2> QED BY <2>1, <2>2
<1>7. ASSUME NEW w \in Workers, BrokerHandles(w) PROVE Shape(v)'
  <2>1. CASE v = w
    <3> DEFINE m == Head(toBroker[w])
               return == [kind |-> "return", live |-> m.live]
               ack == [kind |-> "ack", live |-> m.live]
               nack == [kind |-> "nack", live |-> m.live]
    <3>1. /\ m \in Publishes /\ return \in Frames /\ ack \in Frames /\ nack \in Frames
          /\ Reply(w, <<return, ack>>) \/ Reply(w, <<ack>>) \/ Reply(w, <<nack>>)
      BY <1>7, Answers
    <3>2. m.live \in BOOLEAN
      BY <3>1 DEF Publishes
    <3> HIDE DEF m
    <3>3. /\ <<return, ack>> \in Seq(Frames) /\ <<ack>> \in Seq(Frames) /\ <<nack>> \in Seq(Frames)
      BY <3>1
    <3>4. ASSUME NEW a, a = <<return, ack>> \/ a = <<ack>> \/ a = <<nack>>,
                 NEW i \in DOMAIN a, a[i].live /\ a[i].kind = "return"
          PROVE  i + 1 = Len(a) /\ a[i + 1] = [kind |-> "ack", live |-> TRUE]
      <4>1. CASE a = <<return, ack>>
        <5>1. i = 1 \/ i = 2
          BY <3>4, <4>1
        <5>2. Len(a) = 2 /\ a[1] = return /\ a[2] = ack
          BY <4>1
        <5>3. i = 1 /\ m.live
          BY <3>4, <5>1, <5>2
        <5> QED BY <3>2, <5>2, <5>3
      <4>2. CASE a = <<ack>> \/ a = <<nack>>
        <5>1. i = 1 /\ a[1].kind # "return"
          BY <3>4, <4>2
        <5> QED BY <3>4, <5>1
      <4> QED BY <3>4, <4>1, <4>2
    <3> HIDE DEF return, ack, nack
    <3> QED BY <1>7, <2>1, <3>1, <3>3, <3>4, ReplyShape
  <2>2. CASE v # w
    BY <1>7, <1>k, <1>t, <2>2 DEF BrokerHandles, Reply, WireTypeOK
  <2> QED BY <2>1, <2>2
<1>8. ASSUME NEW w \in Workers, ReadFrame(w) PROVE Shape(v)'
  <2>1. CASE v = w
    BY <1>8, <2>1, ReadShape
  <2>2. CASE v # w
    <3>1. verdict'[v] = verdict[v]
      BY <1>8, <1>t, <2>2 DEF ReadFrame, WireTypeOK
    <3> QED BY <1>8, <1>k, <1>t, <2>2, <3>1 DEF ReadFrame, relayVars, WireTypeOK
  <2> QED BY <2>1, <2>2
<1>9. ASSUME NEW w \in Workers, Restart(w) PROVE Shape(v)'
  <2>1. CASE v = w
    <3>1. /\ publishing'[w] = {} /\ confirmed'[w] = {} /\ batch'[w] = {}
          /\ verdict'[w] = "none" /\ fromBroker'[w] = <<>>
      BY <1>9, <1>t DEF Restart, Forget, Finish, WireTypeOK, TypeOK
    <3>2. Len(fromBroker'[w]) = 0 /\ DOMAIN fromBroker'[w] = {}
      BY <3>1
    <3> QED BY <2>1, <3>1, <3>2, OneRowFacts, PublisherAssumption DEF Shape
  <2>2. CASE v # w
    BY <1>9, <1>k, <1>t, <2>2 DEF Restart, Forget, Finish, WireTypeOK, TypeOK
  <2> QED BY <2>1, <2>2
<1> QED BY <1>1, <1>2, <1>3, <1>4, <1>5, <1>6, <1>7, <1>8, <1>9
        DEF PublisherNext, WorkerStep, Commit, Bind, publisherVars, relayVars, publishVars

LEMMA WireStep == WireInv /\ [PublisherNext]_publisherVars => WireInv'
  BY ShapeStep, PublisherStep DEF WireInv
-----------------------------------------------------------------------------
(* What each step does to the potential of the worker that takes it. *)

LEMMA FewerOwed ==
  ASSUME WireInv, WireInv', NEW w \in Workers, NEW r \in Rows, ~Blocked(w), ~Blocked(w)',
         Settled(w, r) => Settled(w, r)', Credit(w)' <= Credit(w)
  PROVE  Potential(w, r)' <= Potential(w, r)
<1>1. /\ Due(w, r) \in 0..1 /\ Due(w, r)' \in 0..1
      /\ Credit(w) \in Nat /\ Credit(w)' \in Nat
  BY WireSized, StaysSized DEF Sized, SizesOK
<1>2. Due(w, r)' <= Due(w, r)
  BY DEF Due
<1>3. Potential(w, r) = Owed(Due(w, r), Credit(w))
  BY DEF Potential
<1>4. Potential(w, r)' = Owed(Due(w, r)', Credit(w)')
  BY DEF Potential, Owed
<1>5. Owed(Due(w, r)', Credit(w)') <= Owed(Due(w, r), Credit(w))
  BY <1>1, <1>2, OwedGrows
<1> QED BY <1>3, <1>4, <1>5

(* The wire of w is as it was. *)
LEMMA SameWire ==
  ASSUME WireInv, WireInv', NEW w \in Workers, NEW r \in Rows, NEW d \in 0..1,
         publishing'[w] = publishing[w], verdict'[w] = verdict[w],
         toBroker'[w] = toBroker[w], fromBroker'[w] = fromBroker[w],
         returns'[w] = returns[w],
         d = 0 => (Settled(w, r) => Settled(w, r)')
  PROVE  Potential(w, r)' <= Potential(w, r) + d
<1>1. /\ Due(w, r) \in 0..1 /\ Due(w, r)' \in 0..1
      /\ Credit(w) \in Nat /\ Credit(w)' \in Nat
      /\ Potential(w, r) \in Nat /\ Potential(w, r)' \in Nat
  BY WireSized, StaysSized DEF Sized, SizesOK
<1>2. Blocked(w)' <=> Blocked(w)
  BY DEF Blocked
<1>3. Credit(w)' = Credit(w)
  BY DEF Credit, Abandoned, Stale, StaleOnWire, Acked, Has, Dead
<1>4. Due(w, r)' <= Due(w, r) + d
  BY <1>1 DEF Due
<1>5. CASE Blocked(w)
  BY <1>1, <1>2, <1>5 DEF Potential
<1>6. CASE ~Blocked(w)
  <2>1. Potential(w, r) = Due(w, r) + (WireSize - 1) * Credit(w)
    BY <1>6 DEF Potential, Owed
  <2>2. Potential(w, r)' = Due(w, r)' + (WireSize - 1) * Credit(w)
    BY <1>2, <1>3, <1>6 DEF Potential, Owed
  <2>3. (WireSize - 1) * Credit(w) \in Nat
    <3>1. WireSize - 1 \in Nat
      BY PublisherAssumption
    <3> QED BY <1>1, <3>1
  <2> DEFINE x == (WireSize - 1) * Credit(w)
  <2> HIDE DEF x
  <2>4. x \in Nat /\ Potential(w, r) = Due(w, r) + x /\ Potential(w, r)' = Due(w, r)' + x
    BY <2>1, <2>2, <2>3 DEF x
  <2> QED BY <1>1, <1>4, <2>4
<1> QED BY <1>5, <1>6

LEMMA BystanderPays ==
  ASSUME WireInv, WireInv', NEW w \in Workers, NEW r \in Rows,
         publishing'[w] = publishing[w], verdict'[w] = verdict[w],
         toBroker'[w] = toBroker[w], fromBroker'[w] = fromBroker[w],
         returns'[w] = returns[w],
         batch'[w] = batch[w], confirmed'[w] = confirmed[w],
         outbox[r] = "processed" => outbox'[r] = "processed"
  PROVE  Potential(w, r)' <= Potential(w, r)
<1>1. Settled(w, r) => Settled(w, r)'
  BY DEF Settled, StaleOnWire, Acked, Has
<1>2. Potential(w, r)' <= Potential(w, r) + 0
  BY <1>1, SameWire
<1>3. Potential(w, r) \in Nat /\ Potential(w, r)' \in Nat
  BY WireSized, StaysSized DEF Sized, SizesOK
<1> QED BY <1>2, <1>3

LEMMA FindPays ==
  ASSUME WireInv, WireInv', NEW w \in Workers, NEW r \in Rows,
         FindUnprocessed(w), UNCHANGED publishVars
  PROVE  Potential(w, r)' <= Potential(w, r)
<1>1. Settled(w, r) => Settled(w, r)'
  <2>1. outbox' = outbox /\ confirmed' = confirmed /\ publishVars' = publishVars
    BY DEF FindUnprocessed
  <2>2. outbox[r] = "processed" => r \notin batch'[w]
    BY DEF FindUnprocessed, Unprocessed, WireInv, PublisherInv, WireTypeOK, TypeOK
  <2> QED BY <2>1, <2>2 DEF Settled, StaleOnWire, Acked, Has, publishVars
<1>2. Potential(w, r)' <= Potential(w, r) + 0
  BY <1>1, SameWire DEF publishVars
<1>3. Potential(w, r) \in Nat /\ Potential(w, r)' \in Nat
  BY WireSized, StaysSized DEF Sized, SizesOK
<1> QED BY <1>2, <1>3

LEMMA MarkPays ==
  ASSUME WireInv, WireInv', NEW w \in Workers, NEW r \in Rows, NEW s \in Rows,
         MarkAsProcessed(w, s), UNCHANGED publishVars
  PROVE  \/ faults' = faults /\ Potential(w, r)' <= Potential(w, r)
         \/ Fault /\ Potential(w, r)' <= Potential(w, r) + (WireSize - 1)
<1>0. /\ Potential(w, r) \in Nat /\ Potential(w, r)' \in Nat
      /\ WireSize \in Nat /\ WireSize >= 2
  BY WireSized, StaysSized, PublisherAssumption DEF Sized, SizesOK
<1>1. CASE Fault
  <2>1. Potential(w, r)' <= Potential(w, r) + 1
    BY SameWire DEF publishVars
  <2> QED BY <1>0, <1>1, <2>1
<1>2. CASE UNCHANGED faults /\ outbox' = [outbox EXCEPT ![s] = "processed"]
  <2>1. confirmed[w] = {s} /\ publishing[w] = {}
    BY DEF MarkAsProcessed, WireInv, Shape, OneRow
  <2>2. batch'[w] = batch[w] \ {s} /\ outbox'[s] = "processed" /\ \A q \in Rows \ {s} : outbox'[q] = outbox[q]
    BY <1>2 DEF MarkAsProcessed, WireInv, PublisherInv, WireTypeOK, TypeOK
  <2>3. Settled(w, r) => Settled(w, r)'
    BY <2>1, <2>2 DEF Settled
  <2>4. Potential(w, r)' <= Potential(w, r) + 0
    BY <2>3, SameWire DEF publishVars
  <2> QED BY <1>0, <1>2, <2>4
<1> QED BY <1>1, <1>2 DEF MarkAsProcessed

LEMMA SendPays ==
  ASSUME WireInv, WireInv', NEW w \in Workers, NEW r \in Rows, NEW s \in Rows, Send(w, s)
  PROVE  Potential(w, r)' <= Potential(w, r)
<1> DEFINE x == [row |-> s, live |-> TRUE]
<1>1. /\ toBroker[w] \in Seq(Publishes) /\ toBroker'[w] = Append(toBroker[w], x)
      /\ fromBroker' = fromBroker /\ returns' = returns /\ verdict' = verdict
      /\ outbox' = outbox /\ batch' = batch /\ confirmed' = confirmed
      /\ publishing[w] = {}
  BY DEF Send, relayVars, WireInv, PublisherInv, WireTypeOK
<1>2. verdict[w] = "none" /\ Dead(toBroker[w]) /\ Dead(fromBroker[w])
  BY <1>1, LiveFrames
<1>3. ~Acked(w) /\ ~Acked(w)'
  BY <1>1, <1>2, DeadHas DEF Acked
<1>4. Abandoned(w)' = Abandoned(w)
  <2>1. x \in Publishes
    BY DEF Publishes
  <2>2. /\ Len(toBroker'[w]) = Len(toBroker[w]) + 1 /\ Len(toBroker[w]) \in Nat
        /\ toBroker'[w][Len(toBroker[w]) + 1] = x
        /\ DOMAIN toBroker'[w] = 1..(Len(toBroker[w]) + 1)
    BY <1>1, <2>1, AppendProperties, LenProperties
  <2>3. Len(toBroker[w]) + 1 \in DOMAIN toBroker'[w]
    BY <2>2
  <2>4. ~Dead(toBroker'[w])
    BY <2>2, <2>3 DEF Dead
  <2> QED BY <1>2, <2>2, <2>4 DEF Abandoned, Dead
<1>5. StaleOnWire(w)' <=> StaleOnWire(w)
  BY <1>1 DEF StaleOnWire, Has
<1>6. Credit(w)' = Credit(w)
  BY <1>1, <1>3, <1>4, <1>5 DEF Credit, Stale
<1>7. Settled(w, r) => Settled(w, r)'
  BY <1>1, <1>3 DEF Settled
<1>8. Blocked(w)' <=> Blocked(w)
  BY <1>1 DEF Blocked
<1>9. /\ Potential(w, r) \in Nat /\ Potential(w, r)' \in Nat
      /\ Credit(w) \in Nat
  BY WireSized, StaysSized DEF Sized, SizesOK
<1>10. CASE Blocked(w)
  BY <1>1, <1>8, <1>9, <1>10 DEF Potential
<1>11. CASE ~Blocked(w)
  BY <1>6, <1>7, <1>8, <1>9, <1>11, FewerOwed
<1> QED BY <1>10, <1>11
LEMMA ReturnsPay ==
  ASSUME WireInv, WireInv', NEW w \in Workers, NEW r \in Rows, PublishReturns(w)
  PROVE  Potential(w, r)' <= Potential(w, r)
<1>t. WireTypeOK /\ Shape(w)
  BY DEF WireInv, PublisherInv
<1>1. /\ verdict[w] # "none" /\ toBroker[w] = <<>> /\ fromBroker[w] = <<>>
      /\ UNCHANGED <<toBroker, fromBroker, outbox>> /\ Finish(w)
  BY <1>t DEF PublishReturns, Confirmed, Nacked, Fail, Succeed, Shape
<1>2. ~Blocked(w) /\ ~Blocked(w)' /\ Abandoned(w)' = Abandoned(w)
      /\ ~StaleOnWire(w) /\ ~StaleOnWire(w)' /\ \A k, l : ~Has(fromBroker[w], k, l)
  BY <1>1 DEF Blocked, Abandoned, StaleOnWire, Has, Dead
<1>3. publishing'[w] = {} /\ verdict'[w] = "none"
  BY <1>1, <1>t DEF Finish, WireTypeOK
<1>4. ~Acked(w)'
  BY <1>1, <1>2, <1>3 DEF Acked
<1>5. publishing[w] # {} /\ confirmed[w] = {}
  BY <1>1, <1>t, LiveFrames DEF Shape
<1>6. CASE returns[w] = 0 /\ Succeed(w) /\ UNCHANGED returns
  <2>1. ~Stale(w)'
    BY <1>2, <1>6 DEF Stale
  <2>2. Settled(w, r) => Settled(w, r)'
    <3>1. confirmed'[w] = publishing[w] /\ batch' = batch
      BY <1>6, <1>t DEF Succeed, WireTypeOK, TypeOK
    <3> QED BY <1>1, <1>5, <3>1 DEF Settled
  <2> QED BY <1>2, <2>1, <2>2, FewerOwed, WireSized, StaysSized DEF Credit, Sized, SizesOK
<1>7. CASE Fail(w) /\ \/ verdict[w] = "ack" /\ returns[w] = 1 /\ returns'[w] = 0
                      \/ verdict[w] = "nack" /\ UNCHANGED returns
  <2>1. Stale(w)' => Stale(w)
    <3>1. verdict[w] = "nack" => ~Acked(w)
      BY <1>2 DEF Acked
    <3> QED BY <1>2, <1>7, <3>1 DEF Stale
  <2>2. Settled(w, r) => Settled(w, r)'
    <3>1. confirmed' = confirmed /\ batch'[w] = batch[w] \ publishing[w]
      BY <1>7, <1>t DEF Fail, WireTypeOK, TypeOK
    <3>2. ~(Acked(w) /\ (returns[w] = 0 \/ StaleOnWire(w)))
      <4>1. verdict[w] = "nack" => ~Acked(w)
        BY <1>2 DEF Acked
      <4> QED BY <1>2, <1>7, <4>1
    <3> QED BY <1>1, <3>1, <3>2 DEF Settled
  <2> QED BY <1>2, <2>1, <2>2, FewerOwed, WireSized, StaysSized DEF Credit, Sized, SizesOK
<1> QED BY <1>t, <1>6, <1>7 DEF PublishReturns, Confirmed, Nacked, WireTypeOK

(* One more stale return, or one more publish that nobody waits for. *)
LEMMA OneMoreCredit ==
  ASSUME WireInv, WireInv', NEW w \in Workers, NEW r \in Rows, ~Blocked(w), ~Blocked(w)',
         \/ Credit(w)' <= Credit(w)
         \/ Credit(w)' = Credit(w) + 1 /\ (Settled(w, r) => Settled(w, r)')
  PROVE  Potential(w, r)' <= Potential(w, r) + (WireSize - 1)
<1>1. /\ Due(w, r) \in 0..1 /\ Due(w, r)' \in 0..1
      /\ Credit(w) \in Nat /\ Credit(w)' \in Nat
      /\ Potential(w, r) \in Nat /\ Potential(w, r)' \in Nat
      /\ WireSize \in Nat /\ WireSize >= 2
  BY WireSized, StaysSized, PublisherAssumption DEF Sized, SizesOK
<1>2. Potential(w, r) = Owed(Due(w, r), Credit(w))
  BY DEF Potential
<1>3. Potential(w, r)' = Owed(Due(w, r)', Credit(w)')
  BY DEF Potential, Owed
<1>4. CASE Credit(w)' <= Credit(w)
  <2>1. Owed(Due(w, r)', Credit(w)') <= Owed(1, Credit(w))
    BY <1>1, <1>4, OwedGrows
  <2>2. Owed(1, Credit(w)) <= Owed(Due(w, r), Credit(w)) + 1
    <3> DEFINE x == (WireSize - 1) * Credit(w)
    <3>1. x \in Nat
      <4>1. WireSize - 1 \in Nat
        BY <1>1
      <4> QED BY <1>1, <4>1
    <3>2. Owed(1, Credit(w)) = 1 + x /\ Owed(Due(w, r), Credit(w)) = Due(w, r) + x
      BY DEF Owed
    <3> HIDE DEF x
    <3> QED BY <1>1, <3>1, <3>2
  <2>3. Owed(1, Credit(w)) \in Nat
    BY <1>1, OwedFacts
  <2> QED BY <1>1, <1>2, <1>3, <2>1, <2>2, <2>3
<1>5. CASE Credit(w)' = Credit(w) + 1 /\ (Settled(w, r) => Settled(w, r)')
  <2>1. Due(w, r)' <= Due(w, r)
    BY <1>5 DEF Due
  <2>2. Owed(Due(w, r)', Credit(w) + 1) <= Owed(Due(w, r), Credit(w) + 1)
    BY <1>1, <2>1, OwedGrows
  <2>3. Owed(Due(w, r), Credit(w) + 1) = Owed(Due(w, r), Credit(w)) + (WireSize - 1)
    BY <1>1, OwedFacts
  <2> QED BY <1>1, <1>2, <1>3, <1>5, <2>2, <2>3
<1> QED BY <1>4, <1>5

LEMMA GiveUpPays ==
  ASSUME WireInv, WireInv', NEW w \in Workers, NEW r \in Rows, GiveUp(w)
  PROVE  \/ faults' = faults /\ Potential(w, r)' <= Potential(w, r)
         \/ Fault /\ Potential(w, r)' <= Potential(w, r) + (WireSize - 1)
<1>t. WireTypeOK /\ Shape(w)
  BY DEF WireInv, PublisherInv
<1>n. /\ Abandoned(w) \in Nat /\ Abandoned(w)' \in Nat
      /\ Potential(w, r) \in Nat /\ Potential(w, r)' \in Nat
      /\ WireSize \in Nat /\ WireSize >= 2
  BY WireSized, StaysSized, PublisherAssumption DEF Sized, SizesOK
<1>1. /\ publishing[w] # {} /\ publishing'[w] = {} /\ verdict'[w] = "none"
      /\ confirmed' = confirmed /\ batch'[w] = batch[w] \ publishing[w]
      /\ toBroker'[w] = Abandon(toBroker[w]) /\ fromBroker'[w] = Abandon(fromBroker[w])
      /\ returns' = returns /\ outbox' = outbox
      /\ toBroker[w] \in Seq(Publishes) /\ fromBroker[w] \in Seq(Frames)
  BY <1>t DEF GiveUp, Fail, Finish, WireTypeOK, TypeOK
<1>2. /\ Len(fromBroker'[w]) = Len(fromBroker[w])
      /\ fromBroker[w] # <<>> => fromBroker'[w] # <<>>
                                 /\ Head(fromBroker'[w]).kind = Head(fromBroker[w]).kind
      /\ Has(fromBroker'[w], "return", FALSE) <=>
            Has(fromBroker[w], "return", TRUE) \/ Has(fromBroker[w], "return", FALSE)
      /\ Dead(fromBroker'[w])
  BY <1>1, HasAbandon, AbandonFrames
<1>3. Blocked(w)' <=> Blocked(w)
  <2>1. fromBroker[w] = <<>> => fromBroker'[w] = <<>>
    BY <1>1, <1>2, AbandonFrames, EmptySeq
  <2> QED BY <1>1, <1>2, <2>1 DEF Blocked
<1>4. CASE Blocked(w)
  <2>1. Potential(w, r)' = Potential(w, r)
    BY <1>2, <1>3, <1>4 DEF Potential
  <2> QED BY <1>n, <2>1 DEF GiveUp
<1>5. CASE ~Blocked(w)
  <2>0. Fault
    BY <1>5 DEF GiveUp
  <2>1. ~Acked(w)'
    BY <1>1, <1>2, DeadHas DEF Acked
  <2>2. Abandoned(w)' = Len(toBroker[w]) /\ Len(toBroker[w]) \in Nat
    <3>1. Dead(toBroker'[w]) /\ Abandon(toBroker[w]) \in Seq(Publishes)
      BY <1>1, AbandonPublishes
    <3>2. DOMAIN Abandon(toBroker[w]) = DOMAIN toBroker[w]
      BY DEF Abandon
    <3>3. Len(toBroker'[w]) = Len(toBroker[w]) /\ Len(toBroker[w]) \in Nat
      BY <1>1, <3>1, <3>2, LenProperties
    <3> QED BY <3>1, <3>3 DEF Abandoned, Dead
  <2>3. ASSUME ~(Acked(w) /\ (returns[w] = 0 \/ StaleOnWire(w)))
        PROVE  Settled(w, r) => Settled(w, r)'
    BY <1>1, <2>3 DEF Settled
  <2>4. CASE ~Dead(toBroker[w])
    <3>1. verdict[w] = "none" /\ Dead(fromBroker[w])
      BY <2>4, LiveFrames
    <3>2. ~Acked(w) /\ ~Has(fromBroker[w], "return", TRUE)
      BY <3>1, DeadHas DEF Acked
    <3>3. Stale(w)' <=> Stale(w)
      BY <1>1, <1>2, <2>1, <3>2 DEF Stale, StaleOnWire, Has
    <3>4. Abandoned(w)' = Abandoned(w) + 1
      BY <2>2, <2>4 DEF Abandoned
    <3>5. Credit(w)' = Credit(w) + 1
      BY <1>n, <3>3, <3>4 DEF Credit
    <3>6. Settled(w, r) => Settled(w, r)'
      BY <2>3, <3>2
    <3> QED BY <1>3, <1>5, <2>0, <3>5, <3>6, OneMoreCredit
  <2>5. CASE Dead(toBroker[w])
    <3>1. Abandoned(w)' = Abandoned(w)
      BY <2>2, <2>5 DEF Abandoned
    <3>2. CASE Stale(w)' /\ ~Stale(w)
      <4>1. Credit(w)' = Credit(w) + 1
        BY <1>n, <3>1, <3>2 DEF Credit
      <4>2. ~(Acked(w) /\ (returns[w] = 0 \/ StaleOnWire(w)))
        <5> SUFFICES ASSUME Acked(w), returns[w] = 0 PROVE FALSE
          BY <3>2 DEF Stale
        <5>1. Has(fromBroker'[w], "return", FALSE)
          BY <1>1, <2>1, <3>2 DEF Stale, StaleOnWire, Has
        <5>2. Has(fromBroker[w], "return", TRUE)
          BY <1>2, <3>2, <5>1 DEF Stale, StaleOnWire
        <5>3. verdict[w] = "ack" /\ fromBroker[w] # <<>>
          BY <5>2 DEF Acked, Has
        <5> QED BY <1>t, <5>3 DEF Shape
      <4>3. Settled(w, r) => Settled(w, r)'
        BY <2>3, <4>2
      <4> QED BY <1>3, <1>5, <2>0, <4>1, <4>3, OneMoreCredit
    <3>3. CASE ~(Stale(w)' /\ ~Stale(w))
      <4>1. Credit(w)' <= Credit(w)
        BY <1>n, <3>1, <3>3 DEF Credit
      <4> QED BY <1>3, <1>5, <2>0, <4>1, OneMoreCredit
    <3> QED BY <3>2, <3>3
  <2> QED BY <2>4, <2>5
<1> QED BY <1>4, <1>5

LEMMA RestartPays ==
  ASSUME WireInv, WireInv', NEW w \in Workers, NEW r \in Rows, Restart(w)
  PROVE  Fault /\ Potential(w, r)' <= Potential(w, r) + (WireSize - 1)
<1>n. /\ Potential(w, r) \in Nat /\ Due(w, r)' \in 0..1
      /\ WireSize \in Nat /\ WireSize >= 2
  BY WireSized, StaysSized, PublisherAssumption DEF Sized, SizesOK
<1>1. /\ toBroker'[w] = <<>> /\ fromBroker'[w] = <<>> /\ returns'[w] = 0
  BY DEF Restart, WireInv, PublisherInv, WireTypeOK
<1>2. ~Blocked(w)' /\ Credit(w)' = 0
  BY <1>1 DEF Blocked, Credit, Abandoned, Stale, StaleOnWire, Has, Dead
<1>3. Potential(w, r)' = Due(w, r)' + (WireSize - 1) * 0
  BY <1>2 DEF Potential, Owed
<1>4. Potential(w, r)' = Due(w, r)'
  BY <1>n, <1>3
<1> QED BY <1>n, <1>4 DEF Restart
LEMMA LessCredit ==
  ASSUME WireInv, WireInv', NEW w \in Workers, NEW r \in Rows, ~Blocked(w), ~Blocked(w)',
         Credit(w) = Credit(w)' + 1
  PROVE  /\ Potential(w, r)' <= Potential(w, r)
         /\ (Settled(w, r) => Settled(w, r)') => Potential(w, r)' + 1 <= Potential(w, r)
<1>1. /\ Due(w, r) \in 0..1 /\ Due(w, r)' \in 0..1 /\ Credit(w)' \in Nat
      /\ WireSize \in Nat /\ WireSize >= 2
  BY WireSized, StaysSized, PublisherAssumption DEF Sized, SizesOK
<1>2. Potential(w, r) = Owed(Due(w, r), Credit(w)' + 1)
  BY DEF Potential
<1>3. Potential(w, r)' = Due(w, r)' + (WireSize - 1) * Credit(w)'
  BY DEF Potential, Owed
<1>4. Potential(w, r) = Due(w, r) + (WireSize - 1) * Credit(w)' + (WireSize - 1)
  BY <1>1, <1>2, OwedFacts DEF Owed
<1>5. (Settled(w, r) => Settled(w, r)') => Due(w, r)' <= Due(w, r)
  BY DEF Due
<1> DEFINE x == (WireSize - 1) * Credit(w)'
<1>6. x \in Nat
  <2>1. WireSize - 1 \in Nat
    BY <1>1
  <2> QED BY <1>1, <2>1
<1>7. Potential(w, r)' = Due(w, r)' + x /\ Potential(w, r) = Due(w, r) + x + (WireSize - 1)
  BY <1>3, <1>4
<1> HIDE DEF x
<1> QED BY <1>1, <1>5, <1>6, <1>7

LEMMA SettledNow ==
  ASSUME WireInv, WireInv', NEW w \in Workers, NEW r \in Rows, ~Blocked(w), ~Blocked(w)',
         ~Settled(w, r), Settled(w, r)', Credit(w)' = Credit(w)
  PROVE  Potential(w, r)' + 1 <= Potential(w, r)
<1>1. Credit(w) \in Nat /\ WireSize - 1 \in Nat
  BY WireSized, PublisherAssumption DEF Sized, SizesOK
<1> DEFINE x == (WireSize - 1) * Credit(w)
<1>2. x \in Nat
  BY <1>1
<1>3. Potential(w, r) = 1 + x
  BY DEF Potential, Owed, Due
<1>4. Potential(w, r)' = 0 + x
  BY DEF Potential, Owed, Due
<1> HIDE DEF x
<1> QED BY <1>2, <1>3, <1>4

(* The reader comes to stand before a full buffer. *)
LEMMA NowBlocked ==
  ASSUME WireInv, WireInv', NEW w \in Workers, NEW r \in Rows, ~Blocked(w), Blocked(w)',
         Credit(w) > 0
  PROVE  Potential(w, r)' <= Potential(w, r)
<1>1. Due(w, r) \in 0..1 /\ Credit(w) \in Nat /\ Potential(w, r) \in Nat /\ WireSize \in Nat
  BY WireSized, PublisherAssumption DEF Sized, SizesOK
<1>2. Potential(w, r) >= WireSize - 1
  BY <1>1, OwedFacts DEF Potential
<1>3. fromBroker'[w] # <<>> /\ fromBroker'[w] \in Seq(Frames)
  BY DEF Blocked, WireInv, PublisherInv, WireTypeOK
<1>4. Len(fromBroker'[w]) \in Nat \ {0}
  BY <1>3, EmptySeq
<1>5. Potential(w, r)' = WireSize - Len(fromBroker'[w])
  BY DEF Potential
<1> QED BY <1>1, <1>2, <1>4, <1>5

LEMMA ReadPays ==
  ASSUME WireInv, WireInv', NEW w \in Workers, NEW r \in Rows, ReadFrame(w)
  PROVE  Potential(w, r)' <= Potential(w, r)
<1> DEFINE s == fromBroker[w]
           t == Tail(s)
<1>1. /\ s \in Seq(Frames) /\ s # <<>> /\ fromBroker'[w] = t /\ ~Blocked(w)
      /\ UNCHANGED <<toBroker, publishing, outbox, batch, confirmed>>
      /\ returns[w] \in 0..1
  BY DEF ReadFrame, relayVars, WireInv, PublisherInv, WireTypeOK
<1>2. /\ Len(s) \in Nat \ {0} /\ DOMAIN s = 1..Len(s) /\ Head(s) = s[1] /\ s[1] \in Frames
      /\ t \in Seq(Frames) /\ Len(t) = Len(s) - 1 /\ DOMAIN t = 1..(Len(s) - 1)
      /\ \A i \in 1..(Len(s) - 1) : t[i] = s[i + 1]
  BY <1>1, TailFacts
<1>3. Shape(w) /\ verdict[w] = "none"
  BY <1>1 DEF WireInv, Shape
<1>h. \A k, l : Has(s, k, l) <=> (s[1].kind = k /\ s[1].live = l) \/ Has(t, k, l)
  BY <1>1, HasTail
<1>l. s[1].live = TRUE \/ s[1].live = FALSE
  BY <1>2 DEF Frames
<1>n. /\ Abandoned(w) \in Nat /\ Abandoned(w)' = Abandoned(w)
      /\ Stale(w) => Credit(w) > 0
  BY <1>1, WireSized DEF Sized, SizesOK, Abandoned, Dead
<1>s. ASSUME Stale(w)' => Stale(w) PROVE Credit(w)' <= Credit(w)
  BY <1>n, <1>s DEF Credit
<1>4. CASE s[1].kind = "return"
  <2>1. returns[w] = 0 /\ returns'[w] = 1 /\ verdict'[w] = "none"
    BY <1>1, <1>2, <1>3, <1>4 DEF ReadFrame, Blocked, WireInv, PublisherInv, WireTypeOK
  <2>2. CASE s[1].live
    <3>1. 1 \in DOMAIN s
      BY <1>2
    <3>2. Len(s) = 2 /\ s[2] = [kind |-> "ack", live |-> TRUE]
      <4>1. \A i \in DOMAIN s : s[i].live /\ s[i].kind = "return" =>
               i + 1 = Len(s) /\ s[i + 1] = [kind |-> "ack", live |-> TRUE]
        BY <1>3 DEF Shape
      <4>2. 1 + 1 = Len(s) /\ s[1 + 1] = [kind |-> "ack", live |-> TRUE]
        BY <1>4, <2>2, <3>1, <4>1
      <4> QED BY <4>2
    <3>3. DOMAIN t = 1..1 /\ t[1] = [kind |-> "ack", live |-> TRUE] /\ t # <<>>
      <4>1. DOMAIN t = 1..1
        BY <1>2, <3>2
      <4>2. 1 \in 1..(Len(s) - 1) /\ s[1 + 1] = s[2]
        BY <3>2
      <4>3. t[1] = [kind |-> "ack", live |-> TRUE]
        BY <1>2, <3>2, <4>2
      <4>4. t # <<>>
        BY <4>1
      <4> QED BY <4>1, <4>3, <4>4
    <3>4. Has(t, "ack", TRUE) /\ ~Has(t, "return", TRUE) /\ ~Has(t, "return", FALSE)
      BY <3>3 DEF Has
    <3>5. Acked(w)' /\ ~StaleOnWire(w)'
      BY <1>1, <3>4 DEF Acked, StaleOnWire, Has
    <3>6. ~Acked(w)
      <4>1. Has(s, "return", TRUE)
        BY <1>4, <2>2, <3>1 DEF Has
      <4> QED BY <1>3, <4>1 DEF Acked
    <3>7. ~Blocked(w)'
      <4>1. Head(t) = t[1]
        BY <1>2, <3>3, TailFacts
      <4> QED BY <1>1, <3>3, <4>1 DEF Blocked
    <3>8. Settled(w, r) => Settled(w, r)'
      BY <1>1, <3>6 DEF Settled
    <3> QED BY <1>1, <1>s, <3>5, <3>7, <3>8, FewerOwed DEF Stale
  <2>3. CASE ~s[1].live
    <3>1. StaleOnWire(w) /\ Stale(w)
      <4>1. 1 \in DOMAIN s /\ s[1].live = FALSE
        BY <1>2, <1>l, <2>3
      <4> QED BY <1>4, <4>1 DEF Stale, StaleOnWire, Has
    <3>2. Acked(w)' <=> Acked(w)
      <4>1. /\ Has(s, "ack", TRUE) <=> Has(t, "ack", TRUE)
            /\ Has(s, "return", TRUE) <=> Has(t, "return", TRUE)
        BY <1>h, <1>4, <2>3
      <4> QED BY <1>1, <1>3, <2>1, <4>1 DEF Acked, Has
    <3>3. CASE Blocked(w)'
      BY <1>1, <1>n, <3>1, <3>3, NowBlocked
    <3>4. CASE ~Blocked(w)' /\ (StaleOnWire(w)' \/ ~Acked(w)')
      <4>1. Settled(w, r) => Settled(w, r)'
        BY <1>1, <3>1, <3>2, <3>4 DEF Settled
      <4> QED BY <1>1, <1>s, <3>1, <3>4, <4>1, FewerOwed
    <3>5. CASE ~Blocked(w)' /\ ~StaleOnWire(w)' /\ Acked(w)'
      <4>1. ~Stale(w)'
        BY <3>5 DEF Stale
      <4>2. Credit(w) = Credit(w)' + 1
        BY <1>n, <3>1, <4>1 DEF Credit
      <4> QED BY <1>1, <3>5, <4>2, LessCredit
    <3> QED BY <3>3, <3>4, <3>5
  <2> QED BY <2>2, <2>3
<1>5. CASE s[1].kind # "return" /\ ~s[1].live
  <2>1. returns'[w] = returns[w] /\ verdict'[w] = "none"
    BY <1>2, <1>3, <1>5 DEF ReadFrame, WireInv, PublisherInv, WireTypeOK
  <2>2. /\ Has(s, "ack", TRUE) <=> Has(t, "ack", TRUE)
        /\ Has(s, "return", TRUE) <=> Has(t, "return", TRUE)
        /\ Has(s, "return", FALSE) <=> Has(t, "return", FALSE)
    BY <1>h, <1>5
  <2>3. (Acked(w)' <=> Acked(w)) /\ (StaleOnWire(w)' <=> StaleOnWire(w))
    <3>1. /\ Acked(w) <=> Has(s, "ack", TRUE) /\ ~Has(s, "return", TRUE)
          /\ StaleOnWire(w) <=> Has(s, "return", FALSE)
      BY <1>3 DEF Acked, StaleOnWire
    <3>2. Acked(w)' <=> Has(t, "ack", TRUE) /\ ~Has(t, "return", TRUE)
      BY <1>1, <2>1 DEF Acked, Has
    <3>3. StaleOnWire(w)' <=> Has(t, "return", FALSE)
      BY <1>1 DEF StaleOnWire, Has
    <3> QED BY <2>2, <3>1, <3>2, <3>3
  <2>4. Settled(w, r) => Settled(w, r)'
    BY <1>1, <2>1, <2>3 DEF Settled
  <2>5. CASE Blocked(w)'
    <3>1. t # <<>> /\ Head(t).kind = "return" /\ returns[w] = 1
      BY <1>1, <2>1, <2>5 DEF Blocked
    <3>2. Head(t) = t[1] /\ 1 \in DOMAIN t /\ t[1] \in Frames
      BY <1>2, <3>1, TailFacts
    <3>3. Has(t, "return", TRUE) \/ Has(t, "return", FALSE)
      BY <3>1, <3>2 DEF Has, Frames
    <3>4. Stale(w)
      BY <1>3, <2>2, <3>1, <3>3 DEF Stale, StaleOnWire, Acked
    <3> QED BY <1>1, <1>n, <2>5, <3>4, NowBlocked
  <2>6. CASE ~Blocked(w)'
    BY <1>1, <1>s, <2>1, <2>3, <2>4, <2>6, FewerOwed DEF Stale
  <2> QED BY <2>5, <2>6
<1>6. CASE s[1].kind # "return" /\ s[1].live
  <2>1. returns'[w] = returns[w] /\ verdict'[w] = s[1].kind
    BY <1>2, <1>3, <1>6 DEF ReadFrame, WireInv, PublisherInv, WireTypeOK
  <2>2. 1 \in DOMAIN s
    BY <1>2
  <2>3. Len(s) = 1
    BY <1>6, <2>2, LiveFrames
  <2>4. \A k, l : ~Has(t, k, l)
    BY <1>2, <2>3 DEF Has
  <2>5. t = <<>>
    BY <1>2, <2>3, EmptySeq
  <2>6. /\ Has(s, "ack", TRUE) <=> s[1].kind = "ack"
        /\ ~Has(s, "return", TRUE) /\ ~Has(s, "return", FALSE)
    BY <1>h, <1>6, <1>l, <2>4
  <2>7. ~StaleOnWire(w) /\ ~StaleOnWire(w)'
    BY <1>1, <2>4, <2>6 DEF StaleOnWire, Has
  <2>8. Acked(w)' <=> Acked(w)
    <3>1. Has(fromBroker[w], "ack", TRUE) <=> s[1].kind = "ack"
      BY <2>6
    <3>2. ~Has(fromBroker[w], "return", TRUE) /\ verdict[w] # "ack"
      BY <1>3, <2>6
    <3>3. Acked(w) <=> s[1].kind = "ack"
      BY <3>1, <3>2 DEF Acked
    <3>4. ~Has(fromBroker[w], "ack", TRUE)'
      BY <1>1, <2>4 DEF Has
    <3>5. Acked(w)' <=> verdict'[w] = "ack"
      BY <3>4 DEF Acked
    <3> QED BY <2>1, <3>3, <3>5
  <2>9. ~Blocked(w)'
    BY <1>1, <2>5 DEF Blocked
  <2>10. Settled(w, r) => Settled(w, r)'
    BY <1>1, <2>1, <2>7, <2>8 DEF Settled
  <2> QED BY <1>1, <1>s, <2>1, <2>7, <2>8, <2>9, <2>10, FewerOwed DEF Stale
<1> QED BY <1>4, <1>5, <1>6
(* The broker takes the oldest publish off the connection. *)
LEMMA OneLessOut ==
  ASSUME WireInv, WireInv', NEW w \in Workers, BrokerHandles(w)
  PROVE  LET m == Head(toBroker[w])
         IN  /\ m.live => Abandoned(w) = 0 /\ Abandoned(w)' = 0 /\ publishing[w] = {m.row}
             /\ ~m.live => Abandoned(w) = Abandoned(w)' + 1
<1> DEFINE t == toBroker[w]
           m == Head(t)
<1>1. t \in Seq(Publishes) /\ t # <<>> /\ toBroker'[w] = Tail(t)
  BY DEF BrokerHandles, Reply, WireInv, PublisherInv, WireTypeOK
<1>2. /\ Len(t) \in Nat \ {0} /\ DOMAIN t = 1..Len(t) /\ m = t[1]
      /\ Tail(t) \in Seq(Publishes) /\ Len(Tail(t)) = Len(t) - 1
      /\ DOMAIN Tail(t) = 1..(Len(t) - 1)
      /\ \A i \in 1..(Len(t) - 1) : Tail(t)[i] = t[i + 1]
  BY <1>1, TailFacts
<1>3. 1 \in DOMAIN t
  BY <1>2
<1>4. CASE m.live
  <2>1. 1 = Len(t) /\ publishing[w] = {t[1].row} /\ ~Dead(t)
    BY <1>2, <1>3, <1>4 DEF WireInv, PublisherInv, Tracked, Outgoing, Dead
  <2>2. Abandoned(w) = 0
    BY <2>1 DEF Abandoned
  <2>3. Len(Tail(t)) = 0 /\ Dead(Tail(t))
    BY <1>2, <2>1 DEF Dead
  <2>4. Abandoned(w)' = 0
    BY <1>1, <2>3 DEF Abandoned, Dead
  <2> QED BY <1>2, <1>4, <2>1, <2>2, <2>4
<1>5. CASE ~m.live
  <2>1. Dead(t) => Dead(Tail(t))
    <3> SUFFICES ASSUME Dead(t), NEW i \in DOMAIN Tail(t) PROVE ~Tail(t)[i].live
      BY DEF Dead
    <3>1. i + 1 \in DOMAIN t /\ Tail(t)[i] = t[i + 1]
      BY <1>2
    <3> QED BY <3>1 DEF Dead
  <2>2. Dead(Tail(t)) => Dead(t)
    <3> SUFFICES ASSUME Dead(Tail(t)), NEW i \in DOMAIN t PROVE ~t[i].live
      BY DEF Dead
    <3>1. CASE i = 1
      BY <1>2, <1>5, <3>1
    <3>2. CASE i # 1
      <4>1. i - 1 \in DOMAIN Tail(t) /\ Tail(t)[i - 1] = t[i]
        BY <1>2, <3>2
      <4> QED BY <4>1 DEF Dead
    <3> QED BY <3>1, <3>2
  <2>3. Abandoned(w) = IF Dead(t) THEN Len(t) ELSE Len(t) - 1
    BY DEF Abandoned
  <2>4. Abandoned(w)' = IF Dead(t) THEN Len(t) - 1 ELSE (Len(t) - 1) - 1
    BY <1>1, <1>2, <2>1, <2>2 DEF Abandoned, Dead
  <2> QED BY <1>2, <1>5, <2>3, <2>4
<1> QED BY <1>4, <1>5

LEMMA HandlesPays ==
  ASSUME WireInv, WireInv', NEW w \in Workers, NEW r \in Rows, BrokerHandles(w)
  PROVE  LET m == Head(toBroker[w])
         IN  \/ /\ Accept(m.row) /\ faults' = faults
                /\ Potential(w, r)' <= Potential(w, r)
                /\ r = m.row /\ Routes(r) # {} => Potential(w, r)' + 1 <= Potential(w, r)
             \/ UNCHANGED queue /\ Fault /\ Potential(w, r)' <= Potential(w, r)
<1> DEFINE m == Head(toBroker[w])
           f == fromBroker[w]
           return == [kind |-> "return", live |-> m.live]
           ack == [kind |-> "ack", live |-> m.live]
           nack == [kind |-> "nack", live |-> m.live]
<1>1. /\ m \in Publishes /\ return \in Frames /\ ack \in Frames /\ nack \in Frames
      /\ \/ /\ Reply(w, <<return, ack>>) /\ Routes(m.row) = {}
            /\ Accept(m.row) /\ UNCHANGED faults
         \/ /\ Reply(w, <<ack>>) /\ Routes(m.row) # {}
            /\ Accept(m.row) /\ UNCHANGED faults
         \/ Reply(w, <<nack>>) /\ Fault /\ UNCHANGED queue
  BY Answers
<1>2. m.live = TRUE \/ m.live = FALSE
  BY <1>1 DEF Publishes
<1>3. /\ m.live => Abandoned(w) = 0 /\ Abandoned(w)' = 0 /\ publishing[w] = {m.row}
      /\ ~m.live => Abandoned(w) = Abandoned(w)' + 1
  BY OneLessOut
<1>4. /\ UNCHANGED <<outbox, batch, confirmed, publishing, verdict, returns>>
      /\ toBroker[w] # <<>> /\ f \in Seq(Frames) /\ Shape(w)
  BY DEF BrokerHandles, WireInv, PublisherInv, WireTypeOK
<1>5. Dead(f) /\ verdict[w] = "none" /\ ~Acked(w) /\ ~Has(f, "return", TRUE) /\ ~Has(f, "ack", TRUE)
  <2>1. Dead(f) /\ verdict[w] = "none"
    BY <1>4, LiveFrames DEF Shape
  <2> QED BY <2>1, DeadHas DEF Acked
<1>n. /\ Abandoned(w) \in Nat /\ Abandoned(w)' \in Nat /\ Credit(w) \in Nat
      /\ Stale(w) => Credit(w) > 0
      /\ Potential(w, r) \in Nat /\ Potential(w, r)' \in Nat
  BY WireSized, StaysSized DEF Sized, SizesOK
<1>6. ASSUME NEW a \in Seq(Frames), Reply(w, a), NEW j \in Frames, Len(a) > 0, a[1] = j
      PROVE  /\ fromBroker'[w] = f \o a
             /\ \A k, l : Has(f \o a, k, l) <=> Has(f, k, l) \/ Has(a, k, l)
             /\ Blocked(w) => Potential(w, r)' + 1 <= Potential(w, r)
             /\ Blocked(w)' => Blocked(w) \/ (returns[w] = 1 /\ j.kind = "return")
  <2>1. fromBroker'[w] = f \o a
    BY <1>6 DEF Reply, WireInv, PublisherInv, WireTypeOK
  <2>2. /\ Len(f \o a) = Len(f) + Len(a) /\ f \o a \in Seq(Frames)
        /\ Len(f) \in Nat /\ Len(a) \in Nat
        /\ \A i \in 1..Len(f) : (f \o a)[i] = f[i]
        /\ \A i \in 1..Len(a) : (f \o a)[Len(f) + i] = a[i]
    BY <1>4, ConcatFacts
  <2>3. f \o a # <<>> /\ Head(f \o a) = (f \o a)[1]
    <3>1. f \o a # <<>>
      BY <1>6, <2>2, EmptySeq
    <3> QED BY <2>2, <3>1, TailFacts
  <2>4. f # <<>> => Head(f \o a) = Head(f)
    <3> SUFFICES ASSUME f # <<>> PROVE Head(f \o a) = Head(f)
      OBVIOUS
    <3>1. Len(f) \in Nat \ {0} /\ Head(f) = f[1]
      BY <1>4, TailFacts
    <3> QED BY <2>2, <2>3, <3>1
  <2>5. f = <<>> => Head(f \o a) = j
    <3> SUFFICES ASSUME f = <<>> PROVE Head(f \o a) = j
      OBVIOUS
    <3>1. Len(f) = 0 /\ 1 \in 1..Len(a)
      BY <1>6, <2>2
    <3>2. (f \o a)[0 + 1] = a[1]
      BY <2>2, <3>1
    <3> QED BY <1>6, <2>3, <3>2
  <2>6. Blocked(w)' <=> returns[w] = 1 /\ Head(f \o a).kind = "return"
    BY <1>4, <2>1, <2>3 DEF Blocked
  <2>7. Blocked(w) => Potential(w, r)' + 1 <= Potential(w, r)
    <3> SUFFICES ASSUME Blocked(w) PROVE Potential(w, r)' + 1 <= Potential(w, r)
      OBVIOUS
    <3>1. Blocked(w)'
      BY <2>4, <2>6 DEF Blocked
    <3>2. Potential(w, r) = WireSize - Len(f) /\ Potential(w, r)' = WireSize - (Len(f) + Len(a))
      BY <2>1, <2>2, <3>1 DEF Potential
    <3> QED BY <1>6, <2>2, <3>2, PublisherAssumption
  <2>8. Blocked(w)' => Blocked(w) \/ (returns[w] = 1 /\ j.kind = "return")
    BY <2>4, <2>5, <2>6 DEF Blocked
  <2>9. \A k, l : Has(f \o a, k, l) <=> Has(f, k, l) \/ Has(a, k, l)
    BY <1>4, HasConcat
  <2> QED BY <2>1, <2>7, <2>8, <2>9
<1>s. Settled(w, r) => Settled(w, r)'
  BY <1>4, <1>5 DEF Settled
<1>m. r = m.row /\ m.live => ~Settled(w, r)
  BY <1>3, <1>4, <1>5 DEF Settled, Shape
<1> HIDE DEF m, f
<1>7. CASE Reply(w, <<return, ack>>) /\ Routes(m.row) = {} /\ Accept(m.row) /\ UNCHANGED faults
  <2> DEFINE a == <<return, ack>>
  <2>1. /\ a \in Seq(Frames) /\ Len(a) = 2 /\ DOMAIN a = 1..2 /\ a[1] = return /\ a[2] = ack
        /\ Len(a) > 0
    BY <1>1
  <2>2. /\ Has(a, "return", TRUE) <=> m.live
        /\ Has(a, "return", FALSE) <=> ~m.live
    BY <1>2, <2>1 DEF Has
  <2>3. Reply(w, a)
    BY <1>7
  <2>4. a[1].kind = "return" /\ (~Has(a, "ack", TRUE) \/ m.live)
    BY <1>2, <2>1 DEF Has
  <2> HIDE DEF a, return, ack
  <2>5. /\ fromBroker'[w] = f \o a
        /\ \A k, l : Has(f \o a, k, l) <=> Has(f, k, l) \/ Has(a, k, l)
        /\ Blocked(w) => Potential(w, r)' + 1 <= Potential(w, r)
        /\ Blocked(w)' => Blocked(w) \/ returns[w] = 1
    BY <1>1, <1>6, <2>1, <2>3
  <2>6. ~Acked(w)'
    <3>1. ~Has(f \o a, "ack", TRUE) \/ Has(f \o a, "return", TRUE)
      BY <1>5, <2>2, <2>4, <2>5
    <3> QED BY <1>4, <1>5, <2>5, <3>1 DEF Acked, Has
  <2>7. StaleOnWire(w)' <=> StaleOnWire(w) \/ ~m.live
    <3>1. Has(f \o a, "return", FALSE) <=> Has(f, "return", FALSE) \/ ~m.live
      BY <2>2, <2>5
    <3> QED BY <2>5, <3>1 DEF StaleOnWire, Has, f
  <2>8. Stale(w)' <=> Stale(w) \/ ~m.live
    BY <1>4, <1>5, <2>6, <2>7 DEF Stale
  <2>9. Credit(w)' <= Credit(w)
    BY <1>3, <1>n, <2>8 DEF Credit
  <2>10. returns[w] = 1 => Credit(w) > 0
    BY <1>5, <1>n DEF Stale
  <2>11. Potential(w, r)' <= Potential(w, r)
    <3>1. CASE Blocked(w)
      BY <1>n, <2>5, <3>1
    <3>2. CASE ~Blocked(w) /\ Blocked(w)'
      BY <2>5, <2>10, <3>2, NowBlocked
    <3>3. CASE ~Blocked(w) /\ ~Blocked(w)'
      BY <1>s, <2>9, <3>3, FewerOwed
    <3> QED BY <3>1, <3>2, <3>3
  <2> QED BY <1>7, <2>11 DEF m
<1>8. CASE /\ Reply(w, <<ack>>) /\ Routes(m.row) # {}
           /\ Accept(m.row) /\ UNCHANGED faults
  <2> DEFINE a == <<ack>>
  <2>1. a \in Seq(Frames) /\ Len(a) > 0 /\ DOMAIN a = 1..1 /\ a[1] = ack /\ ack.kind # "return"
    BY <1>1
  <2>2. /\ ~Has(a, "return", TRUE) /\ ~Has(a, "return", FALSE)
        /\ Has(a, "ack", TRUE) <=> m.live
    BY <1>2, <2>1 DEF Has
  <2>3. Reply(w, a)
    BY <1>8
  <2> HIDE DEF a, ack
  <2>4. /\ fromBroker'[w] = f \o a
        /\ \A k, l : Has(f \o a, k, l) <=> Has(f, k, l) \/ Has(a, k, l)
        /\ Blocked(w) => Potential(w, r)' + 1 <= Potential(w, r)
        /\ Blocked(w)' => Blocked(w)
    BY <1>1, <1>6, <2>1, <2>3
  <2>5. Acked(w)' <=> m.live
    <3>1. ~Has(f \o a, "return", TRUE) /\ (Has(f \o a, "ack", TRUE) <=> m.live)
      BY <1>5, <2>2, <2>4
    <3> QED BY <1>4, <1>5, <2>4, <3>1 DEF Acked, Has
  <2>6. StaleOnWire(w)' <=> StaleOnWire(w)
    <3>1. Has(f \o a, "return", FALSE) <=> Has(f, "return", FALSE)
      BY <2>2, <2>4
    <3> QED BY <2>4, <3>1 DEF StaleOnWire, Has, f
  <2>7. CASE Blocked(w)
    BY <1>8, <1>n, <2>4, <2>7 DEF m
  <2>8. CASE ~Blocked(w) /\ ~m.live
    <3>1. Stale(w)' <=> Stale(w)
      BY <1>4, <1>5, <2>5, <2>6, <2>8 DEF Stale
    <3>2. Credit(w) = Credit(w)' + 1
      BY <1>3, <1>n, <2>8, <3>1 DEF Credit
    <3>3. Potential(w, r)' <= Potential(w, r) /\ Potential(w, r)' + 1 <= Potential(w, r)
      BY <1>s, <2>4, <2>8, <3>2, LessCredit
    <3> QED BY <1>8, <3>3 DEF m
  <2>9. CASE ~Blocked(w) /\ m.live
    <3>1. Stale(w)' <=> StaleOnWire(w)
      BY <2>5, <2>6, <2>9 DEF Stale
    <3>2. Stale(w) <=> StaleOnWire(w) \/ returns[w] = 1
      BY <1>5 DEF Stale
    <3>3. Abandoned(w)' = Abandoned(w)
      BY <1>3, <2>9
    <3>4. Potential(w, r)' <= Potential(w, r)
      <4>1. Credit(w)' <= Credit(w)
        BY <1>n, <3>1, <3>2, <3>3 DEF Credit
      <4> QED BY <1>s, <2>4, <2>9, <4>1, FewerOwed
    <3>5. ASSUME r = m.row PROVE Potential(w, r)' + 1 <= Potential(w, r)
      <4>1. CASE StaleOnWire(w) \/ returns[w] = 0
        <5>1. Settled(w, r)'
          BY <1>3, <1>4, <2>5, <2>6, <2>9, <3>5, <4>1 DEF Settled
        <5>2. Credit(w)' = Credit(w)
          BY <3>1, <3>2, <3>3, <4>1 DEF Credit
        <5> QED BY <1>m, <2>4, <2>9, <3>5, <5>1, <5>2, SettledNow
      <4>2. CASE ~StaleOnWire(w) /\ returns[w] # 0
        <5>1. returns[w] = 1
          BY <4>2 DEF WireInv, PublisherInv, WireTypeOK
        <5>2. Credit(w) = Credit(w)' + 1
          BY <1>n, <3>1, <3>2, <3>3, <4>2, <5>1 DEF Credit
        <5> QED BY <1>s, <2>4, <2>9, <5>2, LessCredit
      <4> QED BY <4>1, <4>2
    <3> QED BY <1>8, <3>4, <3>5 DEF m
  <2> QED BY <2>7, <2>8, <2>9
<1>9. CASE Reply(w, <<nack>>) /\ Fault /\ UNCHANGED queue
  <2> DEFINE a == <<nack>>
  <2>1. a \in Seq(Frames) /\ Len(a) > 0 /\ DOMAIN a = 1..1 /\ a[1] = nack /\ nack.kind = "nack"
    BY <1>1
  <2>2. \A l : ~Has(a, "return", l) /\ ~Has(a, "ack", l)
    BY <2>1 DEF Has
  <2>3. Reply(w, a)
    BY <1>9
  <2> HIDE DEF a, nack
  <2>4. /\ fromBroker'[w] = f \o a
        /\ \A k, l : Has(f \o a, k, l) <=> Has(f, k, l) \/ Has(a, k, l)
        /\ Blocked(w) => Potential(w, r)' + 1 <= Potential(w, r)
        /\ Blocked(w)' => Blocked(w)
    BY <1>1, <1>6, <2>1, <2>3
  <2>5. ~Acked(w)'
    <3>1. ~Has(f \o a, "ack", TRUE)
      BY <1>5, <2>2, <2>4
    <3> QED BY <1>4, <1>5, <2>4, <3>1 DEF Acked, Has
  <2>6. StaleOnWire(w)' <=> StaleOnWire(w)
    <3>1. Has(f \o a, "return", FALSE) <=> Has(f, "return", FALSE)
      BY <2>2, <2>4
    <3> QED BY <2>4, <3>1 DEF StaleOnWire, Has, f
  <2>7. Stale(w)' <=> Stale(w)
    BY <1>4, <1>5, <2>5, <2>6 DEF Stale
  <2>8. Credit(w)' <= Credit(w)
    BY <1>3, <1>n, <2>7 DEF Credit
  <2>9. Potential(w, r)' <= Potential(w, r)
    <3>1. CASE Blocked(w)
      BY <1>n, <2>4, <3>1
    <3>2. CASE ~Blocked(w)
      BY <1>s, <2>4, <2>8, <3>2, FewerOwed
    <3> QED BY <3>1, <3>2
  <2> QED BY <1>9, <2>9
<1>10. \/ Reply(w, <<return, ack>>) /\ Routes(m.row) = {} /\ Accept(m.row) /\ UNCHANGED faults
       \/ Reply(w, <<ack>>) /\ Routes(m.row) # {} /\ Accept(m.row) /\ UNCHANGED faults
       \/ Reply(w, <<nack>>) /\ Fault /\ UNCHANGED queue
  BY <1>1
<1> QED BY <1>7, <1>8, <1>9, <1>10 DEF m
-----------------------------------------------------------------------------
(* Every step pays for the copies it makes. *)

Count(r) == Cardinality(Tokens(Expected(r)))

LEMMA Movers ==
  ASSUME WireInv, WireInv', NEW w \in Workers, NEW r \in Rows, NEW d \in Int,
         Potential(w, r)' <= Potential(w, r) + d,
         \A v \in Workers \ {w} : Potential(v, r)' <= Potential(v, r)
  PROVE  Count(r)' <= Count(r) + d
<1>1. \A v \in Workers : Potential(v, r) \in Nat /\ Potential(v, r)' \in Nat
  BY WireSized, StaysSized DEF Sized, SizesOK
<1> DEFINE f == [v \in Workers |-> Potential(v, r)]
           g == [v \in Workers |-> Potential(v, r)']
<1>2. f \in [Workers -> Nat] /\ g \in [Workers -> Nat]
  BY <1>1
<1>3. g[w] <= f[w] + d /\ \A v \in Workers \ {w} : g[v] <= f[v]
  OBVIOUS
<1>4. Count(r) = Cardinality(Tokens(f)) /\ Count(r)' = Cardinality(Tokens(g))
  BY DEF Count, Expected, Tokens
<1> HIDE DEF f, g
<1> QED BY <1>2, <1>3, <1>4, TokensStep

LEMMA CountNat ==
  ASSUME WireInv, WireInv', NEW r \in Rows
  PROVE  Count(r) \in Nat /\ Count(r)' \in Nat
<1>1. \A v \in Workers : Potential(v, r) \in Nat /\ Potential(v, r)' \in Nat
  BY WireSized, StaysSized DEF Sized, SizesOK
<1> DEFINE f == [v \in Workers |-> Potential(v, r)]
           g == [v \in Workers |-> Potential(v, r)']
<1>2. f \in [Workers -> Nat] /\ g \in [Workers -> Nat]
  BY <1>1
<1>3. Count(r) = Cardinality(Tokens(f)) /\ Count(r)' = Cardinality(Tokens(g))
  BY DEF Count, Expected, Tokens
<1> HIDE DEF f, g
<1> QED BY <1>2, <1>3, TokensFinite

LEMMA NobodyMoves ==
  ASSUME WireInv, WireInv', NEW r \in Rows,
         \A v \in Workers : Potential(v, r)' <= Potential(v, r)
  PROVE  Count(r)' <= Count(r)
<1>1. CASE Workers = {}
  <2>1. Tokens(Expected(r)) = {} /\ Tokens(Expected(r))' = {}
    BY <1>1, Zenon DEF Tokens
  <2>2. Count(r) = Cardinality({}) /\ Count(r)' = Cardinality({})
    BY <2>1 DEF Count
  <2> QED BY <2>2, FS_EmptySet
<1>2. CASE Workers # {}
  <2> PICK w \in Workers : TRUE
    BY <1>2
  <2>1. Potential(w, r) \in Nat /\ Potential(w, r)' \in Nat
    BY WireSized, StaysSized DEF Sized, SizesOK
  <2>2. Count(r)' <= Count(r) + 0
    BY <2>1, Movers
  <2> QED BY <2>2, CountNat
<1> QED BY <1>1, <1>2

(* A processed row stays processed, and a worker's step is its own. *)
LEMMA Others ==
  ASSUME WireInv, WireInv', NEW w \in Workers, NEW r \in Rows,
         \/ FindUnprocessed(w) /\ UNCHANGED publishVars
         \/ \E s \in Rows : MarkAsProcessed(w, s) /\ UNCHANGED publishVars
         \/ \E s \in Rows : Send(w, s)
         \/ PublishReturns(w) \/ GiveUp(w) \/ BrokerHandles(w) \/ ReadFrame(w) \/ Restart(w)
  PROVE  \A v \in Workers \ {w} : Potential(v, r)' <= Potential(v, r)
<1> TAKE v \in Workers \ {w}
<1> DEFINE Untouched ==
             /\ publishing'[v] = publishing[v] /\ verdict'[v] = verdict[v]
             /\ toBroker'[v] = toBroker[v] /\ fromBroker'[v] = fromBroker[v]
             /\ returns'[v] = returns[v]
             /\ batch'[v] = batch[v] /\ confirmed'[v] = confirmed[v]
             /\ outbox[r] = "processed" => outbox'[r] = "processed"
<1>t. WireTypeOK
  BY DEF WireInv, PublisherInv
<1>0. Untouched => Potential(v, r)' <= Potential(v, r)
  BY BystanderPays
<1>1. CASE FindUnprocessed(w) /\ UNCHANGED publishVars
  <2>1. Untouched
    BY <1>1, <1>t DEF FindUnprocessed, publishVars, WireTypeOK, TypeOK
  <2> QED BY <1>0, <2>1
<1>2. ASSUME NEW s \in Rows, MarkAsProcessed(w, s), UNCHANGED publishVars PROVE Untouched
  <2>1. outbox' = outbox \/ outbox' = [outbox EXCEPT ![s] = "processed"]
    BY <1>2 DEF MarkAsProcessed
  <2>2. outbox[r] = "processed" => outbox'[r] = "processed"
    BY <1>t, <2>1 DEF WireTypeOK, TypeOK
  <2> QED BY <1>2, <1>t, <2>2 DEF MarkAsProcessed, publishVars, WireTypeOK, TypeOK
<1>3. ASSUME NEW s \in Rows, Send(w, s) PROVE Untouched
  BY <1>3, <1>t DEF Send, relayVars, WireTypeOK, TypeOK
<1>4. CASE PublishReturns(w)
  <2>1. Untouched
    BY <1>4, <1>t
    DEF PublishReturns, Confirmed, Nacked, Fail, Succeed, Finish, WireTypeOK, TypeOK
  <2> QED BY <1>0, <2>1
<1>5. CASE GiveUp(w)
  <2>1. Untouched
    BY <1>5, <1>t DEF GiveUp, Fail, Finish, WireTypeOK, TypeOK
  <2> QED BY <1>0, <2>1
<1>6. CASE BrokerHandles(w)
  <2>1. Untouched
    BY <1>6, <1>t DEF BrokerHandles, Reply, WireTypeOK
  <2> QED BY <1>0, <2>1
<1>7. CASE ReadFrame(w)
  <2>1. verdict'[v] = verdict[v] /\ returns'[v] = returns[v]
    BY <1>7, <1>t DEF ReadFrame, WireTypeOK
  <2>2. Untouched
    BY <1>7, <1>t, <2>1 DEF ReadFrame, relayVars, WireTypeOK
  <2> QED BY <1>0, <2>2
<1>8. CASE Restart(w)
  <2>1. Untouched
    BY <1>8, <1>t DEF Restart, Forget, Finish, WireTypeOK, TypeOK
  <2> QED BY <1>0, <2>1
<1> HIDE DEF Untouched
<1> QED BY <1>0, <1>1, <1>2, <1>3, <1>4, <1>5, <1>6, <1>7, <1>8

(* What a step changes for one row: nothing is gained without a fault, and  *)
(* with one no more than what it is worth; an accepted message is paid for. *)
LEMMA StepPays ==
  ASSUME WireInv, WireInv', [PublisherNext]_publisherVars, NEW r \in Rows
  PROVE  \/ /\ faults' = faults
            /\ \/ /\ Count(r)' <= Count(r)
                  /\ \A c \in copiesOf[r] : queue'[c] = queue[c]
               \/ /\ Count(r)' + 1 <= Count(r)
                  /\ \A c \in copiesOf[r] : queue'[c] <= queue[c] + 1
         \/ /\ Fault /\ UNCHANGED queue
            /\ Count(r)' <= Count(r) + (WireSize - 1)
<1>t. WireTypeOK /\ WireSize - 1 \in Nat /\ copiesOf[r] \subseteq Copies
  BY PublisherAssumption, RelayAssumption DEF WireInv, PublisherInv
<1>n. Count(r) \in Nat /\ Count(r)' \in Nat
  BY CountNat
<1>w. \A w \in Workers : Potential(w, r) \in Nat /\ Potential(w, r)' \in Nat
  BY WireSized, StaysSized DEF Sized, SizesOK
<1>p. ASSUME NEW w \in Workers, Potential(w, r)' <= Potential(w, r),
             \A v \in Workers \ {w} : Potential(v, r)' <= Potential(v, r)
      PROVE  Count(r)' <= Count(r)
  <2>1. Count(r)' <= Count(r) + 0
    BY <1>p, <1>w, Movers
  <2> QED BY <1>n, <2>1
<1>f. ASSUME NEW w \in Workers, Potential(w, r)' <= Potential(w, r) + (WireSize - 1),
             \A v \in Workers \ {w} : Potential(v, r)' <= Potential(v, r)
      PROVE  Count(r)' <= Count(r) + (WireSize - 1)
  BY <1>f, <1>t, Movers
<1>1. CASE \/ \E s \in Rows : Commit(s) /\ UNCHANGED publishVars
           \/ \E c \in Copies : Bind(c) /\ UNCHANGED publishVars
           \/ UNCHANGED publisherVars
  <2>1. /\ UNCHANGED <<faults, queue, publishVars, batch, confirmed>>
        /\ outbox[r] = "processed" => outbox'[r] = "processed"
    BY <1>1, <1>t DEF Commit, Insert, Bind, publisherVars, relayVars, WireTypeOK, TypeOK
  <2>2. \A v \in Workers : Potential(v, r)' <= Potential(v, r)
    BY <2>1, BystanderPays DEF publishVars
  <2> QED BY <2>1, <2>2, NobodyMoves
<1>2. ASSUME NEW w \in Workers, FindUnprocessed(w), UNCHANGED publishVars
      PROVE  UNCHANGED <<faults, queue>> /\ Count(r)' <= Count(r)
  BY <1>2, <1>p, FindPays, Others DEF FindUnprocessed
<1>3. ASSUME NEW w \in Workers, NEW s \in Rows, MarkAsProcessed(w, s), UNCHANGED publishVars
      PROVE  /\ UNCHANGED queue
             /\ \/ UNCHANGED faults /\ Count(r)' <= Count(r)
                \/ Fault /\ Count(r)' <= Count(r) + (WireSize - 1)
  BY <1>3, <1>p, <1>f, MarkPays, Others DEF MarkAsProcessed
<1>4. ASSUME NEW w \in Workers, NEW s \in Rows, Send(w, s)
      PROVE  UNCHANGED <<faults, queue>> /\ Count(r)' <= Count(r)
  BY <1>4, <1>p, SendPays, Others DEF Send, relayVars
<1>5. ASSUME NEW w \in Workers, PublishReturns(w)
      PROVE  UNCHANGED <<faults, queue>> /\ Count(r)' <= Count(r)
  BY <1>5, <1>p, ReturnsPay, Others DEF PublishReturns
<1>6. ASSUME NEW w \in Workers, GiveUp(w)
      PROVE  /\ UNCHANGED queue
             /\ \/ UNCHANGED faults /\ Count(r)' <= Count(r)
                \/ Fault /\ Count(r)' <= Count(r) + (WireSize - 1)
  BY <1>6, <1>p, <1>f, GiveUpPays, Others DEF GiveUp
<1>7. ASSUME NEW w \in Workers, ReadFrame(w)
      PROVE  UNCHANGED <<faults, queue>> /\ Count(r)' <= Count(r)
  BY <1>7, <1>p, ReadPays, Others DEF ReadFrame, relayVars
<1>8. ASSUME NEW w \in Workers, Restart(w)
      PROVE  UNCHANGED queue /\ Fault /\ Count(r)' <= Count(r) + (WireSize - 1)
  BY <1>8, <1>f, RestartPays, Others DEF Restart
<1>9. ASSUME NEW w \in Workers, BrokerHandles(w)
      PROVE  \/ /\ faults' = faults
                /\ \/ /\ Count(r)' <= Count(r)
                      /\ \A c \in copiesOf[r] : queue'[c] = queue[c]
                   \/ /\ Count(r)' + 1 <= Count(r)
                      /\ \A c \in copiesOf[r] : queue'[c] <= queue[c] + 1
             \/ Fault /\ UNCHANGED queue /\ Count(r)' <= Count(r)
  <2> DEFINE q == Head(toBroker[w]).row
  <2>1. \/ /\ Accept(q) /\ faults' = faults
           /\ Potential(w, r)' <= Potential(w, r)
           /\ r = q /\ Routes(r) # {} => Potential(w, r)' + 1 <= Potential(w, r)
        \/ UNCHANGED queue /\ Fault /\ Potential(w, r)' <= Potential(w, r)
    BY <1>9, HandlesPays
  <2>2. \A v \in Workers \ {w} : Potential(v, r)' <= Potential(v, r)
    BY <1>9, Others
  <2>3. q \in Rows
    <3>1. Head(toBroker[w]) \in Publishes
      BY <1>9, <1>t, HeadTailProperties DEF BrokerHandles, WireTypeOK
    <3> QED BY <3>1 DEF Publishes
  <2>4. ASSUME Accept(q), NEW c \in copiesOf[r]
        PROVE  /\ r # q \/ Routes(r) = {} => queue'[c] = queue[c]
               /\ queue'[c] <= queue[c] + 1
    <3>1. c \in Copies /\ queue[c] \in Nat
      BY <1>t DEF WireTypeOK, TypeOK
    <3>2. queue'[c] = IF c \in Routes(q) THEN queue[c] + 1 ELSE queue[c]
      BY <2>4, <3>1 DEF Accept
    <3>3. r # q \/ Routes(r) = {} => c \notin Routes(q)
      BY <2>3, PublisherAssumption DEF Routes
    <3> QED BY <3>1, <3>2, <3>3
  <2>5. CASE UNCHANGED queue /\ Fault /\ Potential(w, r)' <= Potential(w, r)
    BY <1>p, <2>2, <2>5
  <2>6. CASE /\ Accept(q) /\ faults' = faults /\ Potential(w, r)' <= Potential(w, r)
             /\ ~(r = q /\ Routes(r) # {})
    <3>1. Count(r)' <= Count(r)
      BY <1>p, <2>2, <2>6
    <3> QED BY <2>4, <2>6, <3>1
  <2>7. CASE Accept(q) /\ faults' = faults /\ Potential(w, r)' + 1 <= Potential(w, r)
    <3>1. Potential(w, r)' <= Potential(w, r) + (-1)
      BY <1>w, <2>7
    <3>2. Count(r)' <= Count(r) + (-1)
      BY <2>2, <3>1, Movers
    <3>3. Count(r)' + 1 <= Count(r)
      BY <1>n, <3>2
    <3> QED BY <2>4, <2>7, <3>3
  <2> HIDE DEF q
  <2> QED BY <2>1, <2>5, <2>6, <2>7
<1>10. \/ \E s \in Rows : Commit(s) /\ UNCHANGED publishVars
       \/ \E c \in Copies : Bind(c) /\ UNCHANGED publishVars
       \/ UNCHANGED publisherVars
       \/ \E w \in Workers :
            \/ FindUnprocessed(w) /\ UNCHANGED publishVars
            \/ \E s \in Rows : MarkAsProcessed(w, s) /\ UNCHANGED publishVars
            \/ \E s \in Rows : Send(w, s)
            \/ PublishReturns(w) \/ GiveUp(w) \/ BrokerHandles(w) \/ ReadFrame(w) \/ Restart(w)
  BY DEF PublisherNext, WorkerStep
<1>11. ASSUME UNCHANGED queue PROVE \A c \in copiesOf[r] : queue'[c] = queue[c]
  BY <1>11
<1>12. ASSUME Count(r)' <= Count(r) PROVE Count(r)' <= Count(r) + (WireSize - 1)
  BY <1>12, <1>n, <1>t
<1> QED BY <1>1, <1>2, <1>3, <1>4, <1>5, <1>6, <1>7, <1>8, <1>9, <1>10, <1>11, <1>12

LEMMA PaidStep ==
  ASSUME DuplicatesInv, WireInv', [PublisherNext]_publisherVars
  PROVE  Paid' /\ faults' <= MaxFaults
<1>1. /\ WireInv /\ faults \in Nat /\ faults' \in Nat /\ faults <= MaxFaults
      /\ \A c \in Copies : queue[c] \in Nat /\ queue'[c] \in Nat
      /\ MaxFaults \in Nat /\ Cardinality(Workers) \in Nat
  BY PublisherAssumption, RelayAssumption, FS_CardinalityType
  DEF DuplicatesInv, WireInv, PublisherInv, WireTypeOK, TypeOK
<1>2. faults' = faults \/ (faults > 0 /\ faults' = faults - 1)
  BY DEF PublisherNext, WorkerStep, Commit, Bind, FindUnprocessed, MarkAsProcessed, Send,
         PublishReturns, GiveUp, BrokerHandles, ReadFrame, Restart, Fault,
         publisherVars, relayVars
<1>3. ASSUME NEW r \in Rows, NEW c \in copiesOf[r]
      PROVE  queue'[c] + Count(r)'
                <= Cardinality(Workers) + (WireSize - 1) * (MaxFaults - faults')
  <2> DEFINE k == WireSize - 1
             n == MaxFaults - faults
             W == Cardinality(Workers)
  <2>1. k \in Nat /\ n \in Nat /\ W \in Nat /\ Count(r) \in Nat /\ Count(r)' \in Nat
        /\ c \in Copies /\ queue[c] \in Nat /\ queue'[c] \in Nat
    BY <1>1, CountNat, PublisherAssumption, RelayAssumption
  <2>2. queue[c] + Count(r) <= W + k * n
    BY DEF DuplicatesInv, Paid, Count
  <2>3. \/ /\ faults' = faults
           /\ \/ Count(r)' <= Count(r) /\ queue'[c] = queue[c]
              \/ Count(r)' + 1 <= Count(r) /\ queue'[c] <= queue[c] + 1
        \/ Fault /\ queue'[c] = queue[c] /\ Count(r)' <= Count(r) + k
    BY <1>1, StepPays
  <2>4. faults' = faults => MaxFaults - faults' = n
    OBVIOUS
  <2>5. Fault => MaxFaults - faults' = n + 1
    BY <1>1 DEF Fault
  <2> HIDE DEF k, n, W
  <2>6. k * n \in Nat /\ k * (n + 1) = k * n + k
    BY <2>1
  <2>7. CASE faults' = faults
    <3>1. queue'[c] + Count(r)' <= queue[c] + Count(r) \/ (Fault /\ queue'[c] = queue[c])
      BY <2>1, <2>3
    <3>2. ~Fault
      BY <1>1, <2>7 DEF Fault
    <3>3. queue'[c] + Count(r)' <= W + k * n
      BY <2>1, <2>2, <2>6, <3>1, <3>2
    <3> QED BY <2>4, <2>7, <3>3 DEF k, W
  <2>8. CASE Fault /\ queue'[c] = queue[c] /\ Count(r)' <= Count(r) + k
    <3>1. queue'[c] + Count(r)' <= W + (k * n + k)
      BY <2>1, <2>2, <2>6, <2>8
    <3>2. queue'[c] + Count(r)' <= W + k * (n + 1)
      BY <2>6, <3>1
    <3> QED BY <2>5, <2>8, <3>2 DEF k, W
  <2> QED BY <2>3, <2>7, <2>8
<1>4. Paid'
  BY <1>3 DEF Paid, Count
<1>5. faults' <= MaxFaults
  BY <1>1, <1>2
<1> QED BY <1>4, <1>5

LEMMA OnlyRowsStep ==
  ASSUME WireInv, CopiesHaveRows, [PublisherNext]_publisherVars
  PROVE  CopiesHaveRows'
<1> SUFFICES ASSUME NEW c \in Copies, \A r \in Rows : c \notin copiesOf[r]
             PROVE  queue'[c] = 0
  BY DEF CopiesHaveRows
<1>1. queue[c] = 0
  BY DEF CopiesHaveRows
<1>2. CASE \E w \in Workers : BrokerHandles(w)
  <2> PICK w \in Workers : BrokerHandles(w)
    BY <1>2
  <2> DEFINE q == Head(toBroker[w]).row
  <2>1. q \in Rows
    <3>1. Head(toBroker[w]) \in Publishes
      BY HeadTailProperties DEF BrokerHandles, WireInv, PublisherInv, WireTypeOK
    <3> QED BY <3>1 DEF Publishes
  <2>2. c \notin Routes(q)
    BY <2>1 DEF Routes
  <2>3. Accept(q) \/ UNCHANGED queue
    BY DEF BrokerHandles
  <2> QED BY <1>1, <2>2, <2>3 DEF Accept
<1>3. CASE UNCHANGED queue
  BY <1>1, <1>3
<1> QED BY <1>2, <1>3
    DEF PublisherNext, WorkerStep, Commit, Bind, FindUnprocessed, MarkAsProcessed, Send,
        PublishReturns, GiveUp, ReadFrame, Restart, publisherVars, relayVars

LEMMA DuplicatesStep == DuplicatesInv /\ [PublisherNext]_publisherVars => DuplicatesInv'
<1> SUFFICES ASSUME DuplicatesInv, [PublisherNext]_publisherVars PROVE DuplicatesInv'
  OBVIOUS
<1>1. WireInv'
  BY WireStep DEF DuplicatesInv
<1> QED BY <1>1, PaidStep, OnlyRowsStep DEF DuplicatesInv

LEMMA InitDuplicates == PublisherInit => DuplicatesInv
<1> SUFFICES ASSUME PublisherInit PROVE DuplicatesInv
  OBVIOUS
<1>1. WireInv
  BY InitWire, InitShape DEF WireInv
<1>2. faults = MaxFaults /\ MaxFaults \in Nat /\ CopiesHaveRows
  BY RelayAssumption DEF PublisherInit, Init, RelayInit, CopiesHaveRows
<1>3. ASSUME NEW r \in Rows PROVE Expected(r) = [w \in Workers |-> 1]
  <2>1. ASSUME NEW w \in Workers PROVE Potential(w, r) = 1
    <3>1. /\ publishing[w] = {} /\ confirmed[w] = {} /\ outbox[r] = "absent"
          /\ fromBroker[w] = <<>> /\ toBroker[w] = <<>> /\ returns[w] = 0
      BY DEF PublisherInit, Init, RelayInit
    <3>2. ~Blocked(w) /\ Due(w, r) = 1
      BY <3>1 DEF Blocked, Due, Settled
    <3>3. Credit(w) = 0
      BY <3>1 DEF Credit, Abandoned, Dead, Stale, StaleOnWire, Has
    <3>4. Potential(w, r) = Owed(1, 0)
      BY <3>2, <3>3 DEF Potential
    <3> QED BY <3>4, OwedFacts
  <2> QED BY <2>1 DEF Expected
<1>4. Paid
  <2> SUFFICES ASSUME NEW r \in Rows, NEW c \in copiesOf[r]
               PROVE  queue[c] + Cardinality(Tokens(Expected(r)))
                         <= Cardinality(Workers) + (WireSize - 1) * (MaxFaults - faults)
    BY DEF Paid
  <2>1. Cardinality(Tokens(Expected(r))) = Cardinality(Workers)
    BY <1>3, OneTokenEach
  <2>2. Cardinality(Workers) \in Nat /\ WireSize - 1 \in Nat
    BY PublisherAssumption, FS_CardinalityType
  <2>3. (WireSize - 1) * (MaxFaults - faults) = 0
    <3>1. MaxFaults - faults = 0
      BY <1>2
    <3>2. \A k \in Nat : k * 0 = 0
      OBVIOUS
    <3> QED BY <2>2, <3>1, <3>2
  <2>4. queue[c] = 0
    BY RelayAssumption DEF PublisherInit, Init, RelayInit
  <2> QED BY <2>1, <2>2, <2>3, <2>4
<1> QED BY <1>1, <1>2, <1>4 DEF DuplicatesInv

(* At-least-once with its price (outbox_worker.go, rabbitmq_publisher.go):   *)
(* beyond one copy per running worker, every extra copy in a queue was paid  *)
(* for by a fault, and a fault pays for at most a connection's worth of      *)
(* publishes, for any rows, workers, buffers and number of faults.           *)
THEOREM DuplicatesHaveACause == PublisherSpec => []DuplicatesPaidByFaults
<1>1. DuplicatesInv => DuplicatesPaidByFaults
  <2> SUFFICES ASSUME DuplicatesInv, NEW c \in Copies
               PROVE  queue[c] <= Cardinality(Workers)
                                    + (WireSize - 1) * (MaxFaults - faults)
    BY DEF DuplicatesPaidByFaults
  <2> DEFINE k == WireSize - 1
             n == MaxFaults - faults
             W == Cardinality(Workers)
  <2>1. WireInv /\ queue[c] \in Nat /\ k \in Nat /\ n \in Nat /\ W \in Nat
    BY PublisherAssumption, RelayAssumption, FS_CardinalityType
    DEF DuplicatesInv, WireInv, PublisherInv, WireTypeOK, TypeOK
  <2>2. CASE \E r \in Rows : c \in copiesOf[r]
    <3> PICK r \in Rows : c \in copiesOf[r]
      BY <2>2
    <3>1. queue[c] + Cardinality(Tokens(Expected(r))) <= W + k * n
      BY DEF DuplicatesInv, Paid
    <3>2. Cardinality(Tokens(Expected(r))) \in Nat
      <4>1. Expected(r) \in [Workers -> Nat]
        BY <2>1, WireSized DEF Sized, SizesOK, Expected
      <4> QED BY <4>1, TokensFinite
    <3> HIDE DEF k, n, W
    <3>3. k * n \in Nat
      BY <2>1
    <3>4. queue[c] <= W + k * n
      BY <2>1, <3>1, <3>2, <3>3
    <3> QED BY <3>4 DEF k, n, W
  <2>3. CASE \A r \in Rows : c \notin copiesOf[r]
    <3>1. queue[c] = 0
      BY <2>3 DEF DuplicatesInv, CopiesHaveRows
    <3> HIDE DEF k, n, W
    <3>2. k * n \in Nat
      BY <2>1
    <3>3. queue[c] <= W + k * n
      BY <2>1, <3>1, <3>2
    <3> QED BY <3>3 DEF k, n, W
  <2> QED BY <2>2, <2>3
<1> QED BY <1>1, InitDuplicates, DuplicatesStep, PTL DEF PublisherSpec
=============================================================================

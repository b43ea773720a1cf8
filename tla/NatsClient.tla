----------------------------- MODULE NatsClient -----------------------------
(***************************************************************************)
(* The NATS client of mq/gnats: doSendSync, doSendAsync, doSubscribe with   *)
(* its pullSubscribe loops, each with a worker pool, or with the loop of    *)
(* pushSubscribe, which has a channel and no pool, and consume, which runs  *)
(* for every delivery.  JetStream is modelled as the code uses it: it       *)
(* delivers a stored message, counts the deliveries in NumDelivered, and    *)
(* delivers it again after a negative acknowledgement or when AckWait is    *)
(* over without an answer.                                                  *)
(*                                                                          *)
(* A message stands for one call of Send or SendAsync; a delivery is named  *)
(* by its message and its NumDelivered, the first of which is 1.            *)
(***************************************************************************)
EXTENDS Integers, FiniteSets

CONSTANTS
  Messages,      \* the messages the application sends, each once
  Async,         \* the messages that are sent with SendAsync
  Pullers,       \* the loops of pullSubscribe that doSubscribe starts
  Main,          \* the one it runs itself, or pushSubscribe's
  Batch,         \* NatsOpts.PullBatchSize
  ChannelSize,   \* ConsumerOptions.MaxMessageChannelSize
  IsErrorPanic,  \* ConsumerOptions.IsErrorPanic
  RetryTimes,    \* ConsumerOptions.RetryTimes
  MaxRetryTimes, \* MAX_RETRY_TIMES
  Manual,        \* ConsumerOptions.ACKMode = ACK_MANUAL
  MaxFaults      \* bound: panics, late answers, and answers or processes lost

ASSUME NatsAssumption ==
  /\ Async \subseteq Messages
  /\ Main \in Pullers
  /\ Batch \in Nat \ {0} /\ ChannelSize \in Nat \ {0}
  /\ Manual \in BOOLEAN /\ IsErrorPanic \in BOOLEAN
  /\ RetryTimes \in Nat /\ MaxRetryTimes \in Nat \ {0} /\ MaxFaults \in Nat

\* doSubscribe's default, then consume's min.
Limit == IF RetryTimes = 0 \/ RetryTimes > MaxRetryTimes THEN MaxRetryTimes ELSE RetryTimes
PoolSize == 2 * Batch
\* The NumDelivered a message can have, and one more.
Counts == 1..(Limit + MaxFaults + 1)
Deliveries == Messages \X Counts

VARIABLES
  alive,    \* FALSE once a panic has stopped the process
  sub,      \* what doSubscribe has done: "pull", "push", ...
  ppc,      \* per puller: where its pullSubscribe or pushSubscribe is
  left,     \* per puller: what its FetchBatch may still bring
  waiting,  \* per puller: the deliveries in its batch or channel
  pool,     \* per puller: the deliveries whose consume runs
  pc,       \* per message: "new", or what Send has returned
  outbox,   \* messages given to PublishMsgAsync and not yet sent
  server,   \* per message: "none", "ready", "out" for delivery, or "acked"
  count,    \* per message: NumDelivered of the last delivery
  acks,     \* acknowledgements on their way to the server
  naks,     \* negative ones on their way, or waiting there for their delay
  over,     \* per message and NumDelivered: how its consume ended
  faults    \* what has gone wrong so far

subVars == <<sub, ppc, left>>
workVars == <<waiting, pool>>
sendVars == <<pc, outbox>>
serverVars == <<server, count>>
answerVars == <<acks, naks, over>>
vars == <<alive, subVars, workVars, sendVars, serverVars, answerVars, faults>>

Init ==
  /\ alive = TRUE
  /\ sub = "new"
  /\ ppc = [p \in Pullers |-> "none"]
  /\ left = [p \in Pullers |-> 0]
  /\ waiting = [p \in Pullers |-> {}]
  /\ pool = [p \in Pullers |-> {}]
  /\ pc = [m \in Messages |-> "new"]
  /\ outbox = {}
  /\ server = [m \in Messages |-> "none"]
  /\ count = [m \in Messages |-> 0]
  /\ acks = {}
  /\ naks = {}
  /\ over = [m \in Messages |-> [n \in Counts |-> "none"]]
  /\ faults = 0

Fault == faults < MaxFaults /\ faults' = faults + 1

-----------------------------------------------------------------------------
(* doSendSync and doSendAsync.                                              *)

Stored(m) == server' = [server EXCEPT ![m] = "ready"]

\* PublishMsg waits for the server; one that failed may have stored the message.
Send(m) ==
  /\ alive
  /\ pc[m] = "new"
  /\ m \notin Async
  /\ \/ Stored(m) /\ pc' = [pc EXCEPT ![m] = "sent"]
     \/ (Stored(m) \/ UNCHANGED server) /\ pc' = [pc EXCEPT ![m] = "failed"]
  /\ UNCHANGED <<alive, subVars, workVars, outbox, count, answerVars, faults>>

\* PublishMsgAsync returns at once, and its future is dropped.
SendAsync(m) ==
  /\ alive
  /\ pc[m] = "new"
  /\ m \in Async
  /\ \/ pc' = [pc EXCEPT ![m] = "sent"] /\ outbox' = outbox \union {m}
     \/ pc' = [pc EXCEPT ![m] = "failed"] /\ outbox' = outbox
  /\ UNCHANGED <<alive, subVars, workVars, serverVars, answerVars, faults>>

SentAsync(m) ==
  /\ alive
  /\ m \in outbox
  /\ outbox' = outbox \ {m}
  /\ Stored(m) \/ UNCHANGED server
  /\ UNCHANGED <<alive, subVars, workVars, pc, count, answerVars, faults>>

-----------------------------------------------------------------------------
(* doSubscribe and the loops of pullSubscribe and pushSubscribe.            *)

\* The consumer exists and its FilterSubject is the topic, or there is an error.  If it has
\* a DeliverGroup the server pushes, to one loop.
Subscribe ==
  /\ alive
  /\ sub = "new"
  /\ \/ /\ sub' = "pull" /\ alive' = alive
        /\ ppc' = [p \in Pullers |-> "bind"]
     \/ /\ sub' = "push" /\ alive' = alive
        /\ ppc' = [p \in Pullers |-> IF p = Main THEN "bind" ELSE "none"]
     \/ /\ sub' = "failed" /\ ppc' = ppc
        /\ IF IsErrorPanic THEN alive' \in BOOLEAN ELSE alive' = alive
  /\ UNCHANGED <<left, workVars, sendVars, serverVars, answerVars, faults>>

\* js.PullSubscribe, or js.ChanQueueSubscribe if the DeliverGroup is the subscription's
\* name.  A panic in a loop started with go ends the process; the caller of SubscribeSync
\* may recover that of the loop doSubscribe runs itself.
Bind(p) ==
  /\ alive
  /\ ppc[p] = "bind"
  /\ \/ /\ ppc' = [ppc EXCEPT ![p] = IF sub = "push" THEN "pushed" ELSE "pulling"]
        /\ alive' = alive
     \/ /\ ppc' = [ppc EXCEPT ![p] = "failed"]
        /\ IF ~IsErrorPanic THEN alive' = alive
           ELSE IF p = Main THEN alive' \in BOOLEAN ELSE alive' = FALSE
  /\ UNCHANGED <<sub, left, workVars, sendVars, serverVars, answerVars, faults>>

\* FetchBatch, once the last batch is complete or timed out and handed over.
Fetch(p) ==
  /\ alive
  /\ ppc[p] = "pulling"
  /\ waiting[p] = {}
  /\ left[p] < Batch
  /\ left' = [left EXCEPT ![p] = Batch]
  /\ UNCHANGED <<alive, sub, ppc, workVars, sendVars, serverVars, answerVars, faults>>

\* Its error is dropped: the nil batch panics, and nothing recovers it.
FetchFails(p) ==
  /\ alive
  /\ ppc[p] = "pulling"
  /\ waiting[p] = {}
  /\ alive' = FALSE
  /\ UNCHANGED <<subVars, workVars, sendVars, serverVars, answerVars, faults>>

Pushed(p) == ppc[p] = "pushed"

\* The server delivers a message into a batch or, when it pushes, into the channel, ...
Deliver(p, m) ==
  /\ alive
  /\ \/ left[p] > 0 /\ left' = [left EXCEPT ![p] = @ - 1]
     \/ Pushed(p) /\ Cardinality(waiting[p]) < ChannelSize /\ left' = left
  /\ server[m] = "ready"
  /\ server' = [server EXCEPT ![m] = "out"]
  /\ count' = [count EXCEPT ![m] = @ + 1]
  /\ waiting' = [waiting EXCEPT ![p] = @ \union {<<m, count[m] + 1>>}]
  /\ UNCHANGED <<alive, sub, ppc, pool, sendVars, answerVars, faults>>

\* ... or it is lost on the way; the SDK drops what it finds no room for in the channel.
DeliveryLost(p, m) ==
  /\ left[p] > 0 \/ Pushed(p)
  /\ server[m] = "ready"
  /\ Fault
  /\ server' = [server EXCEPT ![m] = "out"]
  /\ count' = [count EXCEPT ![m] = @ + 1]
  /\ UNCHANGED <<alive, subVars, workVars, sendVars, answerVars>>

\* execWorker.Execute, which waits for a free worker, or the go statement of pushSubscribe.
Execute(p, d) ==
  /\ alive
  /\ d \in waiting[p]
  /\ Pushed(p) \/ Cardinality(pool[p]) < PoolSize
  /\ waiting' = [waiting EXCEPT ![p] = @ \ {d}]
  /\ pool' = [pool EXCEPT ![p] = @ \union {d}]
  /\ UNCHANGED <<alive, subVars, sendVars, serverVars, answerVars, faults>>

-----------------------------------------------------------------------------
(* consume.                                                                 *)

\* The listener of a delivery returns, and its consume ends.
End(p, m, n, how) ==
  /\ alive
  /\ <<m, n>> \in pool[p]
  /\ pool' = [pool EXCEPT ![p] = @ \ {<<m, n>>}]
  /\ over' = [over EXCEPT ![m][n] = how]
  /\ UNCHANGED <<alive, subVars, waiting, sendVars, serverVars>>

\* A panic, of the listener or for want of metadata, is recovered: nothing is answered.
Panicked(p, m, n) ==
  /\ End(p, m, n, "panicked")
  /\ Fault
  /\ UNCHANGED <<acks, naks>>

\* Mutant: one retry too many.
Retry_OneMore(n) == Manual /\ n <= Limit

\* Mutant: RetryTimes is not looked at.
Retry_Always(n) == Manual

Retry(n) == Manual /\ n < Limit

\* Mutant: Ack in a deferred call, after a panic too.
Ack_Deferred(p, m, n) ==
  /\ \/ End(p, m, n, "done") \/ End(p, m, n, "panicked")
     \/ ~Retry(n) /\ End(p, m, n, "given up")
  /\ acks' = acks \union {m}
  /\ UNCHANGED <<naks, faults>>

\* Mutant: a message without a retry left is not acknowledged.
Ack_NotGivenUp(p, m, n) ==
  /\ \/ End(p, m, n, "done") /\ acks' = acks \union {m}
     \/ ~Retry(n) /\ End(p, m, n, "given up") /\ acks' = acks
  /\ UNCHANGED <<naks, faults>>

\* It accepted the message, or refused it and there is no retry left.
Ack(p, m, n) ==
  /\ End(p, m, n, "done") \/ (~Retry(n) /\ End(p, m, n, "given up"))
  /\ acks' = acks \union {m}
  /\ UNCHANGED <<naks, faults>>

\* Mutant: the listener is called again at once, besides the negative answer.
Nak_RunsAgain(p, m, n) ==
  /\ alive
  /\ Retry(n)
  /\ <<m, n>> \in pool[p]
  /\ naks' = naks \union {m}
  /\ UNCHANGED <<alive, subVars, workVars, sendVars, serverVars, acks, over, faults>>

Nak(p, m, n) ==
  /\ Retry(n)
  /\ End(p, m, n, "naked")
  /\ naks' = naks \union {m}
  /\ UNCHANGED <<acks, faults>>

Consume(p, m, n) == Panicked(p, m, n) \/ Ack(p, m, n) \/ Nak(p, m, n)

-----------------------------------------------------------------------------
(* The server and the connection to it.                                     *)

AckArrives(m) ==
  /\ m \in acks
  /\ acks' = acks \ {m}
  /\ server' = [server EXCEPT ![m] = "acked"]
  /\ UNCHANGED <<alive, subVars, workVars, sendVars, count, naks, over, faults>>

\* The delay of NakWithDelay is over; what is not out for delivery stays as it is.
NakDue(m) ==
  /\ m \in naks
  /\ naks' = naks \ {m}
  /\ server' = [server EXCEPT ![m] = IF @ = "out" THEN "ready" ELSE @]
  /\ UNCHANGED <<alive, subVars, workVars, sendVars, count, acks, over, faults>>

\* The deliveries of a message that may still be answered.
Live(m) == {d \in UNION {waiting[p] \union pool[p] : p \in Pullers} : d[1] = m}
\* No answer will come.
Silent(m) == server[m] = "out" /\ Live(m) = {} /\ m \notin acks \union naks

\* AckWait is over: late, while an answer may still come ...
Late(m) ==
  /\ server[m] = "out"
  /\ ~Silent(m)
  /\ Fault
  /\ Stored(m)
  /\ UNCHANGED <<alive, subVars, workVars, sendVars, count, answerVars>>

\* ... or because none will.
Lapse(m) ==
  /\ Silent(m)
  /\ Stored(m)
  /\ UNCHANGED <<alive, subVars, workVars, sendVars, count, answerVars, faults>>

\* The connection breaks, and answers on their way are lost with it.
Reconnect ==
  /\ alive
  /\ Fault
  /\ acks' \in SUBSET acks
  /\ naks' \in SUBSET naks
  /\ UNCHANGED <<alive, subVars, workVars, sendVars, serverVars, over>>

\* The process ends, by itself or not, and is started again.
Restart ==
  /\ Fault
  /\ alive' = TRUE
  /\ sub' = "new"
  /\ ppc' = [p \in Pullers |-> "none"]
  /\ left' = [p \in Pullers |-> 0]
  /\ waiting' = [p \in Pullers |-> {}]
  /\ pool' = [p \in Pullers |-> {}]
  /\ outbox' = {}
  /\ acks' \in SUBSET acks
  /\ naks' \in SUBSET naks
  /\ UNCHANGED <<pc, serverVars, over>>

Next ==
  \/ \E m \in Messages : Send(m) \/ SendAsync(m) \/ SentAsync(m)
  \/ Subscribe
  \/ \E p \in Pullers : Bind(p) \/ Fetch(p) \/ FetchFails(p)
  \/ \E p \in Pullers, m \in Messages : Deliver(p, m) \/ DeliveryLost(p, m)
  \/ \E p \in Pullers : \E d \in waiting[p] : Execute(p, d)
  \/ \E p \in Pullers, m \in Messages, n \in Counts : Consume(p, m, n)
  \/ \E m \in Messages : AckArrives(m) \/ NakDue(m) \/ Late(m) \/ Lapse(m)
  \/ Reconnect \/ Restart

Spec == Init /\ [][Next]_vars

\* The application subscribes, its listener returns, and loops, pools and server do
\* their work.  Each does so by itself; as no step can be repeated for ever, one for
\* all is enough.
Progress ==
  \/ Subscribe
  \/ \E p \in Pullers :
       \/ Bind(p) \/ Fetch(p)
       \/ \E d \in waiting[p] : Execute(p, d)
       \/ \E m \in Messages : Deliver(p, m) \/ \E n \in Counts : Consume(p, m, n)
  \/ \E m \in Messages : SentAsync(m) \/ AckArrives(m) \/ NakDue(m) \/ Lapse(m)

FairSpec == Spec /\ WF_vars(Progress)

-----------------------------------------------------------------------------
(* Properties.                                                              *)

\* Every variable keeps its type.
TypeOK ==
  /\ alive \in BOOLEAN
  /\ sub \in {"new", "pull", "push", "failed"}
  /\ ppc \in [Pullers -> {"none", "bind", "pulling", "pushed", "failed"}]
  /\ left \in [Pullers -> 0..Batch]
  /\ waiting \in [Pullers -> SUBSET Deliveries]
  /\ pool \in [Pullers -> SUBSET Deliveries]
  /\ pc \in [Messages -> {"new", "sent", "failed"}]
  /\ outbox \subseteq Async
  /\ server \in [Messages -> {"none", "ready", "out", "acked"}]
  /\ count \in [Messages -> Counts \union {0}]
  /\ acks \subseteq Messages
  /\ naks \subseteq Messages
  /\ over \in [Messages -> [Counts -> {"none", "done", "given up", "naked", "panicked"}]]
  /\ faults \in 0..MaxFaults

\* consume has a message delivered no more than Limit times: what goes beyond that is
\* paid for, one by one, by panics, lost connections or processes, and late answers.
DeliveriesBounded == \A m \in Messages : count[m] <= Limit + faults

\* A message is in the hands of one puller at a time, unless something went wrong:
\* negative answers, their delays and AckWait never make copies of it by themselves.
OneCopy == \A m \in Messages : Cardinality(Live(m)) <= 1 + faults

\* A listener has accepted the message, or has refused it with no retry left.
Settled(m) ==
  \E n \in Counts : \/ over[m][n] = "done"
                    \/ over[m][n] = "given up" /\ ~(Manual /\ n < Limit)
\* A message leaves the consumer only when it is settled: no crash, panic, late or
\* lost answer drops it.
AckedIsSettled == \A m \in Messages : server[m] = "acked" => Settled(m)

toldBar == [m \in Messages |->
  CASE pc[m] = "sent" -> "sent" [] pc[m] = "failed" -> "error" [] OTHER -> "nothing"]
stateBar == [m \in Messages |->
  CASE server[m] = "none" -> "absent" [] server[m] = "acked" -> "settled" [] OTHER -> "stored"]
judgedBar == {m \in Messages : Settled(m)}
Queue == INSTANCE MessageQueue WITH told <- toldBar, state <- stateBar, judged <- judgedBar
\* The client and JetStream together implement MessageQueue: what was reported is stored,
\* AckedIsSettled, and no late or crossing answer brings a settled message back.
ImplementsQueue == Queue!Spec

\* No loop is left, or none was started.
Unsubscribed ==
  \/ sub = "failed"
  \/ sub # "new" /\ \A p \in Pullers : ppc[p] \in {"none", "failed"}
\* A message Send has reported as sent leaves the consumer in the end, if the process
\* lives and subscribes: after a panic too, for AckWait brings it back.
SentIsSettled ==
  \A m \in Messages \ Async :
    pc[m] = "sent" ~> server[m] = "acked" \/ ~alive \/ Unsubscribed

=============================================================================

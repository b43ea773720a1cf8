---------------------------- MODULE PulsarClient ----------------------------
(***************************************************************************)
(* The Pulsar client of mq/pulsar: NewClient with its sync.Once, doSend and *)
(* doSendAsync with the producer cache of getProducer, doSubscribe, and the *)
(* goroutine consume that runs for every delivery.  The broker and the SDK  *)
(* are modelled as the code uses them: a message the broker has stored is   *)
(* dispatched until it is acknowledged, and RedeliveryCount counts its      *)
(* redeliveries.                                                            *)
(*                                                                          *)
(* A message stands for one call of Send or SendAsync and names its caller; *)
(* a producer is named by the caller that created it, a delivery by its     *)
(* message and the RedeliveryCount it carries.                              *)
(***************************************************************************)
EXTENDS Integers, FiniteSets

CONSTANTS
  Messages,      \* the messages the application sends, each once
  Topics,        \* mq.Message.Topic
  TopicOf,       \* [Messages -> Topics]
  Async,         \* the messages that are sent with SendAsync
  Subscriber,    \* the caller of Subscribe
  IsErrorPanic,  \* ConsumerOptions.IsErrorPanic
  RetryTimes,    \* ConsumerOptions.RetryTimes
  MaxRetryTimes, \* MAX_RETRY_TIMES
  Manual,        \* ConsumerOptions.ACKMode = 1
  MaxBreaks,     \* bound: connections lost and processes restarted
  None

ASSUME PulsarAssumption ==
  /\ TopicOf \in [Messages -> Topics]
  /\ Async \subseteq Messages
  /\ {Subscriber, None} \intersect Messages = {}
  /\ Subscriber # None
  /\ {"open", "done"} \intersect (Messages \union {Subscriber}) = {}
  /\ Manual \in BOOLEAN /\ IsErrorPanic \in BOOLEAN
  /\ RetryTimes \in Nat /\ MaxRetryTimes \in Nat /\ MaxBreaks \in Nat

Callers == Messages \union {Subscriber}

\* doSubscribe's default, then consume's min.
Limit == IF RetryTimes = 0 \/ RetryTimes > MaxRetryTimes THEN MaxRetryTimes ELSE RetryTimes
\* The RedeliveryCounts a message can reach, and one more.
Counts == 0..(Limit + MaxBreaks + 1)

VARIABLES
  alive,      \* FALSE once a panic or the runtime has stopped the process
  once,       \* the sync.Once: "open", a caller, or "done"
  client,     \* pulsarClient, named by the caller that connected it
  mt,         \* who holds PulsarClient.mt
  producers,  \* the cache: topic -> producer or None
  made,       \* topic -> the producers created for it and not closed
  pc,         \* where each caller is
  prod,       \* getProducer's local p
  outbox,     \* messages given to SendAsync and not yet sent
  broker,     \* per message: "none", "backlog", "held" by the consumer, or "acked"
  count,      \* per message: its RedeliveryCount
  acks,       \* acknowledgements on their way to the broker
  nacks,      \* the SDK's tracker of negative acknowledgements
  run,        \* per message and RedeliveryCount: where its consume is
  breaks      \* connections lost so far

processVars == <<once, client, mt, producers, made>>
callVars == <<pc, prod, outbox>>
brokerVars == <<broker, count, acks, nacks, breaks>>
vars == <<alive, processVars, callVars, brokerVars, run>>

Init ==
  /\ alive = TRUE
  /\ once = "open"
  /\ client = None
  /\ mt = None
  /\ producers = [t \in Topics |-> None]
  /\ made = [t \in Topics |-> {}]
  /\ pc = [p \in Callers |-> "new"]
  /\ prod = [m \in Messages |-> None]
  /\ outbox = {}
  /\ broker = [m \in Messages |-> "none"]
  /\ count = [m \in Messages |-> 0]
  /\ acks = {}
  /\ nacks = {}
  /\ run = [m \in Messages |-> [n \in Counts |-> "none"]]
  /\ breaks = 0

-----------------------------------------------------------------------------
(* NewClient.                                                               *)

\* A caller moves from one line to another, with no effect on the broker.
Step(p, from, to) ==
  /\ alive
  /\ pc[p] = from
  /\ pc' = [pc EXCEPT ![p] = to]
  /\ UNCHANGED <<brokerVars, run>>

\* A panic ends the caller; unless the application recovers it, the process too.
Panic(p, from) ==
  /\ Step(p, from, "panicked")
  /\ alive' \in BOOLEAN

AfterNew(p) == IF p = Subscriber THEN "subscribe" ELSE "cached"

NewCheck(p) ==
  /\ Step(p, "new", IF client # None THEN AfterNew(p) ELSE "once")
  /\ UNCHANGED <<alive, processVars, prod, outbox>>

\* once.Do: the first caller goes in, the others wait until it is out.
OnceEnter(p) ==
  /\ \/ once = "open" /\ once' = p /\ Step(p, "once", "connect")
     \/ once = "done" /\ once' = once /\ Step(p, "once", AfterNew(p))
  /\ UNCHANGED <<alive, client, mt, producers, made, prod, outbox>>

\* A failed createClient panics, and the Once is done all the same.
Connect(p) ==
  /\ once' = "done"
  /\ \/ client' = p /\ alive' = alive /\ Step(p, "connect", AfterNew(p))
     \/ client' = client /\ Panic(p, "connect")
  /\ UNCHANGED <<mt, producers, made, prod, outbox>>

-----------------------------------------------------------------------------
(* doSend and doSendAsync.                                                  *)

\* getProducer reads the cache without the lock.
GetCached(m) ==
  /\ Step(m, "cached", IF producers[TopicOf[m]] # None THEN "send" ELSE "lock")
  /\ prod' = [prod EXCEPT ![m] = producers[TopicOf[m]]]
  /\ UNCHANGED <<alive, processVars, outbox>>

\* pc.mt.Lock(): a client that is nil has none.
Lock(m) ==
  /\ IF client = None
       THEN mt' = mt /\ Panic(m, "lock")
       ELSE mt = None /\ mt' = m /\ alive' = alive /\ Step(m, "lock", "recheck")
  /\ UNCHANGED <<once, client, producers, made, prod, outbox>>

\* Mutant: no second look.
Recheck_Missing(m) ==
  /\ Step(m, "recheck", "create")
  /\ UNCHANGED <<alive, processVars, prod, outbox>>

\* The second look, under the lock.
Recheck(m) ==
  /\ prod' = [prod EXCEPT ![m] = producers[TopicOf[m]]]
  /\ IF producers[TopicOf[m]] # None
       THEN mt' = None /\ Step(m, "recheck", "send")
       ELSE mt' = mt /\ Step(m, "recheck", "create")
  /\ UNCHANGED <<alive, once, client, producers, made, outbox>>

\* createProducer: a producer, or nil and an error.
Create(m) ==
  /\ \/ /\ prod' = [prod EXCEPT ![m] = m]
        /\ made' = [made EXCEPT ![TopicOf[m]] = @ \union {m}]
     \/ UNCHANGED <<prod, made>>
  /\ Step(m, "create", "store")
  /\ UNCHANGED <<alive, once, client, mt, producers, outbox>>

\* Mutant: the error is not returned.
Store_NoError(m) ==
  /\ producers' = [producers EXCEPT ![TopicOf[m]] = prod[m]]
  /\ mt' = None
  /\ Step(m, "store", "send")
  /\ UNCHANGED <<alive, once, client, made, prod, outbox>>

\* Mutant: an early return after an error keeps the lock.
Store_KeepsLock(m) ==
  /\ producers' = [producers EXCEPT ![TopicOf[m]] = prod[m]]
  /\ mt' = IF prod[m] = None THEN mt ELSE None
  /\ Step(m, "store", IF prod[m] = None THEN "failed" ELSE "send")
  /\ UNCHANGED <<alive, once, client, made, prod, outbox>>

\* The result goes into the cache, error or not; then the deferred Unlock.
Store(m) ==
  /\ producers' = [producers EXCEPT ![TopicOf[m]] = prod[m]]
  /\ mt' = None
  /\ Step(m, "store", IF prod[m] = None THEN "failed" ELSE "send")
  /\ UNCHANGED <<alive, once, client, made, prod, outbox>>

Stored(m) == broker' = [broker EXCEPT ![m] = IF @ = "none" THEN "backlog" ELSE @]

\* producer.Send waits for the broker; one that failed may have stored the message.
Send(m) ==
  /\ alive
  /\ pc[m] = "send"
  /\ m \notin Async
  /\ \/ Stored(m) /\ pc' = [pc EXCEPT ![m] = "sent"]
     \/ (Stored(m) \/ UNCHANGED broker) /\ pc' = [pc EXCEPT ![m] = "failed"]
  /\ UNCHANGED <<alive, processVars, prod, outbox, count, acks, nacks, breaks, run>>

\* producer.SendAsync returns at once; its callback only logs.
SendAsync(m) ==
  /\ m \in Async
  /\ Step(m, "send", "sent")
  /\ outbox' = outbox \union {m}
  /\ UNCHANGED <<alive, processVars, prod>>

SentAsync(m) ==
  /\ alive
  /\ m \in outbox
  /\ outbox' = outbox \ {m}
  /\ Stored(m) \/ UNCHANGED broker
  /\ UNCHANGED <<alive, processVars, pc, prod, count, acks, nacks, breaks, run>>

\* A read of the cache that meets a write lets the runtime stop the process.
MapRace ==
  /\ alive
  /\ \E m, o \in Messages : pc[m] = "cached" /\ pc[o] = "store"
  /\ alive' = FALSE
  /\ UNCHANGED <<processVars, callVars, brokerVars, run>>

-----------------------------------------------------------------------------
(* doSubscribe and consume.                                                 *)

Subscribe ==
  /\ \/ client # None /\ alive' = alive /\ Step(Subscriber, "subscribe", "consuming")
     \/ client # None /\ ~IsErrorPanic /\ alive' = alive
          /\ Step(Subscriber, "subscribe", "failed")
     \/ (client = None \/ IsErrorPanic) /\ Panic(Subscriber, "subscribe")
  /\ UNCHANGED <<processVars, prod, outbox>>

\* A message goes through the channel to a goroutine, which calls the MessageListener.
Dispatch(m) ==
  /\ alive
  /\ pc[Subscriber] = "consuming"
  /\ broker[m] = "backlog"
  /\ broker' = [broker EXCEPT ![m] = "held"]
  /\ run' = [run EXCEPT ![m][count[m]] = "running"]
  /\ UNCHANGED <<alive, processVars, callVars, count, acks, nacks, breaks>>

\* The listener of a delivery returns, and its consume ends.
End(m, n, how) ==
  /\ alive
  /\ run[m][n] = "running"
  /\ run' = [run EXCEPT ![m][n] = how]
  /\ UNCHANGED <<alive, processVars, callVars, broker, count, breaks>>

\* A listener that panics: the recovered goroutine calls neither Ack nor Nack.
Panicked(m, n) ==
  /\ End(m, n, "panicked")
  /\ UNCHANGED <<acks, nacks>>

\* Mutant: one retry too many.
Retry_OneMore(n) == Manual /\ n <= Limit

\* Mutant: RetryTimes is not looked at.
Retry_Always(n) == Manual

Retry(n) == Manual /\ n < Limit

\* Mutant: Ack in a deferred call, after a panic too.
Ack_Deferred(m, n) ==
  /\ End(m, n, "done") \/ End(m, n, "panicked") \/ (~Retry(n) /\ End(m, n, "given up"))
  /\ acks' = acks \union {m}
  /\ UNCHANGED nacks

\* Mutant: a message without a retry left is not acknowledged.
Ack_NotGivenUp(m, n) ==
  /\ \/ End(m, n, "done") /\ acks' = acks \union {m}
     \/ ~Retry(n) /\ End(m, n, "given up") /\ acks' = acks
  /\ UNCHANGED nacks

\* It accepted the message, or refused it and there is no retry left.
Ack(m, n) ==
  /\ End(m, n, "done") \/ (~Retry(n) /\ End(m, n, "given up"))
  /\ acks' = acks \union {m}
  /\ UNCHANGED nacks

Nack(m, n) ==
  /\ Retry(n)
  /\ End(m, n, "nacked")
  /\ nacks' = nacks \union {m}
  /\ UNCHANGED acks

Consume(m, n) == Panicked(m, n) \/ Ack(m, n) \/ Nack(m, n)

-----------------------------------------------------------------------------
(* The broker and the connection to it.                                     *)

AckArrives(m) ==
  /\ m \in acks
  /\ acks' = acks \ {m}
  /\ broker' = [broker EXCEPT ![m] = "acked"]
  /\ UNCHANGED <<alive, processVars, callVars, count, nacks, breaks, run>>

\* NackRedeliveryDelay is over: the broker redelivers the message if it is held.
Redeliver(m) ==
  /\ alive
  /\ m \in nacks
  /\ nacks' = nacks \ {m}
  /\ IF broker[m] = "held"
       THEN /\ broker' = [broker EXCEPT ![m] = "backlog"]
            /\ count' = [count EXCEPT ![m] = @ + 1]
       ELSE UNCHANGED <<broker, count>>
  /\ UNCHANGED <<alive, processVars, callVars, acks, breaks, run>>

\* The connection is gone: acknowledgements on their way may be lost, and what the
\* consumer held is delivered again.
Break ==
  /\ breaks < MaxBreaks
  /\ breaks' = breaks + 1
  /\ acks' \in SUBSET acks
  /\ broker' = [m \in Messages |-> IF broker[m] = "held" THEN "backlog" ELSE broker[m]]
  /\ count' = [m \in Messages |-> IF broker[m] = "held" THEN count[m] + 1 ELSE count[m]]

Reconnect ==
  /\ alive
  /\ Break
  /\ UNCHANGED <<alive, processVars, callVars, nacks, run>>

\* The process ends, by itself or not, and is started again.
Restart ==
  /\ Break
  /\ alive' = TRUE
  /\ once' = "open" /\ client' = None /\ mt' = None
  /\ producers' = [t \in Topics |-> None]
  /\ made' = [t \in Topics |-> {}]
  /\ pc' = [p \in Callers |->
              CASE p = Subscriber -> "new"
                [] pc[p] \in {"new", "sent", "failed", "panicked"} -> pc[p]
                [] OTHER -> "gone"]
  /\ outbox' = {}
  /\ nacks' = {}
  /\ run' = [m \in Messages |-> [n \in Counts |->
              IF run[m][n] = "running" THEN "gone" ELSE run[m][n]]]
  /\ UNCHANGED prod

NewClient(p) == NewCheck(p) \/ OnceEnter(p) \/ Connect(p)
GetProducer(m) == GetCached(m) \/ Lock(m) \/ Recheck(m) \/ Create(m) \/ Store(m)

Next ==
  \/ \E p \in Callers : NewClient(p)
  \/ \E m \in Messages : GetProducer(m) \/ Send(m) \/ SendAsync(m) \/ SentAsync(m)
  \/ Subscribe
  \/ \E m \in Messages : Dispatch(m) \/ AckArrives(m) \/ Redeliver(m)
  \/ \E m \in Messages, n \in Counts : Consume(m, n)
  \/ MapRace \/ Reconnect \/ Restart

Spec == Init /\ [][Next]_vars

\* A call that has begun goes on, and sync.Mutex hands itself to a waiter; the
\* application subscribes; a listener returns; broker and SDK do their work.  Each
\* does so by itself; as no step can be repeated for ever, one for all is enough.
Progress ==
  \/ NewClient(Subscriber) \/ Subscribe
  \/ \E m \in Messages :
       \/ pc[m] # "new" /\ (NewClient(m) \/ GetProducer(m) \/ Send(m) \/ SendAsync(m))
       \/ SentAsync(m) \/ Dispatch(m) \/ AckArrives(m) \/ Redeliver(m)
       \/ \E n \in Counts : Consume(m, n)

FairSpec == Spec /\ WF_vars(Progress)

-----------------------------------------------------------------------------
(* Properties.                                                              *)

\* Every variable keeps its type.
TypeOK ==
  /\ alive \in BOOLEAN
  /\ once \in {"open", "done"} \union Callers
  /\ client \in Callers \union {None}
  /\ mt \in Messages \union {None}
  /\ producers \in [Topics -> Messages \union {None}]
  /\ made \in [Topics -> SUBSET Messages]
  /\ pc \in [Callers -> {"new", "once", "connect", "cached", "lock", "recheck", "create",
                         "store", "send", "sent", "subscribe", "consuming", "failed",
                         "panicked", "gone"}]
  /\ prod \in [Messages -> Messages \union {None}]
  /\ outbox \subseteq Async
  /\ broker \in [Messages -> {"none", "backlog", "held", "acked"}]
  /\ count \in [Messages -> Counts]
  /\ acks \subseteq Messages
  /\ nacks \subseteq Messages
  /\ run \in [Messages -> [Counts -> {"none", "running", "done", "given up", "nacked",
                                      "panicked", "gone"}]]
  /\ breaks \in 0..MaxBreaks

\* However many callers race through the unlocked reads of pulsarClient and of the
\* cache, a process connects once and keeps one producer per topic.
OneOfEach ==
  /\ Cardinality({p \in Callers : pc[p] = "connect"} \union ({client} \ {None})) <= 1
  /\ \A t \in Topics : Cardinality(made[t]) <= 1

\* A sender that got past getProducer has the producer of its topic's cache: never
\* nil, although failed creations are stored, and none that was replaced.
SendsThroughCached ==
  \A m \in Messages :
    pc[m] = "send" => prod[m] # None /\ prod[m] = producers[TopicOf[m]]

\* consume retries a message no more than Limit times, whatever else delivers it
\* again: RetryTimes and MAX_RETRY_TIMES bound the Nacks.
RetriesBounded == \A m \in Messages : count[m] <= Limit + breaks

\* A listener has accepted the message, or has refused it with no retry left.
Settled(m) ==
  \E n \in Counts : \/ run[m][n] = "done"
                    \/ run[m][n] = "given up" /\ ~(Manual /\ n < Limit)
\* A message leaves the subscription only when it is settled: no crash, panic or
\* lost call drops it.
AckedIsSettled == \A m \in Messages : broker[m] = "acked" => Settled(m)

toldBar == [m \in Messages |->
  CASE pc[m] = "sent" -> "sent"
    [] pc[m] \in {"failed", "panicked"} -> "error"
    [] OTHER -> "nothing"]
stateBar == [m \in Messages |->
  CASE broker[m] = "none" -> "absent" [] broker[m] = "acked" -> "settled" [] OTHER -> "stored"]
judgedBar == {m \in Messages : Settled(m)}
Queue == INSTANCE MessageQueue WITH told <- toldBar, state <- stateBar, judged <- judgedBar
\* The client and the broker together implement MessageQueue: what was reported is stored,
\* AckedIsSettled, and no redelivery brings a settled message back.
ImplementsQueue == Queue!Spec

\* The delivery the broker waits for ended in a panic: nothing will answer it.
Forgotten(m) == broker[m] = "held" /\ run[m][count[m]] = "panicked"
\* A message Send has reported as sent is settled in the end, if the process lives
\* and subscribes, and unless the listener panics.
SentIsSettled ==
  \A m \in Messages \ Async :
    pc[m] = "sent" ~> \/ broker[m] = "acked" \/ Forgotten(m) \/ ~alive
                      \/ pc[Subscriber] \in {"failed", "panicked"}

\* Every call that has begun comes to an end: no lock and no Once is kept.
CallsReturn ==
  \A m \in Messages : pc[m] = "once" ~>
    pc[m] \in {"sent", "failed", "panicked", "gone"} \/ ~alive

=============================================================================

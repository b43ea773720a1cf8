------------------------- MODULE PulsarClientProofs -------------------------
(***************************************************************************)
(* Proofs about PulsarClient, for any number of messages, topics, retries   *)
(* and lost connections.                                                    *)
(***************************************************************************)
EXTENDS PulsarClient, FiniteSetTheorems, TLAPS

RunStates == {"none", "running", "done", "given up", "nacked", "panicked", "gone"}
PcStates == {"new", "once", "connect", "cached", "lock", "recheck", "create", "store",
             "send", "sent", "subscribe", "consuming", "failed", "panicked", "gone"}

\* The types, with no bound on the counts.
TypeInv ==
  /\ alive \in BOOLEAN
  /\ once \in {"open", "done"} \union Callers
  /\ client \in Callers \union {None}
  /\ mt \in Messages \union {None}
  /\ producers \in [Topics -> Messages \union {None}]
  /\ made \in [Topics -> SUBSET Messages]
  /\ pc \in [Callers -> PcStates]
  /\ prod \in [Messages -> Messages \union {None}]
  /\ outbox \subseteq Async
  /\ broker \in [Messages -> {"none", "backlog", "held", "acked"}]
  /\ count \in [Messages -> Nat]
  /\ acks \subseteq Messages
  /\ nacks \subseteq Messages
  /\ run \in [Messages -> [Counts -> RunStates]]
  /\ breaks \in 0..MaxBreaks

\* One caller is inside the Once, one inside the mutex; a producer that exists is in
\* the cache or about to be stored there by the caller that made it.
CacheInv ==
  /\ \A p \in Callers : pc[p] = "connect" => once = p
  /\ client # None => once = "done"
  /\ \A m \in Messages : pc[m] \in {"recheck", "create", "store"} => mt = m
  /\ \A m \in Messages : pc[m] \in {"create", "store"} => producers[TopicOf[m]] = None
  /\ \A m \in Messages : pc[m] = "create" => prod[m] = None
  /\ \A m \in Messages : pc[m] = "store" => prod[m] \in {None, m}
  /\ \A t \in Topics : \A k \in made[t] :
       /\ TopicOf[k] = t
       /\ producers[t] = k \/ (pc[k] = "store" /\ prod[k] = k)
  /\ SendsThroughCached

Nacked(m) == {n \in Counts : run[m][n] = "nacked"}
Due(m) == IF m \in nacks THEN 1 ELSE 0

\* Deliveries get a fresh RedeliveryCount each, every redelivery goes back to a Nack
\* of its own or to a lost connection, and Nacks are sent below the limit only.
DeliveryInv ==
  /\ \A m \in Messages, n \in Counts :
       n > count[m] \/ (n = count[m] /\ broker[m] \in {"none", "backlog"})
         => run[m][n] = "none"
  /\ \A m \in Messages, n \in Counts : run[m][n] = "nacked" => n < Limit
  /\ \A m \in Messages : count[m] + Due(m) <= Cardinality(Nacked(m)) + breaks
  /\ \A m \in acks : Settled(m)
  /\ AckedIsSettled

Inv == TypeInv /\ CacheInv /\ DeliveryInv

\* The limit of the retries is a number.
LEMMA LimitType == Limit \in Nat
BY PulsarAssumption DEF Limit

\* Senders, the subscriber and the other values are distinct.
LEMMA CallersFacts ==
  /\ \A m \in Messages : m \in Callers /\ m # Subscriber /\ m # None
  /\ Subscriber \in Callers /\ None \notin Callers
  /\ "open" \notin Callers /\ "done" \notin Callers
BY PulsarAssumption DEF Callers

\* Every step keeps the types.
LEMMA TypeStep ==
  ASSUME TypeInv, [Next]_vars
  PROVE  TypeInv'
<1>1. ASSUME NEW p \in Callers, NewCheck(p) PROVE TypeInv'
  BY <1>1, PulsarAssumption, LimitType, CallersFacts DEF NewCheck, Step, AfterNew, TypeInv,
     PcStates, RunStates, processVars, callVars, brokerVars
<1>2. ASSUME NEW p \in Callers, OnceEnter(p) PROVE TypeInv'
  BY <1>2, PulsarAssumption, LimitType, CallersFacts DEF OnceEnter, Step, AfterNew, TypeInv,
     PcStates, RunStates, processVars, callVars, brokerVars
<1>3. ASSUME NEW p \in Callers, Connect(p) PROVE TypeInv'
  BY <1>3, PulsarAssumption, LimitType, CallersFacts DEF Connect, Step, Panic, AfterNew,
     TypeInv, PcStates, RunStates, processVars, callVars, brokerVars
<1>4. ASSUME NEW m \in Messages, GetCached(m) PROVE TypeInv'
  BY <1>4, PulsarAssumption, LimitType, CallersFacts DEF GetCached, Step, TypeInv, PcStates,
     RunStates, processVars, callVars, brokerVars
<1>5. ASSUME NEW m \in Messages, Lock(m) PROVE TypeInv'
  BY <1>5, PulsarAssumption, LimitType, CallersFacts DEF Lock, Step, Panic, TypeInv, PcStates,
     RunStates, processVars, callVars, brokerVars
<1>6. ASSUME NEW m \in Messages, Recheck(m) PROVE TypeInv'
  BY <1>6, PulsarAssumption, LimitType, CallersFacts DEF Recheck, Step, TypeInv, PcStates,
     RunStates, processVars, callVars, brokerVars
<1>7. ASSUME NEW m \in Messages, Create(m) PROVE TypeInv'
  <2>1. TopicOf[m] \in Topics
    BY PulsarAssumption
  <2>2. made' \in [Topics -> SUBSET Messages] /\ prod' \in [Messages -> Messages \union {None}]
    <3>1. CASE UNCHANGED <<prod, made>>
      BY <3>1 DEF TypeInv
    <3>2. CASE /\ prod' = [prod EXCEPT ![m] = m]
               /\ made' = [made EXCEPT ![TopicOf[m]] = @ \union {m}]
      <4>1. made[TopicOf[m]] \union {m} \in SUBSET Messages
        BY <2>1 DEF TypeInv
      <4> QED BY <3>2, <4>1 DEF TypeInv
    <3> QED BY <1>7, <3>1, <3>2 DEF Create
  <2> QED BY <1>7, <2>2, CallersFacts DEF Create, Step, TypeInv, PcStates, callVars, brokerVars
<1>8. ASSUME NEW m \in Messages, Store(m) PROVE TypeInv'
  BY <1>8, PulsarAssumption, LimitType, CallersFacts DEF Store, Step, TypeInv, PcStates,
     RunStates, processVars, callVars, brokerVars
<1>9. ASSUME NEW m \in Messages, Send(m) PROVE TypeInv'
  BY <1>9, PulsarAssumption, LimitType, CallersFacts DEF Send, Stored, TypeInv, PcStates,
     RunStates, processVars, callVars, brokerVars
<1>10. ASSUME NEW m \in Messages, SendAsync(m) PROVE TypeInv'
  BY <1>10, PulsarAssumption, LimitType, CallersFacts DEF SendAsync, Step, TypeInv, PcStates,
     RunStates, processVars, callVars, brokerVars
<1>11. ASSUME NEW m \in Messages, SentAsync(m) PROVE TypeInv'
  BY <1>11, PulsarAssumption, LimitType, CallersFacts DEF SentAsync, Stored, TypeInv,
     PcStates, RunStates, processVars, callVars, brokerVars
<1>12. ASSUME Subscribe PROVE TypeInv'
  BY <1>12, PulsarAssumption, LimitType, CallersFacts DEF Subscribe, Step, Panic, TypeInv,
     PcStates, RunStates, processVars, callVars, brokerVars
<1>13. ASSUME NEW m \in Messages, Dispatch(m) PROVE TypeInv'
  BY <1>13, PulsarAssumption, LimitType, CallersFacts DEF Dispatch, TypeInv, PcStates,
     RunStates, processVars, callVars, brokerVars
<1>14. ASSUME NEW m \in Messages, AckArrives(m) PROVE TypeInv'
  BY <1>14, PulsarAssumption, LimitType, CallersFacts DEF AckArrives, TypeInv, PcStates,
     RunStates, processVars, callVars, brokerVars
<1>15. ASSUME NEW m \in Messages, Redeliver(m) PROVE TypeInv'
  <2>1. count' \in [Messages -> Nat]
    BY <1>15 DEF Redeliver, TypeInv
  <2>2. broker' \in [Messages -> {"none", "backlog", "held", "acked"}]
    BY <1>15 DEF Redeliver, TypeInv
  <2> QED BY <1>15, <2>1, <2>2 DEF Redeliver, TypeInv, processVars, callVars
<1>16. ASSUME NEW m \in Messages, NEW n \in Counts, Panicked(m, n) PROVE TypeInv'
  BY <1>16, PulsarAssumption, LimitType, CallersFacts DEF Panicked, End, TypeInv, PcStates,
     RunStates, processVars, callVars, brokerVars
<1>17. ASSUME NEW m \in Messages, NEW n \in Counts, Ack(m, n) PROVE TypeInv'
  <2>1. run' \in [Messages -> [Counts -> RunStates]]
    <3>1. PICK how \in {"done", "given up"} : End(m, n, how)
      BY <1>17 DEF Ack
    <3> QED BY <3>1 DEF End, TypeInv, RunStates
  <2>2. UNCHANGED <<alive, processVars, callVars, broker, count, breaks>>
    BY <1>17 DEF Ack, End
  <2> QED BY <1>17, <2>1, <2>2 DEF Ack, TypeInv, processVars, callVars
<1>18. ASSUME NEW m \in Messages, NEW n \in Counts, Nack(m, n) PROVE TypeInv'
  BY <1>18, PulsarAssumption, LimitType, CallersFacts DEF Nack, End, TypeInv, PcStates,
     RunStates, processVars, callVars, brokerVars
<1>19. ASSUME MapRace PROVE TypeInv'
  BY <1>19, PulsarAssumption, LimitType, CallersFacts DEF MapRace, TypeInv, PcStates,
     RunStates, processVars, callVars, brokerVars
<1>20. ASSUME Reconnect PROVE TypeInv'
  <2>1. breaks' \in 0..MaxBreaks /\ acks' \subseteq Messages
    BY <1>20, PulsarAssumption DEF Reconnect, Break, TypeInv
  <2>2. broker' \in [Messages -> {"none", "backlog", "held", "acked"}]
    BY <1>20 DEF Reconnect, Break, TypeInv
  <2>3. count' \in [Messages -> Nat]
    BY <1>20 DEF Reconnect, Break, TypeInv
  <2> QED BY <1>20, <2>1, <2>2, <2>3 DEF Reconnect, TypeInv, processVars, callVars
<1>21. ASSUME Restart PROVE TypeInv'
  <2>1. breaks' \in 0..MaxBreaks /\ acks' \subseteq Messages
    BY <1>21, PulsarAssumption DEF Restart, Break, TypeInv
  <2>2. broker' \in [Messages -> {"none", "backlog", "held", "acked"}]
    BY <1>21 DEF Restart, Break, TypeInv
  <2>3. count' \in [Messages -> Nat]
    BY <1>21 DEF Restart, Break, TypeInv
  <2>4. pc' \in [Callers -> PcStates]
    BY <1>21 DEF Restart, TypeInv, PcStates
  <2>5. run' \in [Messages -> [Counts -> RunStates]]
    BY <1>21 DEF Restart, TypeInv, RunStates
  <2> QED BY <1>21, <2>1, <2>2, <2>3, <2>4, <2>5 DEF Restart, TypeInv
<1>22. CASE UNCHANGED vars
  BY <1>22, PulsarAssumption, LimitType, CallersFacts DEF TypeInv, PcStates, RunStates, vars,
     processVars, callVars, brokerVars
<1> QED BY <1>1, <1>2, <1>3, <1>4, <1>5, <1>6, <1>7, <1>8, <1>9, <1>10, <1>11, <1>12, <1>13,
     <1>14, <1>15, <1>16, <1>17, <1>18, <1>19, <1>20, <1>21, <1>22 DEF Next, NewClient,
          GetProducer, Consume

\* Every step keeps what the Once, the mutex and the cache guarantee.
LEMMA CacheStep ==
  ASSUME TypeInv, CacheInv, [Next]_vars
  PROVE  CacheInv'
<1>1. ASSUME NEW p \in Callers, NewCheck(p) PROVE CacheInv'
  BY <1>1, PulsarAssumption, CallersFacts DEF NewCheck, Step, AfterNew, CacheInv,
     SendsThroughCached, TypeInv, processVars, callVars, brokerVars
<1>2. ASSUME NEW p \in Callers, OnceEnter(p) PROVE CacheInv'
  BY <1>2, PulsarAssumption, CallersFacts DEF OnceEnter, Step, AfterNew, CacheInv,
     SendsThroughCached, TypeInv, processVars, callVars, brokerVars
<1>3. ASSUME NEW p \in Callers, Connect(p) PROVE CacheInv'
  <2>1. UNCHANGED <<mt, producers, made, prod>> /\ once' = "done" /\ once = p
    BY <1>3 DEF Connect, Step, Panic, CacheInv
  <2>2. PICK to \in {"subscribe", "cached", "panicked"} :
          pc[p] = "connect" /\ pc' = [pc EXCEPT ![p] = to]
    BY <1>3 DEF Connect, Step, Panic, AfterNew
  <2>3. \A q \in Callers : pc'[q] # "connect"
    BY <2>1, <2>2 DEF CacheInv, TypeInv
  <2>4. \A m \in Messages : pc'[m] \in {"recheck", "create", "store", "send"} => pc[m] = pc'[m]
    BY <2>2, CallersFacts DEF TypeInv
  <2>5. \A m \in Messages : pc[m] = "store" => pc'[m] = "store"
    BY <2>2, CallersFacts DEF TypeInv
  <2>6. client' # None => once' = "done"
    BY <2>1
  <2>7. SendsThroughCached'
    BY <2>1, <2>4 DEF CacheInv, SendsThroughCached
  <2>8. \A t \in Topics : \A k \in made'[t] :
          TopicOf[k] = t /\ (producers'[t] = k \/ (pc'[k] = "store" /\ prod'[k] = k))
    BY <2>1, <2>5 DEF CacheInv, TypeInv
  <2> QED BY <2>1, <2>3, <2>4, <2>6, <2>7, <2>8 DEF CacheInv
<1>4. ASSUME NEW m \in Messages, GetCached(m) PROVE CacheInv'
  BY <1>4, PulsarAssumption, CallersFacts DEF GetCached, Step, CacheInv, SendsThroughCached,
     TypeInv, processVars, callVars, brokerVars
<1>5. ASSUME NEW m \in Messages, Lock(m) PROVE CacheInv'
  BY <1>5, PulsarAssumption, CallersFacts DEF Lock, Step, Panic, CacheInv, SendsThroughCached,
     TypeInv, processVars, callVars, brokerVars
<1>6. ASSUME NEW m \in Messages, Recheck(m) PROVE CacheInv'
  BY <1>6, PulsarAssumption, CallersFacts DEF Recheck, Step, CacheInv, SendsThroughCached,
     TypeInv, processVars, callVars, brokerVars
<1>7. ASSUME NEW m \in Messages, Create(m) PROVE CacheInv'
  <2>1. mt = m /\ producers[TopicOf[m]] = None /\ TopicOf[m] \in Topics /\ m \in Callers
    BY <1>7, PulsarAssumption, CallersFacts DEF Create, Step, CacheInv
  <2>2. /\ pc' = [pc EXCEPT ![m] = "store"] /\ pc[m] = "create"
        /\ UNCHANGED <<once, client, mt, producers>>
    BY <1>7 DEF Create, Step
  <2>3. \A o \in Messages \ {m} : pc'[o] = pc[o] /\ pc[o] # "store" /\ prod'[o] = prod[o]
    BY <1>7, <2>1, <2>2, CallersFacts DEF Create, CacheInv, TypeInv
  <2>4. pc'[m] = "store" /\ prod'[m] \in {None, m}
    <3>1. prod[m] = None
      BY <2>2 DEF CacheInv
    <3> QED BY <1>7, <2>1, <2>2, <3>1 DEF Create, TypeInv
  <2>5. \A t \in Topics : \A k \in made'[t] :
          TopicOf[k] = t /\ (producers'[t] = k \/ (pc'[k] = "store" /\ prod'[k] = k))
    <3>1. CASE UNCHANGED <<prod, made>>
      BY <2>2, <2>3, <3>1 DEF CacheInv, TypeInv
    <3>2. CASE /\ prod' = [prod EXCEPT ![m] = m]
               /\ made' = [made EXCEPT ![TopicOf[m]] = @ \union {m}]
      BY <2>1, <2>2, <2>3, <2>4, <3>2 DEF CacheInv, TypeInv
    <3> QED BY <1>7, <3>1, <3>2 DEF Create
  <2> QED BY <2>1, <2>2, <2>3, <2>4, <2>5, CallersFacts DEF CacheInv, SendsThroughCached,
       TypeInv
<1>8. ASSUME NEW m \in Messages, Store(m) PROVE CacheInv'
  BY <1>8, PulsarAssumption, CallersFacts DEF Store, Step, CacheInv, SendsThroughCached,
     TypeInv, processVars, callVars, brokerVars
<1>9. ASSUME NEW m \in Messages, Send(m) PROVE CacheInv'
  BY <1>9, PulsarAssumption, CallersFacts DEF Send, Stored, CacheInv, SendsThroughCached,
     TypeInv, processVars, callVars, brokerVars
<1>10. ASSUME NEW m \in Messages, SendAsync(m) PROVE CacheInv'
  BY <1>10, PulsarAssumption, CallersFacts DEF SendAsync, Step, CacheInv, SendsThroughCached,
     TypeInv, processVars, callVars, brokerVars
<1>11. ASSUME NEW m \in Messages, SentAsync(m) PROVE CacheInv'
  BY <1>11, PulsarAssumption, CallersFacts DEF SentAsync, Stored, CacheInv,
     SendsThroughCached, TypeInv, processVars, callVars, brokerVars
<1>12. ASSUME Subscribe PROVE CacheInv'
  BY <1>12, PulsarAssumption, CallersFacts DEF Subscribe, Step, Panic, CacheInv,
     SendsThroughCached, TypeInv, processVars, callVars, brokerVars
<1>13. ASSUME NEW m \in Messages, Dispatch(m) PROVE CacheInv'
  BY <1>13, PulsarAssumption, CallersFacts DEF Dispatch, CacheInv, SendsThroughCached,
     TypeInv, processVars, callVars, brokerVars
<1>14. ASSUME NEW m \in Messages, AckArrives(m) PROVE CacheInv'
  BY <1>14, PulsarAssumption, CallersFacts DEF AckArrives, CacheInv, SendsThroughCached,
     TypeInv, processVars, callVars, brokerVars
<1>15. ASSUME NEW m \in Messages, Redeliver(m) PROVE CacheInv'
  BY <1>15, PulsarAssumption, CallersFacts DEF Redeliver, CacheInv, SendsThroughCached,
     TypeInv, processVars, callVars, brokerVars
<1>16. ASSUME NEW m \in Messages, NEW n \in Counts, Panicked(m, n) PROVE CacheInv'
  BY <1>16, PulsarAssumption, CallersFacts DEF Panicked, End, CacheInv, SendsThroughCached,
     TypeInv, processVars, callVars, brokerVars
<1>17. ASSUME NEW m \in Messages, NEW n \in Counts, Ack(m, n) PROVE CacheInv'
  <2>1. UNCHANGED <<processVars, callVars>>
    BY <1>17 DEF Ack, End
  <2> QED BY <2>1 DEF CacheInv, SendsThroughCached, processVars, callVars
<1>18. ASSUME NEW m \in Messages, NEW n \in Counts, Nack(m, n) PROVE CacheInv'
  BY <1>18, PulsarAssumption, CallersFacts DEF Nack, End, CacheInv, SendsThroughCached,
     TypeInv, processVars, callVars, brokerVars
<1>19. ASSUME MapRace PROVE CacheInv'
  BY <1>19, PulsarAssumption, CallersFacts DEF MapRace, CacheInv, SendsThroughCached, TypeInv,
     processVars, callVars, brokerVars
<1>20. ASSUME Reconnect PROVE CacheInv'
  BY <1>20, PulsarAssumption, CallersFacts DEF Reconnect, Break, CacheInv, SendsThroughCached,
     TypeInv, processVars, callVars, brokerVars
<1>21. ASSUME Restart PROVE CacheInv'
  BY <1>21, PulsarAssumption, CallersFacts DEF Restart, Break, CacheInv, SendsThroughCached,
     TypeInv, processVars, callVars, brokerVars
<1>22. CASE UNCHANGED vars
  BY <1>22, PulsarAssumption, CallersFacts DEF CacheInv, SendsThroughCached, TypeInv, vars,
     processVars, callVars, brokerVars
<1> QED BY <1>1, <1>2, <1>3, <1>4, <1>5, <1>6, <1>7, <1>8, <1>9, <1>10, <1>11, <1>12, <1>13,
     <1>14, <1>15, <1>16, <1>17, <1>18, <1>19, <1>20, <1>21, <1>22 DEF Next, NewClient,
          GetProducer, Consume

\* A message has finitely many nacked deliveries.
LEMMA NackedFinite ==
  ASSUME NEW m \in Messages
  PROVE  IsFiniteSet(Nacked(m)) /\ Cardinality(Nacked(m)) \in Nat
<1>1. Limit + MaxBreaks + 1 \in Nat
  BY LimitType, PulsarAssumption
<1>2. IsFiniteSet(Counts)
  BY <1>1, FS_Interval DEF Counts
<1>3. Nacked(m) \subseteq Counts
  BY DEF Nacked
<1> QED BY <1>2, <1>3, FS_Subset, FS_CardinalityType

\* What was settled stays settled: only a consume that runs moves.
LEMMA SettledStays ==
  ASSUME NEW m \in Messages, Settled(m),
         \A n \in Counts : run[m][n] \in {"done", "given up"} => run'[m][n] = run[m][n]
  PROVE  Settled(m)'
BY DEF Settled

\* A step that touches no delivery keeps what is known of them.
LEMMA DeliveriesAlone ==
  ASSUME DeliveryInv, UNCHANGED <<brokerVars, run>>
  PROVE  DeliveryInv'
<1>1. UNCHANGED <<broker, count, acks, nacks, breaks, run>>
  BY DEF brokerVars
<1>2. \A m \in Messages : Nacked(m)' = Nacked(m) /\ Due(m)' = Due(m) /\ Settled(m)' = Settled(m)
  BY <1>1 DEF Nacked, Due, Settled
<1>3. \A m \in acks : Settled(m)'
  BY <1>1 DEF DeliveryInv, Settled
<1>4. AckedIsSettled'
  BY <1>1, <1>2 DEF DeliveryInv, AckedIsSettled, TypeInv
<1> QED BY <1>1, <1>2, <1>3, <1>4 DEF DeliveryInv

\* Every step keeps what is known of deliveries and retries.
LEMMA DeliveryStep ==
  ASSUME TypeInv, DeliveryInv, [Next]_vars
  PROVE  DeliveryInv'
<1>1. ASSUME NEW p \in Callers, NewCheck(p) PROVE DeliveryInv'
  <2>1. UNCHANGED <<brokerVars, run>>
    BY <1>1 DEF NewCheck, Step, AfterNew
  <2> QED BY <2>1, DeliveriesAlone
<1>2. ASSUME NEW p \in Callers, OnceEnter(p) PROVE DeliveryInv'
  <2>1. UNCHANGED <<brokerVars, run>>
    BY <1>2 DEF OnceEnter, Step, AfterNew
  <2> QED BY <2>1, DeliveriesAlone
<1>3. ASSUME NEW p \in Callers, Connect(p) PROVE DeliveryInv'
  <2>1. UNCHANGED <<brokerVars, run>>
    BY <1>3 DEF Connect, Step, Panic, AfterNew
  <2> QED BY <2>1, DeliveriesAlone
<1>4. ASSUME NEW m \in Messages, GetCached(m) PROVE DeliveryInv'
  <2>1. UNCHANGED <<brokerVars, run>>
    BY <1>4 DEF GetCached, Step
  <2> QED BY <2>1, DeliveriesAlone
<1>5. ASSUME NEW m \in Messages, Lock(m) PROVE DeliveryInv'
  <2>1. UNCHANGED <<brokerVars, run>>
    BY <1>5 DEF Lock, Step, Panic
  <2> QED BY <2>1, DeliveriesAlone
<1>6. ASSUME NEW m \in Messages, Recheck(m) PROVE DeliveryInv'
  <2>1. UNCHANGED <<brokerVars, run>>
    BY <1>6 DEF Recheck, Step
  <2> QED BY <2>1, DeliveriesAlone
<1>7. ASSUME NEW m \in Messages, Create(m) PROVE DeliveryInv'
  <2>1. UNCHANGED <<brokerVars, run>>
    BY <1>7 DEF Create, Step
  <2> QED BY <2>1, DeliveriesAlone
<1>8. ASSUME NEW m \in Messages, Store(m) PROVE DeliveryInv'
  <2>1. UNCHANGED <<brokerVars, run>>
    BY <1>8 DEF Store, Step
  <2> QED BY <2>1, DeliveriesAlone
<1>9. ASSUME NEW m \in Messages, Send(m) PROVE DeliveryInv'
  <2>1. UNCHANGED <<count, acks, nacks, breaks, run>>
    BY <1>9 DEF Send
  <2>2. \A o \in Messages :
          broker'[o] = broker[o] \/ (broker[o] = "none" /\ broker'[o] = "backlog")
    BY <1>9 DEF Send, Stored, TypeInv
  <2>3. \A o \in Messages : Nacked(o)' = Nacked(o) /\ Due(o)' = Due(o)
    BY <2>1 DEF Nacked, Due
  <2>4. \A o \in Messages : Settled(o) => Settled(o)'
    BY <2>1, SettledStays
  <2>5. \A o \in Messages : count'[o] + Due(o)' <= Cardinality(Nacked(o)') + breaks'
    BY <2>1, <2>3 DEF DeliveryInv
  <2>6. AckedIsSettled' /\ \A o \in acks' : Settled(o)'
    BY <2>1, <2>2, <2>4 DEF DeliveryInv, AckedIsSettled, TypeInv
  <2> QED BY <2>1, <2>2, <2>5, <2>6 DEF DeliveryInv
<1>10. ASSUME NEW m \in Messages, SendAsync(m) PROVE DeliveryInv'
  <2>1. UNCHANGED <<brokerVars, run>>
    BY <1>10 DEF SendAsync, Step
  <2> QED BY <2>1, DeliveriesAlone
<1>11. ASSUME NEW m \in Messages, SentAsync(m) PROVE DeliveryInv'
  <2>1. UNCHANGED <<count, acks, nacks, breaks, run>>
    BY <1>11 DEF SentAsync
  <2>2. \A o \in Messages :
          broker'[o] = broker[o] \/ (broker[o] = "none" /\ broker'[o] = "backlog")
    BY <1>11 DEF SentAsync, Stored, TypeInv
  <2>3. \A o \in Messages : Nacked(o)' = Nacked(o) /\ Due(o)' = Due(o)
    BY <2>1 DEF Nacked, Due
  <2>4. \A o \in Messages : Settled(o) => Settled(o)'
    BY <2>1, SettledStays
  <2>5. \A o \in Messages : count'[o] + Due(o)' <= Cardinality(Nacked(o)') + breaks'
    BY <2>1, <2>3 DEF DeliveryInv
  <2>6. AckedIsSettled' /\ \A o \in acks' : Settled(o)'
    BY <2>1, <2>2, <2>4 DEF DeliveryInv, AckedIsSettled, TypeInv
  <2> QED BY <2>1, <2>2, <2>5, <2>6 DEF DeliveryInv
<1>12. ASSUME Subscribe PROVE DeliveryInv'
  <2>1. UNCHANGED <<brokerVars, run>>
    BY <1>12 DEF Subscribe, Step, Panic
  <2> QED BY <2>1, DeliveriesAlone
<1>13. ASSUME NEW m \in Messages, Dispatch(m) PROVE DeliveryInv'
  <2>1. UNCHANGED <<count, acks, nacks, breaks>>
    BY <1>13 DEF Dispatch
  <2>2. /\ broker[m] = "backlog" /\ broker' = [broker EXCEPT ![m] = "held"]
        /\ run' = [run EXCEPT ![m][count[m]] = "running"]
    BY <1>13 DEF Dispatch
  <2>3. \A o \in Messages, n \in Counts :
          run'[o][n] = run[o][n] \/ (o = m /\ n = count[m] /\ run[o][n] = "none" /\ run'[o][n] = "running")
    BY <2>2 DEF DeliveryInv, TypeInv
  <2>4. \A o \in Messages : Nacked(o)' = Nacked(o)
    BY <2>3 DEF Nacked
  <2>5. \A o \in Messages : Settled(o) => Settled(o)'
    BY <2>3, SettledStays
  <2>6. \A o \in Messages, n \in Counts :
          n > count'[o] \/ (n = count'[o] /\ broker'[o] \in {"none",
          "backlog"}) => run'[o][n] = "none"
    BY <2>1, <2>2, <2>3, LimitType, PulsarAssumption DEF DeliveryInv, TypeInv, Counts
  <2>7. \A o \in Messages, n \in Counts : run'[o][n] = "nacked" => n < Limit
    BY <2>3 DEF DeliveryInv
  <2>8. \A o \in Messages : count'[o] + Due(o)' <= Cardinality(Nacked(o)') + breaks'
    BY <2>1, <2>4 DEF DeliveryInv, Due
  <2>9. \A o \in Messages : broker'[o] = "acked" => Settled(o)'
    BY <2>2, <2>5 DEF DeliveryInv, AckedIsSettled, TypeInv
  <2> QED BY <2>1, <2>5, <2>6, <2>7, <2>8, <2>9 DEF DeliveryInv, AckedIsSettled, TypeInv
<1>14. ASSUME NEW m \in Messages, AckArrives(m) PROVE DeliveryInv'
  <2>1. UNCHANGED <<count, nacks, breaks, run>>
    BY <1>14 DEF AckArrives
  <2>2. m \in acks /\ acks' = acks \ {m} /\ broker' = [broker EXCEPT ![m] = "acked"]
    BY <1>14 DEF AckArrives
  <2>3. \A o \in Messages : Nacked(o)' = Nacked(o) /\ Due(o)' = Due(o)
    BY <2>1 DEF Nacked, Due
  <2>4. \A o \in Messages : Settled(o) => Settled(o)'
    BY <2>1, SettledStays
  <2>5. \A o \in Messages : broker'[o] = broker[o] \/ (o = m /\ broker'[o] = "acked")
    BY <2>2 DEF TypeInv
  <2>6. \A o \in Messages : count'[o] + Due(o)' <= Cardinality(Nacked(o)') + breaks'
    BY <2>1, <2>3 DEF DeliveryInv
  <2>7. AckedIsSettled'
    BY <2>2, <2>4, <2>5 DEF DeliveryInv, AckedIsSettled
  <2>8. \A o \in acks' : Settled(o)'
    BY <2>2, <2>4 DEF DeliveryInv, TypeInv
  <2> QED BY <2>1, <2>5, <2>6, <2>7, <2>8 DEF DeliveryInv
<1>15. ASSUME NEW m \in Messages, Redeliver(m) PROVE DeliveryInv'
  <2>1. UNCHANGED <<acks, breaks, run>> /\ m \in nacks /\ nacks' = nacks \ {m}
    BY <1>15 DEF Redeliver
  <2>2. \A o \in Messages : o # m =>
          broker'[o] = broker[o] /\ count'[o] = count[o] /\ Due(o)' = Due(o)
    BY <1>15, <2>1 DEF Redeliver, TypeInv, Due
  <2>3. \/ broker'[m] = broker[m] /\ count'[m] = count[m]
        \/ broker[m] = "held" /\ broker'[m] = "backlog" /\ count'[m] = count[m] + 1
    BY <1>15 DEF Redeliver, TypeInv
  <2>4. \A o \in Messages : count'[o] + Due(o)' <= count[o] + Due(o)
    BY <2>1, <2>2, <2>3 DEF Due, TypeInv
  <2>5. \A o \in Messages : Nacked(o)' = Nacked(o) /\ Cardinality(Nacked(o)) \in Nat
    BY <2>1, NackedFinite DEF Nacked
  <2>6. \A o \in Messages : count'[o] + Due(o)' <= Cardinality(Nacked(o)') + breaks'
    <3> SUFFICES ASSUME NEW o \in Messages
                 PROVE  count'[o] + Due(o)' <= Cardinality(Nacked(o)') + breaks'
      OBVIOUS
    <3>1. count[o] \in Nat /\ count'[o] \in Nat /\ Due(o) \in Nat /\ Due(o)' \in Nat /\ breaks \in Nat
      BY <2>2, <2>3, PulsarAssumption DEF TypeInv, Due
    <3>2. count[o] + Due(o) <= Cardinality(Nacked(o)) + breaks
      BY DEF DeliveryInv
    <3>3. breaks' = breaks /\ Nacked(o)' = Nacked(o)
      BY <2>1, <2>5
    <3> QED BY <2>4, <2>5, <3>1, <3>2, <3>3
  <2>7. \A o \in Messages, k \in Counts :
          k > count'[o] \/ (k = count'[o] /\ broker'[o] \in {"none",
          "backlog"}) => run'[o][k] = "none"
    <3> SUFFICES ASSUME NEW o \in Messages, NEW k \in Counts,
                        k > count'[o] \/ (k = count'[o] /\ broker'[o] \in {"none", "backlog"})
                 PROVE  run'[o][k] = "none"
      OBVIOUS
    <3>1. k \in Int /\ count[o] \in Nat
      BY LimitType, PulsarAssumption DEF Counts, TypeInv
    <3>2. k > count[o] \/ (k = count[o] /\ broker[o] \in {"none", "backlog"})
      BY <2>2, <2>3, <3>1
    <3>3. run[o][k] = "none"
      BY <3>2 DEF DeliveryInv
    <3> QED BY <2>1, <3>3
  <2>8. \A o \in Messages : broker'[o] = "acked" => broker[o] = "acked"
    BY <2>2, <2>3
  <2>9. \A o \in Messages : Settled(o) => Settled(o)'
    BY <2>1, SettledStays
  <2>10. \A o \in Messages, n \in Counts : run'[o][n] = "nacked" => n < Limit
    BY <2>1 DEF DeliveryInv
  <2> QED BY <2>1, <2>6, <2>7, <2>8, <2>9, <2>10 DEF DeliveryInv, AckedIsSettled, TypeInv
<1>16. ASSUME NEW m \in Messages, NEW n \in Counts, Panicked(m, n) PROVE DeliveryInv'
  <2>1. UNCHANGED <<broker, count, breaks, nacks>>
    BY <1>16 DEF Panicked, End
  <2>2. PICK how \in {"panicked"} :
          /\ run[m][n] = "running" /\ run' = [run EXCEPT ![m][n] = how]
          /\ how = "given up" => ~(Manual /\ n < Limit)
    BY <1>16 DEF Panicked, End, Retry
  <2>3. \A o \in Messages, k \in Counts :
          run'[o][k] = run[o][k] \/ (o = m /\ k = n /\ run[o][k] = "running" /\ run'[o][k] = how)
    BY <2>2 DEF TypeInv
  <2>4. \A o \in Messages : Nacked(o)' = Nacked(o)
    BY <2>3 DEF Nacked
  <2>5. \A o \in Messages : Settled(o) => Settled(o)'
    BY <2>3, SettledStays
  <2>7. \A o \in Messages, k \in Counts :
          k > count'[o] \/ (k = count'[o] /\ broker'[o] \in {"none",
          "backlog"}) => run'[o][k] = "none"
    <3>1. \A o \in Messages, k \in Counts : run[o][k] = "none" => run'[o][k] = "none"
      BY <2>3
    <3> QED BY <2>1, <3>1 DEF DeliveryInv
  <2>8. \A o \in Messages, k \in Counts : run'[o][k] = "nacked" => k < Limit
    <3>1. \A o \in Messages, k \in Counts : run'[o][k] = "nacked" => run[o][k] = "nacked"
      BY <2>2, <2>3
    <3> QED BY <3>1 DEF DeliveryInv
  <2>9. \A o \in Messages : count'[o] + Due(o)' <= Cardinality(Nacked(o)') + breaks'
    BY <2>1, <2>4 DEF DeliveryInv, Due
  <2>6. acks' = acks
    BY <1>16 DEF Panicked
  <2> QED BY <2>1, <2>5, <2>6, <2>7, <2>8, <2>9 DEF DeliveryInv, AckedIsSettled, TypeInv
<1>17. ASSUME NEW m \in Messages, NEW n \in Counts, Ack(m, n) PROVE DeliveryInv'
  <2>1. UNCHANGED <<broker, count, breaks, nacks>>
    BY <1>17 DEF Ack, End
  <2>2. PICK how \in {"done", "given up"} :
          /\ run[m][n] = "running" /\ run' = [run EXCEPT ![m][n] = how]
          /\ how = "given up" => ~(Manual /\ n < Limit)
    BY <1>17 DEF Ack, End, Retry
  <2>3. \A o \in Messages, k \in Counts :
          run'[o][k] = run[o][k] \/ (o = m /\ k = n /\ run[o][k] = "running" /\ run'[o][k] = how)
    BY <2>2 DEF TypeInv
  <2>4. \A o \in Messages : Nacked(o)' = Nacked(o)
    BY <2>3 DEF Nacked
  <2>5. \A o \in Messages : Settled(o) => Settled(o)'
    BY <2>3, SettledStays
  <2>7. \A o \in Messages, k \in Counts :
          k > count'[o] \/ (k = count'[o] /\ broker'[o] \in {"none",
          "backlog"}) => run'[o][k] = "none"
    <3>1. \A o \in Messages, k \in Counts : run[o][k] = "none" => run'[o][k] = "none"
      BY <2>3
    <3> QED BY <2>1, <3>1 DEF DeliveryInv
  <2>8. \A o \in Messages, k \in Counts : run'[o][k] = "nacked" => k < Limit
    <3>1. \A o \in Messages, k \in Counts : run'[o][k] = "nacked" => run[o][k] = "nacked"
      BY <2>2, <2>3
    <3> QED BY <3>1 DEF DeliveryInv
  <2>9. \A o \in Messages : count'[o] + Due(o)' <= Cardinality(Nacked(o)') + breaks'
    BY <2>1, <2>4 DEF DeliveryInv, Due
  <2>10. acks' = acks \union {m} /\ Settled(m)'
    BY <1>17, <2>2 DEF Ack, Settled, TypeInv
  <2> QED BY <2>1, <2>5, <2>7, <2>8, <2>9, <2>10 DEF DeliveryInv, AckedIsSettled, TypeInv
<1>18. ASSUME NEW m \in Messages, NEW n \in Counts, Nack(m, n) PROVE DeliveryInv'
  <2>1. UNCHANGED <<broker, count, breaks, acks>> /\ nacks' = nacks \union {m} /\ n < Limit
    BY <1>18 DEF Nack, End, Retry
  <2>2. run[m][n] = "running" /\ run' = [run EXCEPT ![m][n] = "nacked"]
    BY <1>18 DEF Nack, End
  <2>3. \A o \in Messages, k \in Counts :
          run'[o][k] = run[o][k] \/ (o = m /\ k = n /\ run[o][k] = "running" /\ run'[o][k] = "nacked")
    BY <2>2 DEF TypeInv
  <2>4. \A o \in Messages : o # m => Nacked(o)' = Nacked(o) /\ Due(o)' = Due(o)
    BY <2>1, <2>3 DEF Nacked, Due
  <2>5. Nacked(m)' = Nacked(m) \union {n} /\ n \notin Nacked(m)
    BY <2>2 DEF Nacked, TypeInv
  <2>6. Cardinality(Nacked(m)') = Cardinality(Nacked(m)) + 1
    BY <2>5, NackedFinite, FS_AddElement
  <2>7. \A o \in Messages : Settled(o) => Settled(o)'
    BY <2>3, SettledStays
  <2>8. \A o \in Messages, k \in Counts :
          k > count'[o] \/ (k = count'[o] /\ broker'[o] \in {"none",
          "backlog"}) => run'[o][k] = "none"
    BY <2>1, <2>3 DEF DeliveryInv
  <2>9. \A o \in Messages, k \in Counts : run'[o][k] = "nacked" => k < Limit
    BY <2>1, <2>3 DEF DeliveryInv
  <2>10. \A o \in Messages : count'[o] + Due(o)' <= Cardinality(Nacked(o)') + breaks'
    <3>1. count[m] \in Nat /\ breaks \in Nat /\ Cardinality(Nacked(m)) \in Nat
      BY NackedFinite, PulsarAssumption DEF TypeInv
    <3>2. count[m] + Due(m) <= Cardinality(Nacked(m)) + breaks
      BY DEF DeliveryInv
    <3>3. count'[m] + Due(m)' <= Cardinality(Nacked(m)') + breaks'
      BY <2>1, <2>6, <3>1, <3>2 DEF Due
    <3> QED BY <2>1, <2>4, <3>3 DEF DeliveryInv
  <2> QED BY <2>1, <2>7, <2>8, <2>9, <2>10 DEF DeliveryInv, AckedIsSettled, TypeInv
<1>19. ASSUME MapRace PROVE DeliveryInv'
  <2>1. UNCHANGED <<brokerVars, run>>
    BY <1>19 DEF MapRace, brokerVars
  <2> QED BY <2>1, DeliveriesAlone
<1>20. ASSUME Reconnect PROVE DeliveryInv'
  <2>1. /\ breaks' = breaks + 1 /\ acks' \subseteq acks /\ nacks' \subseteq nacks
        /\ \A o \in Messages :
             \/ broker[o] = "held" /\ broker'[o] = "backlog" /\ count'[o] = count[o] + 1
             \/ broker'[o] = broker[o] /\ count'[o] = count[o]
    BY <1>20 DEF Reconnect, Break, TypeInv
  <2>2. \A o \in Messages, k \in Counts :
          run'[o][k] = run[o][k] \/ (run[o][k] = "running" /\ run'[o][k] = "gone")
    BY <1>20 DEF Reconnect
  <2>3. \A o \in Messages : Nacked(o)' = Nacked(o)
    BY <2>2 DEF Nacked
  <2>4. \A o \in Messages : Settled(o) => Settled(o)'
    BY <2>2, SettledStays
  <2>5. \A o \in Messages, k \in Counts :
          k > count'[o] \/ (k = count'[o] /\ broker'[o] \in {"none",
          "backlog"}) => run'[o][k] = "none"
    <3> SUFFICES ASSUME NEW o \in Messages, NEW k \in Counts,
                        k > count'[o] \/ (k = count'[o] /\ broker'[o] \in {"none", "backlog"})
                 PROVE  run'[o][k] = "none"
      OBVIOUS
    <3>1. k \in Int /\ count[o] \in Nat
      BY LimitType, PulsarAssumption DEF Counts, TypeInv
    <3>2. k > count[o] \/ (k = count[o] /\ broker[o] \in {"none", "backlog"})
      BY <2>1, <3>1
    <3>3. run[o][k] = "none"
      BY <3>2 DEF DeliveryInv
    <3> QED BY <2>2, <3>3
  <2>6. \A o \in Messages, k \in Counts : run'[o][k] = "nacked" => k < Limit
    BY <2>2 DEF DeliveryInv
  <2>7. \A o \in Messages : count'[o] + Due(o)' <= Cardinality(Nacked(o)') + breaks'
    <3> SUFFICES ASSUME NEW o \in Messages
                 PROVE  count'[o] + Due(o)' <= Cardinality(Nacked(o)') + breaks'
      OBVIOUS
    <3>1. /\ count[o] \in Nat /\ breaks \in Nat /\ Cardinality(Nacked(o)) \in Nat
          /\ Due(o) \in Nat /\ Due(o)' \in Nat /\ Due(o)' <= Due(o)
      BY <2>1, NackedFinite, PulsarAssumption DEF TypeInv, Due
    <3>2. count[o] + Due(o) <= Cardinality(Nacked(o)) + breaks
      BY DEF DeliveryInv
    <3>3. count'[o] <= count[o] + 1 /\ count'[o] \in Nat
      BY <2>1, <3>1
    <3> QED BY <2>1, <2>3, <3>1, <3>2, <3>3
  <2>8. \A o \in Messages : broker'[o] = "acked" => broker[o] = "acked"
    BY <2>1
  <2> QED BY <2>1, <2>4, <2>5, <2>6, <2>7, <2>8 DEF DeliveryInv, AckedIsSettled, TypeInv
<1>21. ASSUME Restart PROVE DeliveryInv'
  <2>1. /\ breaks' = breaks + 1 /\ acks' \subseteq acks /\ nacks' \subseteq nacks
        /\ \A o \in Messages :
             \/ broker[o] = "held" /\ broker'[o] = "backlog" /\ count'[o] = count[o] + 1
             \/ broker'[o] = broker[o] /\ count'[o] = count[o]
    BY <1>21 DEF Restart, Break, TypeInv
  <2>2. \A o \in Messages, k \in Counts :
          run'[o][k] = run[o][k] \/ (run[o][k] = "running" /\ run'[o][k] = "gone")
    BY <1>21 DEF Restart
  <2>3. \A o \in Messages : Nacked(o)' = Nacked(o)
    BY <2>2 DEF Nacked
  <2>4. \A o \in Messages : Settled(o) => Settled(o)'
    BY <2>2, SettledStays
  <2>5. \A o \in Messages, k \in Counts :
          k > count'[o] \/ (k = count'[o] /\ broker'[o] \in {"none",
          "backlog"}) => run'[o][k] = "none"
    <3> SUFFICES ASSUME NEW o \in Messages, NEW k \in Counts,
                        k > count'[o] \/ (k = count'[o] /\ broker'[o] \in {"none", "backlog"})
                 PROVE  run'[o][k] = "none"
      OBVIOUS
    <3>1. k \in Int /\ count[o] \in Nat
      BY LimitType, PulsarAssumption DEF Counts, TypeInv
    <3>2. k > count[o] \/ (k = count[o] /\ broker[o] \in {"none", "backlog"})
      BY <2>1, <3>1
    <3>3. run[o][k] = "none"
      BY <3>2 DEF DeliveryInv
    <3> QED BY <2>2, <3>3
  <2>6. \A o \in Messages, k \in Counts : run'[o][k] = "nacked" => k < Limit
    BY <2>2 DEF DeliveryInv
  <2>7. \A o \in Messages : count'[o] + Due(o)' <= Cardinality(Nacked(o)') + breaks'
    <3> SUFFICES ASSUME NEW o \in Messages
                 PROVE  count'[o] + Due(o)' <= Cardinality(Nacked(o)') + breaks'
      OBVIOUS
    <3>1. /\ count[o] \in Nat /\ breaks \in Nat /\ Cardinality(Nacked(o)) \in Nat
          /\ Due(o) \in Nat /\ Due(o)' \in Nat /\ Due(o)' <= Due(o)
      BY <2>1, NackedFinite, PulsarAssumption DEF TypeInv, Due
    <3>2. count[o] + Due(o) <= Cardinality(Nacked(o)) + breaks
      BY DEF DeliveryInv
    <3>3. count'[o] <= count[o] + 1 /\ count'[o] \in Nat
      BY <2>1, <3>1
    <3> QED BY <2>1, <2>3, <3>1, <3>2, <3>3
  <2>8. \A o \in Messages : broker'[o] = "acked" => broker[o] = "acked"
    BY <2>1
  <2> QED BY <2>1, <2>4, <2>5, <2>6, <2>7, <2>8 DEF DeliveryInv, AckedIsSettled, TypeInv
<1>22. CASE UNCHANGED vars
  BY <1>22, DeliveriesAlone DEF vars
<1> QED BY <1>1, <1>2, <1>3, <1>4, <1>5, <1>6, <1>7, <1>8, <1>9, <1>10, <1>11, <1>12, <1>13,
     <1>14, <1>15, <1>16, <1>17, <1>18, <1>19, <1>20, <1>21, <1>22 DEF Next, NewClient,
          GetProducer, Consume

\* The invariant holds at the start.
LEMMA Initially == Init => Inv
<1> SUFFICES ASSUME Init PROVE Inv
  OBVIOUS
<1>1. TypeInv
  BY PulsarAssumption, CallersFacts DEF Init, TypeInv, PcStates, RunStates
<1>2. CacheInv
  BY CallersFacts DEF Init, CacheInv, SendsThroughCached
<1>3. DeliveryInv
  <2>1. \A m \in Messages : count[m] = 0 /\ Due(m) = 0 /\ breaks = 0
    BY DEF Init, Due
  <2>2. \A m \in Messages : Cardinality(Nacked(m)) \in Nat
    BY NackedFinite
  <2> QED BY <2>1, <2>2 DEF Init, DeliveryInv, AckedIsSettled
<1> QED BY <1>1, <1>2, <1>3 DEF Inv

\* The inductive invariant.
THEOREM Invariance == Spec => []Inv
<1>1. Inv /\ [Next]_vars => Inv'
  BY TypeStep, CacheStep, DeliveryStep DEF Inv
<1> QED BY Initially, <1>1, PTL DEF Spec

\* A message is retried no more than Limit times, whatever connections are lost,
\* since every Nack comes from a delivery of its own below the limit.
LEMMA InvBounds == Inv => RetriesBounded
<1> SUFFICES ASSUME Inv, NEW m \in Messages PROVE count[m] <= Limit + breaks
  BY DEF RetriesBounded
<1>1. Nacked(m) \subseteq 0..(Limit - 1)
  BY LimitType, PulsarAssumption DEF Inv, DeliveryInv, Nacked, Counts
<1>2. Cardinality(Nacked(m)) <= Limit
  <2>1. IsFiniteSet(0..(Limit - 1)) /\ Cardinality(0..(Limit - 1)) = Limit
    BY LimitType, FS_Interval
  <2> QED BY <1>1, <2>1, FS_Subset
<1>3. Due(m) \in Nat /\ count[m] \in Nat /\ breaks \in Nat /\ Cardinality(Nacked(m)) \in Nat
  BY NackedFinite, PulsarAssumption DEF Inv, TypeInv, Due
<1>4. count[m] + Due(m) <= Cardinality(Nacked(m)) + breaks
  BY DEF Inv, DeliveryInv
<1> QED BY <1>2, <1>3, <1>4, LimitType

\* Every variable keeps its type; the counts have a bound because retries do.
THEOREM TypeCorrect == Spec => []TypeOK
<1>1. Inv => TypeOK
  <2> SUFFICES ASSUME Inv PROVE TypeOK
    OBVIOUS
  <2>1. count \in [Messages -> Counts]
    <3>1. \A m \in Messages : count[m] \in Nat /\ count[m] <= Limit + breaks
      BY InvBounds DEF RetriesBounded, Inv, TypeInv
    <3>2. breaks \in Nat /\ breaks <= MaxBreaks
      BY PulsarAssumption DEF Inv, TypeInv
    <3>3. \A m \in Messages : count[m] \in Counts
      BY <3>1, <3>2, LimitType, PulsarAssumption DEF Counts
    <3> QED BY <3>3 DEF Inv, TypeInv
  <2> QED BY <2>1 DEF Inv, TypeInv, TypeOK, PcStates, RunStates
<1> QED BY <1>1, Invariance, PTL

\* RetryTimes and MAX_RETRY_TIMES bound the retries of consume.
THEOREM RetriesAreBounded == Spec => []RetriesBounded
BY InvBounds, Invariance, PTL

\* No message is acknowledged before a listener accepted it or its retries ran out.
THEOREM AckedAreSettled == Spec => []AckedIsSettled
<1>1. Inv => AckedIsSettled
  BY DEF Inv, DeliveryInv
<1> QED BY <1>1, Invariance, PTL

\* A sender uses the cached producer of its topic and never nil.
THEOREM SendersUseTheCache == Spec => []SendsThroughCached
<1>1. Inv => SendsThroughCached
  BY DEF Inv, CacheInv
<1> QED BY <1>1, Invariance, PTL

\* A set without two different elements has at most one.
LEMMA AtMostOne ==
  ASSUME NEW S, \A x, y \in S : x = y
  PROVE  Cardinality(S) <= 1
<1>1. CASE S = {}
  BY <1>1, FS_EmptySet
<1>2. CASE S # {}
  <2>1. PICK x \in S : TRUE
    BY <1>2
  <2>2. S = {x}
    BY <2>1
  <2> QED BY <2>2, FS_Singleton
<1> QED BY <1>1, <1>2

\* A process connects once and keeps one producer per topic: sync.Once and the
\* second look under the mutex make up for the unlocked reads.
THEOREM OneOfEachKept == Spec => []OneOfEach
<1>1. Inv => OneOfEach
  <2> SUFFICES ASSUME Inv PROVE OneOfEach
    OBVIOUS
  <2>1. \A x, y \in {p \in Callers : pc[p] = "connect"} \union ({client} \ {None}) : x = y
    BY CallersFacts DEF Inv, CacheInv, TypeInv
  <2>2. \A t \in Topics : \A x, y \in made[t] : x = y
    BY CallersFacts DEF Inv, CacheInv, TypeInv
  <2> QED BY <2>1, <2>2, AtMostOne DEF OneOfEach
<1> QED BY <1>1, Invariance, PTL

-----------------------------------------------------------------------------
(* The refinement of MessageQueue.                                          *)

\* The broker has nothing of a message before its Send has reported something, or its
\* SendAsync has sent it.
FreshInv ==
  /\ \A m \in Messages : broker[m] = "none" => count[m] = 0
  /\ \A m \in Messages : pc[m] \notin {"sent", "failed"} \/ m \in outbox => broker[m] = "none"
  /\ \A m \in outbox : pc[m] = "sent"

\* Every step keeps that.
LEMMA FreshStep ==
  ASSUME Inv, FreshInv, [Next]_vars
  PROVE  FreshInv'
<1> USE DEF processVars, callVars, brokerVars
<1>0. /\ broker \in [Messages -> {"none", "backlog", "held", "acked"}]
      /\ pc \in [Callers -> PcStates] /\ count \in [Messages -> Nat]
      /\ outbox \subseteq Async /\ Async \subseteq Messages
      /\ \A m \in Messages : m \in Callers /\ m # Subscriber
      /\ \A m \in acks : broker[m] # "none"
  <2>1. ASSUME NEW m \in acks, broker[m] = "none" PROVE FALSE
    <3>1. Settled(m) /\ m \in Messages /\ count[m] = 0
      BY <2>1 DEF Inv, TypeInv, DeliveryInv, FreshInv
    <3>2. \A n \in Counts : n \in Nat
      BY LimitType, PulsarAssumption DEF Counts
    <3>3. \A n \in Counts : run[m][n] = "none"
      BY <2>1, <3>1, <3>2 DEF Inv, DeliveryInv
    <3> QED BY <3>1, <3>3 DEF Settled
  <2> QED BY <2>1, CallersFacts, PulsarAssumption DEF Inv, TypeInv
<1>1. ASSUME NEW p \in Callers, NEW from, NEW to, Step(p, from, to), outbox' = outbox,
             from \notin {"sent", "failed"}
      PROVE  FreshInv'
  <2>1. /\ UNCHANGED <<broker, count>> /\ pc[p] \notin {"sent", "failed"}
        /\ \A q \in Callers : q # p => pc'[q] = pc[q]
    BY <1>0, <1>1 DEF Step
  <2>2. p \notin outbox /\ \A m \in outbox : m \in Callers
    BY <1>0, <2>1 DEF FreshInv
  <2> QED BY <1>0, <1>1, <2>1, <2>2 DEF FreshInv
<1>2. ASSUME NEW p \in Callers, NewClient(p) PROVE FreshInv'
  BY <1>1, <1>2 DEF NewClient, NewCheck, OnceEnter, Connect, Panic
<1>3. ASSUME NEW m \in Messages, GetProducer(m) PROVE FreshInv'
  <2>1. PICK from, to : Step(m, from, to) /\ from \notin {"sent", "failed"}
    BY <1>3 DEF GetProducer, GetCached, Lock, Recheck, Create, Store, Panic
  <2>2. outbox' = outbox
    BY <1>3 DEF GetProducer, GetCached, Lock, Recheck, Create, Store
  <2> QED BY <1>0, <1>1, <2>1, <2>2
<1>4. ASSUME Subscribe PROVE FreshInv'
  BY <1>1, <1>4, CallersFacts DEF Subscribe, Panic
<1>5. ASSUME NEW m \in Messages, Send(m) PROVE FreshInv'
  <2>1. m \notin outbox /\ UNCHANGED <<outbox, count>>
    BY <1>0, <1>5 DEF Send, FreshInv
  <2>2. \A o \in Messages : o # m => broker'[o] = broker[o] /\ pc'[o] = pc[o]
    BY <1>0, <1>5 DEF Send, Stored
  <2>3. pc'[m] \in {"sent", "failed"} /\ (broker'[m] = broker[m] \/ broker'[m] # "none")
    BY <1>0, <1>5 DEF Send, Stored
  <2> QED BY <1>0, <2>1, <2>2, <2>3 DEF FreshInv
<1>6. ASSUME NEW m \in Messages, SendAsync(m) PROVE FreshInv'
  <2>1. UNCHANGED <<broker, count>> /\ pc[m] = "send" /\ outbox' = outbox \union {m}
    BY <1>6 DEF SendAsync, Step
  <2>2. pc'[m] = "sent" /\ \A o \in Messages : o # m => pc'[o] = pc[o]
    BY <1>0, <1>6 DEF SendAsync, Step
  <2> QED BY <1>0, <2>1, <2>2 DEF FreshInv
<1>7. ASSUME NEW m \in Messages, SentAsync(m) PROVE FreshInv'
  <2>1. UNCHANGED <<pc, count>> /\ m \in outbox /\ outbox' = outbox \ {m}
    BY <1>7 DEF SentAsync
  <2>2. \A o \in Messages : /\ o # m => broker'[o] = broker[o]
                            /\ broker'[o] = broker[o] \/ broker'[o] # "none"
    BY <1>0, <1>7 DEF SentAsync, Stored
  <2> QED BY <1>0, <2>1, <2>2 DEF FreshInv
<1>8. ASSUME UNCHANGED <<pc, outbox>>,
             \A m \in Messages : /\ broker'[m] = "none" => broker[m] = "none"
                                 /\ broker[m] = "none" => broker'[m] = "none" /\ count'[m] = count[m]
      PROVE  FreshInv'
  <2>1. \A m \in Messages : broker'[m] = "none" => count'[m] = 0
    <3>1. ASSUME NEW m \in Messages, broker'[m] = "none" PROVE count'[m] = 0
      <4>1. broker[m] = "none"
        BY <1>8, <3>1
      <4>2. count[m] = 0
        BY <4>1 DEF FreshInv
      <4> QED BY <1>8, <4>1, <4>2
    <3> QED BY <3>1
  <2>2. ASSUME NEW m \in Messages, pc'[m] \notin {"sent", "failed"} \/ m \in outbox'
        PROVE  broker'[m] = "none"
    <3>1. broker[m] = "none"
      BY <1>8, <2>2 DEF FreshInv
    <3> QED BY <1>8, <3>1
  <2>3. \A m \in outbox' : pc'[m] = "sent"
    BY <1>8 DEF FreshInv
  <2> QED BY <2>1, <2>2, <2>3 DEF FreshInv
<1>9. ASSUME NEW m \in Messages, Dispatch(m) \/ AckArrives(m) \/ Redeliver(m) PROVE FreshInv'
  <2>1. UNCHANGED <<pc, outbox>>
    BY <1>9 DEF Dispatch, AckArrives, Redeliver
  <2>2. \A o \in Messages : /\ broker'[o] = "none" => broker[o] = "none"
                            /\ broker[o] = "none" => broker'[o] = "none" /\ count'[o] = count[o]
    BY <1>0, <1>9 DEF Dispatch, AckArrives, Redeliver
  <2> QED BY <1>8, <2>1, <2>2
<1>10. ASSUME NEW m \in Messages, NEW n \in Counts, Consume(m, n) PROVE FreshInv'
  <2>1. UNCHANGED <<pc, outbox, broker, count>>
    BY <1>10 DEF Consume, Panicked, Ack, Nack, End
  <2> QED BY <1>8, <2>1
<1>11. ASSUME MapRace \/ UNCHANGED vars PROVE FreshInv'
  BY <1>11 DEF MapRace, vars, FreshInv
<1>12. ASSUME Break
       PROVE  \A m \in Messages : /\ broker'[m] = "none" => broker[m] = "none"
                                  /\ broker[m] = "none" => broker'[m] = "none" /\ count'[m] = count[m]
  BY <1>0, <1>12 DEF Break
<1>13. ASSUME Reconnect PROVE FreshInv'
  BY <1>8, <1>12, <1>13 DEF Reconnect
<1>14. ASSUME Restart PROVE FreshInv'
  <2>1. outbox' = {} /\ \A m \in Messages : pc'[m] \in {"sent", "failed"} <=> pc[m] \in {"sent", "failed"}
    BY <1>0, <1>14 DEF Restart
  <2>2. Break
    BY <1>14 DEF Restart
  <2>3. \A m \in Messages : broker'[m] = "none" => count'[m] = 0
    <3>1. ASSUME NEW m \in Messages, broker'[m] = "none" PROVE count'[m] = 0
      <4>1. broker[m] = "none"
        BY <1>12, <2>2, <3>1
      <4>2. count[m] = 0
        BY <4>1 DEF FreshInv
      <4> QED BY <1>12, <2>2, <4>1, <4>2
    <3> QED BY <3>1
  <2>4. ASSUME NEW m \in Messages, pc'[m] \notin {"sent", "failed"} PROVE broker'[m] = "none"
    <3>1. broker[m] = "none"
      BY <2>1, <2>4 DEF FreshInv
    <3> QED BY <1>12, <2>2, <3>1
  <2> QED BY <2>1, <2>3, <2>4 DEF FreshInv
<1> QED BY <1>2, <1>3, <1>4, <1>5, <1>6, <1>7, <1>9, <1>10, <1>11, <1>13, <1>14 DEF Next

\* A step that ends no consume judges nothing.
LEMMA OthersJudgeNothing ==
  ASSUME \A m \in Messages, n \in Counts :
           \A how \in {"done", "given up"} : run'[m][n] = how <=> run[m][n] = how
  PROVE  judgedBar' = judgedBar
<1>1. \A m \in Messages : Settled(m)' <=> Settled(m)
  BY DEF Settled
<1> QED BY <1>1 DEF judgedBar

\* What a caller does before it sends only shows when it fails.
LEMMA CallerSteps ==
  ASSUME Inv, NEW p \in Callers, NEW from, NEW to, Step(p, from, to),
         from \notin {"sent", "failed", "panicked"}, to # "sent"
  PROVE  [Queue!Next]_<<toldBar, stateBar, judgedBar>>
<1> USE DEF brokerVars
<1>1. UNCHANGED <<broker, run>> /\ pc[p] = from /\ pc' = [pc EXCEPT ![p] = to]
  BY DEF Step
<1>2. pc \in [Callers -> PcStates] /\ \A m \in Messages : m \in Callers /\ m # Subscriber
  BY CallersFacts DEF Inv, TypeInv
<1>3. judgedBar' = judgedBar /\ stateBar' = stateBar
  BY <1>1, OthersJudgeNothing DEF stateBar
<1>4. CASE p \in Messages /\ to \in {"failed", "panicked"}
  <2>1. toldBar[p] = "nothing" /\ toldBar' = [toldBar EXCEPT ![p] = "error"]
    BY <1>1, <1>2, <1>4 DEF toldBar
  <2>2. Queue!Failed(p)
    BY <1>3, <2>1 DEF Queue!Failed, Queue!Report
  <2> QED BY <1>4, <2>2 DEF Queue!Next
<1>5. CASE ~(p \in Messages /\ to \in {"failed", "panicked"})
  <2>1. \A m \in Messages : toldBar'[m] = toldBar[m]
    BY <1>1, <1>2, <1>5 DEF toldBar
  <2>2. toldBar' = toldBar
    BY <2>1 DEF toldBar
  <2> QED BY <1>3, <2>2
<1> QED BY <1>4, <1>5

\* Only consume settles a message, and only one the broker has.
LEMMA ConsumeJudges ==
  ASSUME Inv, FreshInv, NEW m \in Messages, NEW n \in Counts, Consume(m, n)
  PROVE  /\ UNCHANGED <<toldBar, stateBar>> /\ broker[m] # "none"
         /\ judgedBar' \in {judgedBar, judgedBar \union {m}}
<1>1. PICK how : End(m, n, how)
  BY DEF Consume, Panicked, Ack, Nack
<1>2. UNCHANGED <<pc, broker>> /\ run[m][n] = "running" /\ run' = [run EXCEPT ![m][n] = how]
  BY <1>1 DEF End, callVars
<1>3. run \in [Messages -> [Counts -> RunStates]]
  BY DEF Inv, TypeInv
<1>4. \A o \in Messages, k \in Counts :
        run'[o][k] = IF o = m /\ k = n THEN how ELSE run[o][k]
  BY <1>2, <1>3
<1>5. broker[m] # "none"
  <2>1. n \in Nat
    BY LimitType, PulsarAssumption DEF Counts
  <2> QED BY <1>2, <2>1 DEF Inv, DeliveryInv, FreshInv
<1>6. \A o \in Messages : (o # m => (Settled(o)' <=> Settled(o))) /\ (Settled(o) => Settled(o)')
  BY <1>2, <1>4 DEF Settled
<1>7. judgedBar' = judgedBar \/ judgedBar' = judgedBar \union {m}
  BY <1>6 DEF judgedBar
<1> QED BY <1>2, <1>5, <1>7 DEF toldBar, stateBar

\* Every step is one of the queue's, or changes nothing it sees.
LEMMA QueueStep ==
  ASSUME Inv, FreshInv, [Next]_vars
  PROVE  [Queue!Next]_<<toldBar, stateBar, judgedBar>>
<1> USE DEF processVars, callVars, brokerVars
<1>0. /\ broker \in [Messages -> {"none", "backlog", "held", "acked"}]
      /\ pc \in [Callers -> PcStates] /\ run \in [Messages -> [Counts -> RunStates]]
      /\ acks \subseteq Messages /\ outbox \subseteq Async /\ count \in [Messages -> Nat]
      /\ \A m \in Messages : m \in Callers /\ m # Subscriber
  BY CallersFacts DEF Inv, TypeInv
<1>1. ASSUME NEW p \in Callers, NewClient(p) PROVE [Queue!Next]_<<toldBar, stateBar, judgedBar>>
  <2>1. PICK from, to : Step(p, from, to) /\ from \notin {"sent", "failed", "panicked"} /\ to # "sent"
    BY <1>1 DEF NewClient, NewCheck, OnceEnter, Connect, Panic, AfterNew
  <2> QED BY <2>1, CallerSteps
<1>2. ASSUME NEW m \in Messages, GetProducer(m) PROVE [Queue!Next]_<<toldBar, stateBar, judgedBar>>
  <2>1. PICK from, to : Step(m, from, to) /\ from \notin {"sent", "failed", "panicked"} /\ to # "sent"
    BY <1>2 DEF GetProducer, GetCached, Lock, Recheck, Create, Store, Panic
  <2> QED BY <1>0, <2>1, CallerSteps
<1>3. ASSUME Subscribe PROVE [Queue!Next]_<<toldBar, stateBar, judgedBar>>
  <2>1. PICK to : Step(Subscriber, "subscribe", to) /\ to # "sent"
    BY <1>3 DEF Subscribe, Panic
  <2> QED BY <2>1, CallerSteps, CallersFacts
<1>4. ASSUME NEW m \in Messages, Send(m) PROVE [Queue!Next]_<<toldBar, stateBar, judgedBar>>
  <2>1. judgedBar' = judgedBar /\ toldBar[m] = "nothing" /\ stateBar[m] = "absent"
    BY <1>0, <1>4, OthersJudgeNothing DEF Send, toldBar, stateBar, FreshInv
  <2>2. \A w \in {"sent", "failed"} : pc' = [pc EXCEPT ![m] = w] =>
          toldBar' = [toldBar EXCEPT ![m] = IF w = "sent" THEN "sent" ELSE "error"]
    BY <1>0 DEF toldBar
  <2>3. Stored(m) => stateBar' = [stateBar EXCEPT ![m] = "stored"]
    BY <1>0, <1>4 DEF Stored, stateBar, Send, FreshInv
  <2>4. UNCHANGED broker => UNCHANGED stateBar
    BY DEF stateBar
  <2>5. Queue!Sent(m) \/ Queue!Failed(m)
    BY <1>4, <2>1, <2>2, <2>3, <2>4 DEF Send, Queue!Sent, Queue!Failed, Queue!Report, Queue!Move
  <2> QED BY <2>5 DEF Queue!Next
<1>5. ASSUME NEW m \in Messages, SendAsync(m) PROVE Queue!Next
  <2>1. /\ UNCHANGED <<broker, run>> /\ pc[m] = "send" /\ m \in Async
        /\ pc' = [pc EXCEPT ![m] = "sent"]
    BY <1>5 DEF SendAsync, Step
  <2>2. judgedBar' = judgedBar /\ stateBar' = stateBar
    BY <2>1, OthersJudgeNothing DEF stateBar
  <2>3. toldBar[m] = "nothing" /\ toldBar' = [toldBar EXCEPT ![m] = "sent"]
    BY <1>0, <2>1 DEF toldBar
  <2>4. Queue!Taken(m)
    BY <2>1, <2>2, <2>3 DEF Queue!Taken, Queue!Report
  <2> QED BY <2>4 DEF Queue!Next
<1>6. ASSUME NEW m \in Messages, SentAsync(m) PROVE [Queue!Next]_<<toldBar, stateBar, judgedBar>>
  <2>1. judgedBar' = judgedBar /\ UNCHANGED toldBar
    BY <1>6, OthersJudgeNothing DEF SentAsync, toldBar
  <2>2. CASE UNCHANGED broker
    BY <2>1, <2>2 DEF stateBar
  <2>3. CASE Stored(m)
    <3>1. broker[m] = "none" /\ pc[m] = "sent" /\ m \in Async
      BY <1>0, <1>6 DEF SentAsync, FreshInv
    <3>2. stateBar[m] = "absent" /\ toldBar[m] = "sent"
      BY <3>1 DEF stateBar, toldBar
    <3>3. stateBar' = [stateBar EXCEPT ![m] = "stored"]
      BY <1>0, <2>3, <3>1 DEF Stored, stateBar
    <3>4. Queue!StoredLate(m)
      BY <2>1, <3>1, <3>2, <3>3 DEF Queue!StoredLate, Queue!Move
    <3> QED BY <3>4 DEF Queue!Next
  <2> QED BY <1>6, <2>2, <2>3 DEF SentAsync
<1>7. ASSUME NEW m \in Messages, NEW n \in Counts, Consume(m, n)
      PROVE  [Queue!Next]_<<toldBar, stateBar, judgedBar>>
  <2>1. /\ UNCHANGED <<toldBar, stateBar>> /\ broker[m] # "none"
        /\ judgedBar' \in {judgedBar, judgedBar \union {m}}
    BY <1>7, ConsumeJudges
  <2>2. CASE broker[m] = "acked"
    <3>1. m \in judgedBar
      BY <2>2 DEF Inv, DeliveryInv, AckedIsSettled, judgedBar
    <3> QED BY <2>1, <3>1
  <2>3. CASE broker[m] # "acked"
    <3>1. stateBar[m] = "stored"
      BY <2>1, <2>3 DEF stateBar
    <3> QED BY <2>1, <3>1 DEF Queue!Next, Queue!Judge
  <2> QED BY <2>2, <2>3
<1>8. ASSUME NEW m \in Messages, AckArrives(m) PROVE [Queue!Next]_<<toldBar, stateBar, judgedBar>>
  <2>1. judgedBar' = judgedBar /\ UNCHANGED toldBar
    BY <1>8, OthersJudgeNothing DEF AckArrives, toldBar
  <2>2. stateBar' = [stateBar EXCEPT ![m] = "settled"]
    BY <1>0, <1>8 DEF AckArrives, stateBar
  <2>3. Settled(m) /\ broker[m] # "none"
    <3>1. Settled(m)
      BY <1>8 DEF AckArrives, Inv, DeliveryInv
    <3>2. \A n \in Counts : n \in Nat
      BY LimitType, PulsarAssumption DEF Counts
    <3>3. ASSUME broker[m] = "none" PROVE \A n \in Counts : run[m][n] = "none"
      BY <3>2, <3>3 DEF Inv, DeliveryInv, FreshInv
    <3> QED BY <3>1, <3>3 DEF Settled
  <2>4. m \in judgedBar /\ stateBar[m] \in {"stored", "settled"}
    BY <2>3 DEF judgedBar, stateBar
  <2>5. CASE stateBar[m] = "stored"
    BY <2>1, <2>2, <2>4, <2>5 DEF Queue!Next, Queue!Settle, Queue!Move
  <2>6. CASE stateBar[m] = "settled"
    <3>1. stateBar' = stateBar
      BY <2>2, <2>6 DEF stateBar
    <3> QED BY <2>1, <3>1
  <2> QED BY <2>4, <2>5, <2>6
<1>9. ASSUME \A o \in Messages : broker'[o] = broker[o] \/ {broker[o], broker'[o]} \subseteq {"backlog", "held"}
      PROVE  stateBar' = stateBar
  <2>1. \A o \in Messages : stateBar'[o] = stateBar[o]
    BY <1>9 DEF stateBar
  <2> QED BY <2>1 DEF stateBar
<1>10. ASSUME NEW m \in Messages, Dispatch(m) PROVE UNCHANGED <<toldBar, stateBar, judgedBar>>
  <2>1. count[m] \in Counts => run[m][count[m]] = "none"
    BY <1>0, <1>10 DEF Dispatch, Inv, DeliveryInv
  <2>2. \A o \in Messages, n \in Counts :
          run'[o][n] = run[o][n] \/ (run[o][n] = "none" /\ run'[o][n] = "running")
    BY <1>0, <1>10, <2>1 DEF Dispatch
  <2>3. judgedBar' = judgedBar
    BY <2>2, OthersJudgeNothing
  <2>4. \A o \in Messages : broker'[o] = broker[o] \/ {broker[o], broker'[o]} \subseteq {"backlog", "held"}
    BY <1>0, <1>10 DEF Dispatch
  <2> QED BY <1>9, <1>10, <2>3, <2>4 DEF Dispatch, toldBar
<1>11. ASSUME NEW m \in Messages, Redeliver(m) PROVE UNCHANGED <<toldBar, stateBar, judgedBar>>
  <2>1. \A o \in Messages : broker'[o] = broker[o] \/ {broker[o], broker'[o]} \subseteq {"backlog", "held"}
    BY <1>0, <1>11 DEF Redeliver
  <2> QED BY <1>9, <1>11, <2>1, OthersJudgeNothing DEF Redeliver, toldBar
<1>12. ASSUME Break PROVE stateBar' = stateBar
  <2>1. \A o \in Messages : broker'[o] = broker[o] \/ {broker[o], broker'[o]} \subseteq {"backlog", "held"}
    BY <1>0, <1>12 DEF Break
  <2> QED BY <1>9, <2>1
<1>13. ASSUME Reconnect PROVE UNCHANGED <<toldBar, stateBar, judgedBar>>
  BY <1>12, <1>13, OthersJudgeNothing DEF Reconnect, toldBar
<1>14. ASSUME Restart PROVE UNCHANGED <<toldBar, stateBar, judgedBar>>
  <2>1. judgedBar' = judgedBar
    <3>1. \A o \in Messages, n \in Counts :
            run'[o][n] = run[o][n] \/ (run[o][n] = "running" /\ run'[o][n] = "gone")
      BY <1>0, <1>14 DEF Restart
    <3> QED BY <3>1, OthersJudgeNothing
  <2>2. \A o \in Messages : \/ pc'[o] = pc[o]
                            \/ /\ pc[o] \notin {"sent", "failed", "panicked"}
                               /\ pc'[o] = "gone"
    BY <1>0, <1>14 DEF Restart
  <2>3. \A o \in Messages : toldBar'[o] = toldBar[o]
    BY <2>2 DEF toldBar
  <2>4. toldBar' = toldBar
    BY <2>3 DEF toldBar
  <2> QED BY <1>12, <1>14, <2>1, <2>4 DEF Restart
<1>15. ASSUME MapRace \/ UNCHANGED vars PROVE UNCHANGED <<toldBar, stateBar, judgedBar>>
  BY <1>15, OthersJudgeNothing DEF MapRace, vars, toldBar, stateBar
<1> QED BY <1>1, <1>2, <1>3, <1>4, <1>5, <1>6, <1>7, <1>8, <1>10, <1>11, <1>13, <1>14, <1>15 DEF Next

\* With the broker the client implements MessageQueue, for any number of messages, topics and
\* lost connections: what Send reported is stored, and stays until it is settled, for good.
THEOREM ClientImplementsQueue == Spec => ImplementsQueue
<1>1. Init => Queue!Init /\ FreshInv
  <2> SUFFICES ASSUME Init PROVE Queue!Init /\ FreshInv
    OBVIOUS
  <2>1. \A m \in Messages : pc[m] = "new" /\ broker[m] = "none" /\ ~Settled(m)
    BY CallersFacts DEF Init, Settled
  <2>2. judgedBar = {}
    BY <2>1 DEF judgedBar
  <2>3. toldBar = [m \in Messages |-> "nothing"] /\ stateBar = [m \in Messages |-> "absent"]
    BY <2>1 DEF toldBar, stateBar
  <2> QED BY <2>1, <2>2, <2>3 DEF Init, FreshInv, Queue!Init
<1>2. Inv /\ FreshInv /\ [Next]_vars => FreshInv'
  BY FreshStep
<1>3. Inv /\ FreshInv /\ [Next]_vars => [Queue!Next]_<<toldBar, stateBar, judgedBar>>
  BY QueueStep
<1>4. Spec => Queue!Init /\ [][Queue!Next]_<<toldBar, stateBar, judgedBar>>
  BY <1>1, <1>2, <1>3, Invariance, PTL DEF Spec
<1> QED BY <1>4 DEF ImplementsQueue, Queue!Spec, Queue!vars

-----------------------------------------------------------------------------
(* What of CallsReturn does not depend on fairness.                         *)

\* Whoever waits for the mutex or the Once waits for a caller that is at a line inside it
\* and goes on from there: neither is kept by one that has failed, panicked or gone on.
LocksAreInUse ==
  /\ mt # None => pc[mt] \in {"recheck", "create", "store"}
  /\ once \in Callers => pc[once] = "connect"

\* Every step keeps that.
LEMMA LocksStep ==
  ASSUME Inv, LocksAreInUse, [Next]_vars
  PROVE  LocksAreInUse'
<1> USE DEF processVars, callVars, brokerVars
<1>0. /\ pc \in [Callers -> PcStates] /\ mt \in Messages \union {None}
      /\ \A m \in Messages : m \in Callers /\ m # Subscriber /\ m # None
      /\ Subscriber \in Callers /\ "open" \notin Callers /\ "done" \notin Callers
  BY CallersFacts DEF Inv, TypeInv
<1>1. ASSUME NEW p \in Callers, NEW from, NEW to, Step(p, from, to),
             from \notin {"recheck", "create", "store", "connect"}, UNCHANGED <<mt, once>>
      PROVE  LocksAreInUse'
  BY <1>0, <1>1 DEF Step, LocksAreInUse
<1>2. ASSUME NEW p \in Callers, NewClient(p) PROVE LocksAreInUse'
  <2>1. CASE NewCheck(p)
    BY <1>1, <2>1 DEF NewCheck
  <2>2. CASE OnceEnter(p)
    <3>1. /\ mt' = mt /\ (mt # None => mt # p)
          /\ \A q \in Callers : q # p => pc'[q] = pc[q]
      BY <1>0, <2>2 DEF OnceEnter, Step, LocksAreInUse
    <3>2. \/ once' = p /\ pc'[p] = "connect"
          \/ once' = "done"
      BY <1>0, <2>2 DEF OnceEnter, Step
    <3> QED BY <1>0, <3>1, <3>2 DEF LocksAreInUse
  <2>3. CASE Connect(p)
    <3>1. /\ mt' = mt /\ once' = "done" /\ (mt # None => mt # p)
          /\ \A q \in Callers : q # p => pc'[q] = pc[q]
      BY <1>0, <2>3 DEF Connect, Panic, Step, LocksAreInUse
    <3> QED BY <1>0, <3>1 DEF LocksAreInUse
  <2> QED BY <1>2, <2>1, <2>2, <2>3 DEF NewClient
<1>3. ASSUME NEW m \in Messages, NEW to, UNCHANGED once, pc[m] # "connect",
             pc' = [pc EXCEPT ![m] = to],
             \/ mt' = None
             \/ mt' = m /\ to \in {"recheck", "create", "store"}
             \/ mt' = mt /\ mt = None
      PROVE  LocksAreInUse'
  BY <1>0, <1>3 DEF LocksAreInUse
<1>4. ASSUME NEW m \in Messages, GetProducer(m) PROVE LocksAreInUse'
  <2>1. CASE GetCached(m)
    BY <1>0, <1>1, <2>1 DEF GetCached
  <2>2. CASE Lock(m)
    <3>1. CASE client = None
      BY <1>0, <1>1, <2>2, <3>1 DEF Lock, Panic
    <3>2. CASE client # None
      <4>1. /\ mt' = m /\ UNCHANGED once /\ pc[m] = "lock" /\ pc' = [pc EXCEPT ![m] = "recheck"]
        BY <2>2, <3>2 DEF Lock, Step
      <4> QED BY <1>3, <4>1
    <3> QED BY <3>1, <3>2
  <2>3. CASE Recheck(m)
    <3>1. mt = m /\ UNCHANGED once /\ pc[m] = "recheck"
      BY <2>3 DEF Recheck, Step, Inv, CacheInv
    <3>2. \/ mt' = None /\ pc' = [pc EXCEPT ![m] = "send"]
          \/ mt' = m /\ pc' = [pc EXCEPT ![m] = "create"]
      BY <2>3, <3>1 DEF Recheck, Step
    <3> QED BY <1>3, <3>1, <3>2
  <2>4. CASE Create(m)
    <3>1. mt' = m /\ UNCHANGED once /\ pc[m] = "create" /\ pc' = [pc EXCEPT ![m] = "store"]
      BY <2>4 DEF Create, Step, Inv, CacheInv
    <3> QED BY <1>3, <3>1
  <2>5. CASE Store(m)
    <3>1. mt' = None /\ UNCHANGED once /\ pc[m] = "store" /\ \E to : pc' = [pc EXCEPT ![m] = to]
      BY <2>5 DEF Store, Step
    <3> QED BY <1>3, <3>1
  <2> QED BY <1>4, <2>1, <2>2, <2>3, <2>4, <2>5 DEF GetProducer
<1>5. ASSUME NEW m \in Messages, Send(m) PROVE LocksAreInUse'
  BY <1>0, <1>5 DEF Send, LocksAreInUse
<1>6. ASSUME NEW m \in Messages, SendAsync(m) PROVE LocksAreInUse'
  BY <1>0, <1>1, <1>6 DEF SendAsync
<1>7. ASSUME Subscribe PROVE LocksAreInUse'
  <2>1. UNCHANGED <<mt, once>> /\ \E to : Step(Subscriber, "subscribe", to)
    BY <1>7 DEF Subscribe, Panic
  <2> QED BY <1>0, <1>1, <2>1
<1>8. ASSUME \/ \E m \in Messages : SentAsync(m) \/ Dispatch(m) \/ AckArrives(m) \/ Redeliver(m)
             \/ \E m \in Messages, n \in Counts : Consume(m, n)
             \/ MapRace \/ Reconnect \/ UNCHANGED vars
      PROVE  LocksAreInUse'
  <2>1. UNCHANGED <<mt, once, pc>>
    BY <1>8 DEF SentAsync, Dispatch, AckArrives, Redeliver, Consume, Panicked, Ack, Nack, End,
       MapRace, Reconnect, vars
  <2> QED BY <2>1 DEF LocksAreInUse
<1>9. ASSUME Restart PROVE LocksAreInUse'
  BY <1>0, <1>9 DEF Restart, LocksAreInUse
<1> QED BY <1>2, <1>4, <1>5, <1>6, <1>7, <1>8, <1>9 DEF Next

\* Nobody keeps the mutex or the Once: a waiting call has a caller to wait for.
THEOREM LocksAreNotKept == Spec => []LocksAreInUse
<1>1. Init => LocksAreInUse
  BY CallersFacts DEF Init, LocksAreInUse
<1>2. Inv /\ LocksAreInUse /\ [Next]_vars => LocksAreInUse'
  BY LocksStep
<1> QED BY <1>1, <1>2, Invariance, PTL DEF Spec

-----------------------------------------------------------------------------
(* What of SentIsSettled does not depend on fairness.                       *)

\* The broker waits for the answer to a delivery that a listener has, for an answer on its
\* way or a Nack whose delay runs, or, after a panic, for none.
Awaited(m) == \/ run[m][count[m]] = "running"
              \/ m \in acks \union nacks
              \/ Forgotten(m)
HeldIsAwaited == \A m \in Messages : broker[m] = "held" => Awaited(m)
SentIsStored == \A m \in Messages \ Async : pc[m] = "sent" => broker[m] # "none"

\* A message that Send has reported as sent waits for its delivery, is settled, or is held
\* with its answer to come: only a listener's panic leaves it to the next lost connection.
NoMessageIsLost ==
  \A m \in Messages \ Async : pc[m] = "sent" =>
    broker[m] \in {"backlog", "acked"} \/ (broker[m] = "held" /\ Awaited(m))

\* Every step keeps the answers of what is held.
LEMMA AwaitedStep ==
  ASSUME Inv, HeldIsAwaited, [Next]_vars
  PROVE  HeldIsAwaited'
<1> USE DEF processVars, callVars, brokerVars
<1>0. /\ broker \in [Messages -> {"none", "backlog", "held", "acked"}]
      /\ run \in [Messages -> [Counts -> RunStates]]
      /\ acks \subseteq Messages /\ nacks \subseteq Messages
      /\ \A m \in Messages : count[m] \in Counts
  <2>1. ASSUME NEW m \in Messages PROVE count[m] \in Counts
    <3>1. count[m] \in Nat /\ count[m] <= Limit + breaks /\ breaks \in 0..MaxBreaks
      BY InvBounds DEF Inv, TypeInv, RetriesBounded
    <3> QED BY <3>1, LimitType, PulsarAssumption DEF Counts
  <2> QED BY <2>1 DEF Inv, TypeInv
<1>1. ASSUME UNCHANGED <<count, run, acks, nacks>>,
             \A m \in Messages : broker'[m] = "held" => broker[m] = "held"
      PROVE  HeldIsAwaited'
  BY <1>1 DEF HeldIsAwaited, Awaited, Forgotten
<1>2. ASSUME NEW p \in Callers, NewClient(p) PROVE HeldIsAwaited'
  BY <1>1, <1>2 DEF NewClient, NewCheck, OnceEnter, Connect, Panic, Step
<1>3. ASSUME NEW m \in Messages, GetProducer(m) \/ SendAsync(m) PROVE HeldIsAwaited'
  BY <1>1, <1>3 DEF GetProducer, GetCached, Lock, Recheck, Create, Store, SendAsync, Panic, Step
<1>4. ASSUME NEW m \in Messages, Send(m) \/ SentAsync(m) PROVE HeldIsAwaited'
  BY <1>0, <1>1, <1>4 DEF Send, SentAsync, Stored
<1>5. ASSUME Subscribe \/ MapRace \/ UNCHANGED vars PROVE HeldIsAwaited'
  BY <1>1, <1>5 DEF Subscribe, MapRace, vars, Panic, Step
<1>6. ASSUME NEW m \in Messages, Dispatch(m) PROVE HeldIsAwaited'
  <2>1. /\ UNCHANGED <<count, acks, nacks>>
        /\ broker' = [broker EXCEPT ![m] = "held"]
        /\ run' = [run EXCEPT ![m][count[m]] = "running"]
    BY <1>6 DEF Dispatch
  <2>2. run'[m][count[m]] = "running" /\ \A o \in Messages : o # m => run'[o] = run[o]
    BY <1>0, <2>1
  <2> QED BY <1>0, <2>1, <2>2 DEF HeldIsAwaited, Awaited, Forgotten
<1>7. ASSUME NEW m \in Messages, AckArrives(m) PROVE HeldIsAwaited'
  BY <1>0, <1>7 DEF AckArrives, HeldIsAwaited, Awaited, Forgotten
<1>8. ASSUME NEW m \in Messages, Redeliver(m) PROVE HeldIsAwaited'
  <2>1. /\ UNCHANGED <<run, acks>> /\ nacks' = nacks \ {m} /\ broker'[m] # "held"
        /\ \A o \in Messages : o # m => broker'[o] = broker[o] /\ count'[o] = count[o]
    BY <1>0, <1>8 DEF Redeliver, Inv, TypeInv
  <2> QED BY <2>1 DEF HeldIsAwaited, Awaited, Forgotten
<1>9. ASSUME NEW m \in Messages, NEW n \in Counts, Consume(m, n) PROVE HeldIsAwaited'
  <2>1. /\ UNCHANGED <<broker, count>> /\ acks \subseteq acks' /\ nacks \subseteq nacks'
        /\ \E how : run' = [run EXCEPT ![m][n] = how]
        /\ m \in acks' \union nacks' \/ run' = [run EXCEPT ![m][n] = "panicked"]
    BY <1>9 DEF Consume, Panicked, Ack, Nack, End
  <2>2. \A o \in Messages, k \in Counts : o # m \/ k # n => run'[o][k] = run[o][k]
    BY <1>0, <2>1
  <2>3. m \in acks' \union nacks' \/ run'[m][n] = "panicked"
    BY <1>0, <2>1
  <2> QED BY <1>0, <2>1, <2>2, <2>3 DEF HeldIsAwaited, Awaited, Forgotten
<1>10. ASSUME Reconnect \/ Restart PROVE HeldIsAwaited'
  <2>1. \A m \in Messages : broker'[m] # "held"
    BY <1>0, <1>10 DEF Reconnect, Restart, Break
  <2> QED BY <2>1 DEF HeldIsAwaited
<1> QED BY <1>2, <1>3, <1>4, <1>5, <1>6, <1>7, <1>8, <1>9, <1>10 DEF Next

\* What Send has reported as sent, the broker has.
LEMMA StoredStep ==
  ASSUME Inv, SentIsStored, [Next]_vars
  PROVE  SentIsStored'
<1> USE DEF processVars, callVars, brokerVars
<1>0. /\ broker \in [Messages -> {"none", "backlog", "held", "acked"}]
      /\ pc \in [Callers -> PcStates] /\ outbox \subseteq Async
      /\ \A m \in Messages : m \in Callers /\ m # Subscriber
  BY CallersFacts DEF Inv, TypeInv
<1>1. ASSUME \A m \in Messages : broker'[m] = "none" => broker[m] = "none",
             \A m \in Messages \ Async : pc'[m] = "sent" => pc[m] = "sent"
      PROVE  SentIsStored'
  BY <1>1 DEF SentIsStored
<1>2. ASSUME NEW p \in Callers, NEW from, NEW to, Step(p, from, to), to # "sent" \/ p \in Async
      PROVE  SentIsStored'
  BY <1>0, <1>1, <1>2 DEF Step
<1>3. ASSUME NEW p \in Callers, NewClient(p) PROVE SentIsStored'
  <2>1. PICK from, to : Step(p, from, to) /\ to # "sent"
    BY <1>3 DEF NewClient, NewCheck, OnceEnter, Connect, Panic, AfterNew
  <2> QED BY <1>2, <2>1
<1>4. ASSUME NEW m \in Messages, GetProducer(m) PROVE SentIsStored'
  <2>1. PICK from, to : Step(m, from, to) /\ to # "sent"
    BY <1>4 DEF GetProducer, GetCached, Lock, Recheck, Create, Store, Panic
  <2> QED BY <1>0, <1>2, <2>1
<1>5. ASSUME NEW m \in Messages, SendAsync(m) PROVE SentIsStored'
  BY <1>0, <1>2, <1>5 DEF SendAsync
<1>6. ASSUME NEW m \in Messages, Send(m) PROVE SentIsStored'
  <2>1. \A o \in Messages : o # m => pc'[o] = pc[o] /\ broker'[o] = broker[o]
    BY <1>0, <1>6 DEF Send, Stored
  <2>2. pc'[m] = "sent" => broker'[m] # "none"
    BY <1>0, <1>6 DEF Send, Stored
  <2> QED BY <2>1, <2>2 DEF SentIsStored
<1>7. ASSUME NEW m \in Messages, SentAsync(m) \/ Dispatch(m) \/ AckArrives(m) \/ Redeliver(m)
      PROVE  SentIsStored'
  <2>1. UNCHANGED pc /\ \A o \in Messages : broker'[o] = "none" => broker[o] = "none"
    BY <1>0, <1>7 DEF SentAsync, Stored, Dispatch, AckArrives, Redeliver
  <2> QED BY <1>1, <2>1
<1>8. ASSUME Subscribe PROVE SentIsStored'
  <2>1. PICK to : Step(Subscriber, "subscribe", to) /\ to # "sent"
    BY <1>8 DEF Subscribe, Panic
  <2> QED BY <1>2, <2>1, CallersFacts
<1>9. ASSUME \/ \E m \in Messages, n \in Counts : Consume(m, n)
             \/ MapRace \/ UNCHANGED vars
      PROVE  SentIsStored'
  BY <1>1, <1>9 DEF Consume, Panicked, Ack, Nack, End, MapRace, vars
<1>10. ASSUME Reconnect \/ Restart PROVE SentIsStored'
  <2>1. \A m \in Messages : broker'[m] = "none" => broker[m] = "none"
    BY <1>0, <1>10 DEF Reconnect, Restart, Break
  <2>2. \A m \in Messages : pc'[m] = "sent" => pc[m] = "sent"
    BY <1>0, <1>10 DEF Reconnect, Restart
  <2> QED BY <1>1, <2>1, <2>2
<1> QED BY <1>3, <1>4, <1>5, <1>6, <1>7, <1>8, <1>9, <1>10 DEF Next

\* No message is lost.
THEOREM MessagesAreNotLost == Spec => []NoMessageIsLost
<1> DEFINE Kept == HeldIsAwaited /\ SentIsStored
<1>1. Init => Kept
  BY CallersFacts DEF Init, HeldIsAwaited, SentIsStored
<1>2. Inv /\ Kept /\ [Next]_vars => Kept'
  BY AwaitedStep, StoredStep
<1>3. Inv /\ Kept => NoMessageIsLost
  <2> SUFFICES ASSUME Inv, Kept, NEW m \in Messages \ Async, pc[m] = "sent"
               PROVE  broker[m] \in {"backlog", "acked"} \/ (broker[m] = "held" /\ Awaited(m))
    BY DEF NoMessageIsLost
  <2>1. broker[m] \in {"backlog", "held", "acked"}
    BY DEF Inv, TypeInv, SentIsStored
  <2> QED BY <2>1 DEF HeldIsAwaited
<1> QED BY <1>1, <1>2, <1>3, Invariance, PTL DEF Spec

=============================================================================

-------------------------- MODULE NatsClientProofs --------------------------
(***************************************************************************)
(* Proofs about NatsClient, for any number of messages, pull loops, retries *)
(* and faults.                                                              *)
(***************************************************************************)
EXTENDS NatsClient, FiniteSetTheorems, TLAPS

InHand(p) == waiting[p] \union pool[p]

\* Nothing is known of a message the server does not have, and a message is given to
\* the server once.
StartInv ==
  /\ \A m \in Messages :
       server[m] = "none" => count[m] = 0 /\ m \notin acks /\ m \notin naks
  /\ \A m \in Messages : pc[m] = "new" \/ m \in outbox => server[m] = "none"
  /\ \A m \in outbox : pc[m] = "sent"

\* A delivery is in one place, was counted, and has not ended.
HandsInv ==
  /\ \A p \in Pullers : \A d \in InHand(p) :
       d[2] <= count[d[1]] /\ over[d[1]][d[2]] = "none"
  /\ \A p \in Pullers : waiting[p] \intersect pool[p] = {}
  /\ \A p, q \in Pullers : p # q => InHand(p) \intersect InHand(q) = {}
  /\ \A m \in Messages, n \in Counts : n > count[m] => over[m][n] = "none"

Naked(m) == {n \in Counts : over[m][n] = "naked"}
Ready(m) == IF server[m] = "ready" THEN 1 ELSE 0
Asked(m) == IF m \in naks THEN 1 ELSE 0
Quiet(m) == IF Silent(m) THEN 1 ELSE 0

\* Every delivery but the first, and every reason for one more, goes back to a negative
\* answer of its own or to a fault.
Charged(m) ==
  count[m] + Ready(m) + Asked(m) + Quiet(m) <= 1 + Cardinality(Naked(m)) + faults
\* A message is once in hand, at the server, or asked for, and once more for a fault.
Copied(m) == Cardinality(Live(m)) + Ready(m) + Asked(m) <= 1 + faults
AccountInv == \A m \in Messages : Charged(m) /\ Copied(m)

\* Negative answers are given below the limit, others for settled messages.
SettleInv ==
  /\ \A m \in Messages : \A n \in Naked(m) : n < Limit
  /\ \A m \in acks : Settled(m)
  /\ AckedIsSettled

Inv == TypeOK /\ StartInv /\ HandsInv /\ AccountInv /\ SettleInv

\* The limit of the deliveries is positive, and Counts covers it.
LEMMA LimitType == Limit \in Nat \ {0} /\ IsFiniteSet(Counts) /\ Counts \subseteq Nat \ {0}
<1>1. Limit \in Nat \ {0}
  BY NatsAssumption DEF Limit
<1>2. Limit + MaxFaults + 1 \in Nat
  BY <1>1, NatsAssumption
<1>3. IsFiniteSet(Counts)
  BY <1>2, FS_Interval DEF Counts
<1>4. Counts \subseteq Nat \ {0}
  BY <1>2 DEF Counts
<1> QED BY <1>1, <1>3, <1>4

\* A message has finitely many negative answers and deliveries in hand.
LEMMA Finite ==
  ASSUME TypeOK, NEW m \in Messages
  PROVE  /\ IsFiniteSet(Naked(m)) /\ Cardinality(Naked(m)) \in Nat
         /\ IsFiniteSet(Live(m)) /\ Cardinality(Live(m)) \in Nat
<1>1. IsFiniteSet(Naked(m)) /\ Cardinality(Naked(m)) \in Nat
  <2>1. Naked(m) \in SUBSET Counts
    BY DEF Naked
  <2> QED BY <2>1, LimitType, FS_Subset, FS_CardinalityType
<1>2. Live(m) \in SUBSET ({m} \X Counts)
  <2> SUFFICES ASSUME NEW d \in Live(m) PROVE d \in {m} \X Counts
    OBVIOUS
  <2>1. d[1] = m /\ \E p \in Pullers : d \in waiting[p] \/ d \in pool[p]
    BY DEF Live
  <2>2. d \in Messages \X Counts
    BY <2>1 DEF TypeOK, Deliveries
  <2> QED BY <2>1, <2>2
<1>3. IsFiniteSet({m} \X Counts)
  BY LimitType, FS_Singleton, FS_Product
<1> QED BY <1>1, <1>2, <1>3, FS_Subset, FS_CardinalityType

\* The terms of the accounts are numbers.
LEMMA Numbers ==
  ASSUME TypeOK, NEW m \in Messages
  PROVE  /\ count[m] \in Nat /\ Ready(m) \in 0..1 /\ Asked(m) \in 0..1 /\ Quiet(m) \in 0..1
         /\ faults \in Nat /\ faults <= MaxFaults /\ MaxFaults \in Nat
<1>1. count[m] \in Counts \union {0}
  BY DEF TypeOK
<1>2. Ready(m) \in 0..1 /\ Asked(m) \in 0..1 /\ Quiet(m) \in 0..1
  BY DEF Ready, Asked, Quiet
<1>3. count[m] \in Nat
  <2>1. \A n \in Counts : n \in Nat
    BY LimitType
  <2> QED BY <1>1, <2>1
<1>4. faults \in 0..MaxFaults /\ MaxFaults \in Nat
  BY NatsAssumption DEF TypeOK
<1> QED BY <1>1, <1>2, <1>3, <1>4

\* What is waiting for delivery may be delivered: its count stays within the bound.
LEMMA ReadyBound ==
  ASSUME Inv, NEW m \in Messages
  PROVE  /\ count[m] + Ready(m) <= Limit + faults
         /\ server[m] = "ready" => count[m] + 1 \in Counts
<1>1. Naked(m) \in SUBSET (1..(Limit - 1))
  <2>1. \A n \in Naked(m) : n \in Nat \ {0} /\ n < Limit
    BY LimitType DEF Inv, SettleInv, Naked
  <2> QED BY <2>1, LimitType
<1>2. Cardinality(Naked(m)) <= Limit - 1
  <2>1. Limit - 1 \in Int
    BY LimitType
  <2>2. IsFiniteSet(1..(Limit - 1)) /\ Cardinality(1..(Limit - 1)) = Limit - 1
    BY <2>1, LimitType, FS_Interval
  <2> QED BY <1>1, <2>2, FS_Subset
<1>3. /\ count[m] \in Nat /\ Ready(m) \in 0..1 /\ Asked(m) \in 0..1 /\ Quiet(m) \in 0..1
      /\ faults \in Nat /\ faults <= MaxFaults /\ MaxFaults \in Nat
      /\ Cardinality(Naked(m)) \in Nat
  BY Finite, Numbers DEF Inv
<1>4. count[m] + Ready(m) + Asked(m) + Quiet(m) <= 1 + Cardinality(Naked(m)) + faults
  BY DEF Inv, AccountInv, Charged
<1>5. count[m] + Ready(m) <= Limit + faults
  BY <1>2, <1>3, <1>4, LimitType
<1>6. ASSUME server[m] = "ready" PROVE count[m] + 1 \in Counts
  BY <1>3, <1>5, <1>6, LimitType DEF Ready, Counts
<1> QED BY <1>5, <1>6

\* A fault is counted, within the bound.
LEMMA FaultCounted ==
  ASSUME TypeOK, Fault
  PROVE  faults' = faults + 1 /\ faults' \in 0..MaxFaults
<1>1. faults \in 0..MaxFaults
  BY DEF TypeOK
<1>2. MaxFaults \in Nat
  BY NatsAssumption
<1> QED BY <1>1, <1>2 DEF Fault

\* Every step keeps the types: the count of a delivery is in Counts, for only what is
\* ready is delivered.
LEMMA TypeStep ==
  ASSUME Inv, [Next]_vars
  PROVE  TypeOK'
<1> USE NatsAssumption DEF subVars, workVars, sendVars, serverVars, answerVars
<1>0. TypeOK
  BY DEF Inv
<1>1. ASSUME NEW m \in Messages, Send(m) PROVE TypeOK'
  <2>1. server' \in [Messages -> {"none", "ready", "out", "acked"}]
    BY <1>0, <1>1 DEF TypeOK, Send, Stored
  <2>2. pc' \in [Messages -> {"new", "sent", "failed"}]
    BY <1>0, <1>1 DEF TypeOK, Send
  <2> QED BY <1>0, <1>1, <2>1, <2>2 DEF TypeOK, Deliveries, Send
<1>2. ASSUME NEW m \in Messages, SendAsync(m) PROVE TypeOK'
  BY <1>0, <1>2 DEF TypeOK, Deliveries, SendAsync
<1>3. ASSUME NEW m \in Messages, SentAsync(m) PROVE TypeOK'
  BY <1>0, <1>3 DEF TypeOK, Deliveries, SentAsync, Stored
<1>4. ASSUME Subscribe PROVE TypeOK'
  BY <1>0, <1>4 DEF TypeOK, Deliveries, Subscribe
<1>5. ASSUME NEW p \in Pullers, Bind(p) PROVE TypeOK'
  BY <1>0, <1>5 DEF TypeOK, Deliveries, Bind
<1>6. ASSUME NEW p \in Pullers, Fetch(p) PROVE TypeOK'
  <2>1. left' \in [Pullers -> 0..Batch]
    <3>1. Batch \in Nat /\ left[p] \in 0..Batch /\ left \in [Pullers -> 0..Batch]
      BY <1>0, NatsAssumption DEF TypeOK
    <3> QED BY <3>1, <1>6 DEF Fetch
  <2> QED BY <1>0, <1>6, <2>1 DEF TypeOK, Deliveries, Fetch
<1>7. ASSUME NEW p \in Pullers, FetchFails(p) PROVE TypeOK'
  BY <1>0, <1>7 DEF TypeOK, Deliveries, FetchFails
<1>8. ASSUME NEW p \in Pullers, NEW m \in Messages, Deliver(p, m) PROVE TypeOK'
  <2>1. server' \in [Messages -> {"none", "ready", "out", "acked"}]
    BY <1>0, <1>8 DEF TypeOK, Deliver
  <2>2. count' \in [Messages -> Counts \union {0}]
    BY <1>0, <1>8, ReadyBound DEF TypeOK, Deliver
  <2>3. left' \in [Pullers -> 0..Batch]
    <3>1. Batch \in Nat /\ left[p] \in 0..Batch /\ left \in [Pullers -> 0..Batch]
      BY <1>0, NatsAssumption DEF TypeOK
    <3> QED BY <3>1, <1>8 DEF Deliver
  <2>4. waiting' \in [Pullers -> SUBSET Deliveries]
    <3>1. <<m, count[m] + 1>> \in Deliveries
      BY <1>8, ReadyBound DEF Deliver, Deliveries
    <3> QED BY <1>0, <1>8, <3>1 DEF TypeOK, Deliver
  <2> QED BY <1>0, <1>8, <2>1, <2>2, <2>3, <2>4 DEF TypeOK, Deliveries, Deliver
<1>9. ASSUME NEW p \in Pullers, NEW m \in Messages, DeliveryLost(p, m) PROVE TypeOK'
  <2>1. server' \in [Messages -> {"none", "ready", "out", "acked"}]
    BY <1>0, <1>9 DEF TypeOK, DeliveryLost
  <2>2. count' \in [Messages -> Counts \union {0}]
    BY <1>0, <1>9, ReadyBound DEF TypeOK, DeliveryLost
  <2>3. faults' \in 0..MaxFaults
    BY <1>0, <1>9, FaultCounted DEF DeliveryLost
  <2> QED BY <1>0, <1>9, <2>1, <2>2, <2>3 DEF TypeOK, Deliveries, DeliveryLost
<1>10. ASSUME NEW p \in Pullers, NEW d \in waiting[p], Execute(p, d) PROVE TypeOK'
  <2>1. waiting' \in [Pullers -> SUBSET Deliveries]
    BY <1>0, <1>10 DEF TypeOK, Execute
  <2>2. pool' \in [Pullers -> SUBSET Deliveries]
    BY <1>0, <1>10 DEF TypeOK, Execute
  <2> QED BY <1>0, <1>10, <2>1, <2>2 DEF TypeOK, Execute
<1>11. ASSUME NEW p \in Pullers, NEW m \in Messages, NEW n \in Counts, Panicked(p, m, n) PROVE TypeOK'
  <2>1. over' \in [Messages -> [Counts -> {"none", "done", "given up", "naked", "panicked"}]]
    BY <1>0, <1>11 DEF TypeOK, Panicked, End
  <2>2. pool' \in [Pullers -> SUBSET Deliveries]
    BY <1>0, <1>11 DEF TypeOK, Panicked, End
  <2>3. faults' \in 0..MaxFaults
    BY <1>0, <1>11, FaultCounted DEF Panicked
  <2> QED BY <1>0, <1>11, <2>1, <2>2, <2>3 DEF TypeOK, Deliveries, Panicked, End
<1>12. ASSUME NEW p \in Pullers, NEW m \in Messages, NEW n \in Counts, Ack(p, m, n) PROVE TypeOK'
  <2>1. PICK how \in {"done", "given up"} : End(p, m, n, how)
    BY <1>12 DEF Ack
  <2>2. over' \in [Messages -> [Counts -> {"none", "done", "given up", "naked", "panicked"}]]
    BY <1>0, <2>1 DEF TypeOK, End
  <2>3. pool' \in [Pullers -> SUBSET Deliveries]
    BY <1>0, <2>1 DEF TypeOK, End
  <2> QED BY <1>0, <1>12, <2>1, <2>2, <2>3 DEF TypeOK, Ack, End
<1>13. ASSUME NEW p \in Pullers, NEW m \in Messages, NEW n \in Counts, Nak(p, m, n) PROVE TypeOK'
  <2>1. over' \in [Messages -> [Counts -> {"none", "done", "given up", "naked", "panicked"}]]
    BY <1>0, <1>13 DEF TypeOK, Nak, End
  <2>2. pool' \in [Pullers -> SUBSET Deliveries]
    BY <1>0, <1>13 DEF TypeOK, Nak, End
  <2> QED BY <1>0, <1>13, <2>1, <2>2 DEF TypeOK, Deliveries, Nak, End
<1>14. ASSUME NEW m \in Messages, AckArrives(m) PROVE TypeOK'
  BY <1>0, <1>14 DEF TypeOK, Deliveries, AckArrives
<1>15. ASSUME NEW m \in Messages, NakDue(m) PROVE TypeOK'
  BY <1>0, <1>15 DEF TypeOK, Deliveries, NakDue
<1>16. ASSUME NEW m \in Messages, Late(m) PROVE TypeOK'
  <2>1. server' \in [Messages -> {"none", "ready", "out", "acked"}]
    BY <1>0, <1>16 DEF TypeOK, Late, Stored
  <2>2. faults' \in 0..MaxFaults
    BY <1>0, <1>16, FaultCounted DEF Late
  <2> QED BY <1>0, <1>16, <2>1, <2>2 DEF TypeOK, Deliveries, Late
<1>17. ASSUME NEW m \in Messages, Lapse(m) PROVE TypeOK'
  BY <1>0, <1>17 DEF TypeOK, Deliveries, Lapse, Stored
<1>18. ASSUME Reconnect PROVE TypeOK'
  <2>1. faults' \in 0..MaxFaults
    BY <1>0, <1>18, FaultCounted DEF Reconnect
  <2> QED BY <1>0, <1>18, <2>1 DEF TypeOK, Deliveries, Reconnect
<1>19. ASSUME Restart PROVE TypeOK'
  <2>1. faults' \in 0..MaxFaults
    BY <1>0, <1>19, FaultCounted DEF Restart
  <2>2. left' \in [Pullers -> 0..Batch] /\ ppc' \in [Pullers -> {"none", "bind", "pulling", "pushed", "failed"}]
    <3>1. 0 \in 0..Batch
      BY NatsAssumption
    <3> QED BY <1>19, <3>1 DEF Restart
  <2>3. waiting' \in [Pullers -> SUBSET Deliveries] /\ pool' \in [Pullers -> SUBSET Deliveries]
    BY <1>19 DEF Restart
  <2>4. acks' \subseteq Messages /\ naks' \subseteq Messages /\ outbox' \subseteq Async
    BY <1>0, <1>19 DEF TypeOK, Restart
  <2> QED BY <1>0, <1>19, <2>1, <2>2, <2>3, <2>4 DEF TypeOK, Restart
<1>20. CASE UNCHANGED vars
  BY <1>0, <1>20 DEF TypeOK, vars
<1> QED BY <1>1, <1>2, <1>3, <1>4, <1>5, <1>6, <1>7, <1>8, <1>9, <1>10, <1>11, <1>12, <1>13, <1>14, <1>15, <1>16, <1>17, <1>18, <1>19, <1>20 DEF Next, Consume

\* The server has what is in hand, and its consume has not ended.
LEMMA HeldIsKnown ==
  ASSUME TypeOK, StartInv, HandsInv, NEW p \in Pullers, NEW m \in Messages, NEW n \in Counts,
         <<m, n>> \in pool[p]
  PROVE  server[m] # "none" /\ n <= count[m] /\ over[m][n] = "none"
<1>1. <<m, n>> \in InHand(p)
  BY DEF InHand
<1>2. n <= count[m] /\ over[m][n] = "none"
  BY <1>1 DEF HandsInv
<1>3. n \in Nat \ {0} /\ count[m] \in Nat
  BY LimitType, Numbers
<1>4. count[m] # 0
  BY <1>2, <1>3
<1> QED BY <1>2, <1>4 DEF StartInv

\* Every step keeps what is known of messages the server does not have.
LEMMA StartStep ==
  ASSUME TypeOK, StartInv, HandsInv, [Next]_vars
  PROVE  StartInv'
<1> USE DEF subVars, workVars, sendVars, serverVars, answerVars
<1>0. /\ server \in [Messages -> {"none", "ready", "out", "acked"}]
      /\ count \in [Messages -> Counts \union {0}]
      /\ pc \in [Messages -> {"new", "sent", "failed"}]
      /\ outbox \subseteq Async /\ Async \subseteq Messages
  BY NatsAssumption DEF TypeOK
<1>1. ASSUME NEW m \in Messages, Send(m) PROVE StartInv'
  <2>1. UNCHANGED <<outbox, count, acks, naks>> /\ pc[m] = "new" /\ m \notin outbox
    BY <1>0, <1>1 DEF Send
  <2>2. \A o \in Messages : /\ o # m => server'[o] = server[o] /\ pc'[o] = pc[o]
                            /\ server'[o] = server[o] \/ server'[o] = "ready"
    BY <1>0, <1>1 DEF Send, Stored
  <2>3. pc'[m] # "new"
    BY <1>0, <1>1 DEF Send
  <2> QED BY <1>0, <2>1, <2>2, <2>3 DEF StartInv
<1>2. ASSUME NEW m \in Messages, SendAsync(m) PROVE StartInv'
  <2>1. UNCHANGED <<server, count, acks, naks>> /\ pc[m] = "new"
    BY <1>0, <1>2 DEF SendAsync
  <2>2. /\ \A o \in Messages : o # m => pc'[o] = pc[o]
        /\ outbox' \subseteq outbox \union {m}
        /\ pc'[m] # "new"
    BY <1>0, <1>2 DEF SendAsync
  <2>3. m \notin outbox /\ (m \in outbox' => pc'[m] = "sent")
    BY <1>0, <1>2, <2>1 DEF SendAsync, StartInv
  <2> QED BY <1>0, <2>1, <2>2, <2>3 DEF StartInv
<1>3. ASSUME NEW m \in Messages, SentAsync(m) PROVE StartInv'
  BY <1>0, <1>3 DEF StartInv, SentAsync, Stored
<1>4. ASSUME Subscribe PROVE StartInv'
  BY <1>0, <1>4 DEF StartInv, Subscribe
<1>5. ASSUME NEW p \in Pullers, Bind(p) PROVE StartInv'
  BY <1>0, <1>5 DEF StartInv, Bind
<1>6. ASSUME NEW p \in Pullers, Fetch(p) PROVE StartInv'
  BY <1>0, <1>6 DEF StartInv, Fetch
<1>7. ASSUME NEW p \in Pullers, FetchFails(p) PROVE StartInv'
  BY <1>0, <1>7 DEF StartInv, FetchFails
<1>8. ASSUME NEW p \in Pullers, NEW m \in Messages, Deliver(p, m) PROVE StartInv'
  BY <1>0, <1>8 DEF StartInv, Deliver
<1>9. ASSUME NEW p \in Pullers, NEW m \in Messages, DeliveryLost(p, m) PROVE StartInv'
  BY <1>0, <1>9 DEF StartInv, DeliveryLost
<1>10. ASSUME NEW p \in Pullers, NEW d \in waiting[p], Execute(p, d) PROVE StartInv'
  BY <1>0, <1>10 DEF StartInv, Execute
<1>11. ASSUME NEW p \in Pullers, NEW m \in Messages, NEW n \in Counts, Panicked(p, m, n) PROVE StartInv'
  <2>1. UNCHANGED <<pc, outbox, server, count, acks, naks>>
    BY <1>11 DEF Panicked, End
  <2> QED BY <2>1 DEF StartInv
<1>12. ASSUME NEW p \in Pullers, NEW m \in Messages, NEW n \in Counts, Ack(p, m, n) PROVE StartInv'
  <2>1. server[m] # "none"
    BY <1>12, HeldIsKnown DEF Ack, End
  <2> QED BY <1>0, <1>12, <2>1 DEF StartInv, Ack, End
<1>13. ASSUME NEW p \in Pullers, NEW m \in Messages, NEW n \in Counts, Nak(p, m, n) PROVE StartInv'
  <2>1. server[m] # "none"
    BY <1>13, HeldIsKnown DEF Nak, End
  <2> QED BY <1>0, <1>13, <2>1 DEF StartInv, Nak, End
<1>14. ASSUME NEW m \in Messages, AckArrives(m) PROVE StartInv'
  BY <1>0, <1>14 DEF StartInv, AckArrives
<1>15. ASSUME NEW m \in Messages, NakDue(m) PROVE StartInv'
  BY <1>0, <1>15 DEF StartInv, NakDue
<1>16. ASSUME NEW m \in Messages, Late(m) PROVE StartInv'
  BY <1>0, <1>16 DEF StartInv, Late, Stored
<1>17. ASSUME NEW m \in Messages, Lapse(m) PROVE StartInv'
  BY <1>0, <1>17 DEF StartInv, Lapse, Silent, Stored
<1>18. ASSUME Reconnect PROVE StartInv'
  BY <1>0, <1>18 DEF StartInv, Reconnect
<1>19. ASSUME Restart PROVE StartInv'
  BY <1>0, <1>19 DEF StartInv, Restart
<1>20. CASE UNCHANGED vars
  BY <1>0, <1>20 DEF StartInv, vars
<1> QED BY <1>1, <1>2, <1>3, <1>4, <1>5, <1>6, <1>7, <1>8, <1>9, <1>10, <1>11, <1>12, <1>13, <1>14, <1>15, <1>16, <1>17, <1>18, <1>19, <1>20 DEF Next, Consume

-----------------------------------------------------------------------------
(* What is in hand.                                                         *)

\* A delivery in hand is one of the model's.
LEMMA InHandType ==
  ASSUME TypeOK, NEW p \in Pullers, NEW d \in InHand(p)
  PROVE  d[1] \in Messages /\ d[2] \in Counts /\ d[2] \in Nat /\ d = <<d[1], d[2]>>
<1>1. d \in Messages \X Counts
  BY DEF InHand, TypeOK, Deliveries
<1>2. d[1] \in Messages /\ d[2] \in Counts /\ d = <<d[1], d[2]>>
  BY <1>1
<1>3. \A n \in Counts : n \in Nat
  BY LimitType
<1> QED BY <1>2, <1>3

\* A step that moves nothing and ends nothing keeps what is known of the hands.
LEMMA HandsAlone ==
  ASSUME TypeOK, HandsInv, UNCHANGED <<waiting, pool, over>>,
         \A o \in Messages : count'[o] \in Nat /\ count[o] <= count'[o]
  PROVE  HandsInv'
<1>1. \A p \in Pullers : InHand(p)' = InHand(p)
  BY DEF InHand
<1>2. ASSUME NEW p \in Pullers, NEW d \in InHand(p)
      PROVE  d[2] <= count'[d[1]] /\ over'[d[1]][d[2]] = "none"
  <2>1. d[1] \in Messages /\ d[2] \in Nat /\ count[d[1]] \in Nat
    BY InHandType, Numbers
  <2>2. d[2] <= count[d[1]] /\ over[d[1]][d[2]] = "none"
    BY DEF HandsInv
  <2> QED BY <2>1, <2>2
<1>3. ASSUME NEW m \in Messages, NEW n \in Counts, n > count'[m] PROVE over'[m][n] = "none"
  <2>1. n \in Nat /\ count[m] \in Nat
    BY LimitType, Numbers
  <2>2. n > count[m]
    BY <1>3, <2>1
  <2> QED BY <2>2 DEF HandsInv
<1> QED BY <1>1, <1>2, <1>3 DEF HandsInv

\* The end of a consume takes its delivery out of hand, and no other.
LEMMA EndFacts ==
  ASSUME TypeOK, HandsInv, NEW p \in Pullers, NEW m \in Messages, NEW n \in Counts,
         NEW how, End(p, m, n, how)
  PROVE  /\ <<m, n>> \in InHand(p)
         /\ \A q \in Pullers : /\ InHand(q)' = InHand(q) \ {<<m, n>>}
                               /\ waiting'[q] = waiting[q]
                               /\ pool'[q] \subseteq pool[q]
         /\ \A o \in Messages, k \in Counts :
              over'[o][k] = IF o = m /\ k = n THEN how ELSE over[o][k]
<1>1. /\ waiting' = waiting /\ pool' = [pool EXCEPT ![p] = @ \ {<<m, n>>}]
      /\ <<m, n>> \in pool[p] /\ over' = [over EXCEPT ![m][n] = how]
  BY DEF End
<1>2. <<m, n>> \in InHand(p)
  BY <1>1 DEF InHand
<1>3. <<m, n>> \notin waiting[p] /\ \A q \in Pullers : q # p => <<m, n>> \notin InHand(q)
  BY <1>1, <1>2 DEF HandsInv
<1>4. pool \in [Pullers -> SUBSET Deliveries]
  BY DEF TypeOK
<1>5. over \in [Messages -> [Counts -> {"none", "done", "given up", "naked", "panicked"}]]
  BY DEF TypeOK
<1>6. ASSUME NEW q \in Pullers PROVE InHand(q)' = InHand(q) \ {<<m, n>>}
  BY <1>1, <1>3, <1>4 DEF InHand
<1>7. \A q \in Pullers : waiting'[q] = waiting[q] /\ pool'[q] \subseteq pool[q]
  BY <1>1, <1>4
<1>8. \A o \in Messages, k \in Counts :
        over'[o][k] = IF o = m /\ k = n THEN how ELSE over[o][k]
  BY <1>1, <1>5
<1> QED BY <1>2, <1>6, <1>7, <1>8

\* It keeps what is known of the hands.
LEMMA EndHands ==
  ASSUME TypeOK, HandsInv, NEW p \in Pullers, NEW m \in Messages, NEW n \in Counts,
         NEW how, End(p, m, n, how)
  PROVE  HandsInv'
<1>1. count' = count
  BY DEF End, serverVars
<1>2. /\ <<m, n>> \in InHand(p)
      /\ \A q \in Pullers : /\ InHand(q)' = InHand(q) \ {<<m, n>>}
                            /\ waiting'[q] = waiting[q]
                            /\ pool'[q] \subseteq pool[q]
      /\ \A o \in Messages, k \in Counts :
           over'[o][k] = IF o = m /\ k = n THEN how ELSE over[o][k]
  BY EndFacts
<1>3. ASSUME NEW q \in Pullers, NEW d \in InHand(q)'
      PROVE  d[2] <= count[d[1]] /\ over'[d[1]][d[2]] = "none"
  <2>1. d \in InHand(q) /\ d # <<m, n>>
    BY <1>2
  <2>2. d[1] \in Messages /\ d[2] \in Counts /\ d = <<d[1], d[2]>>
    BY <2>1, InHandType
  <2>3. d[2] <= count[d[1]] /\ over[d[1]][d[2]] = "none"
    BY <2>1 DEF HandsInv
  <2>4. ~(d[1] = m /\ d[2] = n)
    BY <2>1, <2>2
  <2> QED BY <1>2, <2>2, <2>3, <2>4
<1>4. n <= count[m]
  BY <1>2 DEF HandsInv
<1>5. ASSUME NEW o \in Messages, NEW k \in Counts, k > count[o] PROVE over'[o][k] = "none"
  <2>1. over[o][k] = "none"
    BY <1>5 DEF HandsInv
  <2>2. k \in Nat /\ n \in Nat /\ count[o] \in Nat
    BY LimitType, Numbers
  <2>3. ~(o = m /\ k = n)
    BY <1>4, <1>5, <2>2
  <2> QED BY <1>2, <2>1, <2>3
<1>6. \A q \in Pullers : waiting'[q] \intersect pool'[q] = {}
  BY <1>2 DEF HandsInv
<1>7. \A q, r \in Pullers : q # r => InHand(q)' \intersect InHand(r)' = {}
  BY <1>2 DEF HandsInv
<1> QED BY <1>1, <1>3, <1>5, <1>6, <1>7 DEF HandsInv

\* A delivery is new, and comes into one hand.
LEMMA DeliverFacts ==
  ASSUME Inv, NEW p \in Pullers, NEW m \in Messages, Deliver(p, m)
  PROVE  \E d \in Deliveries :
           /\ d = <<m, count[m] + 1>>
           /\ \A q \in Pullers : d \notin InHand(q) /\ pool'[q] = pool[q]
           /\ waiting'[p] = waiting[p] \union {d}
           /\ \A q \in Pullers : q # p => waiting'[q] = waiting[q]
<1> DEFINE d == <<m, count[m] + 1>>
<1>1. count[m] + 1 \in Counts /\ count[m] \in Nat
  BY ReadyBound, Numbers DEF Inv, Deliver
<1>2. d \in Deliveries
  BY <1>1 DEF Deliveries
<1>3. \A q \in Pullers : d \notin InHand(q)
  <2> SUFFICES ASSUME NEW q \in Pullers, <<m, count[m] + 1>> \in InHand(q) PROVE FALSE
    OBVIOUS
  <2>1. count[m] + 1 <= count[m]
    BY DEF Inv, HandsInv
  <2> QED BY <1>1, <2>1
<1>4. waiting' = [waiting EXCEPT ![p] = @ \union {d}] /\ pool' = pool
  BY DEF Deliver
<1>5. waiting \in [Pullers -> SUBSET Deliveries]
  BY DEF Inv, TypeOK
<1>6. waiting'[p] = waiting[p] \union {d} /\ \A q \in Pullers : q # p => waiting'[q] = waiting[q]
  BY <1>4, <1>5
<1> HIDE DEF d
<1>7. /\ \A q \in Pullers : d \notin InHand(q) /\ pool'[q] = pool[q]
      /\ waiting'[p] = waiting[p] \union {d}
      /\ \A q \in Pullers : q # p => waiting'[q] = waiting[q]
  BY <1>3, <1>4, <1>6
<1> QED BY <1>2, <1>7 DEF d

\* Every step keeps what is known of the hands.
LEMMA HandsStep ==
  ASSUME Inv, [Next]_vars
  PROVE  HandsInv'
<1> USE DEF subVars, workVars, sendVars, serverVars, answerVars
<1>0. TypeOK /\ HandsInv /\ \A o \in Messages : count[o] \in Nat /\ count'[o] \in Nat
  <2>1. count' \in [Messages -> Counts \union {0}]
    BY TypeStep DEF TypeOK
  <2>2. \A n \in Counts : n \in Nat
    BY LimitType
  <2>3. \A o \in Messages : count[o] \in Nat
    BY Numbers DEF Inv
  <2> QED BY <2>1, <2>2, <2>3 DEF Inv
<1>1. ASSUME NEW p \in Pullers, NEW m \in Messages, Deliver(p, m) PROVE HandsInv'
  <2>1. PICK d \in Deliveries :
          /\ d = <<m, count[m] + 1>>
          /\ \A q \in Pullers : d \notin InHand(q) /\ pool'[q] = pool[q]
          /\ waiting'[p] = waiting[p] \union {d}
          /\ \A q \in Pullers : q # p => waiting'[q] = waiting[q]
    BY <1>1, DeliverFacts
  <2>2. /\ over' = over /\ count[m] + 1 \in Counts
        /\ \A o \in Messages : count[o] <= count'[o]
        /\ count'[m] = count[m] + 1
    <3>1. count \in [Messages -> Counts \union {0}]
      BY <1>0 DEF TypeOK
    <3>2. count' = [count EXCEPT ![m] = @ + 1] /\ over' = over
      BY <1>1 DEF Deliver
    <3>3. count[m] + 1 \in Counts
      BY <1>1, ReadyBound DEF Deliver
    <3> QED BY <1>0, <3>1, <3>2, <3>3
  <2>3. InHand(p)' = InHand(p) \union {d} /\ \A q \in Pullers : q # p => InHand(q)' = InHand(q)
    BY <2>1 DEF InHand
  <2>4. ASSUME NEW q \in Pullers, NEW e \in InHand(q)'
        PROVE  e[2] <= count'[e[1]] /\ over[e[1]][e[2]] = "none"
    <3>1. CASE e = d
      <4>1. over[m][count[m] + 1] = "none"
        BY <1>0, <2>2 DEF HandsInv
      <4>2. e[1] = m /\ e[2] = count[m] + 1
        BY <2>1, <3>1
      <4> QED BY <1>0, <2>2, <4>1, <4>2
    <3>2. CASE e \in InHand(q)
      <4>1. e[1] \in Messages /\ e[2] \in Nat
        BY <1>0, <3>2, InHandType
      <4>2. e[2] <= count[e[1]] /\ over[e[1]][e[2]] = "none"
        BY <1>0, <3>2 DEF HandsInv
      <4> QED BY <1>0, <2>2, <4>1, <4>2
    <3> QED BY <2>3, <3>1, <3>2
  <2>5. ASSUME NEW o \in Messages, NEW k \in Counts, k > count'[o] PROVE over[o][k] = "none"
    <3>1. k \in Nat
      BY LimitType
    <3>2. k > count[o]
      BY <1>0, <2>2, <2>5, <3>1
    <3> QED BY <1>0, <3>2 DEF HandsInv
  <2>6. \A q \in Pullers : waiting'[q] \intersect pool'[q] = {}
    <3>1. \A q \in Pullers : d \notin pool[q]
      BY <2>1 DEF InHand
    <3>2. \A q \in Pullers : waiting[q] \intersect pool[q] = {}
      BY <1>0 DEF HandsInv
    <3> QED BY <2>1, <3>1, <3>2
  <2>7. \A q, r \in Pullers : q # r => InHand(q)' \intersect InHand(r)' = {}
    <3>1. \A q, r \in Pullers : q # r => InHand(q) \intersect InHand(r) = {}
      BY <1>0 DEF HandsInv
    <3>2. \A q \in Pullers : d \notin InHand(q)
      BY <2>1
    <3> QED BY <2>3, <3>1, <3>2
  <2> QED BY <2>2, <2>4, <2>5, <2>6, <2>7 DEF HandsInv
<1>2. ASSUME NEW p \in Pullers, NEW d \in waiting[p], Execute(p, d) PROVE HandsInv'
  <2>1. /\ waiting' = [waiting EXCEPT ![p] = @ \ {d}] /\ pool' = [pool EXCEPT ![p] = @ \union {d}]
        /\ UNCHANGED <<count, over>>
    BY <1>2 DEF Execute
  <2>2. waiting \in [Pullers -> SUBSET Deliveries] /\ pool \in [Pullers -> SUBSET Deliveries]
    BY <1>0 DEF TypeOK
  <2>3. \A q \in Pullers : InHand(q)' = InHand(q)
    BY <2>1, <2>2 DEF InHand
  <2>4. \A q \in Pullers : waiting'[q] \intersect pool'[q] = {}
    BY <1>0, <2>1, <2>2 DEF HandsInv
  <2> QED BY <1>0, <2>1, <2>3, <2>4 DEF HandsInv
<1>3. ASSUME NEW p \in Pullers, NEW m \in Messages, NEW n \in Counts, Consume(p, m, n)
      PROVE  HandsInv'
  <2>1. \E how : End(p, m, n, how)
    BY <1>3 DEF Consume, Panicked, Ack, Nak
  <2> QED BY <1>0, <2>1, EndHands
<1>4. ASSUME NEW p \in Pullers, NEW m \in Messages, DeliveryLost(p, m) PROVE HandsInv'
  <2>1. count \in [Messages -> Counts \union {0}]
    BY <1>0 DEF TypeOK
  <2>2. \A o \in Messages : count'[o] \in Nat /\ count[o] <= count'[o]
    BY <1>0, <1>4, <2>1 DEF DeliveryLost
  <2>3. UNCHANGED <<waiting, pool, over>>
    BY <1>4 DEF DeliveryLost
  <2> QED BY <1>0, <2>2, <2>3, HandsAlone
<1>5. ASSUME Restart PROVE HandsInv'
  <2>1. UNCHANGED <<count, over>> /\ \A q \in Pullers : waiting'[q] = {} /\ pool'[q] = {}
    BY <1>5 DEF Restart
  <2> QED BY <1>0, <2>1 DEF HandsInv, InHand
<1>6. ASSUME \/ \E m \in Messages : \/ Send(m) \/ SendAsync(m) \/ SentAsync(m)
                                    \/ AckArrives(m) \/ NakDue(m) \/ Late(m) \/ Lapse(m)
             \/ Subscribe \/ Reconnect \/ UNCHANGED vars
             \/ \E p \in Pullers : Bind(p) \/ Fetch(p) \/ FetchFails(p)
      PROVE  HandsInv'
  <2>1. UNCHANGED <<waiting, pool, over, count>>
    BY <1>6 DEF Send, SendAsync, SentAsync, AckArrives, NakDue, Late, Lapse, Subscribe, Reconnect,
                vars, Bind, Fetch, FetchFails
  <2> QED BY <1>0, <2>1, HandsAlone
<1> QED BY <1>1, <1>2, <1>3, <1>4, <1>5, <1>6 DEF Next

-----------------------------------------------------------------------------
(* The accounts.                                                            *)

\* A delivery may still be answered when it is in some puller's hands.
LEMMA LiveInHand ==
  ASSUME NEW m \in Messages, NEW d
  PROVE  /\ d \in Live(m) <=> d[1] = m /\ \E p \in Pullers : d \in InHand(p)
         /\ (d \in Live(m) <=> d[1] = m /\ \E p \in Pullers : d \in InHand(p))'
BY DEF Live, InHand

\* The terms of the accounts, and what they say, before a step ...
LEMMA Books ==
  ASSUME Inv, NEW m \in Messages
  PROVE  /\ count[m] \in Nat /\ Ready(m) \in 0..1 /\ Asked(m) \in 0..1 /\ Quiet(m) \in 0..1
         /\ faults \in Nat /\ Cardinality(Naked(m)) \in Nat /\ Cardinality(Live(m)) \in Nat
         /\ count[m] + Ready(m) + Asked(m) + Quiet(m) <= 1 + Cardinality(Naked(m)) + faults
         /\ Cardinality(Live(m)) + Ready(m) + Asked(m) <= 1 + faults
BY Numbers, Finite DEF Inv, AccountInv, Charged, Copied

\* ... and after it.
LEMMA BooksNext ==
  ASSUME Inv, [Next]_vars, NEW m \in Messages
  PROVE  /\ count'[m] \in Nat /\ Ready(m)' \in 0..1 /\ Asked(m)' \in 0..1 /\ Quiet(m)' \in 0..1
         /\ faults' \in Nat
<1>1. count'[m] \in Counts \union {0} /\ faults' \in 0..MaxFaults
  BY TypeStep DEF TypeOK
<1>2. \A n \in Counts : n \in Nat
  BY LimitType
<1>3. MaxFaults \in Nat
  BY NatsAssumption
<1> QED BY <1>1, <1>2, <1>3 DEF Ready, Asked, Quiet

\* The accounts stay in balance when what a message has at the server and on its way
\* rises by no more than the faults.
LEMMA Balanced ==
  ASSUME Inv, [Next]_vars, NEW m \in Messages,
         count'[m] = count[m], Naked(m)' = Naked(m), Live(m)' \subseteq Live(m),
         Ready(m)' + Asked(m)' + Quiet(m)' + faults <= Ready(m) + Asked(m) + Quiet(m) + faults',
         Ready(m)' + Asked(m)' + faults <= Ready(m) + Asked(m) + faults'
  PROVE  Charged(m)' /\ Copied(m)'
<1>1. /\ count[m] \in Nat /\ Ready(m) \in 0..1 /\ Asked(m) \in 0..1 /\ Quiet(m) \in 0..1
      /\ faults \in Nat /\ Cardinality(Naked(m)) \in Nat /\ Cardinality(Live(m)) \in Nat
      /\ count[m] + Ready(m) + Asked(m) + Quiet(m) <= 1 + Cardinality(Naked(m)) + faults
      /\ Cardinality(Live(m)) + Ready(m) + Asked(m) <= 1 + faults
  BY Books
<1>2. Ready(m)' \in 0..1 /\ Asked(m)' \in 0..1 /\ Quiet(m)' \in 0..1 /\ faults' \in Nat
  BY BooksNext
<1>3. Cardinality(Live(m)') \in Nat /\ Cardinality(Live(m)') <= Cardinality(Live(m))
  <2>1. IsFiniteSet(Live(m))
    BY Finite DEF Inv
  <2>2. IsFiniteSet(Live(m)') /\ Cardinality(Live(m)') <= Cardinality(Live(m))
    BY <2>1, FS_Subset
  <2> QED BY <2>2, FS_CardinalityType
<1>4. count'[m] + Ready(m)' + Asked(m)' + Quiet(m)' <= 1 + Cardinality(Naked(m)') + faults'
  BY <1>1, <1>2
<1>5. Cardinality(Live(m)') + Ready(m)' + Asked(m)' <= 1 + faults'
  BY <1>1, <1>2, <1>3
<1> QED BY <1>4, <1>5 DEF Charged, Copied

\* A step that only takes deliveries out of hand and counts faults keeps the accounts of a
\* message; unless it is a fault, the message does not fall silent.
LEMMA AccountAlone ==
  ASSUME Inv, [Next]_vars, NEW m \in Messages,
         count'[m] = count[m], Naked(m)' = Naked(m), Live(m)' \subseteq Live(m),
         server'[m] = server[m], m \in naks' => m \in naks,
         \/ faults' = faults + 1
         \/ /\ faults' = faults /\ (m \in naks => m \in naks')
            /\ (Live(m) \subseteq Live(m)' \/ m \in acks') /\ (m \in acks => m \in acks')
  PROVE  Charged(m)' /\ Copied(m)'
<1>1. Ready(m) \in 0..1 /\ Asked(m) \in 0..1 /\ Quiet(m) \in 0..1 /\ faults \in Nat
  BY Books
<1>2. Ready(m)' = Ready(m)
  BY DEF Ready
<1>3. Asked(m)' \in 0..1 /\ Asked(m)' <= Asked(m)
  BY DEF Asked
<1>4. Quiet(m)' \in 0..1
  BY DEF Quiet
<1>5. CASE faults' = faults + 1
  <2>1. Quiet(m)' <= Quiet(m) + 1
    BY <1>1, <1>4
  <2>2. /\ Ready(m)' + Asked(m)' + Quiet(m)' + faults <= Ready(m) + Asked(m) + Quiet(m) + faults'
        /\ Ready(m)' + Asked(m)' + faults <= Ready(m) + Asked(m) + faults'
    BY <1>1, <1>2, <1>3, <1>4, <1>5, <2>1
  <2> QED BY <2>2, Balanced
<1>6. CASE faults' # faults + 1
  <2>1. /\ faults' = faults /\ (m \in naks => m \in naks')
        /\ (Live(m) \subseteq Live(m)' \/ m \in acks') /\ (m \in acks => m \in acks')
    BY <1>6
  <2>2. Silent(m)' => Silent(m)
    BY <2>1 DEF Silent
  <2>3. Quiet(m)' <= Quiet(m)
    BY <2>2 DEF Quiet
  <2>4. /\ Ready(m)' + Asked(m)' + Quiet(m)' + faults <= Ready(m) + Asked(m) + Quiet(m) + faults'
        /\ Ready(m)' + Asked(m)' + faults <= Ready(m) + Asked(m) + faults'
    BY <1>1, <1>2, <1>3, <1>4, <2>1, <2>3
  <2> QED BY <2>4, Balanced
<1> QED BY <1>5, <1>6

\* A message the server has just got for the first time has nothing else on its account.
LEMMA AccountStored ==
  ASSUME Inv, [Next]_vars, NEW m \in Messages, server[m] = "none", server'[m] = "ready",
         UNCHANGED <<waiting, pool, over, count, acks, naks, faults>>
  PROVE  Charged(m)' /\ Copied(m)'
<1>1. count[m] = 0 /\ m \notin naks
  BY DEF Inv, StartInv
<1>2. Live(m) = {}
  <2> SUFFICES ASSUME NEW d \in Live(m) PROVE FALSE
    OBVIOUS
  <2>1. PICK p \in Pullers : d \in InHand(p) /\ d[1] = m
    BY LiveInHand
  <2>2. d[2] <= 0
    BY <1>1, <2>1 DEF Inv, HandsInv
  <2>3. d[2] \in Counts
    BY <2>1, InHandType DEF Inv
  <2>4. \A n \in Counts : n \in Nat /\ n # 0
    BY LimitType
  <2> QED BY <2>2, <2>3, <2>4
<1>3. Live(m)' = Live(m) /\ Naked(m)' = Naked(m)
  BY DEF Live, Naked
<1>4. Cardinality(Live(m)') = 0
  BY <1>2, <1>3, FS_EmptySet
<1>5. count'[m] = 0 /\ Ready(m)' = 1 /\ Asked(m)' = 0 /\ Quiet(m)' = 0
  BY <1>1 DEF Ready, Asked, Quiet, Silent
<1>6. Cardinality(Naked(m)') \in Nat /\ faults' \in Nat
  BY <1>3, Books
<1> QED BY <1>4, <1>5, <1>6 DEF Charged, Copied

\* A delivery takes the place of the readiness it ends.
LEMMA AccountDelivered ==
  ASSUME Inv, [Next]_vars, NEW p \in Pullers, NEW m \in Messages, Deliver(p, m),
         NEW o \in Messages
  PROVE  Charged(o)' /\ Copied(o)'
<1>1. PICK d \in Deliveries :
        /\ d = <<m, count[m] + 1>>
        /\ \A q \in Pullers : d \notin InHand(q) /\ pool'[q] = pool[q]
        /\ waiting'[p] = waiting[p] \union {d}
        /\ \A q \in Pullers : q # p => waiting'[q] = waiting[q]
  BY DeliverFacts
<1>2. InHand(p)' = InHand(p) \union {d} /\ \A q \in Pullers : q # p => InHand(q)' = InHand(q)
  BY <1>1 DEF InHand
<1>3. d[1] = m
  BY <1>1
<1>4. /\ server[m] = "ready" /\ server' = [server EXCEPT ![m] = "out"]
      /\ count' = [count EXCEPT ![m] = @ + 1]
      /\ UNCHANGED <<acks, naks, over, faults>>
  BY DEF Deliver, answerVars
<1>5. /\ server \in [Messages -> {"none", "ready", "out", "acked"}]
      /\ count \in [Messages -> Counts \union {0}]
  BY DEF Inv, TypeOK
<1>6. Naked(o)' = Naked(o)
  BY <1>4 DEF Naked
<1>7. CASE o # m
  <2>1. server'[o] = server[o] /\ count'[o] = count[o]
    BY <1>4, <1>5, <1>7
  <2>2. \A e : e \in Live(o)' <=> e \in Live(o)
    BY <1>2, <1>3, <1>7, LiveInHand
  <2>3. Live(o)' = Live(o)
    BY <2>2
  <2> QED BY <1>4, <1>6, <2>1, <2>3, AccountAlone
<1>8. CASE o = m
  <2>1. server'[m] = "out" /\ count'[m] = count[m] + 1
    BY <1>4, <1>5
  <2>2. \A e : e \in Live(m)' <=> e \in Live(m) \union {d}
    BY <1>2, <1>3, LiveInHand
  <2>3. Live(m)' = Live(m) \union {d} /\ d \notin Live(m)
    BY <1>1, <2>2, LiveInHand
  <2>4. Cardinality(Live(m)') = Cardinality(Live(m)) + 1
    BY <2>3, Finite, FS_AddElement DEF Inv
  <2>5. Ready(m) = 1 /\ Ready(m)' = 0 /\ Asked(m)' = Asked(m) /\ Quiet(m)' = 0
    BY <1>4, <2>1, <2>3 DEF Ready, Asked, Quiet, Silent
  <2>6. /\ count[m] \in Nat /\ Asked(m) \in 0..1 /\ Quiet(m) \in 0..1
        /\ faults \in Nat /\ Cardinality(Naked(m)) \in Nat /\ Cardinality(Live(m)) \in Nat
        /\ count[m] + Ready(m) + Asked(m) + Quiet(m) <= 1 + Cardinality(Naked(m)) + faults
        /\ Cardinality(Live(m)) + Ready(m) + Asked(m) <= 1 + faults
    BY Books
  <2>7. Cardinality(Naked(m)') = Cardinality(Naked(m)) /\ faults' = faults
    BY <1>4, <1>6, <1>8
  <2>8. count'[m] + Ready(m)' + Asked(m)' + Quiet(m)' <= 1 + Cardinality(Naked(m)') + faults'
    BY <2>1, <2>5, <2>6, <2>7
  <2>9. Cardinality(Live(m)') + Ready(m)' + Asked(m)' <= 1 + faults'
    BY <2>4, <2>5, <2>6, <2>7
  <2> QED BY <1>8, <2>8, <2>9 DEF Charged, Copied
<1> QED BY <1>7, <1>8

\* A lost delivery takes its place too, and the silence that may follow is a fault's.
LEMMA AccountLost ==
  ASSUME Inv, [Next]_vars, NEW p \in Pullers, NEW m \in Messages, DeliveryLost(p, m),
         NEW o \in Messages
  PROVE  Charged(o)' /\ Copied(o)'
<1>1. /\ server[m] = "ready" /\ server' = [server EXCEPT ![m] = "out"]
      /\ count' = [count EXCEPT ![m] = @ + 1] /\ faults' = faults + 1
      /\ UNCHANGED <<waiting, pool, acks, naks, over>>
  BY DEF DeliveryLost, Fault, workVars, answerVars
<1>2. /\ server \in [Messages -> {"none", "ready", "out", "acked"}]
      /\ count \in [Messages -> Counts \union {0}]
  BY DEF Inv, TypeOK
<1>3. Naked(o)' = Naked(o) /\ Live(o)' = Live(o)
  BY <1>1 DEF Naked, Live
<1>4. CASE o # m
  <2>1. server'[o] = server[o] /\ count'[o] = count[o]
    BY <1>1, <1>2, <1>4
  <2> QED BY <1>1, <1>3, <2>1, AccountAlone
<1>5. CASE o = m
  <2>1. server'[m] = "out" /\ count'[m] = count[m] + 1
    BY <1>1, <1>2
  <2>2. Ready(m) = 1 /\ Ready(m)' = 0 /\ Asked(m)' = Asked(m) /\ Quiet(m)' \in 0..1
    BY <1>1, <2>1 DEF Ready, Asked, Quiet
  <2>3. /\ count[m] \in Nat /\ Asked(m) \in 0..1 /\ Quiet(m) \in 0..1
        /\ faults \in Nat /\ Cardinality(Naked(m)) \in Nat /\ Cardinality(Live(m)) \in Nat
        /\ count[m] + Ready(m) + Asked(m) + Quiet(m) <= 1 + Cardinality(Naked(m)) + faults
        /\ Cardinality(Live(m)) + Ready(m) + Asked(m) <= 1 + faults
    BY Books
  <2>4. Cardinality(Naked(m)') = Cardinality(Naked(m)) /\ Cardinality(Live(m)') = Cardinality(Live(m))
    BY <1>3, <1>5
  <2>5. count'[m] + Ready(m)' + Asked(m)' + Quiet(m)' <= 1 + Cardinality(Naked(m)') + faults'
    BY <1>1, <2>1, <2>2, <2>3, <2>4
  <2>6. Cardinality(Live(m)') + Ready(m)' + Asked(m)' <= 1 + faults'
    BY <1>1, <2>2, <2>3, <2>4
  <2> QED BY <1>5, <2>5, <2>6 DEF Charged, Copied
<1> QED BY <1>4, <1>5

\* The end of a consume takes what it ends out of Live.
LEMMA EndLive ==
  ASSUME TypeOK, HandsInv, NEW p \in Pullers, NEW m \in Messages, NEW n \in Counts,
         NEW how, End(p, m, n, how), NEW o \in Messages
  PROVE  /\ Live(o)' = Live(o) \ {<<m, n>>} /\ <<m, n>> \in Live(m)
         /\ how # "naked" \/ o # m => Naked(o)' = Naked(o)
         /\ how = "naked" => Naked(m)' = Naked(m) \union {n} /\ n \notin Naked(m)
<1>1. /\ <<m, n>> \in InHand(p)
      /\ \A q \in Pullers : InHand(q)' = InHand(q) \ {<<m, n>>}
      /\ \A r \in Messages, k \in Counts :
           over'[r][k] = IF r = m /\ k = n THEN how ELSE over[r][k]
  BY EndFacts
<1>2. \A d : d \in Live(o)' <=> d \in Live(o) /\ d # <<m, n>>
  BY <1>1, LiveInHand
<1>3. <<m, n>> \in Live(m)
  <2>1. <<m, n>>[1] = m
    OBVIOUS
  <2> QED BY <1>1, <2>1, LiveInHand
<1>4. over[m][n] = "none"
  <2>1. <<m, n>>[1] = m /\ <<m, n>>[2] = n
    OBVIOUS
  <2> QED BY <1>1, <2>1 DEF HandsInv
<1>5. ASSUME how # "naked" \/ o # m PROVE Naked(o)' = Naked(o)
  <2>1. \A k \in Counts : over'[o][k] = "naked" <=> over[o][k] = "naked"
    BY <1>1, <1>4, <1>5
  <2> QED BY <2>1 DEF Naked
<1>6. ASSUME how = "naked" PROVE Naked(m)' = Naked(m) \union {n} /\ n \notin Naked(m)
  <2>1. \A k \in Counts : over'[m][k] = "naked" <=> over[m][k] = "naked" \/ k = n
    BY <1>1, <1>4, <1>6
  <2> QED BY <1>4, <2>1 DEF Naked
<1> QED BY <1>2, <1>3, <1>5, <1>6

\* The end of a consume keeps the accounts: a panic is a fault, what is acknowledged does
\* not fall silent, and a negative answer pays for the delivery it asks for.
LEMMA AccountConsumed ==
  ASSUME Inv, [Next]_vars, NEW p \in Pullers, NEW m \in Messages, NEW n \in Counts,
         Consume(p, m, n), NEW o \in Messages
  PROVE  Charged(o)' /\ Copied(o)'
<1> USE DEF serverVars
<1>0. TypeOK /\ HandsInv
  BY DEF Inv
<1>1. ASSUME NEW how, End(p, m, n, how)
      PROVE  /\ Live(o)' = Live(o) \ {<<m, n>>} /\ <<m, n>> \in Live(m)
             /\ how # "naked" \/ o # m => Naked(o)' = Naked(o)
  BY <1>0, <1>1, EndLive
<1>2. CASE Panicked(p, m, n)
  <2>1. End(p, m, n, "panicked") /\ faults' = faults + 1 /\ UNCHANGED <<server, count, naks>>
    BY <1>2 DEF Panicked, End, Fault
  <2>2. Live(o)' = Live(o) \ {<<m, n>>}
    BY <1>1, <2>1
  <2>3. Naked(o)' = Naked(o)
    BY <1>1, <2>1
  <2> QED BY <2>1, <2>2, <2>3, AccountAlone
<1>3. CASE Ack(p, m, n)
  <2>1. PICK how \in {"done", "given up"} : End(p, m, n, how)
    BY <1>3 DEF Ack
  <2>2. UNCHANGED <<server, count, naks, faults>> /\ acks' = acks \union {m}
    BY <1>3 DEF Ack, End
  <2>3. Live(o)' = Live(o) \ {<<m, n>>}
    BY <1>1, <2>1
  <2>4. Naked(o)' = Naked(o)
    BY <1>1, <2>1
  <2>5. Live(o) \subseteq Live(o)' \/ o \in acks'
    <3>1. CASE o = m
      BY <2>2, <3>1
    <3>2. CASE o # m
      <4>1. <<m, n>> \notin Live(o)
        BY <3>2 DEF Live
      <4> QED BY <2>3, <4>1
    <3> QED BY <3>1, <3>2
  <2> QED BY <2>2, <2>3, <2>4, <2>5, AccountAlone
<1>4. CASE Nak(p, m, n)
  <2>1. End(p, m, n, "naked") /\ naks' = naks \union {m} /\ UNCHANGED <<server, count, acks, faults>>
    BY <1>4 DEF Nak, End
  <2>2. Live(o)' = Live(o) \ {<<m, n>>} /\ <<m, n>> \in Live(m)
    BY <1>1, <2>1
  <2>3. CASE o # m
    <3>1. Naked(o)' = Naked(o)
      BY <1>0, <2>1, <2>3, EndLive
    <3>2. <<m, n>> \notin Live(o)
      BY <2>3 DEF Live
    <3> QED BY <2>1, <2>2, <2>3, <3>1, <3>2, AccountAlone
  <2>4. CASE o = m
    <3>1. Naked(m)' = Naked(m) \union {n} /\ n \notin Naked(m)
      BY <1>0, <2>1, EndLive
    <3>2. Cardinality(Naked(m)') = Cardinality(Naked(m)) + 1
      BY <1>0, <3>1, Finite, FS_AddElement
    <3>3. Live(m)' = Live(m) \ {<<m, n>>}
      BY <2>2, <2>4
    <3>4. Cardinality(Live(m)') = Cardinality(Live(m)) - 1
      BY <1>0, <2>2, <3>3, Finite, FS_RemoveElement
    <3>5. Ready(m)' = Ready(m) /\ Asked(m)' = 1 /\ Quiet(m)' = 0
      BY <2>1 DEF Ready, Asked, Quiet, Silent
    <3>6. /\ count[m] \in Nat /\ Ready(m) \in 0..1 /\ Asked(m) \in 0..1 /\ Quiet(m) \in 0..1
          /\ faults \in Nat /\ Cardinality(Naked(m)) \in Nat /\ Cardinality(Live(m)) \in Nat
          /\ count[m] + Ready(m) + Asked(m) + Quiet(m) <= 1 + Cardinality(Naked(m)) + faults
          /\ Cardinality(Live(m)) + Ready(m) + Asked(m) <= 1 + faults
      BY Books
    <3>7. count'[m] + Ready(m)' + Asked(m)' + Quiet(m)' <= 1 + Cardinality(Naked(m)') + faults'
      BY <2>1, <3>2, <3>5, <3>6
    <3>8. Cardinality(Live(m)') + Ready(m)' + Asked(m)' <= 1 + faults'
      BY <2>1, <3>4, <3>5, <3>6
    <3> QED BY <2>4, <3>7, <3>8 DEF Charged, Copied
  <2> QED BY <2>3, <2>4
<1> QED BY <1>2, <1>3, <1>4 DEF Consume

\* A change of the server's state or of the answers keeps the accounts: of what becomes
\* ready, one term at least goes down, or a fault is counted.
LEMMA AccountServed ==
  ASSUME Inv, [Next]_vars, NEW m \in Messages, NEW o \in Messages,
         AckArrives(m) \/ NakDue(m) \/ Late(m) \/ Lapse(m)
  PROVE  Charged(o)' /\ Copied(o)'
<1> USE DEF workVars, answerVars
<1>1. server \in [Messages -> {"none", "ready", "out", "acked"}]
  BY DEF Inv, TypeOK
<1>2. UNCHANGED <<waiting, pool, over, count>>
  BY DEF AckArrives, NakDue, Late, Lapse
<1>3. Naked(o)' = Naked(o) /\ Live(o)' = Live(o) /\ count'[o] = count[o]
  BY <1>2 DEF Naked, Live
<1>4. /\ Ready(o) \in 0..1 /\ Asked(o) \in 0..1 /\ Quiet(o) \in 0..1 /\ faults \in Nat
      /\ Cardinality(Naked(o)) \in Nat /\ Cardinality(Live(o)) \in Nat
      /\ count[o] \in Nat
      /\ count[o] + Ready(o) + Asked(o) + Quiet(o) <= 1 + Cardinality(Naked(o)) + faults
      /\ Cardinality(Live(o)) + Ready(o) + Asked(o) <= 1 + faults
  BY Books
<1>5. CASE o # m
  <2>1. /\ server'[o] = server[o] /\ (o \in naks' <=> o \in naks) /\ (o \in acks' <=> o \in acks)
        /\ faults' = faults \/ faults' = faults + 1
    BY <1>1, <1>5 DEF AckArrives, NakDue, Late, Lapse, Stored, Fault
  <2> QED BY <1>3, <2>1, AccountAlone
<1>6. CASE o = m /\ AckArrives(m)
  <2>1. server'[o] = "acked" /\ naks' = naks /\ faults' = faults
    BY <1>1, <1>6 DEF AckArrives
  <2>2. Ready(o)' = 0 /\ Quiet(o)' = 0 /\ Asked(o)' = Asked(o)
    BY <2>1 DEF Ready, Quiet, Asked, Silent
  <2>3. /\ Ready(o)' + Asked(o)' + Quiet(o)' + faults <= Ready(o) + Asked(o) + Quiet(o) + faults'
        /\ Ready(o)' + Asked(o)' + faults <= Ready(o) + Asked(o) + faults'
    BY <1>4, <2>1, <2>2
  <2> QED BY <1>3, <2>3, Balanced
<1>7. CASE o = m /\ NakDue(m)
  <2>1. /\ o \in naks /\ o \notin naks' /\ faults' = faults
        /\ server'[o] = IF server[o] = "out" THEN "ready" ELSE server[o]
    BY <1>1, <1>7 DEF NakDue
  <2>2. Asked(o) = 1 /\ Asked(o)' = 0 /\ Ready(o)' \in 0..1
    BY <2>1 DEF Ready, Asked
  <2>3. Quiet(o)' = 0
    BY <2>1 DEF Quiet, Silent
  <2>4. /\ Ready(o)' + Asked(o)' + Quiet(o)' + faults <= Ready(o) + Asked(o) + Quiet(o) + faults'
        /\ Ready(o)' + Asked(o)' + faults <= Ready(o) + Asked(o) + faults'
    BY <1>4, <2>1, <2>2, <2>3
  <2> QED BY <1>3, <2>4, Balanced
<1>8. CASE o = m /\ Late(m)
  <2>1. server'[o] = "ready" /\ naks' = naks /\ faults' = faults + 1 /\ server[o] = "out"
    BY <1>1, <1>8 DEF Late, Stored, Fault
  <2>2. Ready(o)' = 1 /\ Ready(o) = 0 /\ Quiet(o)' = 0 /\ Asked(o)' = Asked(o)
    BY <2>1 DEF Ready, Quiet, Asked, Silent
  <2>3. /\ Ready(o)' + Asked(o)' + Quiet(o)' + faults <= Ready(o) + Asked(o) + Quiet(o) + faults'
        /\ Ready(o)' + Asked(o)' + faults <= Ready(o) + Asked(o) + faults'
    BY <1>4, <2>1, <2>2
  <2> QED BY <1>3, <2>3, Balanced
<1>9. CASE o = m /\ Lapse(m)
  <2>1. server'[o] = "ready" /\ naks' = naks /\ faults' = faults /\ Silent(o)
    BY <1>1, <1>9 DEF Lapse, Stored
  <2>2. Ready(o) = 0 /\ Asked(o) = 0 /\ Quiet(o) = 1 /\ Live(o) = {}
    BY <2>1 DEF Ready, Asked, Quiet, Silent
  <2>3. Ready(o)' = 1 /\ Asked(o)' = 0 /\ Quiet(o)' = 0
    BY <2>1, <2>2 DEF Ready, Asked, Quiet, Silent
  <2>4. Cardinality(Live(o)') = 0
    BY <1>3, <2>2, FS_EmptySet
  <2>5. Cardinality(Naked(o)') = Cardinality(Naked(o))
    BY <1>3
  <2>6. count'[o] + Ready(o)' + Asked(o)' + Quiet(o)' <= 1 + Cardinality(Naked(o)') + faults'
    BY <1>3, <1>4, <2>1, <2>2, <2>3, <2>5
  <2>7. Cardinality(Live(o)') + Ready(o)' + Asked(o)' <= 1 + faults'
    BY <1>4, <2>1, <2>3, <2>4
  <2> QED BY <2>6, <2>7 DEF Charged, Copied
<1> QED BY <1>5, <1>6, <1>7, <1>8, <1>9

\* Every step keeps the accounts.
LEMMA AccountStep ==
  ASSUME Inv, [Next]_vars
  PROVE  AccountInv'
<1> USE DEF subVars, workVars, sendVars, serverVars, answerVars
<1> SUFFICES ASSUME NEW o \in Messages PROVE Charged(o)' /\ Copied(o)'
  BY DEF AccountInv
<1>0. /\ server \in [Messages -> {"none", "ready", "out", "acked"}]
      /\ waiting \in [Pullers -> SUBSET Deliveries] /\ pool \in [Pullers -> SUBSET Deliveries]
      /\ \A m \in Messages : pc[m] = "new" \/ m \in outbox => server[m] = "none"
  BY DEF Inv, TypeOK, StartInv
<1>1. ASSUME NEW m \in Messages, Send(m) \/ SentAsync(m) PROVE Charged(o)' /\ Copied(o)'
  <2>1. UNCHANGED <<waiting, pool, over, count, acks, naks, faults>>
    BY <1>1 DEF Send, SentAsync
  <2>2. server[m] = "none"
    BY <1>0, <1>1 DEF Send, SentAsync
  <2>3. server'[o] = server[o] \/ (o = m /\ server'[o] = "ready")
    <3>1. CASE Send(m)
      BY <1>0, <3>1 DEF Send, Stored
    <3>2. CASE SentAsync(m)
      BY <1>0, <3>2 DEF SentAsync, Stored
    <3> QED BY <1>1, <3>1, <3>2
  <2>4. Naked(o)' = Naked(o) /\ Live(o)' = Live(o)
    BY <2>1 DEF Naked, Live
  <2> QED BY <2>1, <2>2, <2>3, <2>4, AccountStored, AccountAlone
<1>2. ASSUME \/ \E m \in Messages : SendAsync(m)
             \/ Subscribe \/ UNCHANGED vars
             \/ \E p \in Pullers : Bind(p) \/ Fetch(p) \/ FetchFails(p)
      PROVE  Charged(o)' /\ Copied(o)'
  <2>1. UNCHANGED <<waiting, pool, over, count, acks, naks, faults, server>>
    BY <1>2 DEF SendAsync, Subscribe, vars, Bind, Fetch, FetchFails
  <2>2. Naked(o)' = Naked(o) /\ Live(o)' = Live(o)
    BY <2>1 DEF Naked, Live
  <2> QED BY <2>1, <2>2, AccountAlone
<1>3. ASSUME NEW p \in Pullers, NEW d \in waiting[p], Execute(p, d) PROVE Charged(o)' /\ Copied(o)'
  <2>1. /\ waiting' = [waiting EXCEPT ![p] = @ \ {d}] /\ pool' = [pool EXCEPT ![p] = @ \union {d}]
        /\ UNCHANGED <<over, count, acks, naks, faults, server>>
    BY <1>3 DEF Execute
  <2>2. \A q \in Pullers : InHand(q)' = InHand(q)
    BY <1>0, <2>1 DEF InHand
  <2>3. \A e : e \in Live(o)' <=> e \in Live(o)
    BY <2>2, LiveInHand
  <2>4. Naked(o)' = Naked(o) /\ Live(o)' = Live(o)
    BY <2>1, <2>3 DEF Naked
  <2> QED BY <2>1, <2>4, AccountAlone
<1>4. CASE Reconnect
  <2>1. /\ UNCHANGED <<waiting, pool, over, count, server>> /\ faults' = faults + 1
        /\ naks' \subseteq naks
    BY <1>4 DEF Reconnect, Fault
  <2>2. Naked(o)' = Naked(o) /\ Live(o)' = Live(o)
    BY <2>1 DEF Naked, Live
  <2> QED BY <2>1, <2>2, AccountAlone
<1>5. CASE Restart
  <2>1. /\ UNCHANGED <<over, count, server>> /\ faults' = faults + 1 /\ naks' \subseteq naks
        /\ \A q \in Pullers : waiting'[q] = {} /\ pool'[q] = {}
    BY <1>5 DEF Restart, Fault
  <2>2. Naked(o)' = Naked(o)
    BY <2>1 DEF Naked
  <2>3. \A e : e \notin Live(o)'
    BY <2>1, LiveInHand DEF InHand
  <2> QED BY <2>1, <2>2, <2>3, AccountAlone
<1> QED BY <1>1, <1>2, <1>3, <1>4, <1>5, AccountDelivered, AccountLost, AccountConsumed,
           AccountServed DEF Next

-----------------------------------------------------------------------------
(* What has been settled.                                                   *)

\* Once a message is settled it stays so: its consume ends once for each delivery.
LEMMA StaysSettled ==
  ASSUME Inv, NEW o \in Messages, Settled(o),
         \A k \in Counts : over[o][k] # "none" => over'[o][k] = over[o][k]
  PROVE  Settled(o)'
BY DEF Settled

\* Every step keeps what is known of the answers.
LEMMA SettleStep ==
  ASSUME Inv, [Next]_vars
  PROVE  SettleInv'
<1> USE DEF subVars, workVars, sendVars, serverVars, answerVars
<1>0. /\ TypeOK /\ HandsInv /\ SettleInv
      /\ server \in [Messages -> {"none", "ready", "out", "acked"}] /\ acks \subseteq Messages
      /\ \A m \in Messages : pc[m] = "new" \/ m \in outbox => server[m] = "none"
  BY DEF Inv, TypeOK, StartInv
<1>1. ASSUME NEW p \in Pullers, NEW m \in Messages, NEW n \in Counts, Consume(p, m, n)
      PROVE  SettleInv'
  <2>1. PICK how : /\ End(p, m, n, how)
                   /\ how = "naked" => n < Limit
                   /\ \/ acks' = acks
                      \/ /\ acks' = acks \union {m}
                         /\ how = "done" \/ (how = "given up" /\ ~Retry(n))
    BY <1>1 DEF Consume, Panicked, Ack, Nak, Retry
  <2>2. /\ <<m, n>> \in InHand(p)
        /\ \A o \in Messages, k \in Counts :
             over'[o][k] = IF o = m /\ k = n THEN how ELSE over[o][k]
    <3>1. ASSUME NEW h, End(p, m, n, h)
          PROVE  /\ <<m, n>> \in InHand(p)
                 /\ \A o \in Messages, k \in Counts :
                      over'[o][k] = IF o = m /\ k = n THEN h ELSE over[o][k]
      BY <1>0, <3>1, EndFacts
    <3> QED BY <2>1, <3>1
  <2>3. over[m][n] = "none"
    <3>1. <<m, n>> \in pool[p]
      BY <2>1 DEF End
    <3> QED BY <3>1, HeldIsKnown DEF Inv
  <2>4. server' = server
    BY <2>1 DEF End
  <2>5. \A o \in Messages : Settled(o) => Settled(o)'
    BY <2>2, <2>3, StaysSettled
  <2>6. \A o \in acks' : Settled(o)'
    <3>1. how = "done" \/ (how = "given up" /\ ~Retry(n)) => Settled(m)'
      BY <2>2 DEF Settled, Retry
    <3> QED BY <1>0, <2>1, <2>5, <3>1 DEF SettleInv
  <2>7. \A o \in Messages : \A k \in Naked(o)' : k < Limit
    BY <1>0, <2>1, <2>2 DEF SettleInv, Naked
  <2>8. AckedIsSettled'
    BY <1>0, <2>4, <2>5 DEF SettleInv, AckedIsSettled
  <2> QED BY <2>6, <2>7, <2>8 DEF SettleInv
<1>2. ASSUME UNCHANGED over, acks' \subseteq acks,
             \A m \in Messages : server'[m] = "acked" => server[m] = "acked" \/ m \in acks
      PROVE  SettleInv'
  <2>1. \A o \in Messages : (Settled(o) <=> Settled(o)') /\ Naked(o)' = Naked(o)
    BY <1>2 DEF Settled, Naked
  <2> QED BY <1>0, <1>2, <2>1 DEF SettleInv, AckedIsSettled
<1>3. ASSUME NEW m \in Messages, Send(m) \/ SentAsync(m) \/ Late(m) \/ Lapse(m)
      PROVE  SettleInv'
  <2>1. UNCHANGED <<over, acks>> /\ (UNCHANGED server \/ Stored(m))
    BY <1>3 DEF Send, SentAsync, Late, Lapse
  <2>2. \A o \in Messages : server'[o] = "acked" => server[o] = "acked"
    BY <1>0, <2>1 DEF Stored
  <2> QED BY <1>2, <2>1, <2>2
<1>4. ASSUME NEW m \in Messages, AckArrives(m) PROVE SettleInv'
  <2>1. UNCHANGED over /\ acks' \subseteq acks
    BY <1>4 DEF AckArrives
  <2>2. \A o \in Messages : server'[o] = "acked" => server[o] = "acked" \/ o \in acks
    BY <1>0, <1>4 DEF AckArrives
  <2> QED BY <1>2, <2>1, <2>2
<1>5. ASSUME NEW m \in Messages, NakDue(m) PROVE SettleInv'
  <2>1. UNCHANGED <<over, acks>>
    BY <1>5 DEF NakDue
  <2>2. \A o \in Messages : server'[o] = "acked" => server[o] = "acked"
    BY <1>0, <1>5 DEF NakDue
  <2> QED BY <1>2, <2>1, <2>2
<1>6. ASSUME NEW p \in Pullers, NEW m \in Messages, Deliver(p, m) \/ DeliveryLost(p, m)
      PROVE  SettleInv'
  <2>1. UNCHANGED <<over, acks>>
    BY <1>6 DEF Deliver, DeliveryLost
  <2>2. \A o \in Messages : server'[o] = "acked" => server[o] = "acked"
    BY <1>0, <1>6 DEF Deliver, DeliveryLost
  <2> QED BY <1>2, <2>1, <2>2
<1>7. ASSUME \/ \E m \in Messages : SendAsync(m)
             \/ Subscribe \/ Reconnect \/ Restart \/ UNCHANGED vars
             \/ \E p \in Pullers : \/ Bind(p) \/ Fetch(p) \/ FetchFails(p)
                                   \/ \E d \in waiting[p] : Execute(p, d)
      PROVE  SettleInv'
  <2>1. UNCHANGED <<over, server>> /\ acks' \subseteq acks
    BY <1>7 DEF SendAsync, Subscribe, Reconnect, Restart, vars, Bind, Fetch, FetchFails, Execute
  <2> QED BY <1>2, <2>1
<1> QED BY <1>1, <1>3, <1>4, <1>5, <1>6, <1>7 DEF Next

-----------------------------------------------------------------------------
(* The theorems.                                                            *)

\* Nothing has been sent, delivered or answered at the start.
LEMMA Initially ==
  ASSUME Init
  PROVE  Inv
<1> USE NatsAssumption
<1>1. TypeOK
  <2>1. 0 \in 0..MaxFaults /\ 0 \in 0..Batch
    OBVIOUS
  <2> QED BY <2>1 DEF Init, TypeOK, Deliveries
<1>2. StartInv
  BY DEF Init, StartInv
<1>3. HandsInv
  BY DEF Init, HandsInv, InHand
<1>4. ASSUME NEW m \in Messages PROVE Charged(m) /\ Copied(m)
  <2>1. Naked(m) = {} /\ Live(m) = {}
    BY DEF Init, Naked, Live
  <2>2. Cardinality(Naked(m)) = 0 /\ Cardinality(Live(m)) = 0
    BY <2>1, FS_EmptySet
  <2>3. count[m] = 0 /\ Ready(m) = 0 /\ Asked(m) = 0 /\ Quiet(m) = 0 /\ faults = 0
    BY DEF Init, Ready, Asked, Quiet, Silent
  <2> QED BY <2>2, <2>3 DEF Charged, Copied
<1>5. SettleInv
  BY DEF Init, SettleInv, Naked, AckedIsSettled
<1> QED BY <1>1, <1>2, <1>3, <1>4, <1>5 DEF Inv, AccountInv

\* The invariant holds in every state.
THEOREM Invariance == Spec => []Inv
<1>1. Init => Inv
  BY Initially
<1>2. Inv /\ [Next]_vars => Inv'
  BY TypeStep, StartStep, HandsStep, AccountStep, SettleStep DEF Inv
<1> QED BY <1>1, <1>2, PTL DEF Spec

\* Every variable keeps its type, and with it every delivery is one of Counts.
THEOREM TypeCorrect == Spec => []TypeOK
<1>1. Inv => TypeOK
  BY DEF Inv
<1> QED BY <1>1, Invariance, PTL

\* The server has consume process a message Limit times at most, and once more for every
\* panic, late answer, lost delivery, lost connection and lost process.
THEOREM DeliveriesAreBounded == Spec => []DeliveriesBounded
<1>1. Inv => DeliveriesBounded
  <2> SUFFICES ASSUME Inv, NEW m \in Messages PROVE count[m] <= Limit + faults
    BY DEF DeliveriesBounded
  <2>1. count[m] + Ready(m) <= Limit + faults
    BY ReadyBound
  <2>2. count[m] \in Nat /\ Ready(m) \in 0..1 /\ faults \in Nat /\ Limit \in Nat
    BY Books, LimitType
  <2> QED BY <2>1, <2>2
<1> QED BY <1>1, Invariance, PTL

\* Without faults a message is in the hands of one worker or loop at a time, and each fault
\* adds one copy at most.
THEOREM OneCopyKept == Spec => []OneCopy
<1>1. Inv => OneCopy
  <2> SUFFICES ASSUME Inv, NEW m \in Messages PROVE Cardinality(Live(m)) <= 1 + faults
    BY DEF OneCopy
  <2> QED BY Books
<1> QED BY <1>1, Invariance, PTL

\* A message leaves the consumer only after its listener accepted it or has no retry left.
THEOREM AckedAreSettled == Spec => []AckedIsSettled
<1>1. Inv => AckedIsSettled
  BY DEF Inv, SettleInv
<1> QED BY <1>1, Invariance, PTL

-----------------------------------------------------------------------------
(* The refinement of MessageQueue.                                          *)

\* Only consume settles a message, and only one the server has.
LEMMA ConsumeJudges ==
  ASSUME Inv, NEW p \in Pullers, NEW m \in Messages, NEW n \in Counts, Consume(p, m, n)
  PROVE  /\ UNCHANGED <<toldBar, stateBar>> /\ server[m] # "none"
         /\ judgedBar' \in {judgedBar, judgedBar \union {m}}
<1>1. TypeOK /\ StartInv /\ HandsInv
  BY DEF Inv
<1>2. PICK how : End(p, m, n, how)
  BY DEF Consume, Panicked, Ack, Nak
<1>3. UNCHANGED <<pc, server>> /\ <<m, n>> \in pool[p]
  BY <1>2 DEF End, sendVars, serverVars
<1>4. server[m] # "none" /\ over[m][n] = "none"
  BY <1>1, <1>3, HeldIsKnown
<1>5. \A o \in Messages, k \in Counts :
        over'[o][k] = IF o = m /\ k = n THEN how ELSE over[o][k]
  <2>1. over \in [Messages -> [Counts -> {"none", "done", "given up", "naked", "panicked"}]]
    BY <1>1 DEF TypeOK
  <2>2. over' = [over EXCEPT ![m][n] = how]
    BY <1>2 DEF End
  <2> QED BY <2>1, <2>2
<1>6. \A o \in Messages : (o # m => (Settled(o)' <=> Settled(o))) /\ (Settled(o) => Settled(o)')
  BY <1>4, <1>5 DEF Settled
<1>7. judgedBar' = judgedBar \/ judgedBar' = judgedBar \union {m}
  BY <1>6 DEF judgedBar
<1> QED BY <1>3, <1>4, <1>7 DEF toldBar, stateBar

\* A step that ends no consume judges nothing.
LEMMA OthersJudgeNothing ==
  ASSUME UNCHANGED over
  PROVE  judgedBar' = judgedBar
<1>1. \A o \in Messages : Settled(o)' <=> Settled(o)
  BY DEF Settled
<1> QED BY <1>1 DEF judgedBar

\* A redelivery moves a message between "ready" and "out", which are one at the queue.
LEMMA Redelivers ==
  ASSUME TypeOK, UNCHANGED pc,
         \A o \in Messages : server'[o] = server[o] \/ {server[o], server'[o]} \subseteq {"ready", "out"}
  PROVE  UNCHANGED <<toldBar, stateBar>>
<1>1. \A o \in Messages : stateBar'[o] = stateBar[o]
  BY DEF stateBar
<1> QED BY <1>1 DEF toldBar, stateBar

\* Every step is one of the queue's, or changes nothing it sees.
LEMMA QueueStep ==
  ASSUME Inv, [Next]_vars
  PROVE  [Queue!Next]_<<toldBar, stateBar, judgedBar>>
<1> USE DEF subVars, workVars, sendVars, serverVars, answerVars
<1>0. /\ TypeOK /\ SettleInv
      /\ server \in [Messages -> {"none", "ready", "out", "acked"}]
      /\ pc \in [Messages -> {"new", "sent", "failed"}]
      /\ acks \subseteq Messages /\ Async \subseteq Messages
      /\ \A m \in Messages : pc[m] = "new" \/ m \in outbox => server[m] = "none"
      /\ \A m \in Messages : m \in acks => server[m] # "none"
      /\ \A m \in outbox : pc[m] = "sent"
      /\ outbox \subseteq Async
  BY NatsAssumption DEF Inv, TypeOK, StartInv
<1>1. ASSUME NEW m \in Messages, Send(m) PROVE Queue!Next
  <2>1. judgedBar' = judgedBar
    BY <1>1, OthersJudgeNothing DEF Send
  <2>2. toldBar[m] = "nothing" /\ stateBar[m] = "absent"
    BY <1>0, <1>1 DEF Send, toldBar, stateBar
  <2>3. \A w \in {"sent", "failed"} : pc' = [pc EXCEPT ![m] = w] =>
          toldBar' = [toldBar EXCEPT ![m] = IF w = "sent" THEN "sent" ELSE "error"]
    BY <1>0 DEF toldBar
  <2>4. Stored(m) => stateBar' = [stateBar EXCEPT ![m] = "stored"]
    BY <1>0 DEF Stored, stateBar
  <2>5. UNCHANGED server => UNCHANGED stateBar
    BY DEF stateBar
  <2>6. \/ Stored(m) /\ pc' = [pc EXCEPT ![m] = "sent"]
        \/ (Stored(m) \/ UNCHANGED server) /\ pc' = [pc EXCEPT ![m] = "failed"]
    BY <1>1 DEF Send
  <2>7. Queue!Sent(m) \/ Queue!Failed(m)
    BY <2>1, <2>2, <2>3, <2>4, <2>5, <2>6 DEF Queue!Sent, Queue!Failed, Queue!Report, Queue!Move
  <2> QED BY <2>7 DEF Queue!Next
<1>2. ASSUME NEW m \in Messages, SendAsync(m) PROVE Queue!Next
  <2>1. judgedBar' = judgedBar /\ UNCHANGED stateBar /\ m \in Async
    BY <1>2, OthersJudgeNothing DEF SendAsync, stateBar
  <2>2. toldBar[m] = "nothing"
    BY <1>2 DEF SendAsync, toldBar
  <2>3. \A w \in {"sent", "failed"} : pc' = [pc EXCEPT ![m] = w] =>
          toldBar' = [toldBar EXCEPT ![m] = IF w = "sent" THEN "sent" ELSE "error"]
    BY <1>0 DEF toldBar
  <2>4. Queue!Taken(m) \/ Queue!Failed(m)
    BY <1>2, <2>1, <2>2, <2>3 DEF SendAsync, Queue!Taken, Queue!Failed, Queue!Report
  <2> QED BY <2>4 DEF Queue!Next
<1>3. ASSUME NEW m \in Messages, SentAsync(m) PROVE [Queue!Next]_<<toldBar, stateBar, judgedBar>>
  <2>1. judgedBar' = judgedBar /\ UNCHANGED toldBar
    BY <1>3, OthersJudgeNothing DEF SentAsync, toldBar
  <2>2. CASE UNCHANGED server
    BY <2>1, <2>2 DEF stateBar
  <2>3. CASE Stored(m) /\ pc[m] = "sent"
    <3>1. stateBar[m] = "absent" /\ toldBar[m] = "sent" /\ m \in Async
      BY <1>0, <1>3, <2>3 DEF SentAsync, stateBar, toldBar
    <3>2. stateBar' = [stateBar EXCEPT ![m] = "stored"]
      BY <1>0, <2>3 DEF Stored, stateBar
    <3>3. Queue!StoredLate(m)
      BY <2>1, <3>1, <3>2 DEF Queue!StoredLate, Queue!Move
    <3> QED BY <3>3 DEF Queue!Next
  <2>4. UNCHANGED server \/ Stored(m)
    BY <1>3 DEF SentAsync
  <2>5. pc[m] = "sent"
    BY <1>0, <1>3 DEF SentAsync
  <2> QED BY <2>2, <2>3, <2>4, <2>5
<1>4. ASSUME NEW p \in Pullers, NEW m \in Messages, NEW n \in Counts, Consume(p, m, n)
      PROVE  [Queue!Next]_<<toldBar, stateBar, judgedBar>>
  <2>1. /\ UNCHANGED <<toldBar, stateBar>> /\ server[m] # "none"
        /\ judgedBar' \in {judgedBar, judgedBar \union {m}}
    BY <1>4, ConsumeJudges
  <2>2. CASE server[m] = "acked"
    <3>1. m \in judgedBar
      BY <1>0, <2>2 DEF SettleInv, AckedIsSettled, judgedBar
    <3> QED BY <2>1, <3>1
  <2>3. CASE server[m] # "acked"
    <3>1. stateBar[m] = "stored"
      BY <2>1, <2>3 DEF stateBar
    <3> QED BY <2>1, <3>1 DEF Queue!Next, Queue!Judge
  <2> QED BY <2>2, <2>3
<1>5. ASSUME NEW m \in Messages, AckArrives(m) PROVE [Queue!Next]_<<toldBar, stateBar, judgedBar>>
  <2>1. judgedBar' = judgedBar /\ UNCHANGED toldBar
    BY <1>5, OthersJudgeNothing DEF AckArrives, toldBar
  <2>2. stateBar' = [stateBar EXCEPT ![m] = "settled"]
    BY <1>0, <1>5 DEF AckArrives, stateBar
  <2>3. m \in judgedBar /\ stateBar[m] \in {"stored", "settled"}
    BY <1>0, <1>5 DEF AckArrives, SettleInv, judgedBar, stateBar
  <2>4. CASE stateBar[m] = "stored"
    BY <2>1, <2>2, <2>3, <2>4 DEF Queue!Next, Queue!Settle, Queue!Move
  <2>5. CASE stateBar[m] = "settled"
    <3>1. stateBar' = stateBar
      BY <2>2, <2>5 DEF stateBar
    <3> QED BY <2>1, <3>1
  <2> QED BY <2>3, <2>4, <2>5
<1>6. ASSUME NEW m \in Messages, NakDue(m) \/ Late(m) \/ Lapse(m)
      PROVE  UNCHANGED <<toldBar, stateBar, judgedBar>>
  <2>1. UNCHANGED <<pc, over>>
    BY <1>6 DEF NakDue, Late, Lapse
  <2>2. \A o \in Messages : server'[o] = server[o] \/ {server[o], server'[o]} \subseteq {"ready", "out"}
    BY <1>0, <1>6 DEF NakDue, Late, Lapse, Silent, Stored
  <2> QED BY <1>0, <2>1, <2>2, Redelivers, OthersJudgeNothing
<1>7. ASSUME NEW p \in Pullers, NEW m \in Messages, Deliver(p, m) \/ DeliveryLost(p, m)
      PROVE  UNCHANGED <<toldBar, stateBar, judgedBar>>
  <2>1. UNCHANGED <<pc, over>>
    BY <1>7 DEF Deliver, DeliveryLost
  <2>2. \A o \in Messages : server'[o] = server[o] \/ {server[o], server'[o]} \subseteq {"ready", "out"}
    BY <1>0, <1>7 DEF Deliver, DeliveryLost
  <2> QED BY <1>0, <2>1, <2>2, Redelivers, OthersJudgeNothing
<1>8. ASSUME \/ Subscribe \/ Reconnect \/ Restart \/ UNCHANGED vars
             \/ \E p \in Pullers : \/ Bind(p) \/ Fetch(p) \/ FetchFails(p)
                                   \/ \E d \in waiting[p] : Execute(p, d)
      PROVE  UNCHANGED <<toldBar, stateBar, judgedBar>>
  <2>1. UNCHANGED <<pc, over, server>>
    BY <1>8 DEF Subscribe, Reconnect, Restart, vars, Bind, Fetch, FetchFails, Execute
  <2> QED BY <2>1, OthersJudgeNothing DEF toldBar, stateBar
<1> QED BY <1>1, <1>2, <1>3, <1>4, <1>5, <1>6, <1>7, <1>8 DEF Next

\* With JetStream the client implements MessageQueue, for any number of messages, loops and
\* faults: what Send reported is stored, and stays until it is settled, for good.
THEOREM ClientImplementsQueue == Spec => ImplementsQueue
<1>1. Init => Queue!Init
  <2> SUFFICES ASSUME Init PROVE Queue!Init
    OBVIOUS
  <2>1. \A m \in Messages : pc[m] = "new" /\ server[m] = "none" /\ ~Settled(m)
    BY DEF Init, Settled
  <2>2. judgedBar = {}
    BY <2>1 DEF judgedBar
  <2>3. toldBar = [m \in Messages |-> "nothing"] /\ stateBar = [m \in Messages |-> "absent"]
    BY <2>1 DEF toldBar, stateBar
  <2> QED BY <2>2, <2>3 DEF Queue!Init
<1>2. Inv /\ [Next]_vars => [Queue!Next]_<<toldBar, stateBar, judgedBar>>
  BY QueueStep
<1>3. Spec => Queue!Init /\ [][Queue!Next]_<<toldBar, stateBar, judgedBar>>
  BY <1>1, <1>2, Invariance, PTL DEF Spec
<1> QED BY <1>3 DEF ImplementsQueue, Queue!Spec, Queue!vars

-----------------------------------------------------------------------------
(* What the loops hold.                                                     *)

\* A loop has nothing before it is bound; one that pulls asks for what it has room for, and
\* hands on to a pool of PoolSize; one the server pushes to has its channel.
LoopHolds(p) ==
  /\ IsFiniteSet(waiting[p]) /\ IsFiniteSet(pool[p])
  /\ ppc[p] \in {"none", "bind"} => waiting[p] = {} /\ pool[p] = {} /\ left[p] = 0
  /\ Pushed(p) => left[p] = 0 /\ Cardinality(waiting[p]) <= ChannelSize
  /\ ~Pushed(p) => Cardinality(waiting[p]) + left[p] <= Batch /\ Cardinality(pool[p]) <= PoolSize
LoopInv ==
  /\ sub = "new" => \A p \in Pullers : ppc[p] = "none"
  /\ \A p \in Pullers : LoopHolds(p)

\* A loop that pulls has no more than one batch waiting, asked for or received, and two
\* running, however slow the listener is; one the server pushes to has no more waiting than
\* its channel holds.  What it has running has no bound.
LoopsAreBounded ==
  \A p \in Pullers :
    IF Pushed(p) THEN Cardinality(waiting[p]) <= ChannelSize
    ELSE Cardinality(waiting[p]) + left[p] <= Batch /\ Cardinality(pool[p]) <= PoolSize

\* A delivery joins a set or leaves it.
LEMMA Joins ==
  ASSUME NEW S, IsFiniteSet(S), NEW d
  PROVE  /\ IsFiniteSet(S \union {d}) /\ Cardinality(S \union {d}) <= Cardinality(S) + 1
         /\ IsFiniteSet(S \ {d}) /\ Cardinality(S \ {d}) <= Cardinality(S)
         /\ Cardinality(S) \in Nat
         /\ Cardinality(S \union {d}) \in Nat /\ Cardinality(S \ {d}) \in Nat
<1>1. Cardinality(S) \in Nat
  BY FS_CardinalityType
<1>2. IsFiniteSet(S \union {d}) /\ Cardinality(S \union {d}) \in {Cardinality(S), Cardinality(S) + 1}
  BY FS_AddElement
<1>3. IsFiniteSet(S \ {d}) /\ Cardinality(S \ {d}) \in {Cardinality(S), Cardinality(S) - 1}
  BY FS_RemoveElement
<1>4. Cardinality(S \ {d}) \in Nat
  BY <1>3, FS_CardinalityType
<1> QED BY <1>1, <1>2, <1>3, <1>4

\* Sizes are numbers.
LEMMA Sizes == Batch \in Nat \ {0} /\ ChannelSize \in Nat \ {0} /\ PoolSize \in Nat
BY NatsAssumption DEF PoolSize

\* Nothing in hand is within every bound.
LEMMA EmptyHolds ==
  ASSUME NEW p \in Pullers, waiting[p] = {}, pool[p] = {}, left[p] = 0
  PROVE  LoopHolds(p)
BY Sizes, FS_EmptySet DEF LoopHolds

\* Every step keeps the bounds.
LEMMA LoopStep ==
  ASSUME Inv, LoopInv, [Next]_vars
  PROVE  LoopInv'
<1> USE DEF subVars, workVars, sendVars, serverVars, answerVars
<1>0. /\ ppc \in [Pullers -> {"none", "bind", "pulling", "pushed", "failed"}]
      /\ left \in [Pullers -> 0..Batch]
      /\ waiting \in [Pullers -> SUBSET Deliveries] /\ pool \in [Pullers -> SUBSET Deliveries]
      /\ \A p \in Pullers : left[p] \in Nat
      /\ \A p \in Pullers : LoopHolds(p) /\ IsFiniteSet(waiting[p]) /\ IsFiniteSet(pool[p])
  <2>1. left \in [Pullers -> 0..Batch]
    BY DEF Inv, TypeOK
  <2>2. \A p \in Pullers : left[p] \in Nat
    BY <2>1, Sizes
  <2>3. \A p \in Pullers : LoopHolds(p) /\ IsFiniteSet(waiting[p]) /\ IsFiniteSet(pool[p])
    BY DEF LoopInv, LoopHolds
  <2> QED BY <2>1, <2>2, <2>3 DEF Inv, TypeOK
<1>1. ASSUME UNCHANGED <<sub, ppc, left, waiting, pool>> PROVE LoopInv'
  BY <1>1 DEF LoopInv, LoopHolds, Pushed
<1>2. ASSUME Subscribe PROVE LoopInv'
  <2>1. /\ sub' # "new" /\ UNCHANGED <<left, waiting, pool>>
        /\ \A p \in Pullers : ppc[p] = "none" /\ ppc'[p] \in {"none", "bind"}
    BY <1>0, <1>2 DEF Subscribe, LoopInv
  <2> QED BY <1>0, <2>1 DEF LoopInv, LoopHolds, Pushed
<1>3. ASSUME NEW p \in Pullers, Bind(p) PROVE LoopInv'
  <2>1. /\ UNCHANGED <<sub, left, waiting, pool>> /\ ppc[p] = "bind"
        /\ ppc'[p] \in {"pushed", "pulling", "failed"}
        /\ \A q \in Pullers : q # p => ppc'[q] = ppc[q]
    BY <1>0, <1>3 DEF Bind
  <2>2. waiting[p] = {} /\ pool[p] = {} /\ left[p] = 0
    BY <1>0, <2>1 DEF LoopHolds
  <2>3. LoopHolds(p)'
    BY <2>1, <2>2, Sizes, FS_EmptySet DEF LoopHolds, Pushed
  <2>4. \A q \in Pullers : LoopHolds(q)'
    BY <1>0, <2>1, <2>3 DEF LoopHolds, Pushed
  <2> QED BY <2>1, <2>4 DEF LoopInv
<1>4. ASSUME NEW p \in Pullers, Fetch(p) PROVE LoopInv'
  <2>1. /\ UNCHANGED <<sub, ppc, waiting, pool>> /\ ppc[p] = "pulling" /\ waiting[p] = {}
        /\ left'[p] = Batch /\ \A q \in Pullers : q # p => left'[q] = left[q]
    BY <1>0, <1>4 DEF Fetch
  <2>2. LoopHolds(p)'
    BY <1>0, <2>1, Sizes, FS_EmptySet DEF LoopHolds, Pushed
  <2>3. \A q \in Pullers : LoopHolds(q)'
    BY <1>0, <2>1, <2>2 DEF LoopHolds, Pushed
  <2> QED BY <2>1, <2>3 DEF LoopInv
<1>5. ASSUME NEW p \in Pullers, NEW m \in Messages, Deliver(p, m) PROVE LoopInv'
  <2>1. PICK d \in Deliveries :
          /\ waiting'[p] = waiting[p] \union {d}
          /\ \A q \in Pullers : pool'[q] = pool[q] /\ (q # p => waiting'[q] = waiting[q])
    BY <1>5, DeliverFacts
  <2>2. /\ UNCHANGED <<sub, ppc>>
        /\ \A q \in Pullers : q # p => left'[q] = left[q]
        /\ \/ left[p] > 0 /\ left'[p] = left[p] - 1
           \/ Pushed(p) /\ Cardinality(waiting[p]) < ChannelSize /\ left'[p] = left[p]
    BY <1>0, <1>5 DEF Deliver
  <2>3. /\ IsFiniteSet(waiting'[p]) /\ Cardinality(waiting'[p]) <= Cardinality(waiting[p]) + 1
        /\ Cardinality(waiting'[p]) \in Nat /\ Cardinality(waiting[p]) \in Nat
    <3>1. IsFiniteSet(waiting[p])
      BY <1>0
    <3> QED BY <2>1, <3>1, Joins
  <2>4. LoopHolds(p)'
    <3>1. CASE Pushed(p)
      <4>1. left'[p] = 0 /\ Cardinality(waiting'[p]) <= ChannelSize
        BY <1>0, <2>2, <2>3, <3>1, Sizes DEF LoopHolds
      <4> QED BY <1>0, <2>1, <2>2, <2>3, <3>1, <4>1 DEF LoopHolds, Pushed
    <3>2. CASE ~Pushed(p)
      <4>1. ppc[p] \notin {"none", "bind"} /\ left[p] > 0 /\ left'[p] = left[p] - 1
        BY <1>0, <2>2, <3>2 DEF LoopHolds
      <4>2. Cardinality(waiting'[p]) + left'[p] <= Batch
        BY <1>0, <2>3, <3>2, <4>1, Sizes DEF LoopHolds
      <4> QED BY <1>0, <2>1, <2>2, <2>3, <3>2, <4>1, <4>2 DEF LoopHolds, Pushed
    <3> QED BY <3>1, <3>2
  <2>5. \A q \in Pullers : LoopHolds(q)'
    BY <1>0, <2>1, <2>2, <2>4 DEF LoopHolds, Pushed
  <2> QED BY <2>2, <2>5 DEF LoopInv
<1>6. ASSUME NEW p \in Pullers, NEW d \in waiting[p], Execute(p, d) PROVE LoopInv'
  <2>1. /\ UNCHANGED <<sub, ppc, left>>
        /\ waiting'[p] = waiting[p] \ {d} /\ pool'[p] = pool[p] \union {d}
        /\ \A q \in Pullers : q # p => waiting'[q] = waiting[q] /\ pool'[q] = pool[q]
        /\ Pushed(p) \/ Cardinality(pool[p]) < PoolSize
    BY <1>0, <1>6 DEF Execute
  <2>2. /\ IsFiniteSet(waiting'[p]) /\ Cardinality(waiting'[p]) <= Cardinality(waiting[p])
        /\ IsFiniteSet(pool'[p]) /\ Cardinality(pool'[p]) <= Cardinality(pool[p]) + 1
        /\ Cardinality(waiting'[p]) \in Nat /\ Cardinality(waiting[p]) \in Nat
        /\ Cardinality(pool'[p]) \in Nat /\ Cardinality(pool[p]) \in Nat
    <3>1. IsFiniteSet(waiting[p]) /\ IsFiniteSet(pool[p])
      BY <1>0
    <3>2. /\ IsFiniteSet(waiting[p] \ {d}) /\ Cardinality(waiting[p] \ {d}) <= Cardinality(waiting[p])
          /\ Cardinality(waiting[p] \ {d}) \in Nat /\ Cardinality(waiting[p]) \in Nat
      BY <3>1, Joins
    <3>3. /\ IsFiniteSet(pool[p] \union {d}) /\ Cardinality(pool[p] \union {d}) <= Cardinality(pool[p]) + 1
          /\ Cardinality(pool[p] \union {d}) \in Nat /\ Cardinality(pool[p]) \in Nat
      BY <3>1, Joins
    <3> QED BY <2>1, <3>2, <3>3
  <2>3. ppc[p] \notin {"none", "bind"}
    BY <1>0, <1>6 DEF LoopHolds
  <2>4. Pushed(p) => Cardinality(waiting'[p]) <= ChannelSize
    BY <1>0, <2>2, Sizes DEF LoopHolds
  <2>5. ~Pushed(p) => /\ Cardinality(waiting'[p]) + left[p] <= Batch
                      /\ Cardinality(pool'[p]) <= PoolSize
    BY <1>0, <2>1, <2>2, Sizes DEF LoopHolds
  <2>6. LoopHolds(p)'
    BY <1>0, <2>1, <2>2, <2>3, <2>4, <2>5 DEF LoopHolds, Pushed
  <2>7. \A q \in Pullers : LoopHolds(q)'
    BY <1>0, <2>1, <2>6 DEF LoopHolds, Pushed
  <2> QED BY <2>1, <2>7 DEF LoopInv
<1>7. ASSUME NEW p \in Pullers, NEW m \in Messages, NEW n \in Counts, Consume(p, m, n) PROVE LoopInv'
  <2>1. /\ UNCHANGED <<sub, ppc, left, waiting>>
        /\ pool'[p] = pool[p] \ {<<m, n>>}
        /\ \A q \in Pullers : q # p => pool'[q] = pool[q]
    BY <1>0, <1>7 DEF Consume, Panicked, Ack, Nak, End
  <2>2. /\ IsFiniteSet(pool'[p]) /\ Cardinality(pool'[p]) <= Cardinality(pool[p])
        /\ Cardinality(pool'[p]) \in Nat /\ Cardinality(pool[p]) \in Nat
    <3>1. IsFiniteSet(pool[p])
      BY <1>0
    <3> QED BY <2>1, <3>1, Joins
  <2>3. ~Pushed(p) => Cardinality(pool'[p]) <= PoolSize
    BY <1>0, <2>2, Sizes DEF LoopHolds
  <2>4. LoopHolds(p)'
    BY <1>0, <2>1, <2>2, <2>3 DEF LoopHolds, Pushed
  <2>5. \A q \in Pullers : LoopHolds(q)'
    BY <1>0, <2>1, <2>4 DEF LoopHolds, Pushed
  <2> QED BY <2>1, <2>5 DEF LoopInv
<1>8. ASSUME Restart PROVE LoopInv'
  <2>1. \A p \in Pullers : waiting'[p] = {} /\ pool'[p] = {} /\ left'[p] = 0 /\ ppc'[p] = "none"
    BY <1>8 DEF Restart
  <2>2. \A p \in Pullers : LoopHolds(p)'
    BY <2>1, Sizes, FS_EmptySet DEF LoopHolds, Pushed
  <2> QED BY <2>1, <2>2 DEF LoopInv
<1>9. ASSUME \/ \E m \in Messages : \/ Send(m) \/ SendAsync(m) \/ SentAsync(m)
                                    \/ AckArrives(m) \/ NakDue(m) \/ Late(m) \/ Lapse(m)
             \/ Reconnect \/ UNCHANGED vars
             \/ \E p \in Pullers : FetchFails(p)
             \/ \E p \in Pullers, m \in Messages : DeliveryLost(p, m)
      PROVE  LoopInv'
  <2>1. UNCHANGED <<sub, ppc, left, waiting, pool>>
    BY <1>9 DEF Send, SendAsync, SentAsync, AckArrives, NakDue, Late, Lapse, Reconnect, vars,
       FetchFails, DeliveryLost
  <2> QED BY <1>1, <2>1
<1> QED BY <1>2, <1>3, <1>4, <1>5, <1>6, <1>7, <1>8, <1>9 DEF Next

\* The pull loops hold what they have room for, and no more.
THEOREM LoopsKeepBounds == Spec => []LoopsAreBounded
<1>1. Init => LoopInv
  <2> SUFFICES ASSUME Init PROVE LoopInv
    OBVIOUS
  <2>1. \A p \in Pullers : waiting[p] = {} /\ pool[p] = {} /\ left[p] = 0 /\ ppc[p] = "none"
    BY DEF Init
  <2> QED BY <2>1, EmptyHolds DEF LoopInv
<1>2. Inv /\ LoopInv /\ [Next]_vars => LoopInv'
  BY LoopStep
<1>3. LoopInv => LoopsAreBounded
  BY DEF LoopInv, LoopHolds, LoopsAreBounded
<1> QED BY <1>1, <1>2, <1>3, Invariance, PTL DEF Spec

-----------------------------------------------------------------------------
(* What of SentIsSettled does not depend on fairness.                       *)

\* The server has what Send has reported as sent, and as long as nothing has gone wrong a
\* delivery it waits for is in hand or its answer is on its way: consume answers every one,
\* so that AckWait is needed after a panic, a loss or a late answer only.
NoMessageIsLost ==
  \A m \in Messages :
    /\ m \notin Async /\ pc[m] = "sent" => server[m] # "none"
    /\ Silent(m) => faults > 0

\* Every step keeps that.
LEMMA LostStep ==
  ASSUME Inv, NoMessageIsLost, [Next]_vars
  PROVE  NoMessageIsLost'
<1> USE DEF subVars, workVars, sendVars, serverVars, answerVars
<1>0. /\ server \in [Messages -> {"none", "ready", "out", "acked"}]
      /\ pc \in [Messages -> {"new", "sent", "failed"}]
      /\ outbox \subseteq Async /\ Async \subseteq Messages
      /\ acks \subseteq Messages /\ naks \subseteq Messages
      /\ waiting \in [Pullers -> SUBSET Deliveries] /\ pool \in [Pullers -> SUBSET Deliveries]
      /\ faults \in Nat
  <2>1. faults \in 0..MaxFaults
    BY DEF Inv, TypeOK
  <2>2. faults \in Nat
    BY <2>1, NatsAssumption
  <2> QED BY <2>2, NatsAssumption DEF Inv, TypeOK
<1>1. ASSUME Fault PROVE faults' > 0
  BY <1>0, <1>1 DEF Fault
\* Either the step is a fault, or it makes no message silent.
<1>2. ASSUME \A m \in Messages : server'[m] = "none" => server[m] = "none",
             \A m \in Messages \ Async : pc'[m] = "sent" => pc[m] = "sent" \/ server'[m] # "none",
             Fault \/ (faults' = faults /\ \A m \in Messages : Silent(m)' => Silent(m))
      PROVE  NoMessageIsLost'
  BY <1>1, <1>2 DEF NoMessageIsLost
<1>3. ASSUME UNCHANGED <<waiting, pool, acks, naks>>,
             \A m \in Messages : server'[m] = "out" => server[m] = "out"
      PROVE  \A m \in Messages : Silent(m)' => Silent(m)
  BY <1>3 DEF Silent, Live
<1>4. ASSUME NEW m \in Messages, Send(m) \/ SendAsync(m) \/ SentAsync(m) PROVE NoMessageIsLost'
  <2>1. /\ UNCHANGED <<waiting, pool, acks, naks, faults>>
        /\ \A o \in Messages : /\ server'[o] \in {server[o], "ready"}
                               /\ o # m => pc'[o] = pc[o]
        /\ m \notin Async /\ pc'[m] = "sent" => pc[m] = "sent" \/ server'[m] = "ready"
    BY <1>0, <1>4 DEF Send, SendAsync, SentAsync, Stored
  <2>2. \A o \in Messages : Silent(o)' => Silent(o)
    BY <1>3, <2>1
  <2> QED BY <1>2, <2>1, <2>2
<1>5. ASSUME \/ Subscribe \/ UNCHANGED vars
             \/ \E p \in Pullers : Bind(p) \/ Fetch(p) \/ FetchFails(p)
      PROVE  NoMessageIsLost'
  <2>1. UNCHANGED <<waiting, pool, acks, naks, faults, server, pc>>
    BY <1>5 DEF Subscribe, vars, Bind, Fetch, FetchFails
  <2>2. \A o \in Messages : Silent(o)' => Silent(o)
    BY <1>3, <2>1
  <2> QED BY <1>2, <2>1, <2>2
<1>6. ASSUME NEW p \in Pullers, NEW m \in Messages, Deliver(p, m) PROVE NoMessageIsLost'
  <2>1. PICK d \in Deliveries :
          /\ d = <<m, count[m] + 1>>
          /\ waiting'[p] = waiting[p] \union {d}
          /\ \A q \in Pullers : pool'[q] = pool[q] /\ (q # p => waiting'[q] = waiting[q])
    BY <1>6, DeliverFacts
  <2>2. /\ UNCHANGED <<pc, acks, naks, faults>> /\ server[m] = "ready"
        /\ server'[m] = "out" /\ \A o \in Messages : o # m => server'[o] = server[o]
    BY <1>0, <1>6 DEF Deliver
  <2>3. d \in Live(m)' /\ \A o \in Messages : Live(o) \subseteq Live(o)'
    <3>1. \A q \in Pullers : waiting[q] \subseteq waiting'[q] /\ pool'[q] = pool[q]
      BY <2>1
    <3>2. d \in waiting'[p] /\ d[1] = m
      BY <2>1
    <3> QED BY <3>1, <3>2 DEF Live
  <2>4. \A o \in Messages : Silent(o)' => Silent(o)
    BY <2>2, <2>3 DEF Silent
  <2> QED BY <1>2, <2>2, <2>4
<1>7. ASSUME NEW p \in Pullers, NEW d \in waiting[p], Execute(p, d) PROVE NoMessageIsLost'
  <2>1. /\ UNCHANGED <<pc, server, acks, naks, faults>>
        /\ \A q \in Pullers : waiting'[q] \union pool'[q] = waiting[q] \union pool[q]
    BY <1>0, <1>7 DEF Execute
  <2>2. \A o \in Messages : Silent(o)' => Silent(o)
    BY <2>1 DEF Silent, Live
  <2> QED BY <1>2, <2>1, <2>2
<1>8. ASSUME NEW p \in Pullers, NEW m \in Messages, NEW n \in Counts, Consume(p, m, n)
      PROVE  NoMessageIsLost'
  <2>1. /\ UNCHANGED <<pc, server>> /\ acks \subseteq acks' /\ naks \subseteq naks'
        /\ Fault \/ (faults' = faults /\ m \in acks' \union naks')
        /\ \E how : End(p, m, n, how)
    BY <1>8 DEF Consume, Panicked, Ack, Nak, End
  <2>2. \A q \in Pullers : InHand(q)' = InHand(q) \ {<<m, n>>}
    BY <2>1, EndFacts DEF Inv
  <2>3. ASSUME NEW o \in Messages, o # m, Live(o)' = {} PROVE Live(o) = {}
    <3>1. \A x : x \in Live(o) => x # <<m, n>>
      BY <2>3 DEF Live
    <3>2. \A x : x \in Live(o) => x \in Live(o)'
      BY <2>2, <3>1, LiveInHand
    <3> QED BY <2>3, <3>2
  <2>4. Fault \/ (faults' = faults /\ \A o \in Messages : Silent(o)' => Silent(o))
    BY <2>1, <2>3 DEF Silent
  <2> QED BY <1>2, <2>1, <2>4
<1>9. ASSUME NEW m \in Messages, AckArrives(m) \/ NakDue(m) \/ Late(m) \/ Lapse(m)
      PROVE  NoMessageIsLost'
  <2>1. /\ UNCHANGED <<pc, waiting, pool>>
        /\ server'[m] # "out" /\ (server'[m] = "none" => server[m] = "none")
        /\ \A o \in Messages : o # m => /\ server'[o] = server[o]
                                        /\ o \in acks' <=> o \in acks
                                        /\ o \in naks' <=> o \in naks
        /\ Fault \/ faults' = faults
    BY <1>0, <1>9 DEF AckArrives, NakDue, Late, Lapse, Stored
  <2>2. \A o \in Messages : Silent(o)' => Silent(o)
    BY <2>1 DEF Silent, Live
  <2> QED BY <1>2, <2>1, <2>2
<1>10. ASSUME \/ Reconnect \/ Restart
              \/ \E p \in Pullers, m \in Messages : DeliveryLost(p, m)
       PROVE  NoMessageIsLost'
  <2>1. /\ Fault /\ UNCHANGED pc
        /\ \A o \in Messages : server'[o] = "none" => server[o] = "none"
    BY <1>0, <1>10 DEF Reconnect, Restart, DeliveryLost
  <2> QED BY <1>2, <2>1
<1> QED BY <1>4, <1>5, <1>6, <1>7, <1>8, <1>9, <1>10 DEF Next

\* No message is lost, and none is forgotten unless something went wrong.
THEOREM MessagesAreNotLost == Spec => []NoMessageIsLost
<1>1. Init => NoMessageIsLost
  BY DEF Init, NoMessageIsLost, Silent
<1>2. Inv /\ NoMessageIsLost /\ [Next]_vars => NoMessageIsLost'
  BY LostStep
<1> QED BY <1>1, <1>2, Invariance, PTL DEF Spec

=============================================================================

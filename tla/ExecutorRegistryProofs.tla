----------------------- MODULE ExecutorRegistryProofs -----------------------
(***************************************************************************)
(* Theorems about ExecutorRegistry, for every interval of the beat and every *)
(* limit of a post: several beats may be under way to one admin, as they are *)
(* when BeatInterval is set to less than the 10 seconds of httpClient.       *)
(***************************************************************************)
EXTENDS ExecutorRegistry, FiniteSetTheorems, TLAPS

USE RegistryAssumption

LEMMA TypeInit == Init => TypeOK
<1> SUFFICES ASSUME Init PROVE TypeOK
  OBVIOUS
<1>1. clock \in 0..Interval
  BY DEF Init
<1>0. alive \in BOOLEAN /\ stopped \in BOOLEAN
  BY DEF Init
<1>2. TTL \in 0..TTL /\ 0 \in 0..MaxLost
  OBVIOUS
<1> QED BY <1>0, <1>1, <1>2 DEF Init, TypeOK

LEMMA TypeStep == TypeOK /\ [Next]_vars => TypeOK'
<1> SUFFICES ASSUME TypeOK, [Next]_vars PROVE TypeOK'
  OBVIOUS
<1> USE DEF TypeOK
<1>1. CASE UNCHANGED vars
  BY <1>1 DEF vars
<1>2. CASE Beat
  BY <1>2 DEF Beat
<1>3. CASE Stop
  BY <1>3 DEF Stop
<1>4. CASE Exit
  BY <1>4 DEF Exit
<1>5. CASE Tick
  <2>1. \A ages \in SUBSET (0..Timeout) : Timeout \notin ages => Older(ages) \subseteq 0..Timeout
    BY DEF Older
  <2>2. beats' \in [Admins -> SUBSET (0..Timeout)] /\ removes' \in [Admins -> SUBSET (0..Timeout)]
    BY <1>5, <2>1 DEF Tick
  <2>3. age' \in [Admins -> 0..TTL]
    BY <1>5 DEF Tick, Listed
  <2> QED BY <1>5, <2>2, <2>3 DEF Tick
<1>6. ASSUME NEW i \in Admins, BeatOk(i) PROVE TypeOK'
  BY <1>6 DEF BeatOk
<1>7. ASSUME NEW i \in Admins, BeatLost(i) PROVE TypeOK'
  BY <1>7 DEF BeatLost
<1>8. ASSUME NEW i \in Admins, RemoveOk(i) PROVE TypeOK'
  BY <1>8 DEF RemoveOk
<1>9. ASSUME NEW i \in Admins, RemoveLost(i) PROVE TypeOK'
  BY <1>9 DEF RemoveLost
<1> QED BY <1>1, <1>2, <1>3, <1>4, <1>5, <1>6, <1>7, <1>8, <1>9 DEF Next

\* Every variable of the registration keeps its type.
THEOREM TypeCorrect == Spec => []TypeOK
  BY TypeInit, TypeStep, PTL DEF Spec

-----------------------------------------------------------------------------
(* The beats under way to one admin were posted an interval apart.          *)

Spaced == \A i \in Admins : \A a, b \in beats[i] : a < b => b - a >= Interval
\* None of them after the timer was set.
Posted == \A i \in Admins : \A a \in beats[i] : alive => a >= clock
\* The age of a registration: since the beat that arrived last, one was posted every
\* interval, and each of them has been lost or is under way.
Fresh == \A i \in Admins \ Dead :
  alive /\ ~stopped /\ Listed(i) =>
    age[i] <= (lost[i] + Cardinality(beats[i])) * Interval + clock
\* Nothing but Stop posts a removal.
RemovesAfterStop == ~stopped => \A i \in Admins : removes[i] = {}

BeatInv == TypeOK /\ Spaced /\ Posted /\ Fresh /\ RemovesAfterStop

LEMMA DivBounds ==
  ASSUME NEW n \in Nat, NEW d \in Nat \ {0}
  PROVE  n \div d \in Nat /\ (n \div d) * d <= n /\ n < (n \div d) * d + d
  OBVIOUS

LEMMA TimesMonotonic ==
  ASSUME NEW m \in Nat, NEW n \in Nat, m <= n
  PROVE  m * Interval \in Nat /\ n * Interval \in Nat /\ m * Interval <= n * Interval
<1>1. PICK k \in Nat : n = m + k
  <2>1. n - m \in Nat /\ n = m + (n - m)
    OBVIOUS
  <2> QED BY <2>1
<1>2. n * Interval = m * Interval + k * Interval /\ k * Interval \in Nat
  BY <1>1
<1> QED BY <1>2

LEMMA OneMore == \A n \in Nat : (n + 1) * Interval = n * Interval + Interval
  OBVIOUS

LEMMA DivMonotonic ==
  ASSUME NEW m \in Nat, NEW n \in Nat, m <= n
  PROVE  m \div Interval <= n \div Interval
<1> DEFINE p == m \div Interval
           q == n \div Interval
<1>1. p \in Nat /\ q \in Nat /\ p * Interval <= n /\ n < q * Interval + Interval
  BY DivBounds
<1> HIDE DEF p, q
<1>2. ASSUME q + 1 <= p PROVE FALSE
  <2>1. (q + 1) * Interval <= p * Interval
    BY <1>1, <1>2, TimesMonotonic
  <2>2. (q + 1) * Interval = q * Interval + Interval /\ q * Interval \in Nat /\ p * Interval \in Nat
    BY <1>1, OneMore
  <2> QED BY <1>1, <2>1, <2>2
<1>3. p <= q
  BY <1>1, <1>2
<1> QED BY <1>3 DEF p, q

\* Ages that are an interval apart, in a span of so many ticks, are no more than the
\* intervals that fit into it, and one.
LEMMA SpacedCardinality ==
  ASSUME NEW lo \in Nat, NEW hi \in Nat, lo <= hi, NEW S \in SUBSET (lo..hi),
         \A a, b \in S : a < b => b - a >= Interval
  PROVE  IsFiniteSet(S) /\ Cardinality(S) \in Nat
         /\ Cardinality(S) <= (hi - lo) \div Interval + 1
<1> DEFINE n == (hi - lo) \div Interval
           f == [a \in S |-> (a - lo) \div Interval]
<1>1. n \in Nat
  BY DivBounds
<1>2. \A a \in S : (a - lo) \div Interval \in 0..n
  BY DivBounds, DivMonotonic
<1>3. ASSUME NEW a \in S, NEW b \in S, a < b PROVE f[a] # f[b]
  <2>1. a - lo \in Nat /\ b - lo \in Nat /\ (b - lo) - (a - lo) >= Interval
    BY <1>3
  <2> DEFINE p == (a - lo) \div Interval
             q == (b - lo) \div Interval
  <2>2. p \in Nat /\ q \in Nat /\ a - lo >= p * Interval /\ b - lo < q * Interval + Interval
    BY <2>1, DivBounds
  <2>3. p # q
    <3> HIDE DEF p, q
    <3>1. p * Interval \in Nat /\ q * Interval \in Nat
      BY <2>2
    <3>2. p = q => p * Interval = q * Interval
      OBVIOUS
    <3> QED BY <2>1, <2>2, <3>1, <3>2
  <2> QED BY <2>3
<1>4. f \in Injection(S, 0..n)
  <2>1. f \in [S -> 0..n]
    BY <1>2
  <2>2. \A a, b \in S : f[a] = f[b] => a = b
    BY <1>3
  <2> QED BY <2>1, <2>2 DEF Injection, IsInjective
<1> HIDE DEF n
<1>5. IsFiniteSet(0..n) /\ Cardinality(0..n) = n + 1
  <2>1. 0 \in Int /\ n \in Int /\ ~(0 > n)
    BY <1>1
  <2> QED BY <2>1, FS_Interval
<1>6. IsFiniteSet(S) /\ Cardinality(S) <= n + 1
  BY <1>4, <1>5, FS_Injection
<1> QED BY <1>6, FS_CardinalityType DEF n

\* Growing older leaves their number.
LEMMA OlderCardinality ==
  ASSUME NEW S \in SUBSET Nat, IsFiniteSet(Older(S))
  PROVE  Cardinality(S) <= Cardinality(Older(S))
<1> DEFINE f == [a \in S |-> a + 1]
<1>1. f \in Injection(S, Older(S))
  BY DEF Injection, IsInjective, Older
<1> QED BY <1>1, FS_Injection

LEMMA BeatsFinite ==
  ASSUME NEW S \in SUBSET (0..Timeout)
  PROVE  IsFiniteSet(S) /\ Cardinality(S) \in Nat
<1>1. 0 \in Int /\ Timeout \in Int
  OBVIOUS
<1>2. IsFiniteSet(0..Timeout)
  BY <1>1, FS_Interval
<1> QED BY <1>2, FS_Subset, FS_CardinalityType

LEMMA SpacedStep == TypeOK /\ Spaced /\ Posted /\ [Next]_vars => Spaced' /\ Posted'
<1> SUFFICES ASSUME TypeOK, Spaced, Posted, [Next]_vars PROVE Spaced' /\ Posted'
  OBVIOUS
<1> USE DEF TypeOK, Spaced, Posted
<1>1. CASE UNCHANGED vars
  BY <1>1 DEF vars
<1>2. CASE Beat
  BY <1>2 DEF Beat
<1>3. CASE Stop
  BY <1>3 DEF Stop
<1>4. CASE Exit
  BY <1>4 DEF Exit
<1>5. CASE Tick
  <2>1. \A i \in Admins : beats'[i] = {a + 1 : a \in beats[i]}
    BY <1>5 DEF Tick, Older
  <2>2. alive' = alive /\ (alive => clock' = clock + 1)
    BY <1>5 DEF Tick
  <2> QED BY <2>1, <2>2
<1>6. ASSUME NEW i \in Admins, BeatOk(i) PROVE Spaced' /\ Posted'
  BY <1>6 DEF BeatOk
<1>7. ASSUME NEW i \in Admins, BeatLost(i) PROVE Spaced' /\ Posted'
  BY <1>7 DEF BeatLost
<1>8. ASSUME NEW i \in Admins, RemoveOk(i) PROVE Spaced' /\ Posted'
  BY <1>8 DEF RemoveOk
<1>9. ASSUME NEW i \in Admins, RemoveLost(i) PROVE Spaced' /\ Posted'
  BY <1>9 DEF RemoveLost
<1> QED BY <1>1, <1>2, <1>3, <1>4, <1>5, <1>6, <1>7, <1>8, <1>9 DEF Next

LEMMA RemovesStep == RemovesAfterStop /\ [Next]_vars => RemovesAfterStop'
  BY DEF RemovesAfterStop, Next, vars, Beat, Stop, Exit, Tick, Older, BeatOk, BeatLost,
     RemoveOk, RemoveLost

\* Neither counted for more, nor posted more often, than the timer says.
LEMMA FreshStep == BeatInv /\ [Next]_vars => Fresh'
<1> SUFFICES ASSUME TypeOK, Spaced, Posted, Fresh, [Next]_vars, NEW i \in Admins \ Dead,
                    alive', ~stopped', Listed(i)'
             PROVE  age'[i] <= (lost'[i] + Cardinality(beats'[i])) * Interval + clock'
  BY DEF Fresh, BeatInv
<1> DEFINE n == Cardinality(beats[i])
           n1 == Cardinality(beats'[i])
           Goal == age'[i] <= (lost'[i] + n1) * Interval + clock'
<1> SUFFICES Goal
  OBVIOUS
<1>0. /\ lost[i] \in Nat /\ lost'[i] \in Nat /\ age[i] \in Nat /\ clock \in Nat /\ clock' \in Nat
      /\ IsFiniteSet(beats[i]) /\ n \in Nat /\ IsFiniteSet(beats'[i]) /\ n1 \in Nat
      /\ beats[i] \in SUBSET Nat
  <2>1. TypeOK'
    BY TypeStep
  <2>2. beats[i] \in SUBSET (0..Timeout) /\ beats'[i] \in SUBSET (0..Timeout)
    BY <2>1 DEF TypeOK
  <2> QED BY <2>1, <2>2, BeatsFinite DEF TypeOK
<1>u. ASSUME Listed(i), alive, ~stopped PROVE age[i] <= (lost[i] + n) * Interval + clock
  BY <1>u DEF Fresh
<1> HIDE DEF n, n1
<1>1. CASE UNCHANGED vars
  BY <1>1, <1>u DEF vars, Listed, n, n1
<1>2. CASE Beat
  <2>1. clock = Interval /\ clock' = 0 /\ UNCHANGED <<age, lost, alive, stopped>>
        /\ beats'[i] = beats[i] \union {0}
    BY <1>2 DEF Beat
  <2>2. 0 \notin beats[i]
    BY <2>1 DEF Posted
  <2>3. n1 = n + 1
    BY <1>0, <2>1, <2>2, FS_AddElement DEF n, n1
  <2>4. (lost[i] + n + 1) * Interval = (lost[i] + n) * Interval + Interval
    BY <1>0, OneMore
  <2>5. age[i] <= (lost[i] + n) * Interval + clock
    BY <2>1, <1>u DEF Listed
  <2>6. (lost'[i] + n1) * Interval + clock' = (lost[i] + n) * Interval + clock
    BY <1>0, <2>1, <2>3, <2>4
  <2> QED BY <2>1, <2>5, <2>6
<1>3. CASE Stop
  BY <1>3 DEF Stop
<1>4. CASE Exit
  BY <1>4 DEF Exit
<1>5. CASE Tick
  <2>0. UNCHANGED <<lost, alive, stopped>> /\ alive /\ clock # Interval
    BY <1>5 DEF Tick
  <2>1. UNCHANGED <<lost, alive, stopped>> /\ clock' = clock + 1
    BY <1>5, <2>0 DEF Tick, TypeOK
  <2>2. Listed(i) /\ age'[i] = age[i] + 1
    BY <1>5 DEF Tick, Listed
  <2>3. beats'[i] = Older(beats[i])
    BY <1>5 DEF Tick
  <2>4. n <= n1
    BY <1>0, <2>3, OlderCardinality DEF n, n1
  <2>5. (lost[i] + n) * Interval <= (lost[i] + n1) * Interval
    BY <1>0, <2>4, TimesMonotonic
  <2>6. age[i] <= (lost[i] + n) * Interval + clock
    BY <2>1, <2>2, <1>u
  <2>7. (lost[i] + n) * Interval \in Nat /\ (lost[i] + n1) * Interval \in Nat
    BY <1>0
  <2> QED BY <1>0, <2>1, <2>2, <2>5, <2>6, <2>7
<1>6. ASSUME NEW j \in Admins, BeatOk(j) PROVE Goal
  <2>1. CASE j = i
    <3>1. age'[i] = 0 /\ (lost'[i] + n1) * Interval \in Nat
      BY <1>0, <1>6, <2>1 DEF BeatOk, TypeOK
    <3> QED BY <1>0, <3>1
  <2>2. CASE j # i
    BY <1>6, <2>2, <1>u DEF BeatOk, TypeOK, Listed, n, n1
  <2> QED BY <2>1, <2>2
<1>7. ASSUME NEW j \in Admins, BeatLost(j) PROVE Goal
  <2>1. UNCHANGED <<alive, stopped, clock, age>> /\ age[i] <= (lost[i] + n) * Interval + clock
    BY <1>7, <1>u DEF BeatLost, Listed
  <2>2. CASE j = i
    <3>1. PICK a \in beats[i] : beats'[i] = beats[i] \ {a}
      BY <1>7, <2>2 DEF BeatLost, TypeOK
    <3>2. n1 = n - 1
      BY <1>0, <3>1, FS_RemoveElement DEF n, n1
    <3>3. lost'[i] = lost[i] + 1
      BY <1>7, <2>1, <2>2 DEF BeatLost, TypeOK
    <3>4. lost'[i] + n1 = lost[i] + n
      BY <1>0, <3>2, <3>3
    <3> QED BY <2>1, <3>4
  <2>3. CASE j # i
    BY <1>7, <2>1, <2>3 DEF BeatLost, TypeOK, n, n1
  <2> QED BY <2>2, <2>3
<1>8. ASSUME NEW j \in Admins, RemoveOk(j) PROVE Goal
  <2>1. j # i
    BY <1>8, <1>0 DEF RemoveOk, Listed, TypeOK
  <2> QED BY <1>8, <2>1, <1>u DEF RemoveOk, TypeOK, Listed, n, n1
<1>9. ASSUME NEW j \in Admins, RemoveLost(j) PROVE Goal
  BY <1>9, <1>u DEF RemoveLost, Listed, n, n1
<1> QED BY <1>1, <1>2, <1>3, <1>4, <1>5, <1>6, <1>7, <1>8, <1>9 DEF Next, Goal, n1

LEMMA Invariance == Spec => []BeatInv
<1>1. Init => BeatInv
  <2> SUFFICES ASSUME Init PROVE Spaced /\ Posted /\ Fresh /\ RemovesAfterStop
    BY TypeInit DEF BeatInv
  <2> QED BY DEF Init, Spaced, Posted, Fresh, RemovesAfterStop, Listed
<1>2. BeatInv /\ [Next]_vars => BeatInv'
  BY TypeStep, SpacedStep, FreshStep, RemovesStep DEF BeatInv
<1> QED BY <1>1, <1>2, PTL DEF Spec

-----------------------------------------------------------------------------
\* An admin that does not answer holds as many goroutines as beats fit into the time a
\* post may take, and one: they do not pile up, however short the interval is.
THEOREM PostsAreBounded == Spec => []PostsBounded
<1>1. BeatInv => PostsBounded
  <2> SUFFICES ASSUME TypeOK, Spaced, NEW i \in Admins
               PROVE  Cardinality(beats[i]) <= Timeout \div Interval + 1
    BY DEF BeatInv, PostsBounded
  <2>1. beats[i] \in SUBSET (0..Timeout) /\ \A a, b \in beats[i] : a < b => b - a >= Interval
    BY DEF TypeOK, Spaced
  <2>2. 0 \in Nat /\ Timeout \in Nat /\ 0 <= Timeout /\ Timeout - 0 = Timeout
    OBVIOUS
  <2> QED BY <2>1, <2>2, SpacedCardinality
<1> QED BY <1>1, Invariance, PTL

\* Before a tick a registration that is kept fresh is at least a tick younger than TTL.
LEMMA TickKeeps ==
  ASSUME BeatInv, Tick, NEW i \in Admins \ Dead, alive, ~stopped, Listed(i)
  PROVE  age[i] + 1 < TTL
<1> DEFINE n == Cardinality(beats[i])
<1>0. /\ lost[i] \in 0..MaxLost /\ age[i] \in Nat /\ clock \in 0..Interval /\ clock # Interval
      /\ n \in Nat /\ IsFiniteSet(beats[i]) /\ beats[i] \in SUBSET (0..Timeout)
      /\ Timeout \notin beats[i]
  <2>1. beats[i] \in SUBSET (0..Timeout)
    BY DEF BeatInv, TypeOK
  <2> QED BY <2>1, BeatsFinite DEF BeatInv, TypeOK, Tick
<1>1. age[i] <= (lost[i] + n) * Interval + clock
  BY DEF BeatInv, Fresh
<1>2. (lost[i] + n) * Interval = lost[i] * Interval + n * Interval
  BY <1>0
<1>3. lost[i] * Interval <= MaxLost * Interval /\ lost[i] * Interval \in Nat
      /\ MaxLost * Interval \in Nat /\ (MaxLost + 1) * Interval = MaxLost * Interval + Interval
  BY <1>0, TimesMonotonic, OneMore
<1>4. n * Interval + clock + 1 <= Interval + Timeout
  <2>1. CASE beats[i] = {}
    <3>1. n = 0
      BY <2>1, FS_EmptySet
    <3> QED BY <1>0, <3>1
  <2>2. CASE beats[i] # {}
    <3>1. beats[i] \in SUBSET (clock..(Timeout - 1))
      BY <1>0 DEF BeatInv, Posted
    <3>2. clock <= Timeout - 1 /\ clock \in Nat /\ Timeout - 1 \in Nat
      BY <1>0, <2>2, <3>1
    <3> DEFINE q == ((Timeout - 1) - clock) \div Interval
    <3>3. n <= q + 1
      BY <3>1, <3>2, SpacedCardinality DEF BeatInv, Spaced
    <3>4. q \in Nat /\ q * Interval <= (Timeout - 1) - clock /\ q * Interval \in Nat
      BY <3>2, DivBounds
    <3> HIDE DEF n, q
    <3>5. n * Interval <= (q + 1) * Interval /\ n * Interval \in Nat
      BY <1>0, <3>3, <3>4, TimesMonotonic
    <3>6. (q + 1) * Interval = q * Interval + Interval
      BY <3>4, OneMore
    <3> QED BY <1>0, <3>2, <3>4, <3>5, <3>6
  <2> QED BY <2>1, <2>2
<1>5. n * Interval \in Nat
  BY <1>0
<1> HIDE DEF n
<1> QED BY <1>0, <1>1, <1>2, <1>3, <1>4, <1>5

LEMMA KeptStep ==
  ASSUME BeatInv, [Next]_vars, NEW i \in Admins \ Dead, Listed(i), alive', ~stopped'
  PROVE  Listed(i)'
<1>1. CASE UNCHANGED vars
  BY <1>1 DEF vars, Listed
<1>2. CASE Beat
  BY <1>2 DEF Beat, Listed
<1>3. CASE Stop
  BY <1>3 DEF Stop
<1>4. CASE Exit
  BY <1>4 DEF Exit
<1>5. CASE Tick
  <2>1. alive /\ ~stopped /\ age'[i] = age[i] + 1
    BY <1>5 DEF Tick
  <2> QED BY <1>5, <2>1, TickKeeps DEF Listed
<1>6. ASSUME NEW j \in Admins, BeatOk(j) PROVE Listed(i)'
  BY <1>6 DEF BeatOk, Listed, BeatInv, TypeOK
<1>7. ASSUME NEW j \in Admins, BeatLost(j) PROVE Listed(i)'
  BY <1>7 DEF BeatLost, Listed
<1>8. ASSUME NEW j \in Admins, RemoveOk(j) PROVE Listed(i)'
  BY <1>8 DEF RemoveOk, BeatInv, RemovesAfterStop
<1>9. ASSUME NEW j \in Admins, RemoveLost(j) PROVE Listed(i)'
  BY <1>9 DEF RemoveLost, Listed
<1> QED BY <1>1, <1>2, <1>3, <1>4, <1>5, <1>6, <1>7, <1>8, <1>9 DEF Next

\* The doc of the loop says the beat keeps the registration from expiring
\* ("20秒心跳防止过期"): a live admin goes on listing the executor until Stop or the
\* end of the process, if it loses no more than MaxLost posts in a row, and however many
\* of them are under way to it.
THEOREM HeartbeatKeepsRegistration == Spec => NeverExpires
<1> DEFINE Kept == \A i \in Admins \ Dead : Listed(i) /\ alive' /\ ~stopped' => Listed(i)'
<1>1. BeatInv /\ [Next]_vars => [Kept]_vars
  BY KeptStep
<1>2. Spec => [][Kept]_vars
  BY <1>1, Invariance, PTL DEF Spec
<1> QED BY <1>2 DEF NeverExpires

=============================================================================

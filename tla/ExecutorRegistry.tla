-------------------------- MODULE ExecutorRegistry --------------------------
(***************************************************************************)
(* Heartbeat registration of the XXL-JOB executor: the loop of              *)
(* Executor.registry that Init starts, the goroutine per admin that posts   *)
(* each beat, and Stop, which posts the removal.  Time is counted in ticks; *)
(* a beat is posted every Interval ticks, and a post reaches its admin or   *)
(* fails within Timeout ticks.                                              *)
(***************************************************************************)
EXTENDS Integers, FiniteSets

CONSTANTS
  Admins,     \* adminAddresseList
  Dead,       \* the admins that never answer
  Interval,   \* BeatInterval
  Timeout,    \* httpClient.Timeout
  TTL,        \* how long an admin lists an executor it does not hear from
  MaxLost     \* bound: posts to a live admin lost in a row

ASSUME RegistryAssumption ==
  /\ Dead \subseteq Admins
  /\ Interval \in Nat \ {0}
  /\ Timeout \in Nat \ {0}
  /\ MaxLost \in Nat
  /\ TTL \in Nat
  /\ TTL > (MaxLost + 1) * Interval + Timeout

VARIABLES
  alive,     \* the process runs
  stopped,   \* Stop has been called
  clock,     \* ticks since the timer of registry was set
  beats,     \* per admin: the ages of the registry posts in flight
  removes,   \* per admin: the ages of the registryRemove posts in flight
  age,       \* per admin: ticks since it processed a beat; TTL: not listed
  lost       \* per admin: posts lost in a row

vars == <<alive, stopped, clock, beats, removes, age, lost>>

Listed(i) == age[i] < TTL

\* Init starts the loop, whose timer fires at once.
Init ==
  /\ alive = TRUE
  /\ stopped = FALSE
  /\ clock = Interval
  /\ beats = [i \in Admins |-> {}]
  /\ removes = [i \in Admins |-> {}]
  /\ age = [i \in Admins |-> TTL]
  /\ lost = [i \in Admins |-> 0]

\* Mutant: the timer is not set again.
Beat_NoReset ==
  /\ alive
  /\ clock = Interval
  /\ clock' = Interval + 1
  /\ beats' = [i \in Admins |-> beats[i] \union {0}]
  /\ UNCHANGED <<alive, stopped, removes, age, lost>>

\* Mutant: the timer is set to less than the interval.
Beat_TooSoon ==
  /\ alive
  /\ clock = Interval
  /\ clock' = Interval - 1
  /\ beats' = [i \in Admins |-> beats[i] \union {0}]
  /\ UNCHANGED <<alive, stopped, removes, age, lost>>

\* Mutant: a beat is skipped while a post of an earlier one is under way.
Beat_WaitsForAll ==
  /\ alive
  /\ clock = Interval
  /\ clock' = 0
  /\ beats' = IF \A i \in Admins : beats[i] = {} THEN [i \in Admins |-> {0}] ELSE beats
  /\ UNCHANGED <<alive, stopped, removes, age, lost>>

\* Mutant: every goroutine posts to the same address.
Beat_OneAddress ==
  /\ alive
  /\ clock = Interval
  /\ clock' = 0
  /\ \E i \in Admins : beats' = [beats EXCEPT ![i] = @ \union {0}]
  /\ UNCHANGED <<alive, stopped, removes, age, lost>>

\* The timer fires and is set again; a goroutine per admin posts the beat.  The
\* loop looks at nothing else: Stop does not end it.
Beat ==
  /\ alive
  /\ clock = Interval
  /\ clock' = 0
  /\ beats' = [i \in Admins |-> beats[i] \union {0}]
  /\ UNCHANGED <<alive, stopped, removes, age, lost>>

\* An admin processes a beat, whatever becomes of its answer.
BeatOk(i) ==
  /\ i \notin Dead
  /\ \E a \in beats[i] : beats' = [beats EXCEPT ![i] = @ \ {a}]
  /\ age' = [age EXCEPT ![i] = 0]
  /\ lost' = [lost EXCEPT ![i] = 0]
  /\ UNCHANGED <<alive, stopped, clock, removes>>

\* The post fails before the admin gets it: the goroutine logs it and ends.
BeatLost(i) ==
  /\ i \in Dead \/ ~alive \/ lost[i] < MaxLost
  /\ \E a \in beats[i] : beats' = [beats EXCEPT ![i] = @ \ {a}]
  /\ lost' = IF i \in Dead \/ ~alive THEN lost ELSE [lost EXCEPT ![i] = @ + 1]
  /\ UNCHANGED <<alive, stopped, clock, removes, age>>

\* A signal, or the application, calls Stop: registryRemove posts to every admin.
Stop ==
  /\ alive
  /\ ~stopped
  /\ stopped' = TRUE
  /\ removes' = [i \in Admins |-> {0}]
  /\ UNCHANGED <<alive, clock, beats, age, lost>>

RemoveOk(i) ==
  /\ i \notin Dead
  /\ removes[i] # {}
  /\ removes' = [removes EXCEPT ![i] = {}]
  /\ age' = [age EXCEPT ![i] = TTL]
  /\ UNCHANGED <<alive, stopped, clock, beats, lost>>

RemoveLost(i) ==
  /\ removes[i] # {}
  /\ removes' = [removes EXCEPT ![i] = {}]
  /\ UNCHANGED <<alive, stopped, clock, beats, age, lost>>

\* The process ends, by itself or not.  Stop waits for none of its posts; those
\* under way may still arrive.
Exit ==
  /\ alive
  /\ alive' = FALSE
  /\ UNCHANGED <<stopped, clock, beats, removes, age, lost>>

Older(ages) == {a + 1 : a \in ages}
\* A tick, unless a timer is due; an admin drops an executor it has not heard from.
Tick ==
  /\ alive => clock # Interval
  /\ \A i \in Admins : Timeout \notin beats[i] \union removes[i]
  /\ clock' = IF alive /\ clock < Interval THEN clock + 1 ELSE clock
  /\ beats' = [i \in Admins |-> Older(beats[i])]
  /\ removes' = [i \in Admins |-> Older(removes[i])]
  /\ age' = [i \in Admins |-> IF Listed(i) THEN age[i] + 1 ELSE TTL]
  /\ UNCHANGED <<alive, stopped, lost>>

Next ==
  \/ Beat \/ Stop \/ Exit \/ Tick
  \/ \E i \in Admins : BeatOk(i) \/ BeatLost(i) \/ RemoveOk(i) \/ RemoveLost(i)

Spec == Init /\ [][Next]_vars
\* Time passes, and what is due happens.
FairSpec ==
  Spec /\ WF_vars(Tick) /\ WF_vars(Beat)
       /\ \A i \in Admins : /\ WF_vars(BeatOk(i) \/ BeatLost(i))
                            /\ WF_vars(RemoveOk(i) \/ RemoveLost(i))

-----------------------------------------------------------------------------
(* Properties.                                                              *)

\* Every variable keeps its type.
TypeOK ==
  /\ alive \in BOOLEAN /\ stopped \in BOOLEAN
  /\ clock \in 0..Interval
  /\ beats \in [Admins -> SUBSET (0..Timeout)]
  /\ removes \in [Admins -> SUBSET (0..Timeout)]
  /\ age \in [Admins -> 0..TTL]
  /\ lost \in [Admins -> 0..MaxLost]

\* The beat keeps the registration from expiring ("20秒心跳防止过期"): a live admin
\* that lists the executor goes on listing it until Stop or the end of the process,
\* whatever happens to the posts to other admins.
NeverExpires ==
  [][\A i \in Admins \ Dead : Listed(i) /\ alive' /\ ~stopped' => Listed(i)']_vars

\* The goroutines of the beats do not pile up: an admin that does not answer holds
\* as many of them as beats fit into the time a post may take, and one.
PostsBounded ==
  \A i \in Admins : Cardinality(beats[i]) <= Timeout \div Interval + 1

\* A live admin comes to list the executor even if other admins never answer.
GetsListed ==
  \A i \in Admins \ Dead : alive ~> Listed(i) \/ stopped \/ ~alive

\* After Stop no live admin lists the executor for good (it does not hold: the loop
\* goes on posting beats as long as the process lives).
StopIsFinal == \A i \in Admins \ Dead : stopped ~> []~Listed(i)
=============================================================================

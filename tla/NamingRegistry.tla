--------------------------- MODULE NamingRegistry ---------------------------
(***************************************************************************)
(* The Nacos naming registry: one instance of a service, which registers    *)
(* and removes itself, and a subscriber in another process, whose load      *)
(* balancer lives on the RegistryChangeEvents of its callback.  The naming  *)
(* server and the SDK are external.                                         *)
(***************************************************************************)
EXTENDS Naturals

CONSTANT MaxErrors   \* bound: callbacks that come with an error

ASSUME NamingAssumption == MaxErrors \in Nat

VARIABLES
  listed,     \* the naming server lists the instance
  subscribed, \* the subscriber's Subscribe has succeeded
  known,      \* the subscriber's SDK has the instance in its list
  told,       \* the callback was called for what the SDK has
  routed,     \* the last RegistryChangeEvent had the instance
  failed,     \* Degister has failed
  errors      \* callbacks with an error so far

namingVars == <<listed, subscribed, known, told, routed, failed, errors>>

NamingTypeOK ==
  /\ listed \in BOOLEAN /\ subscribed \in BOOLEAN /\ known \in BOOLEAN
  /\ told \in BOOLEAN /\ routed \in BOOLEAN /\ failed \in BOOLEAN
  /\ errors \in 0..MaxErrors

NamingInit ==
  /\ listed = FALSE /\ subscribed = FALSE /\ known = FALSE
  /\ told = TRUE /\ routed = FALSE /\ failed = FALSE
  /\ errors = 0

\* RegisterInstance; its error is a panic, which the process that calls it has.
RegisterInstance ==
  /\ listed' = TRUE
  /\ UNCHANGED <<subscribed, known, told, routed, failed, errors>>

\* Shutdown calls Degister and drops its error: the instance may stay listed.
Degister ==
  /\ \/ listed' = FALSE /\ UNCHANGED failed
     \/ failed' = TRUE /\ UNCHANGED listed
  /\ UNCHANGED <<subscribed, known, told, routed, errors>>

\* The naming server drops the instance of a process that is gone: it is ephemeral.
Expire ==
  /\ listed
  /\ listed' = FALSE
  /\ UNCHANGED <<subscribed, known, told, routed, failed, errors>>

\* Subscribe, when it succeeds: the SDK fetches the list.
Subscribe ==
  /\ ~subscribed
  /\ subscribed' = TRUE
  /\ known' = listed
  /\ told' = FALSE
  /\ UNCHANGED <<listed, routed, failed, errors>>

\* The server pushes a change to the SDK.
Push ==
  /\ subscribed
  /\ known # listed
  /\ known' = listed
  /\ told' = FALSE
  /\ UNCHANGED <<listed, subscribed, routed, failed, errors>>

\* Mutant: an empty list is taken for a failure and is not announced.
Callback_SkipsEmpty ==
  /\ ~told
  /\ told' = TRUE
  /\ routed' = (routed \/ known)
  /\ UNCHANGED <<listed, subscribed, known, failed, errors>>

\* The SDK calls SubscribeCallback with its list, or with an error and no list; the
\* callback does not look at the error and emits what it was given.
Callback ==
  /\ ~told
  /\ told' = TRUE
  /\ \/ routed' = known /\ UNCHANGED errors
     \/ errors < MaxErrors /\ routed' = FALSE /\ errors' = errors + 1
  /\ UNCHANGED <<listed, subscribed, known, failed>>

NamingNext == Subscribe \/ Push \/ Callback
=============================================================================

----------------------------- MODULE NacosConfig -----------------------------
(***************************************************************************)
(* The configuration centre of nacos/config: CreateInstance with Read and   *)
(* Watch, the OnChange function it gives to the SDK, the getters, Set and   *)
(* SetBaseConfig, and Shutdown, all on the package variable config.         *)
(*                                                                          *)
(* The server publishes versions 1, 2, ... of the file.  The SDK is         *)
(* modelled as the code uses it: it calls OnChange, in a goroutine of its   *)
(* own, with the server's version when that is not the last it knew.        *)
(*                                                                          *)
(* A viper instance is named by who makes it: First by CreateInstance, v by *)
(* the call of OnChange for version v.                                      *)
(***************************************************************************)
EXTENDS Integers

CONSTANTS
  LastVersion,  \* bound: the versions the server publishes
  Bad,          \* the versions ReadConfig cannot parse
  Empty,        \* the versions that have no text
  Setters,      \* the calls of Set and SetBaseConfig, each for a key of its own
  Base,         \* those of SetBaseConfig
  Readers       \* the goroutines that call getters

ASSUME NacosAssumption ==
  /\ LastVersion \in Nat \ {0}
  /\ Bad \subseteq 1..LastVersion /\ Empty \subseteq 1..LastVersion
  /\ Bad \intersect Empty = {}
  /\ Base \subseteq Setters

Versions == 1..LastVersion
First == 0
Instances == Versions \union {First}
Nil == -1
Nothing == 0   \* what an instance holds before ReadConfig

VARIABLES
  alive,      \* FALSE once a panic or the runtime has stopped the process
  latest,     \* the version the server has
  config,     \* the package variable: an instance or Nil
  content,    \* per instance: the version it was read from, or Nothing
  sets,       \* per instance: the calls of Set and SetBaseConfig it has the values of
  pc,         \* where CreateInstance is
  got,        \* Read's local content
  listening,  \* whether the SDK listens for changes
  known,      \* the version the SDK has last told of or read
  opc,        \* per version: where its call of OnChange is
  announced,  \* the version in the last ConfigChangeEvent
  spc, sptr,  \* per setter: where it is, and the instance it has found in config
  rpc, rptr,  \* per reader: the same
  since,      \* per reader: announced when its getter was called (a history)
  overlapped  \* whether calls of OnChange have overlapped (a history)

serverVars == <<latest, listening, known, overlapped>>
createVars == <<pc, got>>
setVars == <<spc, sptr>>
readVars == <<rpc, rptr, since>>
vars == <<alive, serverVars, config, content, sets, createVars, opc, announced,
          setVars, readVars>>

Init ==
  /\ alive = TRUE
  /\ latest = 1
  /\ config = Nil
  /\ content = [i \in Instances |-> Nothing]
  /\ sets = [i \in Instances |-> {}]
  /\ pc = "new"
  /\ got = Nothing
  /\ listening = FALSE
  /\ known = Nothing
  /\ opc = [v \in Versions |-> "none"]
  /\ announced = Nothing
  /\ spc = [s \in Setters |-> "new"]
  /\ sptr = [s \in Setters |-> Nil]
  /\ rpc = [r \in Readers |-> "idle"]
  /\ rptr = [r \in Readers |-> Nil]
  /\ since = [r \in Readers |-> Nothing]
  /\ overlapped = FALSE

-----------------------------------------------------------------------------
(* CreateInstance.                                                          *)

\* logger.Panic: the caller recovers, or the process ends.
Fail ==
  /\ pc' = "failed"
  /\ alive' \in BOOLEAN

\* configure, and the first instance, which is global before it is read.
Create ==
  /\ alive
  /\ pc = "new"
  /\ \/ pc' = "created" /\ config' = First /\ alive' = alive
     \/ Fail /\ config' = config
  /\ UNCHANGED <<serverVars, content, sets, got, opc, announced, setVars, readVars>>

\* Read: GetConfig, whose answer must have a text, ...
ReadFetch ==
  /\ alive
  /\ pc = "created"
  /\ \/ /\ latest \notin Empty
        /\ pc' = "fetched" /\ got' = latest /\ alive' = alive
     \/ Fail /\ got' = got
  /\ UNCHANGED <<serverVars, config, content, sets, opc, announced, setVars, readVars>>

\* ... and config.ReadConfig.
ReadParse ==
  /\ alive
  /\ pc = "fetched"
  /\ \/ /\ got \notin Bad
        /\ content' = [content EXCEPT ![config] = got]
        /\ pc' = "read" /\ alive' = alive
     \/ got \in Bad /\ Fail /\ content' = content
  /\ UNCHANGED <<serverVars, config, sets, got, opc, announced, setVars, readVars>>

EmitFirst ==
  /\ alive
  /\ pc = "read"
  /\ announced' = content[config]
  /\ pc' = "emitted"
  /\ UNCHANGED <<alive, serverVars, config, content, sets, got, opc, setVars, readVars>>

\* ListenConfig.  The SDK compares with what GetConfig has left in its cache, if
\* anything.  After an error CreateInstance returns the instance as well.
Listen(next) ==
  \/ /\ listening' = TRUE /\ known' \in {got, Nothing} /\ pc' = next
  \/ /\ UNCHANGED <<listening, known>> /\ pc' = "unwatched"

\* Mutant: Watch before Read has parsed what it fetched.
Watch_Early ==
  /\ alive
  /\ \/ pc = "fetched" /\ ~listening /\ Listen("fetched")
     \/ pc = "emitted" /\ pc' = "watching" /\ UNCHANGED <<listening, known>>
  /\ UNCHANGED <<alive, latest, overlapped, config, content, sets, got, opc, announced,
                 setVars, readVars>>

Watch ==
  /\ alive
  /\ pc = "emitted"
  /\ Listen("watching")
  /\ UNCHANGED <<alive, latest, overlapped, config, content, sets, got, opc, announced,
                 setVars, readVars>>

\* CreateInstance has returned an IConfig.
Created == pc \in {"watching", "unwatched"}

\* CancelListenConfig; calls of OnChange that have begun go on.
Shutdown ==
  /\ alive
  /\ Created
  /\ listening
  /\ listening' = FALSE
  /\ UNCHANGED <<alive, latest, known, overlapped, config, content, sets, createVars, opc,
                 announced, setVars, readVars>>

-----------------------------------------------------------------------------
(* The server, and OnChange.                                                *)

Publish ==
  /\ latest < LastVersion
  /\ latest' = latest + 1
  /\ UNCHANGED <<alive, listening, known, overlapped, config, content, sets, createVars, opc,
                 announced, setVars, readVars>>

\* A call of OnChange that has begun and not returned.
Busy(v) == opc[v] \in {"called", "parsed", "stored"}

Notify ==
  /\ alive
  /\ listening
  /\ known # latest
  /\ known' = latest
  /\ opc' = [opc EXCEPT ![latest] = "called"]
  /\ overlapped' = (overlapped \/ \E v \in Versions : Busy(v))
  /\ UNCHANGED <<alive, latest, listening, config, content, sets, createVars, announced,
                 setVars, readVars>>

\* Mutant: an instance without its SetConfigType, which parses nothing.
Parse_NoType(v) ==
  /\ alive
  /\ opc[v] = "called"
  /\ opc' = [opc EXCEPT ![v] = "returned"]
  /\ UNCHANGED <<alive, serverVars, config, content, sets, createVars, announced, setVars,
                 readVars>>

\* v.ReadConfig, for an empty text too.
Parse(v) ==
  /\ alive
  /\ opc[v] = "called"
  /\ \/ /\ v \notin Bad
        /\ content' = [content EXCEPT ![v] = v]
        /\ opc' = [opc EXCEPT ![v] = "parsed"]
     \/ /\ v \in Bad
        /\ opc' = [opc EXCEPT ![v] = "returned"]
        /\ content' = content
  /\ UNCHANGED <<alive, serverVars, config, sets, createVars, announced, setVars, readVars>>

\* Mutant: config = v before v.ReadConfig.
Store_Unread(v) ==
  /\ alive
  /\ opc[v] \in {"called", "parsed"}
  /\ config' = v
  /\ opc' = [opc EXCEPT ![v] = IF @ = "parsed" THEN "stored" ELSE @]
  /\ UNCHANGED <<alive, serverVars, content, sets, createVars, announced, setVars, readVars>>

\* Mutant: config := v, a local variable.
Store_Local(v) ==
  /\ alive
  /\ opc[v] = "parsed"
  /\ opc' = [opc EXCEPT ![v] = "stored"]
  /\ UNCHANGED <<alive, serverVars, config, content, sets, createVars, announced, setVars,
                 readVars>>

\* config = v
Store(v) ==
  /\ alive
  /\ opc[v] = "parsed"
  /\ config' = v
  /\ opc' = [opc EXCEPT ![v] = "stored"]
  /\ UNCHANGED <<alive, serverVars, content, sets, createVars, announced, setVars, readVars>>

Emit(v) ==
  /\ alive
  /\ opc[v] = "stored"
  /\ announced' = content[v]
  /\ opc' = [opc EXCEPT ![v] = "returned"]
  /\ UNCHANGED <<alive, serverVars, config, content, sets, createVars, setVars, readVars>>

-----------------------------------------------------------------------------
(* Set, SetBaseConfig and the getters: each loads config, then uses the     *)
(* instance it has found.                                                   *)

\* SetBaseConfig parses its reader first, and may fail.
SetLoad(s) ==
  /\ alive
  /\ Created
  /\ spc[s] = "new"
  /\ \/ spc' = [spc EXCEPT ![s] = "loaded"] /\ sptr' = [sptr EXCEPT ![s] = config]
     \/ s \in Base /\ spc' = [spc EXCEPT ![s] = "failed"] /\ sptr' = sptr
  /\ UNCHANGED <<alive, serverVars, config, content, sets, createVars, opc, announced, readVars>>

\* Mutant: ReadConfig in place of MergeConfigMap.
SetWrite_Replaces(s) ==
  /\ alive
  /\ spc[s] = "loaded"
  /\ sets' = [sets EXCEPT ![sptr[s]] = IF s \in Base THEN {s} ELSE @ \union {s}]
  /\ spc' = [spc EXCEPT ![s] = "done"]
  /\ UNCHANGED <<alive, serverVars, config, content, createVars, opc, announced, sptr, readVars>>

SetWrite(s) ==
  /\ alive
  /\ spc[s] = "loaded"
  /\ sets' = [sets EXCEPT ![sptr[s]] = @ \union {s}]
  /\ spc' = [spc EXCEPT ![s] = "done"]
  /\ UNCHANGED <<alive, serverVars, config, content, createVars, opc, announced, sptr, readVars>>

GetLoad(r) ==
  /\ alive
  /\ Created
  /\ rpc[r] = "idle"
  /\ rpc' = [rpc EXCEPT ![r] = "loaded"]
  /\ rptr' = [rptr EXCEPT ![r] = config]
  /\ since' = [since EXCEPT ![r] = announced]
  /\ UNCHANGED <<alive, serverVars, config, content, sets, createVars, opc, announced, setVars>>

GetRead(r) ==
  /\ alive
  /\ rpc[r] = "loaded"
  /\ rpc' = [rpc EXCEPT ![r] = "idle"]
  /\ rptr' = [rptr EXCEPT ![r] = Nil]
  /\ since' = [since EXCEPT ![r] = Nothing]
  /\ UNCHANGED <<alive, serverVars, config, content, sets, createVars, opc, announced, setVars>>

\* A viper instance has maps without a lock: a write that meets a read or another write
\* may make the runtime stop the process.
MapRace ==
  /\ alive
  /\ \E s \in Setters :
       /\ spc[s] = "loaded"
       /\ \/ \E r \in Readers : rpc[r] = "loaded" /\ rptr[r] = sptr[s]
          \/ \E t \in Setters \ {s} : spc[t] = "loaded" /\ sptr[t] = sptr[s]
  /\ alive' = FALSE
  /\ UNCHANGED <<serverVars, config, content, sets, createVars, opc, announced, setVars, readVars>>

Next ==
  \/ Create \/ ReadFetch \/ ReadParse \/ EmitFirst \/ Watch \/ Shutdown
  \/ Publish \/ Notify
  \/ \E v \in Versions : Parse(v) \/ Store(v) \/ Emit(v)
  \/ \E s \in Setters : SetLoad(s) \/ SetWrite(s)
  \/ \E r \in Readers : GetLoad(r) \/ GetRead(r)
  \/ MapRace

Spec == Init /\ [][Next]_vars

\* The SDK goes on listening, and a call of OnChange goes on.
Fairness ==
  /\ WF_vars(Notify)
  /\ \A v \in Versions : WF_vars(Parse(v) \/ Store(v) \/ Emit(v))

FairSpec == Spec /\ Fairness

-----------------------------------------------------------------------------
(* Properties.                                                              *)

\* Every variable keeps its type.
TypeOK ==
  /\ alive \in BOOLEAN /\ listening \in BOOLEAN /\ overlapped \in BOOLEAN
  /\ latest \in Versions
  /\ config \in Instances \union {Nil}
  /\ content \in [Instances -> Versions \union {Nothing}]
  /\ \A v \in Versions : content[v] \in {v, Nothing}
  /\ sets \in [Instances -> SUBSET Setters]
  /\ pc \in {"new", "created", "fetched", "read", "emitted", "watching", "unwatched", "failed"}
  /\ got \in Versions \union {Nothing}
  /\ known \in Versions \union {Nothing}
  /\ opc \in [Versions -> {"none", "called", "parsed", "stored", "returned"}]
  /\ announced \in Versions \union {Nothing}
  /\ spc \in [Setters -> {"new", "loaded", "done", "failed"}]
  /\ sptr \in [Setters -> Instances \union {Nil}]
  /\ rpc \in [Readers -> {"idle", "loaded"}]
  /\ rptr \in [Readers -> Instances \union {Nil}]
  /\ since \in [Readers -> Versions \union {Nothing}]

\* The version in use.
Current == IF config = Nil THEN Nothing ELSE content[config]

\* Once CreateInstance has returned, no getter works on an instance that is still to be
\* read: OnChange makes its instance global only when it is complete.
ReadsComplete == \A r \in Readers : rpc[r] = "loaded" => content[rptr[r]] # Nothing

\* Who reads after a ConfigChangeEvent finds the version of the event or a later one, and
\* not one from before, unless calls of OnChange have overlapped.
ReadsAreFresh ==
  overlapped \/ \A r \in Readers : rpc[r] = "loaded" => content[rptr[r]] >= since[r]

\* What a call of Set or SetBaseConfig wrote stays until another instance takes the place
\* of its own: neither undoes the other.
SetsStay == \A s \in Setters : spc[s] = "done" /\ config = sptr[s] => s \in sets[config]

\* The version in use never goes back, unless calls of OnChange overlap: what Read has
\* fetched does not undo a change that came later.
NeverGoesBack == [][Current' >= Current \/ overlapped]_vars

\* A version that can be parsed comes into use while the SDK listens, even when it was
\* published between Read and Watch, unless a later one takes its place.
LatestIsUsed ==
  \A v \in Versions \ Bad :
    latest = v /\ listening ~> \/ Current = v \/ latest > v
                               \/ ~listening \/ ~alive \/ overlapped

=============================================================================

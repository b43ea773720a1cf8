----------------------------- MODULE HttpServer -----------------------------
(***************************************************************************)
(* The life of a server process: it registers itself, runs one of the two   *)
(* servers, handles requests, and on a signal shuts down and calls the      *)
(* functions Run was given, one of which removes the registration.  Fiber   *)
(* calls them one after the other when the requests are done or time is up; *)
(* Hertz calls them together, from a hook that runs beside the shutdown.    *)
(***************************************************************************)
EXTENDS ServerChain, NamingRegistry

CONSTANTS
  NFuncs,   \* the functions Run is given
  Off       \* the one that is Registry.Shutdown

ASSUME FuncsAssumption == NFuncs \in Nat /\ Off \in 1..NFuncs

Funcs == 1..NFuncs

VARIABLES
  pc,        \* of the goroutine that calls Run
  listener,  \* of the goroutine that listens
  quit,      \* a signal waits in its channel
  forced,    \* the shutdown ran out of time
  hook,      \* of the goroutine of Hertz' OnShutdown hook
  phase,     \* of a function
  calls      \* of a function: how often it was called

runVars == <<pc, listener, quit, forced, hook, phase, calls>>
vars == <<chainVars, namingVars, runVars>>

Hertz == ~Fiber
Ended == pc \in {"over", "dead"}

Init ==
  /\ ChainInit
  /\ NamingInit
  /\ pc = "new"
  /\ listener = "none"
  /\ quit = FALSE
  /\ forced = FALSE
  /\ hook = "none"
  /\ phase = [f \in Funcs |-> "todo"]
  /\ calls = [f \in Funcs |-> 0]

Called(F) ==
  /\ phase' = [f \in Funcs |-> IF f \in F THEN "running" ELSE phase[f]]
  /\ calls' = [f \in Funcs |-> IF f \in F THEN calls[f] + 1 ELSE calls[f]]

NoneInHand == \A r \in Requests : ~InHand(r)
AllDone == \A f \in Funcs : phase[f] = "done"

-----------------------------------------------------------------------------
(* The application: RegisterInstance, which panics when it fails, then Run. *)

Register ==
  /\ pc = "new"
  /\ pc' = "run"
  /\ RegisterInstance
  /\ UNCHANGED <<chainVars, listener, quit, forced, hook, phase, calls>>

RegisterPanics ==
  /\ pc = "new"
  /\ pc' = "dead"
  /\ UNCHANGED <<chainVars, namingVars, listener, quit, forced, hook, phase, calls>>

\* Fiber's Run starts a goroutine that listens and waits for a signal; ...
FiberRun ==
  /\ Fiber /\ pc = "run"
  /\ pc' = "wait"
  /\ listener' = "starting"
  /\ UNCHANGED <<chainVars, namingVars, quit, forced, hook, phase, calls>>

\* ... Hertz' adds its hook and its waiter, and lets Spin do both.
HertzRun ==
  /\ Hertz /\ pc = "run"
  /\ pc' = "wait"
  /\ listener' = "starting"
  /\ hook' = "added"
  /\ UNCHANGED <<chainVars, namingVars, quit, forced, phase, calls>>

Listen ==
  /\ listener = "starting"
  /\ listener' = "open"
  /\ UNCHANGED <<chainVars, namingVars, pc, quit, forced, hook, phase, calls>>

\* Mutant: an error of Listen is only logged.
ListenFails_Logs ==
  /\ listener \in {"starting", "open"}
  /\ listener' = "failed"
  /\ UNCHANGED <<chainVars, namingVars, pc, quit, forced, hook, phase, calls>>

\* Listen ends with an error: a panic with Fiber, a value in errCh with Hertz.
ListenFails ==
  /\ listener \in {"starting", "open"}
  /\ listener' = "failed"
  /\ pc' = IF Fiber THEN "dead" ELSE pc
  /\ UNCHANGED <<chainVars, namingVars, quit, forced, hook, phase, calls>>

\* A signal that Run has asked for; more of them change nothing.
Signal ==
  /\ pc = "wait" /\ ~quit
  /\ quit' = TRUE
  /\ UNCHANGED <<chainVars, namingVars, pc, listener, forced, hook, phase, calls>>

\* The process is killed: by SIGKILL, or by a signal Run has not asked for, such as
\* SIGHUP with Fiber.
Kill ==
  /\ ~Ended
  /\ pc' = "dead"
  /\ UNCHANGED <<chainVars, namingVars, listener, quit, forced, hook, phase, calls>>

-----------------------------------------------------------------------------
(* Fiber's Run after the signal.                                            *)

\* ShutdownWithTimeout closes the listener, if there is one by now ...
FiberStop ==
  /\ Fiber /\ pc = "wait" /\ quit
  /\ pc' = "stop"
  /\ listener' = IF listener = "open" THEN "closed" ELSE listener
  /\ UNCHANGED <<chainVars, namingVars, quit, forced, hook, phase, calls>>

\* Mutant: the functions are called while the requests are still being handled.
FiberDrained_AtOnce ==
  /\ Fiber /\ pc = "stop"
  /\ pc' = "grace"
  /\ UNCHANGED <<chainVars, namingVars, listener, quit, forced, hook, phase, calls>>

\* ... and waits for the requests, until its limit at most.
FiberDrained ==
  /\ Fiber /\ pc = "stop" /\ NoneInHand
  /\ pc' = "grace"
  /\ UNCHANGED <<chainVars, namingVars, listener, quit, forced, hook, phase, calls>>

FiberLimit ==
  /\ Fiber /\ pc = "stop"
  /\ pc' = "grace"
  /\ forced' = TRUE
  /\ UNCHANGED <<chainVars, namingVars, listener, quit, hook, phase, calls>>

\* grace calls the next function when the one before has returned.
FiberCall(f) ==
  /\ Fiber /\ pc = "grace"
  /\ phase[f] = "todo"
  /\ \A g \in 1..(f - 1) : phase[g] = "done"
  /\ Called({f})
  /\ UNCHANGED <<chainVars, namingVars, pc, listener, quit, forced, hook>>

\* Mutant: a forced shutdown is logged only, and grace is called again after the branch.
FiberEnd_Twice ==
  /\ Fiber /\ pc = "grace" /\ AllDone
  /\ IF forced /\ \A f \in Funcs : calls[f] = 1
     THEN phase' = [f \in Funcs |-> "todo"] /\ UNCHANGED pc
     ELSE pc' = "over" /\ UNCHANGED phase
  /\ UNCHANGED <<chainVars, namingVars, listener, quit, forced, hook, calls>>

\* Run returns, or panics when it was forced: either way after grace.  The process is taken
\* to end with Run.
FiberEnd ==
  /\ Fiber /\ pc = "grace" /\ AllDone
  /\ pc' = "over"
  /\ UNCHANGED <<chainVars, namingVars, listener, quit, forced, hook, phase, calls>>

-----------------------------------------------------------------------------
(* Hertz' Spin, with the waiter and the hook that Run has given it.         *)

\* waitSignal takes the signal: Spin calls Shutdown, which does nothing unless the engine
\* runs, and closes the listener and starts the hook if it does.
HertzStop ==
  /\ Hertz /\ pc = "wait" /\ quit
  /\ IF listener = "open"
     THEN pc' = "stop" /\ listener' = "closed" /\ hook' = "shutdown"
     ELSE pc' = "over" /\ UNCHANGED <<listener, hook>>
  /\ UNCHANGED <<chainVars, namingVars, quit, forced, phase, calls>>

\* waitSignal takes the error of Listen: Spin closes the engine and returns.
HertzExit ==
  /\ Hertz /\ pc = "wait" /\ listener = "failed"
  /\ pc' = "over"
  /\ UNCHANGED <<chainVars, namingVars, listener, quit, forced, hook, phase, calls>>

\* The hook: grace calls Shutdown, which finds that the engine no longer runs, and then
\* every function in a goroutine of its own.
HookGrace ==
  /\ hook = "shutdown" /\ ~Ended
  /\ hook' = "waiting"
  /\ Called(Funcs)
  /\ UNCHANGED <<chainVars, namingVars, pc, listener, quit, forced>>

\* Mutant: grace does not wait for the functions.
HookDone_NoWait ==
  /\ hook = "waiting" /\ ~Ended
  /\ hook' = "done"
  /\ UNCHANGED <<chainVars, namingVars, pc, listener, quit, forced, phase, calls>>

\* wg.Wait has returned.
HookDone ==
  /\ hook = "waiting" /\ AllDone /\ ~Ended
  /\ hook' = "done"
  /\ UNCHANGED <<chainVars, namingVars, pc, listener, quit, forced, phase, calls>>

\* Spin gives the shutdown, hook and requests, so much time.
HertzEnd ==
  /\ Hertz /\ pc = "stop" /\ hook = "done" /\ NoneInHand
  /\ pc' = "over"
  /\ UNCHANGED <<chainVars, namingVars, listener, quit, forced, hook, phase, calls>>

HertzLimit ==
  /\ Hertz /\ pc = "stop"
  /\ pc' = "over"
  /\ forced' = TRUE
  /\ UNCHANGED <<chainVars, namingVars, listener, quit, hook, phase, calls>>

-----------------------------------------------------------------------------
(* A given function returns, having removed the registration if that is what it does, or *)
(* panics, which ends the process.                                          *)

Return(f) ==
  /\ ~Ended
  /\ phase[f] = "running"
  /\ phase' = [phase EXCEPT ![f] = "done"]
  /\ IF f = Off THEN Degister ELSE UNCHANGED namingVars
  /\ UNCHANGED <<chainVars, pc, listener, quit, forced, hook, calls>>

FuncPanics(f) ==
  /\ ~Ended
  /\ phase[f] = "running"
  /\ pc' = "dead"
  /\ UNCHANGED <<chainVars, namingVars, listener, quit, forced, hook, phase, calls>>

-----------------------------------------------------------------------------
RunNext ==
  \/ Register \/ RegisterPanics \/ FiberRun \/ HertzRun \/ Signal \/ Kill
  \/ ~Ended /\ (Listen \/ ListenFails)
  \/ FiberStop \/ FiberDrained \/ FiberLimit \/ FiberEnd
  \/ HertzStop \/ HertzExit \/ HookGrace \/ HookDone \/ HertzEnd \/ HertzLimit
  \/ \E f \in Funcs : FiberCall(f) \/ Return(f) \/ FuncPanics(f)

Serve ==
  /\ ~Ended
  /\ \/ listener = "open" /\ \E r \in Requests, c \in Contexts : Accept(r, c)
     \/ ChainNext
  /\ UNCHANGED <<namingVars, runVars>>

Naming ==
  /\ NamingNext \/ (Ended /\ Expire)
  /\ UNCHANGED <<chainVars, runVars>>

Next == RunNext \/ Serve \/ Naming
Spec == Init /\ [][Next]_vars

\* What Run and the frameworks do, and the limits of time; nothing is asked of the
\* application's handlers and functions, which may never return.
FairSpec ==
  /\ Spec
  /\ WF_vars(FiberStop) /\ WF_vars(FiberDrained \/ FiberLimit) /\ WF_vars(FiberEnd)
  /\ \A f \in Funcs : WF_vars(FiberCall(f))
  /\ WF_vars(HertzStop \/ HertzExit) /\ WF_vars(HertzEnd \/ HertzLimit)
  /\ WF_vars(Push /\ UNCHANGED <<chainVars, runVars>>)
  /\ WF_vars(Callback /\ UNCHANGED <<chainVars, runVars>>)
  /\ WF_vars(Ended /\ Expire /\ UNCHANGED <<chainVars, runVars>>)

-----------------------------------------------------------------------------
(* Properties.                                                              *)

\* Every variable keeps its type.
TypeOK ==
  /\ ChainTypeOK /\ NamingTypeOK
  /\ pc \in {"new", "run", "wait", "stop", "grace", "over", "dead"}
  /\ listener \in {"none", "starting", "open", "closed", "failed"}
  /\ quit \in BOOLEAN /\ forced \in BOOLEAN
  /\ hook \in {"none", "added", "shutdown", "waiting", "done"}
  /\ phase \in [Funcs -> {"todo", "running", "done"}]
  /\ calls \in [Funcs -> Nat]

\* Every function Run was given is called once at most, also when the shutdown is forced
\* and when Shutdown is called again from within the hook; Fiber's in their order, each
\* when those before have returned.
FuncsRunOnce ==
  \A f \in Funcs :
    /\ calls[f] <= 1
    /\ Fiber /\ calls[f] = 1 => \A g \in 1..(f - 1) : phase[g] = "done"

\* With Fiber no request finds what the functions have closed: they run when none is in
\* hand, unless the time was up or the signal came before the server listened.
FuncsAfterRequests ==
  Fiber /\ ~Ended /\ (\E f \in Funcs : phase[f] # "todo") =>
    NoneInHand \/ forced \/ listener = "open"

\* When Run is over every function has returned, so the process is no longer listed unless
\* Degister has failed: a forced shutdown does not cut Fiber's functions off.  With Hertz
\* the limit does, and nothing was called if the engine did not run.
RunLeavesClean ==
  pc = "over" => \/ AllDone /\ (listed => failed)
                 \/ Hertz /\ (forced \/ hook = "added")

\* A signal, or the failure of Listen, ends the process, whatever handlers and functions
\* do; except that Fiber waits for a function that does not return.
RunEnds ==
  (pc = "wait" /\ (quit \/ listener = "failed")) ~>
    (Ended \/ \E f \in Funcs : [](Fiber /\ phase[f] = "running"))

\* A process that has ended, in whatever way, leaves the load balancers of its clients:
\* the callback announces a list that has become empty too.
LeavesBalancer == Ended ~> []~routed
=============================================================================

---------------------------- MODULE TaskExecutor ----------------------------
(***************************************************************************)
(* The XXL-JOB executor of job/gxxljob: the HTTP handlers runTask, killTask *)
(* and idleBeat, the goroutine runTask starts for every accepted trigger    *)
(* (Task.Run, then Executor.callback), and the two taskLists they share.    *)
(*                                                                          *)
(* A trigger stands for one RunRequest and is named by its LogID.  A task   *)
(* object stands for one *Task, made by RegTask; runTask fetches it from    *)
(* regList and writes the trigger's Ctx, Cancel, Id and Param INTO it, so   *)
(* every trigger of a handler works on the same object.  A context and its  *)
(* CancelFunc are named by the trigger whose runTask made them.             *)
(***************************************************************************)
EXTENDS Integers, FiniteSets

CONSTANTS
  Triggers,    \* the RunRequests the admin sends, each once
  Jobs,        \* RunRequest.JobID
  Handlers,    \* RunRequest.ExecutorHandler, the keys of regList
  TaskObjs,    \* the *Task objects RegTask can make: bounds the registrations
  Kills,       \* the KillRequests the admin sends, each once
  JobOf,       \* [Triggers -> Jobs]
  HandlerOf,   \* [Triggers -> Handlers]
  Covers,      \* the triggers whose ExecutorBlockStrategy is COVER_EARLY
  Timed,       \* the triggers whose ExecutorTimeout is greater than zero
  KillJob,     \* [Kills -> Jobs]
  BeatJobs,    \* the jobs the admin probes with idleBeat
  NAdmins,     \* len(adminAddresseList)
  Faulty,      \* the admins (positions in the list) whose calls may fail
  Outcomes,    \* how a TaskFunc may end, a subset of Endings
  None,        \* nil, the empty slot, the unlocked mutex
  Beat         \* the idleBeat handler, as holder of e.mu

Endings == {"ok", "error", "panic"}
Admins == 1..NAdmins

ASSUME TriggersAssumption ==
  /\ JobOf \in [Triggers -> Jobs]
  /\ HandlerOf \in [Triggers -> Handlers]
  /\ Covers \subseteq Triggers
  /\ Timed \subseteq Triggers
ASSUME KillsAssumption == KillJob \in [Kills -> Jobs]
ASSUME AdminsAssumption ==
  /\ NAdmins \in Nat
  /\ Faulty \subseteq Admins
  /\ Outcomes \subseteq Endings
ASSUME BeatAssumption == BeatJobs \subseteq Jobs
ASSUME NoneAssumption ==
  /\ None \notin Triggers \union Jobs \union Handlers \union TaskObjs
  /\ Beat \notin Triggers \union {None}

VARIABLES
  alive,     \* FALSE once the Go runtime has stopped the process
  mu,        \* who holds Executor.mu
  regList,   \* Executor.regList: handler -> task object or None
  runList,   \* Executor.runList: job -> task object or None
  fnOf,      \* Task.fn, named by the handler it was registered for; None: not made yet
  idOf,      \* Task.Id
  ctxOf,     \* Task.Ctx and Task.Cancel
  paramOf,   \* Task.Param
  pc,        \* where the runTask handler of a trigger is
  task,      \* its local variable task
  kpc,       \* where the killTask handler of a kill is
  ktask,     \* its local variable task
  gpc,       \* where the goroutine of a trigger is, in Task.Run and callback
  gcancel,   \* the t.Cancel its deferred function has captured
  gctx,      \* the Ctx it calls t.fn with
  gparam,    \* the Param it calls t.fn with
  outcome,   \* how t.fn ended
  cbJob,     \* callback's local taskId
  cbLog,     \* the LogID in callback's req
  next,      \* position in adminAddresseList of callback's loop
  cancels,   \* history: who has cancelled which context
  reports,   \* history: the JobHandleResults the admins have received
  beat       \* the last idleBeat: its job and the answer

taskVars == <<fnOf, idOf, ctxOf, paramOf>>
runVars  == <<pc, task>>
killVars == <<kpc, ktask>>
goVars   == <<gpc, gcancel, gctx, gparam, outcome, cbJob, cbLog, next>>
vars == <<alive, mu, regList, runList, taskVars, runVars, killVars, goVars,
          cancels, reports, beat>>

Cancellers == Triggers \union Kills \union {"timeout", "deferred"}
Cancelled(c) == \E r \in cancels : r.ctx = c

Init ==
  /\ alive = TRUE
  /\ mu = None
  /\ regList = [h \in Handlers |-> None]
  /\ runList = [j \in Jobs |-> None]
  /\ fnOf = [o \in TaskObjs |-> None]
  /\ idOf = [o \in TaskObjs |-> None]
  /\ ctxOf = [o \in TaskObjs |-> None]
  /\ paramOf = [o \in TaskObjs |-> None]
  /\ pc = [l \in Triggers |-> "idle"]
  /\ task = [l \in Triggers |-> None]
  /\ kpc = [k \in Kills |-> "idle"]
  /\ ktask = [k \in Kills |-> None]
  /\ gpc = [l \in Triggers |-> "none"]
  /\ gcancel = [l \in Triggers |-> None]
  /\ gctx = [l \in Triggers |-> None]
  /\ gparam = [l \in Triggers |-> None]
  /\ outcome = [l \in Triggers |-> "none"]
  /\ cbJob = [l \in Triggers |-> None]
  /\ cbLog = [l \in Triggers |-> None]
  /\ next = [l \in Triggers |-> 0]
  /\ cancels = {}
  /\ reports = {}
  /\ beat = [job |-> None, reply |-> "none"]

-----------------------------------------------------------------------------
(* Control of the three kinds of process.                                   *)

\* The runTask handler of l moves from one line to another.
RunStep(l, from, to) ==
  /\ alive
  /\ pc[l] = from
  /\ pc' = [pc EXCEPT ![l] = to]
  /\ UNCHANGED <<alive, regList, killVars, goVars, reports, beat>>

\* The killTask handler of k moves from one line to another.
KillStep(k, from, to) ==
  /\ alive
  /\ kpc[k] = from
  /\ kpc' = [kpc EXCEPT ![k] = to]
  /\ UNCHANGED <<alive, mu, regList, taskVars, runVars, goVars, reports, beat>>

\* The goroutine of l moves from one line to another.
GoStep(l, from, to) ==
  /\ alive
  /\ gpc[l] = from
  /\ gpc' = [gpc EXCEPT ![l] = to]
  /\ UNCHANGED <<alive, mu, regList, taskVars, runVars, killVars, beat>>

-----------------------------------------------------------------------------
(* RegTask: a new Task object replaces whatever the handler had.  The       *)
(* application may call it while the executor serves requests.              *)

RegTask(h, o) ==
  /\ alive
  /\ fnOf[o] = None
  /\ fnOf' = [fnOf EXCEPT ![o] = h]
  /\ regList' = [regList EXCEPT ![h] = o]
  /\ UNCHANGED <<alive, mu, runList, idOf, ctxOf, paramOf, runVars, killVars,
                 goVars, cancels, reports, beat>>

-----------------------------------------------------------------------------
(* runTask, one action per access to shared state.                          *)

\* regList.Exists, before the lock: an unknown handler is refused.
RunLookup(l) ==
  /\ RunStep(l, "idle", IF regList[HandlerOf[l]] = None THEN "refused" ELSE "lock")
  /\ UNCHANGED <<mu, runList, taskVars, task, cancels>>

\* Mutant: runTask does not lock.
RunLock_NoMutex(l) ==
  /\ RunStep(l, "lock", "check")
  /\ UNCHANGED <<mu, runList, taskVars, task, cancels>>

\* Mutant: the task gets its Param before the checks.
RunLock_ParamFirst(l) ==
  /\ mu = None
  /\ mu' = l
  /\ RunStep(l, "lock", "check")
  /\ paramOf' = [paramOf EXCEPT ![regList[HandlerOf[l]]] = l]
  /\ UNCHANGED <<runList, fnOf, idOf, ctxOf, task, cancels>>

RunLock(l) ==
  /\ mu = None
  /\ mu' = l
  /\ RunStep(l, "lock", "check")
  /\ UNCHANGED <<runList, taskVars, task, cancels>>

\* Mutant: the slot is not checked.
RunTake_Unchecked(l) ==
  /\ RunStep(l, "check", "setctx")
  /\ UNCHANGED <<mu, runList, taskVars, task, cancels>>

\* Mutant: runList.Set comes before the context is made.
RunTake_ClaimFirst(l) ==
  /\ runList[JobOf[l]] = None
  /\ runList' = [runList EXCEPT ![JobOf[l]] = regList[HandlerOf[l]]]
  /\ RunStep(l, "check", "setctx")
  /\ UNCHANGED <<mu, taskVars, task, cancels>>

\* runList.Exists: a free slot is taken, a full one is left to its owner ...
RunTake(l) ==
  /\ runList[JobOf[l]] = None
  /\ RunStep(l, "check", "setctx")
  /\ UNCHANGED <<mu, runList, taskVars, task, cancels>>

\* ... unless the trigger covers it; every other strategy refuses the trigger.
RunBusy(l) ==
  /\ runList[JobOf[l]] # None
  /\ IF l \in Covers THEN RunStep(l, "check", "cover") /\ mu' = mu
                     ELSE RunStep(l, "check", "refused") /\ mu' = None
  /\ UNCHANGED <<runList, taskVars, task, cancels>>

\* runList.Get again, nil if the callback has freed the slot in between.
RunCover(l) ==
  /\ LET oldTask == runList[JobOf[l]] IN
       IF oldTask = None
         THEN /\ RunStep(l, "cover", "setctx")
              /\ UNCHANGED cancels
         ELSE /\ RunStep(l, "cover", "coverdel")
              /\ cancels' = cancels \union {[by |-> l, ctx |-> ctxOf[oldTask]]}
  /\ UNCHANGED <<mu, runList, taskVars, task>>

RunCoverDel(l) ==
  /\ RunStep(l, "coverdel", "setctx")
  /\ runList' = [runList EXCEPT ![JobOf[l]] = None]
  /\ UNCHANGED <<mu, taskVars, task, cancels>>

\* regList.Get, then task.Ctx and task.Cancel.
RunSetCtx(l) ==
  /\ RunStep(l, "setctx", "setid")
  /\ task' = [task EXCEPT ![l] = regList[HandlerOf[l]]]
  /\ ctxOf' = [ctxOf EXCEPT ![regList[HandlerOf[l]]] = l]
  /\ UNCHANGED <<mu, runList, fnOf, idOf, paramOf, cancels>>

\* Mutant: task.Id is never set.
RunSetId_Missing(l) ==
  /\ RunStep(l, "setid", "setparam")
  /\ UNCHANGED <<mu, runList, taskVars, task, cancels>>

RunSetId(l) ==
  /\ RunStep(l, "setid", "setparam")
  /\ idOf' = [idOf EXCEPT ![task[l]] = JobOf[l]]
  /\ UNCHANGED <<mu, runList, fnOf, ctxOf, paramOf, task, cancels>>

RunSetParam(l) ==
  /\ RunStep(l, "setparam", "set")
  /\ paramOf' = [paramOf EXCEPT ![task[l]] = l]
  /\ UNCHANGED <<mu, runList, fnOf, idOf, ctxOf, task, cancels>>

RunSet(l) ==
  /\ RunStep(l, "set", "go")
  /\ runList' = [runList EXCEPT ![JobOf[l]] = task[l]]
  /\ UNCHANGED <<mu, taskVars, task, cancels>>

\* go task.Run(...), the answer, and the deferred unlock.
RunGo(l) ==
  /\ alive
  /\ pc[l] = "go"
  /\ pc' = [pc EXCEPT ![l] = "accepted"]
  /\ gpc' = [gpc EXCEPT ![l] = "spawned"]
  /\ mu' = None
  /\ UNCHANGED <<alive, regList, runList, taskVars, task, killVars, gcancel, gctx,
                 gparam, outcome, cbJob, cbLog, next, cancels, reports, beat>>

RunTask(l) ==
  \/ RunLookup(l) \/ RunLock(l) \/ RunTake(l) \/ RunBusy(l)
  \/ RunCover(l) \/ RunCoverDel(l)
  \/ RunSetCtx(l) \/ RunSetId(l) \/ RunSetParam(l) \/ RunSet(l) \/ RunGo(l)

-----------------------------------------------------------------------------
(* killTask never takes e.mu: Exists, Get, Cancel and Del are four steps.   *)

KillExists(k) ==
  /\ KillStep(k, "idle", IF runList[KillJob[k]] = None THEN "failed" ELSE "get")
  /\ UNCHANGED <<runList, ktask, cancels>>

KillGet(k) ==
  /\ KillStep(k, "get", "cancel")
  /\ ktask' = [ktask EXCEPT ![k] = runList[KillJob[k]]]
  /\ UNCHANGED <<runList, cancels>>

\* A nil task or a nil CancelFunc panics: net/http drops the request.
KillCancel(k) ==
  /\ IF ktask[k] = None \/ ctxOf[ktask[k]] = None
       THEN /\ KillStep(k, "cancel", "panicked")
            /\ UNCHANGED cancels
       ELSE /\ KillStep(k, "cancel", "del")
            /\ cancels' = cancels \union {[by |-> k, ctx |-> ctxOf[ktask[k]]]}
  /\ UNCHANGED <<runList, ktask>>

KillDel(k) ==
  /\ KillStep(k, "del", "killed")
  /\ runList' = [runList EXCEPT ![KillJob[k]] = None]
  /\ UNCHANGED <<ktask, cancels>>

KillTask(k) == KillExists(k) \/ KillGet(k) \/ KillCancel(k) \/ KillDel(k)

-----------------------------------------------------------------------------
(* idleBeat reads runList under e.mu.                                       *)

\* Mutant: idleBeat does not lock.
BeatLock_NoMutex(j) ==
  /\ alive
  /\ beat.reply # "reading"
  /\ beat' = [job |-> j, reply |-> "reading"]
  /\ UNCHANGED <<alive, mu, regList, runList, taskVars, runVars, killVars, goVars,
                 cancels, reports>>

BeatLock(j) ==
  /\ alive
  /\ mu = None
  /\ mu' = Beat
  /\ beat' = [job |-> j, reply |-> "reading"]
  /\ UNCHANGED <<alive, regList, runList, taskVars, runVars, killVars, goVars,
                 cancels, reports>>

BeatRead ==
  /\ alive
  /\ beat.reply = "reading"
  /\ mu' = None
  /\ beat' = [beat EXCEPT !.reply = IF runList[beat.job] = None THEN "idle" ELSE "busy"]
  /\ UNCHANGED <<alive, regList, runList, taskVars, runVars, killVars, goVars,
                 cancels, reports>>

-----------------------------------------------------------------------------
(* The goroutine: Task.Run.                                                 *)

\* defer func(cancel func()){...}(t.Cancel): the argument is read here.
Begin(l) ==
  /\ GoStep(l, "spawned", "ctx")
  /\ gcancel' = [gcancel EXCEPT ![l] = ctxOf[task[l]]]
  /\ UNCHANGED <<runList, gctx, gparam, outcome, cbJob, cbLog, next, cancels, reports>>

\* t.fn(t.Ctx, t.Param): two reads of the shared object.
ReadCtx(l) ==
  /\ GoStep(l, "ctx", "param")
  /\ gctx' = [gctx EXCEPT ![l] = ctxOf[task[l]]]
  /\ UNCHANGED <<runList, gcancel, gparam, outcome, cbJob, cbLog, next, cancels, reports>>

CallFn(l) ==
  /\ GoStep(l, "param", "running")
  /\ gparam' = [gparam EXCEPT ![l] = paramOf[task[l]]]
  /\ UNCHANGED <<runList, gcancel, gctx, outcome, cbJob, cbLog, next, cancels, reports>>

\* The TaskFunc is the application's: it ends in any way, when it likes.
FnReturn(l, out) ==
  /\ GoStep(l, "running", "cbid")
  /\ outcome' = [outcome EXCEPT ![l] = out]
  /\ UNCHANGED <<runList, gcancel, gctx, gparam, cbJob, cbLog, next, cancels, reports>>

(* Executor.callback, on the same shared object.                            *)

CbId(l) ==
  /\ GoStep(l, "cbid", "cbdel")
  /\ cbJob' = [cbJob EXCEPT ![l] = idOf[task[l]]]
  /\ UNCHANGED <<runList, gcancel, gctx, gparam, outcome, cbLog, next, cancels, reports>>

\* Mutant: the slot is freed after a success only.
CbDel_OnSuccess(l) ==
  /\ GoStep(l, "cbdel", "cbparam")
  /\ runList' = IF outcome[l] = "ok" THEN [runList EXCEPT ![cbJob[l]] = None] ELSE runList
  /\ UNCHANGED <<gcancel, gctx, gparam, outcome, cbJob, cbLog, next, cancels, reports>>

CbDel(l) ==
  /\ GoStep(l, "cbdel", "cbparam")
  /\ runList' = [runList EXCEPT ![cbJob[l]] = None]
  /\ UNCHANGED <<gcancel, gctx, gparam, outcome, cbJob, cbLog, next, cancels, reports>>

CbParam(l) ==
  /\ GoStep(l, "cbparam", "post")
  /\ cbLog' = [cbLog EXCEPT ![l] = paramOf[task[l]]]
  /\ next' = [next EXCEPT ![l] = 1]
  /\ UNCHANGED <<runList, gcancel, gctx, gparam, outcome, cbJob, cancels, reports>>

Report(l) == [admin |-> next[l], run |-> l, log |-> cbLog[l], ok |-> outcome[l] = "ok"]
\* Where callback returns to: the deferred function cancels after a panic.
AfterCallback(l) == IF outcome[l] = "panic" THEN "cancel" ELSE "done"

\* Mutant: the loop runs one past the last admin.
PostOk_PastEnd(l) ==
  /\ next[l] \in 1..(NAdmins + 1)
  /\ GoStep(l, "post", "post")
  /\ reports' = reports \union {Report(l)}
  /\ next' = [next EXCEPT ![l] = @ + 1]
  /\ UNCHANGED <<runList, gcancel, gctx, gparam, outcome, cbJob, cbLog, cancels>>

\* Mutant: callback returns after the first success.
PostOk_FirstOnly(l) ==
  /\ next[l] \in Admins
  /\ GoStep(l, "post", AfterCallback(l))
  /\ reports' = reports \union {Report(l)}
  /\ UNCHANGED <<runList, gcancel, gctx, gparam, outcome, cbJob, cbLog, next, cancels>>

\* post returned no error: the loop goes on.
PostOk(l) ==
  /\ next[l] \in Admins
  /\ GoStep(l, "post", "post")
  /\ reports' = reports \union {Report(l)}
  /\ next' = [next EXCEPT ![l] = @ + 1]
  /\ UNCHANGED <<runList, gcancel, gctx, gparam, outcome, cbJob, cbLog, cancels>>

\* post returned an error, whether or not the admin got the request: callback returns.
PostFail(l) ==
  /\ next[l] \in Faulty
  /\ GoStep(l, "post", AfterCallback(l))
  /\ reports' \in {reports, reports \union {Report(l)}}
  /\ UNCHANGED <<runList, gcancel, gctx, gparam, outcome, cbJob, cbLog, next, cancels>>

PostDone(l) ==
  /\ next[l] > NAdmins
  /\ GoStep(l, "post", AfterCallback(l))
  /\ UNCHANGED <<runList, gcancel, gctx, gparam, outcome, cbJob, cbLog, next, cancels, reports>>

\* cancel(), after a panic only.
DeferredCancel(l) ==
  /\ GoStep(l, "cancel", "done")
  /\ cancels' = cancels \union {[by |-> "deferred", ctx |-> gcancel[l]]}
  /\ UNCHANGED <<runList, gcancel, gctx, gparam, outcome, cbJob, cbLog, next, reports>>

Goroutine(l) ==
  \/ Begin(l) \/ ReadCtx(l) \/ CallFn(l) \/ (\E out \in Outcomes : FnReturn(l, out))
  \/ CbId(l) \/ CbDel(l) \/ CbParam(l)
  \/ PostOk(l) \/ PostFail(l) \/ PostDone(l) \/ DeferredCancel(l)

-----------------------------------------------------------------------------
(* context.WithTimeout's timer, set by runTask when ExecutorTimeout > 0.    *)

Expire(l) ==
  /\ alive
  /\ l \in Timed
  /\ pc[l] \in {"setid", "setparam", "set", "go", "accepted"}
  /\ ~Cancelled(l)
  /\ cancels' = cancels \union {[by |-> "timeout", ctx |-> l]}
  /\ UNCHANGED <<alive, mu, regList, runList, taskVars, runVars, killVars, goVars,
                 reports, beat>>

(* taskList.Get, Exists and Len take no lock.  A read that meets a Set or a *)
(* Del of the same map lets the Go runtime stop the whole process.          *)

RunListRead == \/ \E l \in Triggers : pc[l] \in {"check", "cover"}
               \/ \E k \in Kills : kpc[k] \in {"idle", "get"}
               \/ beat.reply = "reading"
RunListWrite == \/ \E l \in Triggers : pc[l] \in {"set", "coverdel"} \/ gpc[l] = "cbdel"
                \/ \E k \in Kills : kpc[k] = "del"
RegListRead == \E l \in Triggers : pc[l] \in {"idle", "setctx"}
RegListWrite == \E o \in TaskObjs : fnOf[o] = None

MapRace ==
  /\ alive
  /\ (RunListRead /\ RunListWrite) \/ (RegListRead /\ RegListWrite)
  /\ alive' = FALSE
  /\ UNCHANGED <<mu, regList, runList, taskVars, runVars, killVars, goVars,
                 cancels, reports, beat>>

\* Nothing is left to do: every request is answered, every goroutine over.
Over ==
  \/ ~alive
  \/ /\ \A l \in Triggers : pc[l] = "refused" \/ gpc[l] = "done"
     /\ \A k \in Kills : kpc[k] \in {"failed", "panicked", "killed"}
Terminated == Over /\ UNCHANGED vars

Next ==
  \/ \E h \in Handlers, o \in TaskObjs : RegTask(h, o)
  \/ \E l \in Triggers : RunTask(l)
  \/ \E k \in Kills : KillTask(k)
  \/ \E j \in BeatJobs : BeatLock(j)
  \/ BeatRead
  \/ \E l \in Triggers : Goroutine(l)
  \/ \E l \in Triggers : Expire(l)
  \/ MapRace
  \/ Terminated

Spec == Init /\ [][Next]_vars

\* A handler that has begun and a goroutine that runs go on; sync.Mutex hands
\* itself to a waiter (starvation mode); a TaskFunc returns; httpClient has a timeout.
Fairness ==
  /\ \A l \in Triggers : /\ WF_vars(pc[l] # "idle" /\ RunTask(l))
                         /\ SF_vars(RunLock(l))
                         /\ WF_vars(Goroutine(l))
  /\ \A k \in Kills : WF_vars(kpc[k] # "idle" /\ KillTask(k))
  /\ WF_vars(BeatRead)

FairSpec == Spec /\ Fairness

-----------------------------------------------------------------------------
(* Properties.                                                              *)

\* The task of l is registered as running: from runList.Set to callback's Del.
Holding(l) ==
  pc[l] = "go" \/ gpc[l] \in {"spawned", "ctx", "param", "running", "cbid", "cbdel"}
\* runTask has let the trigger through its checks and set the task up.
Taken(l) == pc[l] \in {"set", "go", "accepted"}

\* Every variable keeps its type.
TypeOK ==
  /\ alive \in BOOLEAN
  /\ mu \in Triggers \union {None, Beat}
  /\ regList \in [Handlers -> TaskObjs \union {None}]
  /\ runList \in [Jobs -> TaskObjs \union {None}]
  /\ fnOf \in [TaskObjs -> Handlers \union {None}]
  /\ idOf \in [TaskObjs -> Jobs \union {None}]
  /\ ctxOf \in [TaskObjs -> Triggers \union {None}]
  /\ paramOf \in [TaskObjs -> Triggers \union {None}]
  /\ pc \in [Triggers -> {"idle", "lock", "check", "cover", "coverdel", "setctx", "setid",
                          "setparam", "set", "go", "accepted", "refused"}]
  /\ task \in [Triggers -> TaskObjs \union {None}]
  /\ kpc \in [Kills -> {"idle", "get", "cancel", "del", "killed", "failed", "panicked"}]
  /\ ktask \in [Kills -> TaskObjs \union {None}]
  /\ gpc \in [Triggers -> {"none", "spawned", "ctx", "param", "running", "cbid", "cbdel",
                           "cbparam", "post", "cancel", "done"}]
  /\ gcancel \in [Triggers -> Triggers \union {None}]
  /\ gctx \in [Triggers -> Triggers \union {None}]
  /\ gparam \in [Triggers -> Triggers \union {None}]
  /\ outcome \in [Triggers -> Endings \union {"none"}]
  /\ cbJob \in [Triggers -> Jobs \union {None}]
  /\ cbLog \in [Triggers -> Triggers \union {None}]
  /\ next \in [Triggers -> 0..(NAdmins + 1)]
  /\ cancels \subseteq [by : Cancellers, ctx : Triggers]
  /\ reports \subseteq [admin : Admins, run : Triggers, log : Triggers, ok : BOOLEAN]
  /\ beat \in [job : Jobs \union {None}, reply : {"none", "reading", "idle", "busy"}]

\* Whatever is shared, killed, covered or registered again, a task that killTask
\* or another trigger can find in runList has its CancelFunc: runTask puts it
\* there only after it has made the context.
ListedHasCancel ==
  /\ \A j \in Jobs : runList[j] # None => ctxOf[runList[j]] # None
  /\ \A k \in Kills : ktask[k] # None => ctxOf[ktask[k]] # None

\* A report may name the wrong trigger of the handler (see ReportsOwnLog), but
\* never one that runTask refused, has not let through, or another handler's:
\* only runTask's last lines write a Param, into an object of one handler.
ReportsTakenTrigger ==
  \A r \in reports : Taken(r.log) /\ HandlerOf[r.log] = HandlerOf[r.run]

\* No step replaces a listed task by another: a slot is given to a new run only
\* after somebody has emptied it, even with kills and covers under way.
SlotNeverOverwritten ==
  [][\A j \in Jobs : runList[j] # None => runList'[j] \in {runList[j], None}]_vars

\* SERIAL_EXECUTION: one job never has two TaskFuncs running at once.
SerialExecution ==
  \A l, m \in Triggers :
    gpc[l] = "running" /\ gpc[m] = "running" /\ JobOf[l] = JobOf[m] => l = m

\* A TaskFunc runs with the parameters and the context of the trigger it was
\* started for, although it reads both late and from a shared object.
ExecutesOwnRequest ==
  \A l \in Triggers : gpc[l] = "running" => gparam[l] = l /\ gctx[l] = l

\* runList lists nothing but jobs whose run is not over, ...
ListedIsRunning ==
  \A j \in Jobs : runList[j] # None => \E l \in Triggers : JobOf[l] = j /\ Holding(l)
\* ... and every run that is not over, under its own job.
RunningIsListed ==
  \A l \in Triggers : Holding(l) => runList[JobOf[l]] = task[l]
\* Both: runList is exactly the set of current runs.
SlotsMatchRuns == ListedIsRunning /\ RunningIsListed

\* Every report carries the LogID of the run it reports.
ReportsOwnLog == \A r \in reports : r.log = r.run

\* idleBeat says "idle" only when no run of the job is under way or being set up
\* at the read.
IdleIsIdle ==
  [][\A j \in Jobs : beat.reply = "reading" /\ beat'.reply = "idle" /\ beat.job = j =>
       ~ \E l \in Triggers : /\ JobOf[l] = j
                             /\ Holding(l) \/ pc[l] \in {"setctx", "setid", "setparam", "set"}
    ]_vars

Told(i, l) == \E r \in reports : r.admin = i /\ r.run = l
\* A run that was accepted is reported to every admin listed before the first
\* faulty one, unless the runtime stops the process.
AcceptedIsReported ==
  \A l \in Triggers, i \in Admins :
    (\A f \in Faulty : i < f) => (pc[l] = "accepted" ~> Told(i, l) \/ ~alive)
\* The callback reaches every admin that is not faulty (the code returns at the
\* first error, so it does not).
HealthyAdminsTold ==
  \A l \in Triggers, i \in Admins \ Faulty : pc[l] = "accepted" ~> Told(i, l) \/ ~alive
\* A job's slot does not stay taken for ever.
SlotIsFreed ==
  \A l \in Triggers : pc[l] = "accepted" ~> runList[JobOf[l]] = None \/ ~alive

\* The abstract state a state of the executor stands for.
phaseBar == [l \in Triggers |->
  CASE pc[l] = "refused" -> "refused"
    [] Holding(l) -> "running"
    [] gpc[l] \in {"cbparam", "post", "cancel", "done"} -> "finished"
    [] OTHER -> "pending"]
registeredBar == {h \in Handlers : regList[h] # None}
Slots == INSTANCE SerialSlots WITH phase <- phaseBar, registered <- registeredBar
\* Without shared handlers, kills and covers the executor implements SerialSlots.
ImplementsSlots == Slots!Spec

=============================================================================

------------------------ MODULE TaskExecutorJobProofs ------------------------
(***************************************************************************)
(* Theorems about TaskExecutor with kills, covers and repeated triggers:    *)
(* what is reported, whose context is cancelled and which slots are freed   *)
(* depends on who shares a task object, and on when it is set up again.     *)
(***************************************************************************)
EXTENDS TaskExecutorProofs

(* Part 1. The posts of callback.                                           *)

\* callback goes through the admins in order and stops at the first that fails.
PostedAreTold == \A l \in Triggers, i \in Admins :
  gpc[l] = "post" /\ i < next[l] => Told(i, l)
\* A run that is over was reported to every admin listed before the first faulty one.
EndedIsReported == \A l \in Triggers, i \in Admins :
  gpc[l] \in {"cancel", "done"} /\ (\A f \in Faulty : i < f) => Told(i, l)

PostInv == PostedAreTold /\ EndedIsReported

\* Whoever does not post leaves the posts alone.
LEMMA OthersPostNothing ==
  ASSUME TypeOK, [Next]_vars,
         ~ \E l \in Triggers : CbParam(l) \/ PostOk(l) \/ PostFail(l) \/ PostDone(l) \/ DeferredCancel(l)
  PROVE  /\ reports' = reports /\ next' = next
         /\ \A l \in Triggers : gpc'[l] \in {"post", "cancel", "done"} => gpc'[l] = gpc[l]
<1> USE DEF taskVars, runVars, killVars, goVars, TypeOK
<1>1. CASE UNCHANGED vars
  BY <1>1 DEF vars
<1>2. ASSUME NEW l \in Triggers, RunTask(l)
      PROVE  /\ reports' = reports /\ next' = next
             /\ \A m \in Triggers : gpc'[m] \in {"post", "cancel", "done"} => gpc'[m] = gpc[m]
  BY <1>2 DEF RunTask, RunLookup, RunLock, RunTake, RunBusy, RunCover, RunCoverDel, RunSetCtx,
     RunSetId, RunSetParam, RunSet, RunGo, RunStep
<1>3. ASSUME NEW l \in Triggers, \/ Begin(l) \/ ReadCtx(l) \/ CallFn(l) \/ CbId(l) \/ CbDel(l)
                                 \/ \E out \in Outcomes : FnReturn(l, out)
      PROVE  /\ reports' = reports /\ next' = next
             /\ \A m \in Triggers : gpc'[m] \in {"post", "cancel", "done"} => gpc'[m] = gpc[m]
  BY <1>3 DEF Begin, ReadCtx, CallFn, CbId, CbDel, FnReturn, GoStep
<1>4. ASSUME \/ \E h \in Handlers, o \in TaskObjs : RegTask(h, o)
             \/ \E k \in Kills : KillTask(k)
             \/ \E j \in BeatJobs : BeatLock(j)
             \/ BeatRead \/ MapRace \/ Terminated
             \/ \E l \in Triggers : Expire(l)
      PROVE  UNCHANGED <<reports, next, gpc>>
  BY <1>4 DEF RegTask, KillTask, KillExists, KillGet, KillCancel, KillDel, KillStep, BeatLock,
     BeatRead, MapRace, Terminated, Expire, vars
<1> QED BY <1>1, <1>2, <1>3, <1>4 DEF Next, Goroutine

LEMMA PostStep == TypeInv /\ PostInv /\ [Next]_vars => PostInv'
<1> SUFFICES ASSUME TypeInv, TypeOK, PostInv, [Next]_vars PROVE PostInv'
  BY DEF TypeInv
<1> USE AdminsAssumption
<1> DEFINE Stay == \A i \in Admins, m \in Triggers : Told(i, m) => Told(i, m)'
<1>1. CASE ~ \E l \in Triggers :
             CbParam(l) \/ PostOk(l) \/ PostFail(l) \/ PostDone(l) \/ DeferredCancel(l)
  BY <1>1, OthersPostNothing DEF PostInv, PostedAreTold, EndedIsReported, Told
<1>2. ASSUME NEW l \in Triggers, CbParam(l) PROVE PostInv'
  <2>1. /\ reports' = reports /\ gpc' = [gpc EXCEPT ![l] = "post"] /\ next' = [next EXCEPT ![l] = 1]
        /\ \A i \in Admins : ~(i < 1)
    BY <1>2 DEF CbParam, GoStep, Admins
  <2> QED BY <2>1 DEF PostInv, PostedAreTold, EndedIsReported, Told, TypeOK
<1>3. ASSUME NEW l \in Triggers, PostOk(l) PROVE PostInv'
  <2>1. /\ gpc[l] = "post" /\ gpc' = gpc /\ next' = [next EXCEPT ![l] = @ + 1]
        /\ reports' = reports \union {Report(l)} /\ next[l] \in Admins
    BY <1>3 DEF PostOk, GoStep, TypeOK
  <2>a. Report(l) \in reports' /\ Report(l).admin = next[l] /\ Report(l).run = l
    BY <2>1 DEF Report
  <2>2. Stay /\ \A i \in Admins : i = next[l] => Told(i, l)'
    BY <2>1, <2>a DEF Told
  <2>3. \A i \in Admins : i < next[l] + 1 => i < next[l] \/ i = next[l]
    BY <2>1, AdminsAssumption DEF Admins
  <2>4. next' = [next EXCEPT ![l] = next[l] + 1] /\ next'[l] = next[l] + 1
    BY <2>1 DEF TypeOK
  <2> QED BY <2>1, <2>2, <2>3, <2>4 DEF PostInv, PostedAreTold, EndedIsReported, TypeOK
<1>4. ASSUME NEW l \in Triggers, PostFail(l) PROVE PostInv'
  <2>1. /\ gpc[l] = "post" /\ gpc' = [gpc EXCEPT ![l] = AfterCallback(l)] /\ next' = next
        /\ reports \subseteq reports' /\ next[l] \in Faulty /\ AfterCallback(l) # "post"
    BY <1>4 DEF PostFail, GoStep, AfterCallback
  <2>2. Stay
    BY <2>1 DEF Told
  <2>3. \A i \in Admins : (\A f \in Faulty : i < f) => Told(i, l)'
    BY <2>1, <2>2 DEF PostInv, PostedAreTold
  <2> QED BY <2>1, <2>2, <2>3 DEF PostInv, PostedAreTold, EndedIsReported, TypeOK
<1>5. ASSUME NEW l \in Triggers, PostDone(l) PROVE PostInv'
  <2>1. /\ gpc[l] = "post" /\ gpc' = [gpc EXCEPT ![l] = AfterCallback(l)] /\ next' = next
        /\ reports' = reports /\ AfterCallback(l) # "post" /\ \A i \in Admins : i < next[l]
    BY <1>5 DEF PostDone, GoStep, AfterCallback, Admins, TypeOK
  <2> QED BY <2>1 DEF PostInv, PostedAreTold, EndedIsReported, TypeOK, Told
<1>6. ASSUME NEW l \in Triggers, DeferredCancel(l) PROVE PostInv'
  <2>1. /\ gpc[l] = "cancel" /\ gpc' = [gpc EXCEPT ![l] = "done"] /\ next' = next
        /\ reports' = reports
    BY <1>6 DEF DeferredCancel, GoStep
  <2> QED BY <2>1 DEF PostInv, PostedAreTold, EndedIsReported, TypeOK, Told
<1> QED BY <1>1, <1>2, <1>3, <1>4, <1>5, <1>6

LEMMA TypeInvariance == Spec => []TypeInv
  BY TypeInit, TypeStep, PTL DEF Spec

\* A run that is over, however it ended and whoever killed or covered it, has been
\* reported to every admin listed before the first one whose post may fail.
THEOREM EndedRunsAreReported == Spec => []EndedIsReported
<1>1. Init => PostInv
  BY DEF Init, PostInv, PostedAreTold, EndedIsReported
<1>2. PostInv => EndedIsReported
  BY DEF PostInv
<1> QED BY <1>1, <1>2, TypeInvariance, PostStep, PTL DEF Spec

-----------------------------------------------------------------------------
(* Part 2. A context and a parameter stay with a handler.                   *)

CtxOfHandler == \A o \in TaskObjs : ctxOf[o] # None => HandlerOf[ctxOf[o]] = fnOf[o]
\* What a TaskFunc is called with is of its handler, perhaps of another trigger.
CallOfHandler == \A l \in Triggers :
  /\ gpc[l] \in {"param", "running"} => gctx[l] # None /\ HandlerOf[gctx[l]] = HandlerOf[l]
  /\ gpc[l] = "running" => gparam[l] # None /\ HandlerOf[gparam[l]] = HandlerOf[l]

CallInv == CtxOfHandler /\ CallOfHandler

LEMMA CallStep == TypeInv /\ HandlerInv /\ CallInv /\ [Next]_vars => CallInv'
<1> SUFFICES ASSUME TypeInv, HandlerInv, CallInv, [Next]_vars PROVE CallInv'
  OBVIOUS
<1> USE TriggersAssumption, KillsAssumption, NoneAssumption, BeatAssumption
<1> USE DEF taskVars, runVars, killVars, goVars
<1> USE DEF CallInv, CtxOfHandler, CallOfHandler, HandlerInv, RegOfHandler, TaskOfHandler,
    ParamOfHandler, TypeInv, TypeOK, TaskReady, ParamReady, HandlerKnown, GoReady, Taken
<1>1. CASE UNCHANGED vars
  BY <1>1 DEF vars, CallInv, CtxOfHandler, CallOfHandler
<1>2. ASSUME NEW h \in Handlers, NEW o \in TaskObjs, RegTask(h, o) PROVE CallInv'
  BY <1>2 DEF RegTask
<1>3. ASSUME NEW l \in Triggers, RunLookup(l) PROVE CallInv'
  BY <1>3 DEF RunLookup, RunStep
<1>4. ASSUME NEW l \in Triggers, RunLock(l) PROVE CallInv'
  BY <1>4 DEF RunLock, RunStep
<1>5. ASSUME NEW l \in Triggers, RunTake(l) PROVE CallInv'
  BY <1>5 DEF RunTake, RunStep
<1>6. ASSUME NEW l \in Triggers, RunBusy(l) PROVE CallInv'
  BY <1>6 DEF RunBusy, RunStep
<1>7. ASSUME NEW l \in Triggers, RunCover(l) PROVE CallInv'
  BY <1>7 DEF RunCover, RunStep
<1>8. ASSUME NEW l \in Triggers, RunCoverDel(l) PROVE CallInv'
  BY <1>8 DEF RunCoverDel, RunStep
<1>9. ASSUME NEW l \in Triggers, RunSetCtx(l) PROVE CallInv'
  BY <1>9 DEF RunSetCtx, RunStep
<1>10. ASSUME NEW l \in Triggers, RunSetId(l) PROVE CallInv'
  BY <1>10 DEF RunSetId, RunStep
<1>11. ASSUME NEW l \in Triggers, RunSetParam(l) PROVE CallInv'
  BY <1>11 DEF RunSetParam, RunStep
<1>12. ASSUME NEW l \in Triggers, RunSet(l) PROVE CallInv'
  BY <1>12 DEF RunSet, RunStep
<1>13. ASSUME NEW l \in Triggers, RunGo(l) PROVE CallInv'
  BY <1>13 DEF RunGo
<1>14. ASSUME NEW k \in Kills, KillExists(k) PROVE CallInv'
  BY <1>14 DEF KillExists, KillStep
<1>15. ASSUME NEW k \in Kills, KillGet(k) PROVE CallInv'
  BY <1>15 DEF KillGet, KillStep
<1>16. ASSUME NEW k \in Kills, KillCancel(k) PROVE CallInv'
  BY <1>16 DEF KillCancel, KillStep
<1>17. ASSUME NEW k \in Kills, KillDel(k) PROVE CallInv'
  BY <1>17 DEF KillDel, KillStep
<1>18. ASSUME NEW j \in BeatJobs, BeatLock(j) PROVE CallInv'
  BY <1>18 DEF BeatLock
<1>19. ASSUME BeatRead PROVE CallInv'
  BY <1>19 DEF BeatRead
<1>20. ASSUME NEW l \in Triggers, Begin(l) PROVE CallInv'
  BY <1>20 DEF Begin, GoStep
<1>21. ASSUME NEW l \in Triggers, ReadCtx(l) PROVE CallInv'
  BY <1>21 DEF ReadCtx, GoStep
<1>22. ASSUME NEW l \in Triggers, CallFn(l) PROVE CallInv'
  BY <1>22 DEF CallFn, GoStep
<1>23. ASSUME NEW l \in Triggers, NEW out \in Outcomes, FnReturn(l, out) PROVE CallInv'
  BY <1>23 DEF FnReturn, GoStep
<1>24. ASSUME NEW l \in Triggers, CbId(l) PROVE CallInv'
  BY <1>24 DEF CbId, GoStep
<1>25. ASSUME NEW l \in Triggers, CbDel(l) PROVE CallInv'
  BY <1>25 DEF CbDel, GoStep
<1>26. ASSUME NEW l \in Triggers, CbParam(l) PROVE CallInv'
  BY <1>26 DEF CbParam, GoStep
<1>27. ASSUME NEW l \in Triggers, PostOk(l) PROVE CallInv'
  BY <1>27 DEF PostOk, GoStep
<1>28. ASSUME NEW l \in Triggers, PostFail(l) PROVE CallInv'
  BY <1>28 DEF PostFail, GoStep, AfterCallback
<1>29. ASSUME NEW l \in Triggers, PostDone(l) PROVE CallInv'
  BY <1>29 DEF PostDone, GoStep, AfterCallback
<1>30. ASSUME NEW l \in Triggers, DeferredCancel(l) PROVE CallInv'
  BY <1>30 DEF DeferredCancel, GoStep
<1>31. ASSUME NEW l \in Triggers, Expire(l) PROVE CallInv'
  BY <1>31 DEF Expire
<1>32. ASSUME MapRace PROVE CallInv'
  BY <1>32 DEF MapRace
<1> QED
  BY <1>1, <1>2, <1>3, <1>4, <1>5, <1>6, <1>7, <1>8, <1>9, <1>10, <1>11, <1>12, <1>13,
      <1>14, <1>15, <1>16, <1>17, <1>18, <1>19, <1>20, <1>21, <1>22, <1>23, <1>24, <1>25,
      <1>26, <1>27, <1>28, <1>29, <1>30, <1>31, <1>32 DEF Next, RunTask, KillTask,
      Goroutine, Terminated

LEMMA CallInvariance == Spec => [](TypeInv /\ HandlerInv /\ CallInv)
<1>1. Spec => []HandlerInv
  BY TypeInvariance, HandlerInit, HandlerStep, PTL DEF Spec
<1>2. Init => CallInv
  BY NoneAssumption DEF Init, CallInv, CtxOfHandler, CallOfHandler
<1> QED BY <1>1, <1>2, TypeInvariance, CallStep, PTL DEF Spec

\* What a TaskFunc is called with is always of its handler, with kills, covers, shared
\* handlers and new registrations: RegTask gives the handler another object, and no object
\* another handler.
THEOREM CallsStayInTheHandler == Spec => []CallOfHandler
<1>1. CallInv => CallOfHandler
  BY DEF CallInv
<1> QED BY <1>1, CallInvariance, PTL

-----------------------------------------------------------------------------
(* Part 3. Repeated triggers of a handler: in which order their data are    *)
(* read.                                                                    *)

\* runTask has begun to set the object up for the trigger.
Begun(l) == pc[l] \in {"setid", "setparam", "set", "go", "accepted"}
\* callback has freed a slot.
Freed(l) == gpc[l] \in {"cbparam", "post", "cancel", "done"}
\* A goroutine has read nothing before its lines that read.
Blank == \A l \in Triggers :
  /\ gpc[l] \in {"none", "spawned", "ctx"} => gctx[l] = None
  /\ gpc[l] \in {"none", "spawned", "ctx", "param"} => gparam[l] = None
  /\ gpc[l] \notin {"post", "cancel", "done"} =>
       cbLog[l] = None /\ \A r \in reports : r.run # l

\* Who writes and who reads the fields of a task object.
Writers ==
  /\ ctxOf' = ctxOf \/ \E x \in Triggers : RunSetCtx(x)
  /\ paramOf' = paramOf \/ \E x \in Triggers : RunSetParam(x)
  /\ \A r \in reports' \ reports : r.run \in Triggers /\ gpc[r.run] = "post" /\ r.log = cbLog[r.run]
Readers(l) ==
  /\ gctx'[l] = gctx[l] \/ ReadCtx(l)
  /\ gparam'[l] = gparam[l] \/ CallFn(l)
  /\ cbLog'[l] = cbLog[l] \/ CbParam(l)
\* A trigger and its goroutine go from line to line, and task is set once.
Onward(l) ==
  /\ Begun(l) => Begun(l)' /\ task'[l] = task[l]
  /\ Taken(l) => Taken(l)'
  /\ Begun(l)' => Begun(l) \/ RunSetCtx(l)
  /\ Taken(l)' => Taken(l) \/ RunSetParam(l)
  /\ gpc'[l] = gpc[l] \/ RunGo(l) \/ Begin(l) \/ ReadCtx(l) \/ CallFn(l) \/ CbId(l) \/ CbDel(l)
     \/ CbParam(l) \/ (\E out \in Outcomes : FnReturn(l, out))
     \/ (gpc[l] \in {"post", "cancel"} /\ gpc'[l] \in {"post", "cancel", "done"})
  /\ pc'[l] = "set" => pc[l] = "set" \/ RunSetParam(l)
  /\ pc'[l] = "go" => pc[l] \in {"set", "go"}

LEMMA Lines ==
  ASSUME TypeInv, [Next]_vars
  PROVE  Writers /\ \A l \in Triggers : Readers(l) /\ Onward(l)
<1> USE DEF Writers, Readers, Onward, Begun, Taken, TypeInv, TypeOK, GoReady,
    taskVars, runVars, killVars, goVars
<1> DEFINE Goal == Writers /\ \A l \in Triggers : Readers(l) /\ Onward(l)
<1>1. CASE UNCHANGED vars
  BY <1>1 DEF vars
<1>2. ASSUME NEW h \in Handlers, NEW o \in TaskObjs, RegTask(h, o) PROVE Goal
  BY <1>2 DEF RegTask
<1>3. ASSUME NEW x \in Triggers, RunLookup(x) PROVE Goal
  BY <1>3 DEF RunLookup, RunStep
<1>4. ASSUME NEW x \in Triggers, RunLock(x) PROVE Goal
  BY <1>4 DEF RunLock, RunStep
<1>5. ASSUME NEW x \in Triggers, RunTake(x) PROVE Goal
  BY <1>5 DEF RunTake, RunStep
<1>6. ASSUME NEW x \in Triggers, RunBusy(x) PROVE Goal
  BY <1>6 DEF RunBusy, RunStep
<1>7. ASSUME NEW x \in Triggers, RunCover(x) PROVE Goal
  BY <1>7 DEF RunCover, RunStep
<1>8. ASSUME NEW x \in Triggers, RunCoverDel(x) PROVE Goal
  BY <1>8 DEF RunCoverDel, RunStep
<1>9. ASSUME NEW x \in Triggers, RunSetCtx(x) PROVE Goal
  <2>1. /\ pc[x] = "setctx" /\ pc' = [pc EXCEPT ![x] = "setid"] /\ paramOf' = paramOf
        /\ task' = [task EXCEPT ![x] = task'[x]] /\ UNCHANGED <<goVars, reports>>
    BY <1>9 DEF RunSetCtx, RunStep
  <2> QED BY <1>9, <2>1
<1>10. ASSUME NEW x \in Triggers, RunSetId(x) PROVE Goal
  BY <1>10 DEF RunSetId, RunStep
<1>11. ASSUME NEW x \in Triggers, RunSetParam(x) PROVE Goal
  <2>1. /\ pc[x] = "setparam" /\ pc' = [pc EXCEPT ![x] = "set"]
        /\ UNCHANGED <<task, ctxOf, goVars, reports>>
    BY <1>11 DEF RunSetParam, RunStep
  <2> QED BY <1>11, <2>1
<1>12. ASSUME NEW x \in Triggers, RunSet(x) PROVE Goal
  BY <1>12 DEF RunSet, RunStep
<1>13. ASSUME NEW x \in Triggers, RunGo(x) PROVE Goal
  <2>1. /\ pc[x] = "go" /\ pc' = [pc EXCEPT ![x] = "accepted"]
        /\ gpc' = [gpc EXCEPT ![x] = "spawned"]
        /\ UNCHANGED <<task, taskVars, gctx, gparam, cbLog, reports>>
    BY <1>13 DEF RunGo
  <2> QED BY <1>13, <2>1
<1>14. ASSUME NEW k \in Kills, KillExists(k) PROVE Goal
  BY <1>14 DEF KillExists, KillStep
<1>15. ASSUME NEW k \in Kills, KillGet(k) PROVE Goal
  BY <1>15 DEF KillGet, KillStep
<1>16. ASSUME NEW k \in Kills, KillCancel(k) PROVE Goal
  BY <1>16 DEF KillCancel, KillStep
<1>17. ASSUME NEW k \in Kills, KillDel(k) PROVE Goal
  BY <1>17 DEF KillDel, KillStep
<1>18. ASSUME NEW j \in BeatJobs, BeatLock(j) PROVE Goal
  BY <1>18 DEF BeatLock
<1>19. ASSUME BeatRead PROVE Goal
  BY <1>19 DEF BeatRead
<1>20. ASSUME NEW x \in Triggers, NEW out \in Outcomes, FnReturn(x, out) PROVE Goal
  <2>1. /\ gpc' = [gpc EXCEPT ![x] = gpc'[x]]
        /\ UNCHANGED <<runVars, taskVars, gctx, gparam, cbLog, reports>>
    BY <1>20 DEF FnReturn, GoStep
  <2> QED BY <1>20, <2>1
<1>21. ASSUME NEW x \in Triggers, Begin(x) PROVE Goal
  <2>1. /\ gpc' = [gpc EXCEPT ![x] = gpc'[x]]
        /\ UNCHANGED <<runVars, taskVars, gctx, gparam, cbLog, reports>>
    BY <1>21 DEF Begin, GoStep
  <2> QED BY <1>21, <2>1
<1>22. ASSUME NEW x \in Triggers, ReadCtx(x) PROVE Goal
  <2>1. /\ gpc' = [gpc EXCEPT ![x] = gpc'[x]]
        /\ UNCHANGED <<runVars, taskVars, gparam, cbLog, reports>>
        /\ gctx' = [gctx EXCEPT ![x] = gctx'[x]]
    BY <1>22 DEF ReadCtx, GoStep
  <2> QED BY <1>22, <2>1
<1>23. ASSUME NEW x \in Triggers, CallFn(x) PROVE Goal
  <2>1. /\ gpc' = [gpc EXCEPT ![x] = gpc'[x]]
        /\ UNCHANGED <<runVars, taskVars, gctx, cbLog, reports>>
        /\ gparam' = [gparam EXCEPT ![x] = gparam'[x]]
    BY <1>23 DEF CallFn, GoStep
  <2> QED BY <1>23, <2>1
<1>24. ASSUME NEW x \in Triggers, CbId(x) PROVE Goal
  <2>1. /\ gpc' = [gpc EXCEPT ![x] = gpc'[x]]
        /\ UNCHANGED <<runVars, taskVars, gctx, gparam, cbLog, reports>>
    BY <1>24 DEF CbId, GoStep
  <2> QED BY <1>24, <2>1
<1>25. ASSUME NEW x \in Triggers, CbDel(x) PROVE Goal
  <2>1. /\ gpc' = [gpc EXCEPT ![x] = gpc'[x]]
        /\ UNCHANGED <<runVars, taskVars, gctx, gparam, cbLog, reports>>
    BY <1>25 DEF CbDel, GoStep
  <2> QED BY <1>25, <2>1
<1>26. ASSUME NEW x \in Triggers, CbParam(x) PROVE Goal
  <2>1. /\ gpc' = [gpc EXCEPT ![x] = gpc'[x]]
        /\ UNCHANGED <<runVars, taskVars, gctx, gparam, reports>>
        /\ cbLog' = [cbLog EXCEPT ![x] = cbLog'[x]]
    BY <1>26 DEF CbParam, GoStep
  <2> QED BY <1>26, <2>1
<1>27. ASSUME NEW x \in Triggers, PostOk(x) PROVE Goal
  BY <1>27 DEF PostOk, GoStep, Report
<1>28. ASSUME NEW x \in Triggers, PostFail(x) PROVE Goal
  BY <1>28 DEF PostFail, GoStep, Report, AfterCallback
<1>29. ASSUME NEW x \in Triggers, PostDone(x) PROVE Goal
  BY <1>29 DEF PostDone, GoStep, AfterCallback
<1>30. ASSUME NEW x \in Triggers, DeferredCancel(x) PROVE Goal
  BY <1>30 DEF DeferredCancel, GoStep
<1>31. ASSUME NEW x \in Triggers, Expire(x) PROVE Goal
  BY <1>31 DEF Expire
<1>32. ASSUME MapRace PROVE Goal
  BY <1>32 DEF MapRace
<1> QED
  BY <1>1, <1>2, <1>3, <1>4, <1>5, <1>6, <1>7, <1>8, <1>9, <1>10, <1>11, <1>12, <1>13,
      <1>14, <1>15, <1>16, <1>17, <1>18, <1>19, <1>20, <1>21, <1>22, <1>23, <1>24, <1>25,
      <1>26, <1>27, <1>28, <1>29, <1>30, <1>31, <1>32 DEF Next, RunTask, KillTask,
      Goroutine, Terminated

LEMMA BlankInvariance == Spec => []Blank
<1>1. Init => Blank
  BY DEF Init, Blank
<1>2. ASSUME TypeInv, Blank, [Next]_vars PROVE Blank'
  <2> SUFFICES ASSUME NEW l \in Triggers
               PROVE  /\ gpc'[l] \in {"none", "spawned", "ctx"} => gctx'[l] = None
                      /\ gpc'[l] \in {"none", "spawned", "ctx", "param"} => gparam'[l] = None
                      /\ gpc'[l] \notin {"post", "cancel", "done"} =>
                           cbLog'[l] = None /\ \A r \in reports' : r.run # l
    BY DEF Blank
  <2>1. Writers /\ Readers(l) /\ Onward(l) /\ TypeOK
    BY <1>2, Lines DEF TypeInv
  <2>2. CASE gpc'[l] = gpc[l] \/ (gpc[l] \in {"post", "cancel"} /\
                                     gpc'[l] \in {"post", "cancel", "done"})
    BY <1>2, <2>1, <2>2 DEF TypeOK, Blank, Writers, Readers, ReadCtx, CallFn, CbParam, GoStep
  <2>3. CASE \/ RunGo(l) \/ Begin(l) \/ ReadCtx(l) \/ CallFn(l) \/ CbId(l) \/ CbDel(l)
             \/ CbParam(l) \/ \E out \in Outcomes : FnReturn(l, out)
    BY <1>2, <2>1, <2>3 DEF TypeOK, Blank, RunGo, Begin, ReadCtx, CallFn, CbId, CbDel, CbParam, FnReturn,
       GoStep, TypeInv, GoReady
  <2> QED BY <2>1, <2>2, <2>3 DEF Onward
<1> QED BY <1>1, <1>2, TypeInvariance, PTL DEF Spec

\* No goroutine of l has anything of the trigger m: neither a context nor a parameter, and
\* it has reported no admin the log id of m.
HasNothingOf(l, m) ==
  /\ gctx[l] # m
  /\ gparam[l] # m
  /\ \A r \in reports : r.run = l => r.log # m
\* m is set up, and l has replaced, or will, what m has written into an object l uses.
Replaced(l, m) ==
  /\ Taken(m)
  /\ Begun(l) => ctxOf[task[l]] # m
  /\ Taken(l) => paramOf[task[l]] # m
  /\ cbLog[l] # m
  /\ HasNothingOf(l, m)

LEMMA ReplacedStep ==
  ASSUME NEW l \in Triggers, NEW m \in Triggers, TypeInv, Replaced(l, m), [Next]_vars
  PROVE  Replaced(l, m)'
<1> USE DEF TypeInv, TypeOK
<1>1. Writers /\ Readers(l) /\ Onward(l) /\ Onward(m)
  BY Lines
<1>2. Taken(m)' /\ pc[m] \notin {"setctx", "setparam"}
  BY <1>1 DEF Onward, Replaced, Taken
<1>3. Begun(l)' => ctxOf'[task'[l]] # m
  BY <1>1, <1>2, TriggersAssumption DEF Writers, Onward, Replaced, RunSetCtx, RunStep,
     HandlerKnown, TaskReady, Begun
<1>4. Taken(l)' => paramOf'[task'[l]] # m
  BY <1>1, <1>2 DEF Writers, Onward, Replaced, RunSetParam, RunStep, TaskReady, Begun, Taken
<1>5. gctx'[l] # m /\ gparam'[l] # m /\ cbLog'[l] # m
  BY <1>1 DEF Readers, Replaced, HasNothingOf, ReadCtx, CallFn, CbParam, GoStep, GoReady, Begun, Taken
<1>6. \A r \in reports' : r.run = l => r.log # m
  BY <1>1 DEF Writers, Replaced, HasNothingOf
<1> QED BY <1>2, <1>3, <1>4, <1>5, <1>6 DEF Replaced, HasNothingOf

\* A trigger that comes when another of the handler has been set up replaces its data: it
\* is never run with the older Ctx or Param, and never reported under the older log id.
\* Task.Run and callback read late, so they may meet a trigger's own data or a later one's,
\* for every order of triggers, kills, covers and registrations.
THEOREM OlderDataAreGone ==
  ASSUME NEW l \in Triggers, NEW m \in Triggers
  PROVE  Spec => [](Taken(m) /\ ~Begun(l) => []HasNothingOf(l, m))
<1>1. TypeInv /\ Blank /\ Taken(m) /\ ~Begun(l) => Replaced(l, m)
  BY NoneAssumption DEF TypeInv, GoReady, Blank, Begun, Taken, Replaced, HasNothingOf
<1>2. TypeInv /\ Replaced(l, m) /\ [Next]_vars => Replaced(l, m)'
  BY ReplacedStep
<1>3. Replaced(l, m) => HasNothingOf(l, m)
  BY DEF Replaced
<1> QED BY <1>1, <1>2, <1>3, TypeInvariance, BlankInvariance, PTL DEF Spec

\* Until callback frees the slot the object holds the Param of the slot's run.
OwnParam == \A l \in Triggers : pc[l] = "set" \/ Holding(l) => paramOf[task[l]] = l

LEMMA OwnParamInvariance == ASSUME Serial PROVE Spec => [](Facts /\ OwnParam)
<1>1. Init => OwnParam
  BY DEF Init, OwnParam, Holding
<1>2. ASSUME Facts, SerialInv, OwnParam, [Next]_vars PROVE OwnParam'
  <2> SUFFICES ASSUME NEW l \in Triggers, (pc[l] = "set" \/ Holding(l))'
               PROVE  paramOf'[task'[l]] = l
    BY DEF OwnParam
  <2> USE DEF Facts, TypeInv, TypeOK
  <2>1. Writers /\ Onward(l)
    BY <1>2, Lines
  <2>2. CASE RunSetParam(l)
    BY <1>2, <2>2 DEF RunSetParam, RunStep, TaskReady
  <2>3. CASE ~RunSetParam(l)
    <3>1. pc[l] = "set" \/ Holding(l)
      BY <1>2, <2>1, <2>3 DEF Onward, Holding, RunGo, Begin, ReadCtx, CallFn, FnReturn, CbId, CbDel,
         CbParam, GoStep
    <3>2. Begun(l) /\ task'[l] = task[l] /\ paramOf[task[l]] = l
      BY <1>2, <2>1, <3>1 DEF Onward, OwnParam, Begun, Holding, GoReady
    <3>3. ASSUME NEW x \in Triggers, RunSetParam(x) PROVE task[x] # task[l]
      <4>1. pc[x] = "setparam" /\ x # l /\ task[x] # None /\ runList[JobOf[x]] = None
        BY <1>2, <2>3, <3>3 DEF RunSetParam, RunStep, TaskReady, SlotStaysFree
      <4>2. pc[l] # "set"
        BY <1>2, <4>1 DEF MutexHeld, Inside
      <4>3. runList[JobOf[l]] = task[l] /\ task[l] # None
        BY <1>2, <3>1, <3>2, <4>2 DEF SerialInv, RunningIsListed, TaskReady, Begun
      <4>4. JobOf[x] # JobOf[l]
        BY <4>1, <4>3
      <4>5. HandlerOf[x] # HandlerOf[l]
        BY <4>4 DEF Serial
      <4> QED BY <1>2, <4>1, <4>3, <4>5 DEF TaskOfHandler
    <3>4. task[l] \in TaskObjs
      BY <1>2, <3>2 DEF TaskReady, Begun
    <3>5. ASSUME NEW x \in Triggers, RunSetParam(x) PROVE paramOf'[task[l]] = paramOf[task[l]]
      BY <1>2, <3>3, <3>4, <3>5 DEF RunSetParam
    <3> QED BY <2>1, <3>2, <3>5 DEF Writers
  <2> QED BY <2>2, <2>3
<1> QED BY <1>1, <1>2, SerialAlways, PTL DEF Spec

\* m is set up, and the object of l, when callback reads its Param late, has that of another.
NotReset(l, m) ==
  /\ Taken(m)
  /\ gpc[l] = "cbparam" => paramOf[task[l]] # m
  /\ cbLog[l] # m
  /\ \A r \in reports : r.run = l => r.log # m

\* A job's triggers, as many as there may be, report their own log id, unless the next one
\* is set up after callback has freed the slot and before it has read task.Param: one that
\* is set up while the run is not through with its slot, or was before it, is never named.
THEOREM SerialReportsOwnUntilFreed ==
  ASSUME Serial, NEW l \in Triggers, NEW m \in Triggers \ {l}
  PROVE  Spec => [](Taken(m) /\ ~Freed(l) => [](\A r \in reports : r.run = l => r.log # m))
<1>1. Facts /\ Blank /\ Taken(m) /\ ~Freed(l) => NotReset(l, m)
  BY NoneAssumption DEF Freed, Blank, NotReset
<1>2. ASSUME Facts, OwnParam, NotReset(l, m), [Next]_vars PROVE NotReset(l, m)'
  <2> USE <1>2 DEF Facts, TypeInv, TypeOK
  <2>1. Writers /\ Readers(l) /\ Onward(l) /\ Onward(m)
    BY Lines
  <2>2. Taken(m)' /\ pc[m] # "setparam"
    BY <2>1 DEF Onward, NotReset, Taken
  <2>3. ASSUME gpc'[l] = "cbparam" PROVE paramOf'[task'[l]] # m
    <3>1. gpc[l] = "cbparam" \/ CbDel(l)
      BY <2>1, <2>3 DEF Onward, RunGo, Begin, ReadCtx, CallFn, FnReturn, CbId, CbParam, GoStep
    <3>2. Begun(l) /\ task'[l] = task[l] /\ paramOf[task[l]] # m
      BY <2>1, <3>1 DEF Onward, Begun, GoReady, NotReset, CbDel, GoStep, OwnParam, Holding
    <3> QED BY <2>1, <2>2, <3>2 DEF Writers, RunSetParam, RunStep, TaskReady, Begun
  <2>4. cbLog'[l] # m
    BY <2>1 DEF Readers, NotReset, CbParam, GoStep
  <2>5. \A r \in reports' : r.run = l => r.log # m
    BY <2>1 DEF Writers, NotReset
  <2> QED BY <2>2, <2>3, <2>4, <2>5 DEF NotReset
<1>3. NotReset(l, m) => \A r \in reports : r.run = l => r.log # m
  BY DEF NotReset
<1> QED BY <1>1, <1>2, <1>3, BlankInvariance, OwnParamInvariance, PTL DEF Spec

-----------------------------------------------------------------------------
(* Part 4. Jobs that share no handler, with kills, covers and new triggers. *)

OneJobPerHandler == \A l, m \in Triggers : HandlerOf[l] = HandlerOf[m] => JobOf[l] = JobOf[m]

\* What is listed for a job, or was found there by a kill, is an object of a handler
\* that the job has.
ListedOfJob == \A j \in Jobs : runList[j] # None =>
  \E l \in Triggers : JobOf[l] = j /\ HandlerOf[l] = fnOf[runList[j]]
KilledOfJob == \A k \in Kills : ktask[k] # None =>
  \E l \in Triggers : JobOf[l] = KillJob[k] /\ HandlerOf[l] = fnOf[ktask[k]]
\* A kill, and a trigger that covers, cancel contexts of their own job only.
CancelsItsJob == \A r \in cancels :
  \/ r.by \in Kills /\ JobOf[r.ctx] = KillJob[r.by]
  \/ r.by \in Triggers /\ JobOf[r.ctx] = JobOf[r.by]
  \/ r.by \in {"timeout", "deferred"}

JobInv == TaskId /\ ListedIsRunning /\ ListedOfJob /\ KilledOfJob /\ CancelsItsJob
JobFacts == TypeInv /\ HandlerInv /\ CallInv

LEMMA JobInit == Init => JobInv
  BY TriggersAssumption, NoneAssumption
  DEF Init, JobInv, TaskId, ListedIsRunning, ListedOfJob, KilledOfJob, CancelsItsJob, Holding

\* An object of the job carries a context of the job.
LEMMA CtxOfJob ==
  ASSUME OneJobPerHandler, JobFacts, NEW o \in TaskObjs, ctxOf[o] # None,
         NEW l \in Triggers, HandlerOf[l] = fnOf[o]
  PROVE  ctxOf[o] \in Triggers /\ JobOf[ctxOf[o]] = JobOf[l]
  BY DEF OneJobPerHandler, JobFacts, CallInv, CtxOfHandler, TypeInv, TypeOK

LEMMA JobStep == ASSUME OneJobPerHandler PROVE JobFacts /\ JobInv /\ [Next]_vars => JobInv'
<1> SUFFICES ASSUME JobFacts, JobInv, [Next]_vars PROVE JobInv'
  OBVIOUS
<1> USE OneJobPerHandler, TriggersAssumption, KillsAssumption, NoneAssumption, BeatAssumption
<1> USE DEF taskVars, runVars, killVars, goVars
<1> USE DEF JobInv, TaskId, ListedIsRunning, ListedOfJob, KilledOfJob, CancelsItsJob, Holding,
    JobFacts, HandlerInv, RegOfHandler, TaskOfHandler, TypeInv, TypeOK, TaskReady,
    HandlerKnown, GoReady, ListedHasCancel, OneJobPerHandler
<1>1. CASE UNCHANGED vars
  BY <1>1 DEF vars, JobInv, TaskId, ListedIsRunning, ListedOfJob, KilledOfJob, CancelsItsJob,
     Holding
<1>2. ASSUME NEW h \in Handlers, NEW o \in TaskObjs, RegTask(h, o) PROVE JobInv'
  BY <1>2 DEF RegTask
<1>3. ASSUME NEW l \in Triggers, RunLookup(l) PROVE JobInv'
  BY <1>3 DEF RunLookup, RunStep
<1>4. ASSUME NEW l \in Triggers, RunLock(l) PROVE JobInv'
  BY <1>4 DEF RunLock, RunStep
<1>5. ASSUME NEW l \in Triggers, RunTake(l) PROVE JobInv'
  BY <1>5 DEF RunTake, RunStep
<1>6. ASSUME NEW l \in Triggers, RunBusy(l) PROVE JobInv'
  BY <1>6 DEF RunBusy, RunStep
<1>7. ASSUME NEW l \in Triggers, RunCover(l) PROVE JobInv'
  <2>1. CASE runList[JobOf[l]] = None
    BY <1>7, <2>1 DEF RunCover, RunStep
  <2>2. CASE runList[JobOf[l]] # None
    <3> DEFINE c == ctxOf[runList[JobOf[l]]]
    <3>1. PICK m \in Triggers : JobOf[m] = JobOf[l] /\ HandlerOf[m] = fnOf[runList[JobOf[l]]]
      BY <2>2
    <3>2. c # None /\ runList[JobOf[l]] \in TaskObjs
      BY <2>2
    <3>3. c \in Triggers /\ JobOf[c] = JobOf[l]
      BY <3>1, <3>2, CtxOfJob
    <3>4. cancels' = cancels \union {[by |-> l, ctx |-> c]}
      BY <1>7, <2>2 DEF RunCover
    <3>5. CancelsItsJob'
      BY <3>3, <3>4
    <3> QED BY <1>7, <2>2, <3>5 DEF RunCover, RunStep
  <2> QED BY <2>1, <2>2
<1>8. ASSUME NEW l \in Triggers, RunCoverDel(l) PROVE JobInv'
  BY <1>8 DEF RunCoverDel, RunStep
<1>9. ASSUME NEW l \in Triggers, RunSetCtx(l) PROVE JobInv'
  BY <1>9 DEF RunSetCtx, RunStep
<1>10. ASSUME NEW l \in Triggers, RunSetId(l) PROVE JobInv'
  BY <1>10 DEF RunSetId, RunStep
<1>11. ASSUME NEW l \in Triggers, RunSetParam(l) PROVE JobInv'
  BY <1>11 DEF RunSetParam, RunStep
<1>12. ASSUME NEW l \in Triggers, RunSet(l) PROVE JobInv'
  BY <1>12 DEF RunSet, RunStep
<1>13. ASSUME NEW l \in Triggers, RunGo(l) PROVE JobInv'
  BY <1>13 DEF RunGo
<1>14. ASSUME NEW k \in Kills, KillExists(k) PROVE JobInv'
  BY <1>14 DEF KillExists, KillStep
<1>15. ASSUME NEW k \in Kills, KillGet(k) PROVE JobInv'
  BY <1>15 DEF KillGet, KillStep
<1>16. ASSUME NEW k \in Kills, KillCancel(k) PROVE JobInv'
  <2>1. CASE ktask[k] = None \/ ctxOf[ktask[k]] = None
    BY <1>16, <2>1 DEF KillCancel, KillStep
  <2>2. CASE ktask[k] # None /\ ctxOf[ktask[k]] # None
    <3> DEFINE c == ctxOf[ktask[k]]
    <3>1. PICK m \in Triggers : JobOf[m] = KillJob[k] /\ HandlerOf[m] = fnOf[ktask[k]]
      BY <2>2
    <3>2. ktask[k] \in TaskObjs
      BY <2>2
    <3>3. c \in Triggers /\ JobOf[c] = KillJob[k]
      BY <2>2, <3>1, <3>2, CtxOfJob
    <3>4. cancels' = cancels \union {[by |-> k, ctx |-> c]}
      BY <1>16, <2>2 DEF KillCancel
    <3>5. CancelsItsJob'
      BY <3>3, <3>4
    <3> QED BY <1>16, <2>2, <3>5 DEF KillCancel, KillStep
  <2> QED BY <2>1, <2>2
<1>17. ASSUME NEW k \in Kills, KillDel(k) PROVE JobInv'
  BY <1>17 DEF KillDel, KillStep
<1>18. ASSUME NEW j \in BeatJobs, BeatLock(j) PROVE JobInv'
  BY <1>18 DEF BeatLock
<1>19. ASSUME BeatRead PROVE JobInv'
  BY <1>19 DEF BeatRead
<1>20. ASSUME NEW l \in Triggers, Begin(l) PROVE JobInv'
  BY <1>20 DEF Begin, GoStep
<1>21. ASSUME NEW l \in Triggers, ReadCtx(l) PROVE JobInv'
  BY <1>21 DEF ReadCtx, GoStep
<1>22. ASSUME NEW l \in Triggers, CallFn(l) PROVE JobInv'
  BY <1>22 DEF CallFn, GoStep
<1>23. ASSUME NEW l \in Triggers, NEW out \in Outcomes, FnReturn(l, out) PROVE JobInv'
  BY <1>23 DEF FnReturn, GoStep
<1>24. ASSUME NEW l \in Triggers, CbId(l) PROVE JobInv'
  BY <1>24 DEF CbId, GoStep
<1>25. ASSUME NEW l \in Triggers, CbDel(l) PROVE JobInv'
  BY <1>25 DEF CbDel, GoStep
<1>26. ASSUME NEW l \in Triggers, CbParam(l) PROVE JobInv'
  BY <1>26 DEF CbParam, GoStep
<1>27. ASSUME NEW l \in Triggers, PostOk(l) PROVE JobInv'
  BY <1>27 DEF PostOk, GoStep
<1>28. ASSUME NEW l \in Triggers, PostFail(l) PROVE JobInv'
  BY <1>28 DEF PostFail, GoStep, AfterCallback
<1>29. ASSUME NEW l \in Triggers, PostDone(l) PROVE JobInv'
  BY <1>29 DEF PostDone, GoStep, AfterCallback
<1>30. ASSUME NEW l \in Triggers, DeferredCancel(l) PROVE JobInv'
  BY <1>30 DEF DeferredCancel, GoStep
<1>31. ASSUME NEW l \in Triggers, Expire(l) PROVE JobInv'
  BY <1>31 DEF Expire
<1>32. ASSUME MapRace PROVE JobInv'
  BY <1>32 DEF MapRace
<1> QED
  BY <1>1, <1>2, <1>3, <1>4, <1>5, <1>6, <1>7, <1>8, <1>9, <1>10, <1>11, <1>12, <1>13,
      <1>14, <1>15, <1>16, <1>17, <1>18, <1>19, <1>20, <1>21, <1>22, <1>23, <1>24, <1>25,
      <1>26, <1>27, <1>28, <1>29, <1>30, <1>31, <1>32 DEF Next, RunTask, KillTask,
      Goroutine, Terminated

LEMMA JobInvariance == ASSUME OneJobPerHandler PROVE Spec => []JobInv
<1>1. Spec => []JobFacts
  BY CallInvariance, PTL DEF JobFacts
<1>2. JobFacts /\ JobInv /\ [Next]_vars => JobInv'
  BY JobStep
<1> QED BY <1>1, <1>2, JobInit, PTL DEF Spec

\* A slot is never left taken by a run that is over: killed, covered or not, every run
\* frees the slot of its own job in the end, unless jobs share a handler.
THEOREM NoSlotIsLeft == ASSUME OneJobPerHandler PROVE Spec => []ListedIsRunning
<1>1. JobInv => ListedIsRunning
  BY DEF JobInv
<1> QED BY <1>1, JobInvariance, PTL

\* A kill or a cover never cancels another job's context, although the slot it found may
\* have been given away and the object set up again before Cancel is read.
THEOREM CancelsStayInTheJob == ASSUME OneJobPerHandler PROVE Spec => []CancelsItsJob
<1>1. JobInv => CancelsItsJob
  BY DEF JobInv
<1> QED BY <1>1, JobInvariance, PTL

=============================================================================

------------------------- MODULE TaskExecutorProofs -------------------------
(***************************************************************************)
(* Theorems about TaskExecutor, for every value of its constants.           *)
(***************************************************************************)
EXTENDS TaskExecutor, TLAPS

(* Part 1. What every step relies on before it touches an object.           *)

\* The handler stays registered from the lookup to regList.Get.
HandlerKnown == \A l \in Triggers :
  pc[l] \in {"lock", "check", "cover", "coverdel", "setctx"} => regList[HandlerOf[l]] # None
\* From then on the trigger has a task, and the task has a context ...
TaskReady == \A l \in Triggers :
  pc[l] \in {"setid", "setparam", "set", "go", "accepted"} =>
    task[l] # None /\ ctxOf[task[l]] # None
\* ... and, before it is listed, parameters.
ParamReady == \A l \in Triggers : Taken(l) => paramOf[task[l]] # None
\* A goroutine belongs to an accepted trigger and has what its later lines use.
GoReady == \A l \in Triggers :
  /\ gpc[l] # "none" => pc[l] = "accepted"
  /\ gpc[l] \notin {"none", "spawned"} => gcancel[l] # None
  /\ gpc[l] = "post" => cbLog[l] # None /\ next[l] > 0

TypeInv == TypeOK /\ HandlerKnown /\ TaskReady /\ ParamReady /\ GoReady /\ ListedHasCancel

LEMMA TypeInit == Init => TypeInv
<1> SUFFICES ASSUME Init PROVE TypeInv
  OBVIOUS
<1> USE TriggersAssumption, KillsAssumption, AdminsAssumption, NoneAssumption DEF Init
<1>1. TypeOK
  BY DEF TypeOK
<1>2. HandlerKnown /\ TaskReady /\ ParamReady /\ GoReady /\ ListedHasCancel
  BY DEF HandlerKnown, TaskReady, ParamReady, GoReady, ListedHasCancel, Taken
<1> QED BY <1>1, <1>2 DEF TypeInv

LEMMA TypeStep == TypeInv /\ [Next]_vars => TypeInv'
<1> SUFFICES ASSUME TypeInv, [Next]_vars PROVE TypeInv'
  OBVIOUS
<1> USE TriggersAssumption, KillsAssumption, AdminsAssumption, NoneAssumption,
    BeatAssumption
<1> USE DEF TypeInv, taskVars, runVars, killVars, goVars
<1> USE DEF TypeOK, HandlerKnown, TaskReady, ParamReady, GoReady, ListedHasCancel, Taken
<1>1. CASE UNCHANGED vars
  BY <1>1 DEF vars
<1>2. ASSUME NEW h \in Handlers, NEW o \in TaskObjs, RegTask(h, o) PROVE TypeInv'
  BY <1>2 DEF RegTask
<1>3. ASSUME NEW l \in Triggers, RunLookup(l) PROVE TypeInv'
  BY <1>3 DEF RunLookup, RunStep
<1>4. ASSUME NEW l \in Triggers, RunLock(l) PROVE TypeInv'
  BY <1>4 DEF RunLock, RunStep
<1>5. ASSUME NEW l \in Triggers, RunTake(l) PROVE TypeInv'
  BY <1>5 DEF RunTake, RunStep
<1>6. ASSUME NEW l \in Triggers, RunBusy(l) PROVE TypeInv'
  BY <1>6 DEF RunBusy, RunStep
<1>7. ASSUME NEW l \in Triggers, RunCover(l) PROVE TypeInv'
  BY <1>7 DEF RunCover, RunStep, Cancellers
<1>8. ASSUME NEW l \in Triggers, RunCoverDel(l) PROVE TypeInv'
  BY <1>8 DEF RunCoverDel, RunStep
<1>9. ASSUME NEW l \in Triggers, RunSetCtx(l) PROVE TypeInv'
  BY <1>9 DEF RunSetCtx, RunStep
<1>10. ASSUME NEW l \in Triggers, RunSetId(l) PROVE TypeInv'
  BY <1>10 DEF RunSetId, RunStep
<1>11. ASSUME NEW l \in Triggers, RunSetParam(l) PROVE TypeInv'
  BY <1>11 DEF RunSetParam, RunStep
<1>12. ASSUME NEW l \in Triggers, RunSet(l) PROVE TypeInv'
  BY <1>12 DEF RunSet, RunStep
<1>13. ASSUME NEW l \in Triggers, RunGo(l) PROVE TypeInv'
  BY <1>13 DEF RunGo
<1>14. ASSUME NEW k \in Kills, KillExists(k) PROVE TypeInv'
  BY <1>14 DEF KillExists, KillStep
<1>15. ASSUME NEW k \in Kills, KillGet(k) PROVE TypeInv'
  BY <1>15 DEF KillGet, KillStep
<1>16. ASSUME NEW k \in Kills, KillCancel(k) PROVE TypeInv'
  BY <1>16 DEF KillCancel, KillStep, Cancellers
<1>17. ASSUME NEW k \in Kills, KillDel(k) PROVE TypeInv'
  BY <1>17 DEF KillDel, KillStep
<1>18. ASSUME NEW j \in BeatJobs, BeatLock(j) PROVE TypeInv'
  BY <1>18 DEF BeatLock
<1>19. ASSUME BeatRead PROVE TypeInv'
  BY <1>19 DEF BeatRead
<1>20. ASSUME NEW l \in Triggers, Begin(l) PROVE TypeInv'
  BY <1>20 DEF Begin, GoStep
<1>21. ASSUME NEW l \in Triggers, ReadCtx(l) PROVE TypeInv'
  BY <1>21 DEF ReadCtx, GoStep
<1>22. ASSUME NEW l \in Triggers, CallFn(l) PROVE TypeInv'
  BY <1>22 DEF CallFn, GoStep
<1>23. ASSUME NEW l \in Triggers, NEW out \in Outcomes, FnReturn(l, out) PROVE TypeInv'
  BY <1>23 DEF FnReturn, GoStep, Endings
<1>24. ASSUME NEW l \in Triggers, CbId(l) PROVE TypeInv'
  BY <1>24 DEF CbId, GoStep
<1>25. ASSUME NEW l \in Triggers, CbDel(l) PROVE TypeInv'
  <2>1a. runList' \in [Jobs -> TaskObjs \union {None}]
    BY <1>25 DEF CbDel, TypeOK
  <2>1b. gpc' = [gpc EXCEPT ![l] = "cbparam"] /\ gpc[l] = "cbdel"
    BY <1>25 DEF CbDel, GoStep
  <2>1c. TypeOK'
    BY <1>25, <2>1a, <2>1b DEF CbDel, GoStep, TypeOK
  <2>1. HandlerKnown' /\ TaskReady' /\ ParamReady' /\ GoReady'
    BY <1>25, <2>1b DEF CbDel, GoStep, TypeOK, HandlerKnown, TaskReady, ParamReady,
        GoReady, Taken
  <2>2. \A j \in Jobs : runList'[j] \in {runList[j], None}
    BY <1>25 DEF CbDel, TypeOK
  <2>3. ListedHasCancel'
    BY <1>25, <2>2 DEF CbDel, GoStep, ListedHasCancel
  <2> QED BY <2>1c, <2>1, <2>3
<1>26. ASSUME NEW l \in Triggers, CbParam(l) PROVE TypeInv'
  <2>1. TypeOK'
    BY <1>26 DEF CbParam, GoStep, TypeOK, GoReady, TaskReady
  <2>2. HandlerKnown' /\ TaskReady' /\ ParamReady' /\ ListedHasCancel'
    BY <1>26 DEF CbParam, GoStep, TypeOK, HandlerKnown, TaskReady, ParamReady,
        ListedHasCancel, Taken
  <2>3. GoReady'
    BY <1>26 DEF CbParam, GoStep, TypeOK, GoReady, ParamReady, TaskReady, Taken
  <2> QED BY <2>1, <2>2, <2>3
<1>27. ASSUME NEW l \in Triggers, PostOk(l) PROVE TypeInv'
  <2>0. Report(l) \in [admin : Admins, run : Triggers, log : Triggers, ok : BOOLEAN]
    BY <1>27 DEF PostOk, GoStep, Report, TypeOK, GoReady
  <2>1a. reports' \subseteq [admin : Admins, run : Triggers, log : Triggers, ok : BOOLEAN]
    BY <2>0, <1>27 DEF PostOk, TypeOK
  <2>1. TypeOK'
    BY <2>1a, <1>27 DEF PostOk, GoStep, AfterCallback, Admins, TypeOK
  <2>2. HandlerKnown' /\ TaskReady' /\ ParamReady' /\ ListedHasCancel'
    BY <1>27 DEF PostOk, GoStep, Report, AfterCallback, Admins, TypeOK, HandlerKnown,
        TaskReady, ParamReady, ListedHasCancel, Taken
  <2>3. GoReady'
    BY <1>27 DEF PostOk, GoStep, Report, AfterCallback, Admins, TypeOK, GoReady,
        ParamReady, TaskReady, Taken
  <2> QED BY <2>1, <2>2, <2>3
<1>28. ASSUME NEW l \in Triggers, PostFail(l) PROVE TypeInv'
  <2>0. Report(l) \in [admin : Admins, run : Triggers, log : Triggers, ok : BOOLEAN]
    BY <1>28 DEF PostFail, GoStep, Report, TypeOK, GoReady
  <2>1a. reports' \subseteq [admin : Admins, run : Triggers, log : Triggers, ok : BOOLEAN]
    BY <2>0, <1>28 DEF PostFail, TypeOK
  <2>1. TypeOK'
    BY <2>1a, <1>28 DEF PostFail, GoStep, AfterCallback, Admins, TypeOK
  <2>2. HandlerKnown' /\ TaskReady' /\ ParamReady' /\ ListedHasCancel'
    BY <1>28 DEF PostFail, GoStep, Report, AfterCallback, Admins, TypeOK, HandlerKnown,
        TaskReady, ParamReady, ListedHasCancel, Taken
  <2>3. GoReady'
    BY <1>28 DEF PostFail, GoStep, Report, AfterCallback, Admins, TypeOK, GoReady,
        ParamReady, TaskReady, Taken
  <2> QED BY <2>1, <2>2, <2>3
<1>29. ASSUME NEW l \in Triggers, PostDone(l) PROVE TypeInv'
  BY <1>29 DEF PostDone, GoStep, Report, AfterCallback, Admins
<1>30. ASSUME NEW l \in Triggers, DeferredCancel(l) PROVE TypeInv'
  BY <1>30 DEF DeferredCancel, GoStep, Cancellers
<1>31. ASSUME NEW l \in Triggers, Expire(l) PROVE TypeInv'
  BY <1>31 DEF Expire, Cancellers
<1>32. ASSUME MapRace PROVE TypeInv'
  BY <1>32 DEF MapRace
<1> QED
  BY <1>1, <1>2, <1>3, <1>4, <1>5, <1>6, <1>7, <1>8, <1>9, <1>10, <1>11, <1>12, <1>13,
      <1>14, <1>15, <1>16, <1>17, <1>18, <1>19, <1>20, <1>21, <1>22, <1>23, <1>24, <1>25,
      <1>26, <1>27, <1>28, <1>29, <1>30, <1>31, <1>32 DEF Next, RunTask, KillTask,
      Goroutine, Terminated

\* Every variable keeps its type.
THEOREM TypeCorrect == Spec => []TypeOK
<1>1. Spec => []TypeInv
  BY TypeInit, TypeStep, PTL DEF Spec
<1>2. TypeInv => TypeOK
  BY DEF TypeInv
<1> QED BY <1>1, <1>2, PTL

\* killTask and a covering trigger never find a listed task without its CancelFunc.
THEOREM ListedHasCancelFunc == Spec => []ListedHasCancel
<1>1. Spec => []TypeInv
  BY TypeInit, TypeStep, PTL DEF Spec
<1>2. TypeInv => ListedHasCancel
  BY DEF TypeInv
<1> QED BY <1>1, <1>2, PTL

-----------------------------------------------------------------------------
(* Part 2. e.mu and the slots: with kills, covers and shared handlers.      *)

Inside == {"check", "cover", "coverdel", "setctx", "setid", "setparam", "set", "go"}
\* e.mu is held by the one handler that is between Lock and Unlock.
MutexHeld == /\ \A l \in Triggers : pc[l] \in Inside <=> mu = l
             /\ beat.reply = "reading" <=> mu = Beat
\* A trigger that prepares its task has found its slot free, and it stays free.
SlotStaysFree == \A l \in Triggers :
  pc[l] \in {"setctx", "setid", "setparam", "set"} => runList[JobOf[l]] = None

SlotInv == TypeInv /\ MutexHeld /\ SlotStaysFree

LEMMA SlotInit == Init => SlotInv
  BY TypeInit, TriggersAssumption, NoneAssumption
  DEF SlotInv, Init, MutexHeld, SlotStaysFree, Inside

LEMMA SlotStep == SlotInv /\ [Next]_vars => SlotInv'
<1> DEFINE Goal == MutexHeld /\ SlotStaysFree
<1> SUFFICES ASSUME TypeOK, MutexHeld, SlotStaysFree, [Next]_vars PROVE Goal'
  BY TypeStep DEF SlotInv, TypeInv
<1> USE TriggersAssumption, KillsAssumption, NoneAssumption, BeatAssumption
<1> USE DEF taskVars, runVars, killVars, goVars
<1> USE DEF Goal, TypeOK, MutexHeld, SlotStaysFree, Inside
<1>1. CASE UNCHANGED vars
  BY <1>1 DEF vars, Goal, MutexHeld, SlotStaysFree
<1>2. ASSUME NEW h \in Handlers, NEW o \in TaskObjs, RegTask(h, o) PROVE Goal'
  BY <1>2 DEF RegTask
<1>3. ASSUME NEW l \in Triggers, RunLookup(l) PROVE Goal'
  BY <1>3 DEF RunLookup, RunStep
<1>4. ASSUME NEW l \in Triggers, RunLock(l) PROVE Goal'
  BY <1>4 DEF RunLock, RunStep
<1>5. ASSUME NEW l \in Triggers, RunTake(l) PROVE Goal'
  BY <1>5 DEF RunTake, RunStep
<1>6. ASSUME NEW l \in Triggers, RunBusy(l) PROVE Goal'
  BY <1>6 DEF RunBusy, RunStep
<1>7. ASSUME NEW l \in Triggers, RunCover(l) PROVE Goal'
  BY <1>7 DEF RunCover, RunStep
<1>8. ASSUME NEW l \in Triggers, RunCoverDel(l) PROVE Goal'
  BY <1>8 DEF RunCoverDel, RunStep
<1>9. ASSUME NEW l \in Triggers, RunSetCtx(l) PROVE Goal'
  BY <1>9 DEF RunSetCtx, RunStep
<1>10. ASSUME NEW l \in Triggers, RunSetId(l) PROVE Goal'
  BY <1>10 DEF RunSetId, RunStep
<1>11. ASSUME NEW l \in Triggers, RunSetParam(l) PROVE Goal'
  BY <1>11 DEF RunSetParam, RunStep
<1>12. ASSUME NEW l \in Triggers, RunSet(l) PROVE Goal'
  BY <1>12 DEF RunSet, RunStep
<1>13. ASSUME NEW l \in Triggers, RunGo(l) PROVE Goal'
  BY <1>13 DEF RunGo
<1>14. ASSUME NEW k \in Kills, KillExists(k) PROVE Goal'
  BY <1>14 DEF KillExists, KillStep
<1>15. ASSUME NEW k \in Kills, KillGet(k) PROVE Goal'
  BY <1>15 DEF KillGet, KillStep
<1>16. ASSUME NEW k \in Kills, KillCancel(k) PROVE Goal'
  BY <1>16 DEF KillCancel, KillStep
<1>17. ASSUME NEW k \in Kills, KillDel(k) PROVE Goal'
  BY <1>17 DEF KillDel, KillStep
<1>18. ASSUME NEW j \in BeatJobs, BeatLock(j) PROVE Goal'
  BY <1>18 DEF BeatLock
<1>19. ASSUME BeatRead PROVE Goal'
  BY <1>19 DEF BeatRead
<1>20. ASSUME NEW l \in Triggers, Begin(l) PROVE Goal'
  BY <1>20 DEF Begin, GoStep
<1>21. ASSUME NEW l \in Triggers, ReadCtx(l) PROVE Goal'
  BY <1>21 DEF ReadCtx, GoStep
<1>22. ASSUME NEW l \in Triggers, CallFn(l) PROVE Goal'
  BY <1>22 DEF CallFn, GoStep
<1>23. ASSUME NEW l \in Triggers, NEW out \in Outcomes, FnReturn(l, out) PROVE Goal'
  BY <1>23 DEF FnReturn, GoStep
<1>24. ASSUME NEW l \in Triggers, CbId(l) PROVE Goal'
  BY <1>24 DEF CbId, GoStep
<1>25. ASSUME NEW l \in Triggers, CbDel(l) PROVE Goal'
  BY <1>25 DEF CbDel, GoStep
<1>26. ASSUME NEW l \in Triggers, CbParam(l) PROVE Goal'
  BY <1>26 DEF CbParam, GoStep
<1>27. ASSUME NEW l \in Triggers, PostOk(l) PROVE Goal'
  BY <1>27 DEF PostOk, GoStep
<1>28. ASSUME NEW l \in Triggers, PostFail(l) PROVE Goal'
  BY <1>28 DEF PostFail, GoStep, AfterCallback
<1>29. ASSUME NEW l \in Triggers, PostDone(l) PROVE Goal'
  BY <1>29 DEF PostDone, GoStep, AfterCallback
<1>30. ASSUME NEW l \in Triggers, DeferredCancel(l) PROVE Goal'
  BY <1>30 DEF DeferredCancel, GoStep
<1>31. ASSUME NEW l \in Triggers, Expire(l) PROVE Goal'
  BY <1>31 DEF Expire
<1>32. ASSUME MapRace PROVE Goal'
  BY <1>32 DEF MapRace
<1> HIDE DEF Goal
<1> QED
  BY <1>1, <1>2, <1>3, <1>4, <1>5, <1>6, <1>7, <1>8, <1>9, <1>10, <1>11, <1>12, <1>13,
      <1>14, <1>15, <1>16, <1>17, <1>18, <1>19, <1>20, <1>21, <1>22, <1>23, <1>24, <1>25,
      <1>26, <1>27, <1>28, <1>29, <1>30, <1>31, <1>32 DEF Next, RunTask, KillTask,
      Goroutine, Terminated

\* A listed task is never replaced by another in one step, whatever is shared,
\* killed or covered: the check of runTask still holds at its runList.Set.
THEOREM SlotsAreNotOverwritten == Spec => SlotNeverOverwritten
<1> DEFINE Kept == \A j \in Jobs : runList[j] # None => runList'[j] \in {runList[j], None}
<1>0. ASSUME SlotInv, [Next]_vars PROVE Kept
  <2> SUFFICES ASSUME TypeOK, SlotStaysFree, [Next]_vars PROVE Kept
    BY <1>0 DEF SlotInv, TypeInv
  <2> USE TriggersAssumption, KillsAssumption, NoneAssumption, BeatAssumption
  <2> USE DEF taskVars, runVars, killVars, goVars
  <2> USE DEF Kept, TypeOK, SlotStaysFree
  <2>1. CASE UNCHANGED vars
    BY <2>1 DEF vars, Kept
  <2>2. ASSUME NEW h \in Handlers, NEW o \in TaskObjs, RegTask(h, o) PROVE Kept
    BY <2>2 DEF RegTask
  <2>3. ASSUME NEW l \in Triggers, RunLookup(l) PROVE Kept
    BY <2>3 DEF RunLookup, RunStep
  <2>4. ASSUME NEW l \in Triggers, RunLock(l) PROVE Kept
    BY <2>4 DEF RunLock, RunStep
  <2>5. ASSUME NEW l \in Triggers, RunTake(l) PROVE Kept
    BY <2>5 DEF RunTake, RunStep
  <2>6. ASSUME NEW l \in Triggers, RunBusy(l) PROVE Kept
    BY <2>6 DEF RunBusy, RunStep
  <2>7. ASSUME NEW l \in Triggers, RunCover(l) PROVE Kept
    BY <2>7 DEF RunCover, RunStep
  <2>8. ASSUME NEW l \in Triggers, RunCoverDel(l) PROVE Kept
    BY <2>8 DEF RunCoverDel, RunStep
  <2>9. ASSUME NEW l \in Triggers, RunSetCtx(l) PROVE Kept
    BY <2>9 DEF RunSetCtx, RunStep
  <2>10. ASSUME NEW l \in Triggers, RunSetId(l) PROVE Kept
    BY <2>10 DEF RunSetId, RunStep
  <2>11. ASSUME NEW l \in Triggers, RunSetParam(l) PROVE Kept
    BY <2>11 DEF RunSetParam, RunStep
  <2>12. ASSUME NEW l \in Triggers, RunSet(l) PROVE Kept
    BY <2>12 DEF RunSet, RunStep
  <2>13. ASSUME NEW l \in Triggers, RunGo(l) PROVE Kept
    BY <2>13 DEF RunGo
  <2>14. ASSUME NEW k \in Kills, KillExists(k) PROVE Kept
    BY <2>14 DEF KillExists, KillStep
  <2>15. ASSUME NEW k \in Kills, KillGet(k) PROVE Kept
    BY <2>15 DEF KillGet, KillStep
  <2>16. ASSUME NEW k \in Kills, KillCancel(k) PROVE Kept
    BY <2>16 DEF KillCancel, KillStep
  <2>17. ASSUME NEW k \in Kills, KillDel(k) PROVE Kept
    BY <2>17 DEF KillDel, KillStep
  <2>18. ASSUME NEW j \in BeatJobs, BeatLock(j) PROVE Kept
    BY <2>18 DEF BeatLock
  <2>19. ASSUME BeatRead PROVE Kept
    BY <2>19 DEF BeatRead
  <2>20. ASSUME NEW l \in Triggers, Begin(l) PROVE Kept
    BY <2>20 DEF Begin, GoStep
  <2>21. ASSUME NEW l \in Triggers, ReadCtx(l) PROVE Kept
    BY <2>21 DEF ReadCtx, GoStep
  <2>22. ASSUME NEW l \in Triggers, CallFn(l) PROVE Kept
    BY <2>22 DEF CallFn, GoStep
  <2>23. ASSUME NEW l \in Triggers, NEW out \in Outcomes, FnReturn(l, out) PROVE Kept
    BY <2>23 DEF FnReturn, GoStep
  <2>24. ASSUME NEW l \in Triggers, CbId(l) PROVE Kept
    BY <2>24 DEF CbId, GoStep
  <2>25. ASSUME NEW l \in Triggers, CbDel(l) PROVE Kept
    BY <2>25 DEF CbDel, GoStep
  <2>26. ASSUME NEW l \in Triggers, CbParam(l) PROVE Kept
    BY <2>26 DEF CbParam, GoStep
  <2>27. ASSUME NEW l \in Triggers, PostOk(l) PROVE Kept
    BY <2>27 DEF PostOk, GoStep
  <2>28. ASSUME NEW l \in Triggers, PostFail(l) PROVE Kept
    BY <2>28 DEF PostFail, GoStep, AfterCallback
  <2>29. ASSUME NEW l \in Triggers, PostDone(l) PROVE Kept
    BY <2>29 DEF PostDone, GoStep, AfterCallback
  <2>30. ASSUME NEW l \in Triggers, DeferredCancel(l) PROVE Kept
    BY <2>30 DEF DeferredCancel, GoStep
  <2>31. ASSUME NEW l \in Triggers, Expire(l) PROVE Kept
    BY <2>31 DEF Expire
  <2>32. ASSUME MapRace PROVE Kept
    BY <2>32 DEF MapRace
  <2> HIDE DEF Kept
  <2> QED
    BY <2>1, <2>2, <2>3, <2>4, <2>5, <2>6, <2>7, <2>8, <2>9, <2>10, <2>11, <2>12, <2>13,
        <2>14, <2>15, <2>16, <2>17, <2>18, <2>19, <2>20, <2>21, <2>22, <2>23, <2>24,
        <2>25, <2>26, <2>27, <2>28, <2>29, <2>30, <2>31, <2>32 DEF Next, RunTask,
        KillTask, Goroutine, Terminated
<1>1. Spec => []SlotInv
  BY SlotInit, SlotStep, PTL DEF Spec
<1>2. SlotInv /\ [Next]_vars => [Kept]_vars
  BY <1>0
<1>3. Spec => [][Kept]_vars
  BY <1>1, <1>2, PTL DEF Spec
<1> QED BY <1>3 DEF SlotNeverOverwritten

-----------------------------------------------------------------------------
(* Part 3. An object serves one handler, so its Param does too.             *)

RegOfHandler == \A h \in Handlers : regList[h] # None => fnOf[regList[h]] = h
TaskOfHandler == \A l \in Triggers : task[l] # None => fnOf[task[l]] = HandlerOf[l]
ParamOfHandler == \A o \in TaskObjs :
  paramOf[o] # None => Taken(paramOf[o]) /\ HandlerOf[paramOf[o]] = fnOf[o]
LogOfHandler == \A l \in Triggers :
  cbLog[l] # None => Taken(cbLog[l]) /\ HandlerOf[cbLog[l]] = HandlerOf[l]

HandlerInv ==
  RegOfHandler /\ TaskOfHandler /\ ParamOfHandler /\ LogOfHandler /\ ReportsTakenTrigger

LEMMA HandlerInit == Init => HandlerInv
  BY TriggersAssumption, NoneAssumption
  DEF Init, HandlerInv, RegOfHandler, TaskOfHandler, ParamOfHandler, LogOfHandler,
      ReportsTakenTrigger

LEMMA HandlerStep == TypeInv /\ HandlerInv /\ [Next]_vars => HandlerInv'
<1> SUFFICES ASSUME TypeInv, HandlerInv, [Next]_vars PROVE HandlerInv'
  OBVIOUS
<1> USE TriggersAssumption, KillsAssumption, NoneAssumption, BeatAssumption
<1> USE DEF taskVars, runVars, killVars, goVars
<1> USE DEF HandlerInv, RegOfHandler, TaskOfHandler, ParamOfHandler, LogOfHandler,
    ReportsTakenTrigger, TypeInv, TypeOK, TaskReady, ParamReady, HandlerKnown, GoReady,
    Taken, Report
<1>1. CASE UNCHANGED vars
  BY <1>1 DEF vars, HandlerInv, RegOfHandler, TaskOfHandler, ParamOfHandler, LogOfHandler,
      ReportsTakenTrigger, Taken
<1>2. ASSUME NEW h \in Handlers, NEW o \in TaskObjs, RegTask(h, o) PROVE HandlerInv'
  BY <1>2 DEF RegTask
<1>3. ASSUME NEW l \in Triggers, RunLookup(l) PROVE HandlerInv'
  BY <1>3 DEF RunLookup, RunStep
<1>4. ASSUME NEW l \in Triggers, RunLock(l) PROVE HandlerInv'
  BY <1>4 DEF RunLock, RunStep
<1>5. ASSUME NEW l \in Triggers, RunTake(l) PROVE HandlerInv'
  BY <1>5 DEF RunTake, RunStep
<1>6. ASSUME NEW l \in Triggers, RunBusy(l) PROVE HandlerInv'
  BY <1>6 DEF RunBusy, RunStep
<1>7. ASSUME NEW l \in Triggers, RunCover(l) PROVE HandlerInv'
  BY <1>7 DEF RunCover, RunStep
<1>8. ASSUME NEW l \in Triggers, RunCoverDel(l) PROVE HandlerInv'
  BY <1>8 DEF RunCoverDel, RunStep
<1>9. ASSUME NEW l \in Triggers, RunSetCtx(l) PROVE HandlerInv'
  BY <1>9 DEF RunSetCtx, RunStep
<1>10. ASSUME NEW l \in Triggers, RunSetId(l) PROVE HandlerInv'
  BY <1>10 DEF RunSetId, RunStep
<1>11. ASSUME NEW l \in Triggers, RunSetParam(l) PROVE HandlerInv'
  BY <1>11 DEF RunSetParam, RunStep
<1>12. ASSUME NEW l \in Triggers, RunSet(l) PROVE HandlerInv'
  BY <1>12 DEF RunSet, RunStep
<1>13. ASSUME NEW l \in Triggers, RunGo(l) PROVE HandlerInv'
  BY <1>13 DEF RunGo
<1>14. ASSUME NEW k \in Kills, KillExists(k) PROVE HandlerInv'
  BY <1>14 DEF KillExists, KillStep
<1>15. ASSUME NEW k \in Kills, KillGet(k) PROVE HandlerInv'
  BY <1>15 DEF KillGet, KillStep
<1>16. ASSUME NEW k \in Kills, KillCancel(k) PROVE HandlerInv'
  BY <1>16 DEF KillCancel, KillStep
<1>17. ASSUME NEW k \in Kills, KillDel(k) PROVE HandlerInv'
  BY <1>17 DEF KillDel, KillStep
<1>18. ASSUME NEW j \in BeatJobs, BeatLock(j) PROVE HandlerInv'
  BY <1>18 DEF BeatLock
<1>19. ASSUME BeatRead PROVE HandlerInv'
  BY <1>19 DEF BeatRead
<1>20. ASSUME NEW l \in Triggers, Begin(l) PROVE HandlerInv'
  BY <1>20 DEF Begin, GoStep
<1>21. ASSUME NEW l \in Triggers, ReadCtx(l) PROVE HandlerInv'
  BY <1>21 DEF ReadCtx, GoStep
<1>22. ASSUME NEW l \in Triggers, CallFn(l) PROVE HandlerInv'
  BY <1>22 DEF CallFn, GoStep
<1>23. ASSUME NEW l \in Triggers, NEW out \in Outcomes, FnReturn(l, out) PROVE HandlerInv'
  BY <1>23 DEF FnReturn, GoStep
<1>24. ASSUME NEW l \in Triggers, CbId(l) PROVE HandlerInv'
  BY <1>24 DEF CbId, GoStep
<1>25. ASSUME NEW l \in Triggers, CbDel(l) PROVE HandlerInv'
  BY <1>25 DEF CbDel, GoStep
<1>26. ASSUME NEW l \in Triggers, CbParam(l) PROVE HandlerInv'
  BY <1>26 DEF CbParam, GoStep
<1>27. ASSUME NEW l \in Triggers, PostOk(l) PROVE HandlerInv'
  BY <1>27 DEF PostOk, GoStep
<1>28. ASSUME NEW l \in Triggers, PostFail(l) PROVE HandlerInv'
  BY <1>28 DEF PostFail, GoStep, AfterCallback
<1>29. ASSUME NEW l \in Triggers, PostDone(l) PROVE HandlerInv'
  BY <1>29 DEF PostDone, GoStep, AfterCallback
<1>30. ASSUME NEW l \in Triggers, DeferredCancel(l) PROVE HandlerInv'
  BY <1>30 DEF DeferredCancel, GoStep
<1>31. ASSUME NEW l \in Triggers, Expire(l) PROVE HandlerInv'
  BY <1>31 DEF Expire
<1>32. ASSUME MapRace PROVE HandlerInv'
  BY <1>32 DEF MapRace
<1> QED
  BY <1>1, <1>2, <1>3, <1>4, <1>5, <1>6, <1>7, <1>8, <1>9, <1>10, <1>11, <1>12, <1>13,
      <1>14, <1>15, <1>16, <1>17, <1>18, <1>19, <1>20, <1>21, <1>22, <1>23, <1>24, <1>25,
      <1>26, <1>27, <1>28, <1>29, <1>30, <1>31, <1>32 DEF Next, RunTask, KillTask,
      Goroutine, Terminated

\* A report names a trigger that runTask has let through, of the run's handler.
THEOREM ReportsAreOfTakenTriggers == Spec => []ReportsTakenTrigger
<1>1. Spec => []TypeInv
  BY TypeInit, TypeStep, PTL DEF Spec
<1>2. Spec => []HandlerInv
  BY <1>1, HandlerInit, HandlerStep, PTL DEF Spec
<1>3. HandlerInv => ReportsTakenTrigger
  BY DEF HandlerInv
<1> QED BY <1>2, <1>3, PTL

-----------------------------------------------------------------------------
(* Part 4. Jobs that share no handler, no kill, no cover.                   *)

Serial == /\ Kills = {}
          /\ Covers = {}
          /\ \A l, m \in Triggers : HandlerOf[l] = HandlerOf[m] => JobOf[l] = JobOf[m]

NeverCovers == \A l \in Triggers : pc[l] \notin {"cover", "coverdel"}
\* The object carries the job's Id, and callback's taskId is that job.
TaskId == \A l \in Triggers :
  /\ pc[l] \in {"setparam", "set", "go", "accepted"} => idOf[task[l]] = JobOf[l]
  /\ gpc[l] = "cbdel" => cbJob[l] = JobOf[l]
\* A job has one current run.
OneHolder == \A l, m \in Triggers :
  Holding(l) /\ Holding(m) /\ JobOf[l] = JobOf[m] => l = m
\* Until the TaskFunc is called the object is as the trigger's runTask left it.
OwnTask == \A l \in Triggers :
  /\ pc[l] \in {"setid", "setparam", "set", "go"} \/ gpc[l] \in {"spawned", "ctx", "param"}
       => ctxOf[task[l]] = l
  /\ pc[l] \in {"set", "go"} \/ gpc[l] \in {"spawned", "ctx", "param"}
       => paramOf[task[l]] = l
  /\ gpc[l] \in {"param", "running"} => gctx[l] = l
  /\ gpc[l] = "running" => gparam[l] = l

SerialInv ==
  NeverCovers /\ TaskId /\ RunningIsListed /\ OneHolder /\ ListedIsRunning /\ OwnTask
Facts == TypeInv /\ MutexHeld /\ SlotStaysFree /\ RegOfHandler /\ TaskOfHandler

LEMMA SerialInit == Init => SerialInv
  BY TriggersAssumption, NoneAssumption
  DEF Init, SerialInv, NeverCovers, TaskId, RunningIsListed, OneHolder, ListedIsRunning,
      OwnTask, Holding

\* What a goroutine does after it has freed its slot disturbs no part of SerialInv.
LEMMA AfterSlot ==
  ASSUME TypeOK, SerialInv, NEW l \in Triggers, gpc[l] \in {"cbparam", "post", "cancel"},
         NEW to \in {"post", "cancel", "done"}, gpc' = [gpc EXCEPT ![l] = to],
         UNCHANGED <<runList, idOf, ctxOf, paramOf, pc, task, cbJob, gctx, gparam>>
  PROVE  SerialInv'
<1>1. \A m \in Triggers : Holding(m)' <=> Holding(m)
  BY DEF Holding, TypeOK
<1>2. RunningIsListed' /\ OneHolder' /\ ListedIsRunning'
  BY <1>1 DEF SerialInv, RunningIsListed, OneHolder, ListedIsRunning
<1>3. NeverCovers' /\ TaskId' /\ OwnTask'
  BY DEF TypeOK, SerialInv, NeverCovers, TaskId, OwnTask
<1> QED BY <1>2, <1>3 DEF SerialInv

\* callback empties the slot of its own job.
LEMMA CbDelFreesOwnSlot ==
  ASSUME SerialInv, NEW l \in Triggers, CbDel(l)
  PROVE  runList' = [runList EXCEPT ![JobOf[l]] = None]
  BY DEF CbDel, GoStep, SerialInv, TaskId

LEMMA SerialStep == ASSUME Serial PROVE Facts /\ SerialInv /\ [Next]_vars => SerialInv'
<1> SUFFICES ASSUME Facts, SerialInv, [Next]_vars PROVE SerialInv'
  OBVIOUS
<1> USE Serial, TriggersAssumption, NoneAssumption, BeatAssumption
<1> USE DEF taskVars, runVars, killVars, goVars
<1> USE DEF SerialInv, NeverCovers, TaskId, RunningIsListed, OneHolder,
    ListedIsRunning, OwnTask, Facts, TypeInv, TypeOK, TaskReady, GoReady, MutexHeld,
    SlotStaysFree, TaskOfHandler, Serial, Holding, Inside, RegOfHandler, HandlerKnown
<1>1. CASE UNCHANGED vars
  BY <1>1 DEF vars, SerialInv, NeverCovers, TaskId, RunningIsListed, OneHolder,
      ListedIsRunning, OwnTask, Holding
<1>2. ASSUME NEW h \in Handlers, NEW o \in TaskObjs, RegTask(h, o) PROVE SerialInv'
  BY <1>2 DEF RegTask
<1>3. ASSUME NEW l \in Triggers, RunLookup(l) PROVE SerialInv'
  BY <1>3 DEF RunLookup, RunStep
<1>4. ASSUME NEW l \in Triggers, RunLock(l) PROVE SerialInv'
  BY <1>4 DEF RunLock, RunStep
<1>5. ASSUME NEW l \in Triggers, RunTake(l) PROVE SerialInv'
  BY <1>5 DEF RunTake, RunStep
<1>6. ASSUME NEW l \in Triggers, RunBusy(l) PROVE SerialInv'
  <2>1. pc' = [pc EXCEPT ![l] = "refused"] /\ pc[l] = "check"
    BY <1>6 DEF RunBusy, RunStep, Serial
  <2> QED BY <1>6, <2>1 DEF RunBusy, RunStep, SerialInv, NeverCovers, TaskId,
      RunningIsListed, OneHolder, ListedIsRunning, OwnTask, Facts, TypeInv, TypeOK, Holding
<1>7. ASSUME NEW l \in Triggers, RunCover(l) PROVE SerialInv'
  BY <1>7 DEF RunCover, RunStep
<1>8. ASSUME NEW l \in Triggers, RunCoverDel(l) PROVE SerialInv'
  BY <1>8 DEF RunCoverDel, RunStep
<1>9. ASSUME NEW l \in Triggers, RunSetCtx(l) PROVE SerialInv'
  BY <1>9 DEF RunSetCtx, RunStep
<1>10. ASSUME NEW l \in Triggers, RunSetId(l) PROVE SerialInv'
  BY <1>10 DEF RunSetId, RunStep
<1>11. ASSUME NEW l \in Triggers, RunSetParam(l) PROVE SerialInv'
  BY <1>11 DEF RunSetParam, RunStep
<1>12. ASSUME NEW l \in Triggers, RunSet(l) PROVE SerialInv'
  BY <1>12 DEF RunSet, RunStep
<1>13. ASSUME NEW l \in Triggers, RunGo(l) PROVE SerialInv'
  BY <1>13 DEF RunGo
<1>14. ASSUME NEW k \in Kills, KillExists(k) PROVE SerialInv'
  BY <1>14 DEF KillExists, KillStep
<1>15. ASSUME NEW k \in Kills, KillGet(k) PROVE SerialInv'
  BY <1>15 DEF KillGet, KillStep
<1>16. ASSUME NEW k \in Kills, KillCancel(k) PROVE SerialInv'
  BY <1>16 DEF KillCancel, KillStep
<1>17. ASSUME NEW k \in Kills, KillDel(k) PROVE SerialInv'
  BY <1>17 DEF KillDel, KillStep
<1>18. ASSUME NEW j \in BeatJobs, BeatLock(j) PROVE SerialInv'
  BY <1>18 DEF BeatLock
<1>19. ASSUME BeatRead PROVE SerialInv'
  BY <1>19 DEF BeatRead
<1>20. ASSUME NEW l \in Triggers, Begin(l) PROVE SerialInv'
  BY <1>20 DEF Begin, GoStep
<1>21. ASSUME NEW l \in Triggers, ReadCtx(l) PROVE SerialInv'
  BY <1>21 DEF ReadCtx, GoStep
<1>22. ASSUME NEW l \in Triggers, CallFn(l) PROVE SerialInv'
  BY <1>22 DEF CallFn, GoStep
<1>23. ASSUME NEW l \in Triggers, NEW out \in Outcomes, FnReturn(l, out) PROVE SerialInv'
  BY <1>23 DEF FnReturn, GoStep
<1>24. ASSUME NEW l \in Triggers, CbId(l) PROVE SerialInv'
  BY <1>24 DEF CbId, GoStep
<1>25. ASSUME NEW l \in Triggers, CbDel(l) PROVE SerialInv'
  <2>1. gpc[l] = "cbdel" /\ gpc' = [gpc EXCEPT ![l] = "cbparam"] /\ pc[l] = "accepted"
    BY <1>25 DEF CbDel, GoStep, Facts, TypeInv, GoReady
  <2>2. runList' = [runList EXCEPT ![JobOf[l]] = None]
    BY <1>25, CbDelFreesOwnSlot
  <2>3. \A m \in Triggers : Holding(m)' <=> Holding(m) /\ m # l
    BY <1>25, <2>1 DEF CbDel, GoStep, Holding, Facts, TypeInv, TypeOK
  <2>4. OneHolder'
    BY <2>3 DEF SerialInv, OneHolder
  <2>5. RunningIsListed'
    BY <1>25, <2>1, <2>2, <2>3 DEF CbDel, GoStep, SerialInv, OneHolder, RunningIsListed,
        Holding, Facts, TypeInv, TypeOK
  <2>6. ListedIsRunning'
    BY <1>25, <2>2, <2>3 DEF SerialInv, ListedIsRunning, Facts, TypeInv, TypeOK
  <2>7. NeverCovers' /\ TaskId' /\ OwnTask'
    BY <1>25, <2>1 DEF CbDel, GoStep, SerialInv, NeverCovers, TaskId, OwnTask, Facts,
        TypeInv, TypeOK
  <2> QED BY <2>4, <2>5, <2>6, <2>7 DEF SerialInv
<1>26. ASSUME NEW l \in Triggers, CbParam(l) PROVE SerialInv'
  BY <1>26, AfterSlot DEF CbParam, GoStep, AfterCallback, Facts, TypeInv
<1>27. ASSUME NEW l \in Triggers, PostOk(l) PROVE SerialInv'
  BY <1>27, AfterSlot DEF PostOk, GoStep, AfterCallback, Facts, TypeInv
<1>28. ASSUME NEW l \in Triggers, PostFail(l) PROVE SerialInv'
  BY <1>28, AfterSlot DEF PostFail, GoStep, AfterCallback, Facts, TypeInv
<1>29. ASSUME NEW l \in Triggers, PostDone(l) PROVE SerialInv'
  BY <1>29, AfterSlot DEF PostDone, GoStep, AfterCallback, Facts, TypeInv
<1>30. ASSUME NEW l \in Triggers, DeferredCancel(l) PROVE SerialInv'
  BY <1>30, AfterSlot DEF DeferredCancel, GoStep, AfterCallback, Facts, TypeInv
<1>31. ASSUME NEW l \in Triggers, Expire(l) PROVE SerialInv'
  BY <1>31 DEF Expire
<1>32. ASSUME MapRace PROVE SerialInv'
  BY <1>32 DEF MapRace
<1> QED
  BY <1>1, <1>2, <1>3, <1>4, <1>5, <1>6, <1>7, <1>8, <1>9, <1>10, <1>11, <1>12, <1>13,
      <1>14, <1>15, <1>16, <1>17, <1>18, <1>19, <1>20, <1>21, <1>22, <1>23, <1>24, <1>25,
      <1>26, <1>27, <1>28, <1>29, <1>30, <1>31, <1>32 DEF Next, RunTask, KillTask,
      Goroutine, Terminated

LEMMA SerialAlways == ASSUME Serial PROVE Spec => [](Facts /\ SerialInv)
<1>1. Spec => []SlotInv
  BY SlotInit, SlotStep, PTL DEF Spec
<1>2. SlotInv => TypeInv
  BY DEF SlotInv
<1>3. Spec => []HandlerInv
  BY <1>1, <1>2, HandlerInit, HandlerStep, PTL DEF Spec
<1>4. SlotInv /\ HandlerInv => Facts
  BY DEF SlotInv, HandlerInv, Facts
<1>5. Facts /\ SerialInv /\ [Next]_vars => SerialInv'
  BY SerialStep
<1> QED BY <1>1, <1>3, <1>4, <1>5, SerialInit, PTL DEF Spec

\* One job never has two TaskFuncs running, if no kill or cover empties its slot
\* early and no other job overwrites its task object.
THEOREM SerialIsSerial == ASSUME Serial PROVE Spec => []SerialExecution
<1>1. SerialInv => SerialExecution
  BY DEF SerialInv, OneHolder, SerialExecution, Holding
<1> QED BY <1>1, SerialAlways, PTL

\* Under the same conditions a TaskFunc is called with its own trigger's Ctx and Param.
THEOREM SerialExecutesOwn == ASSUME Serial PROVE Spec => []ExecutesOwnRequest
<1>1. SerialInv => ExecutesOwnRequest
  BY DEF SerialInv, OwnTask, ExecutesOwnRequest
<1> QED BY <1>1, SerialAlways, PTL

\* Under the same conditions runList is exactly the set of current runs.
THEOREM SerialSlotsMatch == ASSUME Serial PROVE Spec => []SlotsMatchRuns
<1>1. SerialInv => SlotsMatchRuns
  BY DEF SerialInv, SlotsMatchRuns
<1> QED BY <1>1, SerialAlways, PTL

\* idleBeat alone answers, and it has e.mu when it reads.
LEMMA BeatAnswers ==
  ASSUME Facts, [Next]_vars, beat.reply = "reading", beat'.reply = "idle"
  PROVE  mu = Beat /\ runList[beat.job] = None
<1>1. mu = Beat
  BY DEF Facts, MutexHeld
<1>2. BeatRead
  BY DEF Next, RegTask, RunTask, RunLookup, RunLock, RunTake, RunBusy, RunCover,
     RunCoverDel, RunSetCtx, RunSetId, RunSetParam, RunSet, RunGo, RunStep, KillTask,
     KillExists, KillGet, KillCancel, KillDel, KillStep, BeatLock, Goroutine, Begin, ReadCtx,
     CallFn, FnReturn, CbId, CbDel, CbParam, PostOk, PostFail, PostDone, DeferredCancel,
     GoStep, AfterCallback, Expire, MapRace, Terminated, vars
<1> QED BY <1>1, <1>2 DEF BeatRead, Facts, TypeInv, TypeOK

\* Under the same conditions idleBeat never says idle of a job with a run, or with a run
\* that a trigger is setting up: e.mu keeps the second away, the slot shows the first.
THEOREM IdleIsTrue == ASSUME Serial PROVE Spec => IdleIsIdle
<1> DEFINE Quiet ==
      \A j \in Jobs : beat.reply = "reading" /\ beat'.reply = "idle" /\ beat.job = j =>
        ~ \E l \in Triggers : /\ JobOf[l] = j
                              /\ Holding(l) \/ pc[l] \in {"setctx", "setid", "setparam", "set"}
<1>1. ASSUME Facts, SerialInv, [Next]_vars PROVE Quiet
  <2> SUFFICES ASSUME NEW l \in Triggers, beat.reply = "reading", beat'.reply = "idle",
                      beat.job = JobOf[l]
               PROVE  ~Holding(l) /\ pc[l] \notin {"setctx", "setid", "setparam", "set"}
    OBVIOUS
  <2>1. mu = Beat /\ runList[JobOf[l]] = None
    BY <1>1, BeatAnswers
  <2>2. pc[l] \notin {"setctx", "setid", "setparam", "set"}
    BY <1>1, <2>1, NoneAssumption DEF Facts, MutexHeld, Inside
  <2>3. ~Holding(l)
    BY <1>1, <2>1 DEF Facts, TypeInv, TaskReady, GoReady, SerialInv, RunningIsListed, Holding
  <2> QED BY <2>2, <2>3
<1>2. Facts /\ SerialInv /\ [Next]_vars => [Quiet]_vars
  BY <1>1
<1> QED BY <1>2, SerialAlways, PTL DEF Spec, IdleIsIdle

-----------------------------------------------------------------------------
(* Part 5. Under the same conditions the executor implements SerialSlots.   *)

SlotsNext == Slots!Next \/ UNCHANGED <<phaseBar, registeredBar>>

\* A handler that has a task keeps having one, past the lookup too.
Registered == \A l \in Triggers :
  pc[l] \in {"setid", "setparam", "set"} => regList[HandlerOf[l]] # None

LEMMA RegisteredStep == TypeInv /\ Registered /\ [Next]_vars => Registered'
<1> SUFFICES ASSUME TypeInv, Registered, [Next]_vars PROVE Registered'
  OBVIOUS
<1> USE TriggersAssumption, NoneAssumption
<1> USE DEF taskVars, runVars, killVars, goVars
<1> USE DEF Registered, TypeInv, TypeOK, HandlerKnown
<1>1. CASE UNCHANGED vars
  BY <1>1 DEF vars, Registered
<1>2. ASSUME NEW h \in Handlers, NEW o \in TaskObjs, RegTask(h, o) PROVE Registered'
  BY <1>2 DEF RegTask
<1>3. ASSUME NEW l \in Triggers, RunLookup(l) PROVE Registered'
  BY <1>3 DEF RunLookup, RunStep
<1>4. ASSUME NEW l \in Triggers, RunLock(l) PROVE Registered'
  BY <1>4 DEF RunLock, RunStep
<1>5. ASSUME NEW l \in Triggers, RunTake(l) PROVE Registered'
  BY <1>5 DEF RunTake, RunStep
<1>6. ASSUME NEW l \in Triggers, RunBusy(l) PROVE Registered'
  BY <1>6 DEF RunBusy, RunStep
<1>7. ASSUME NEW l \in Triggers, RunCover(l) PROVE Registered'
  BY <1>7 DEF RunCover, RunStep
<1>8. ASSUME NEW l \in Triggers, RunCoverDel(l) PROVE Registered'
  BY <1>8 DEF RunCoverDel, RunStep
<1>9. ASSUME NEW l \in Triggers, RunSetCtx(l) PROVE Registered'
  BY <1>9 DEF RunSetCtx, RunStep
<1>10. ASSUME NEW l \in Triggers, RunSetId(l) PROVE Registered'
  BY <1>10 DEF RunSetId, RunStep
<1>11. ASSUME NEW l \in Triggers, RunSetParam(l) PROVE Registered'
  BY <1>11 DEF RunSetParam, RunStep
<1>12. ASSUME NEW l \in Triggers, RunSet(l) PROVE Registered'
  BY <1>12 DEF RunSet, RunStep
<1>13. ASSUME NEW l \in Triggers, RunGo(l) PROVE Registered'
  BY <1>13 DEF RunGo
<1>14. ASSUME NEW k \in Kills, KillExists(k) PROVE Registered'
  BY <1>14 DEF KillExists, KillStep
<1>15. ASSUME NEW k \in Kills, KillGet(k) PROVE Registered'
  BY <1>15 DEF KillGet, KillStep
<1>16. ASSUME NEW k \in Kills, KillCancel(k) PROVE Registered'
  BY <1>16 DEF KillCancel, KillStep
<1>17. ASSUME NEW k \in Kills, KillDel(k) PROVE Registered'
  BY <1>17 DEF KillDel, KillStep
<1>18. ASSUME NEW j \in BeatJobs, BeatLock(j) PROVE Registered'
  BY <1>18 DEF BeatLock
<1>19. ASSUME BeatRead PROVE Registered'
  BY <1>19 DEF BeatRead
<1>20. ASSUME NEW l \in Triggers, Begin(l) PROVE Registered'
  BY <1>20 DEF Begin, GoStep
<1>21. ASSUME NEW l \in Triggers, ReadCtx(l) PROVE Registered'
  BY <1>21 DEF ReadCtx, GoStep
<1>22. ASSUME NEW l \in Triggers, CallFn(l) PROVE Registered'
  BY <1>22 DEF CallFn, GoStep
<1>23. ASSUME NEW l \in Triggers, NEW out \in Outcomes, FnReturn(l, out) PROVE Registered'
  BY <1>23 DEF FnReturn, GoStep
<1>24. ASSUME NEW l \in Triggers, CbId(l) PROVE Registered'
  BY <1>24 DEF CbId, GoStep
<1>25. ASSUME NEW l \in Triggers, CbDel(l) PROVE Registered'
  BY <1>25 DEF CbDel, GoStep
<1>26. ASSUME NEW l \in Triggers, CbParam(l) PROVE Registered'
  BY <1>26 DEF CbParam, GoStep
<1>27. ASSUME NEW l \in Triggers, PostOk(l) PROVE Registered'
  BY <1>27 DEF PostOk, GoStep
<1>28. ASSUME NEW l \in Triggers, PostFail(l) PROVE Registered'
  BY <1>28 DEF PostFail, GoStep, AfterCallback
<1>29. ASSUME NEW l \in Triggers, PostDone(l) PROVE Registered'
  BY <1>29 DEF PostDone, GoStep, AfterCallback
<1>30. ASSUME NEW l \in Triggers, DeferredCancel(l) PROVE Registered'
  BY <1>30 DEF DeferredCancel, GoStep
<1>31. ASSUME NEW l \in Triggers, Expire(l) PROVE Registered'
  BY <1>31 DEF Expire
<1>32. ASSUME MapRace PROVE Registered'
  BY <1>32 DEF MapRace
<1> QED
  BY <1>1, <1>2, <1>3, <1>4, <1>5, <1>6, <1>7, <1>8, <1>9, <1>10, <1>11, <1>12, <1>13,
      <1>14, <1>15, <1>16, <1>17, <1>18, <1>19, <1>20, <1>21, <1>22, <1>23, <1>24, <1>25,
      <1>26, <1>27, <1>28, <1>29, <1>30, <1>31, <1>32 DEF Next, RunTask, KillTask,
      Goroutine, Terminated

\* The step takes l from one phase to another and changes nothing else of the abstract state.
Moves(l, from, to) ==
  /\ phaseBar[l] = from
  /\ phaseBar' = [phaseBar EXCEPT ![l] = to]
  /\ registeredBar' = registeredBar

LEMMA MoveIsSlotsMove == \A l, from, to : Moves(l, from, to) <=> Slots!Move(l, from, to)
  BY DEF Moves, Slots!Move

LEMMA HoldingIsRunning == ASSUME TypeInv, NEW l \in Triggers
                          PROVE  Holding(l) <=> phaseBar[l] = "running"
  BY DEF phaseBar, Holding, TypeInv, GoReady

\* A trigger crosses from one phase to the next, and only this trigger.
LEMMA Crossing ==
  ASSUME TypeInv, NEW l \in Triggers, NEW from, NEW to,
         phaseBar[l] = from, phaseBar'[l] = to, regList' = regList,
         \A m \in Triggers \ {l} : pc'[m] = pc[m] /\ gpc'[m] = gpc[m]
  PROVE  Moves(l, from, to)
<1>1. \A m \in Triggers \ {l} : phaseBar'[m] = phaseBar[m]
  BY DEF phaseBar, Holding
<1>2. phaseBar = [m \in Triggers |-> phaseBar[m]]
  BY DEF phaseBar
<1>3. phaseBar' = [m \in Triggers |-> phaseBar'[m]]
  BY DEF phaseBar
<1>4. phaseBar' = [phaseBar EXCEPT ![l] = to]
  BY <1>1, <1>2, <1>3
<1> QED BY <1>4 DEF Moves, registeredBar

LEMMA RunningIsHolding == ASSUME TypeInv, NEW l \in Triggers
                          PROVE  phaseBar[l] = "running" => Holding(l)
  BY HoldingIsRunning

Before == {"idle", "lock", "check", "cover", "coverdel", "setctx", "setid", "setparam",
"set"}
Current == {"spawned", "ctx", "param", "running", "cbid", "cbdel"}
After == {"cbparam", "post", "cancel", "done"}

\* Steps that cross no line between two phases are stutters: of runTask, ...
LEMMA QuietRun ==
  ASSUME TypeInv, NEW l \in Triggers, pc[l] \in Before, NEW to \in Before,
         pc' = [pc EXCEPT ![l] = to], gpc' = gpc, regList' = regList
  PROVE  SlotsNext
  BY DEF SlotsNext, registeredBar, phaseBar, Holding, TypeInv, TypeOK, GoReady, Before

\* ... of a goroutine, ...
LEMMA QuietGo ==
  ASSUME TypeInv, NEW l \in Triggers, NEW to,
         \/ gpc[l] \in Current /\ to \in Current
         \/ gpc[l] \in After /\ to \in After,
         gpc' = [gpc EXCEPT ![l] = to], pc' = pc, regList' = regList
  PROVE  SlotsNext
  BY DEF SlotsNext, registeredBar, phaseBar, Holding, TypeInv, TypeOK, GoReady, Current,
      After

\* ... and of everybody else.
LEMMA QuietElse == UNCHANGED <<pc, gpc, regList>> => SlotsNext
  BY DEF SlotsNext, registeredBar, phaseBar, Holding

LEMMA SlotsStep == ASSUME Serial, Facts, SerialInv, Registered, [Next]_vars PROVE SlotsNext
<1> USE TriggersAssumption, NoneAssumption, BeatAssumption
<1> USE DEF taskVars, runVars, killVars, goVars
<1>1. CASE UNCHANGED vars
  BY <1>1, QuietElse DEF vars
<1>2. ASSUME NEW h \in Handlers, NEW o \in TaskObjs, RegTask(h, o) PROVE SlotsNext
  <2>1. registeredBar' = registeredBar \union {h}
    BY <1>2, NoneAssumption DEF RegTask, registeredBar, Facts, TypeInv, TypeOK
  <2>2. phaseBar' = phaseBar
    BY <1>2 DEF RegTask, phaseBar, Holding
  <2> QED BY <2>1, <2>2 DEF SlotsNext, Slots!Next, Slots!Register
<1>3. ASSUME NEW l \in Triggers, RunLookup(l) PROVE SlotsNext
  <2>1. CASE regList[HandlerOf[l]] = None
    <3>1. Moves(l, "pending", "refused")
      <4>1. phaseBar[l] = "pending"
        BY <1>3, <2>1 DEF RunLookup, RunStep, phaseBar, Holding, Facts, TypeInv, TypeOK,
            GoReady
      <4>2. phaseBar'[l] = "refused"
        BY <1>3, <2>1 DEF RunLookup, RunStep, phaseBar, Holding, Facts, TypeInv, TypeOK,
            GoReady
      <4>3. regList' = regList /\ \A m \in Triggers \ {l} : pc'[m] = pc[m] /\ gpc'[m] = gpc[m]
        BY <1>3, <2>1 DEF RunLookup, RunStep, Facts, TypeInv, TypeOK, GoReady
      <4> QED BY <4>1, <4>2, <4>3, Crossing DEF Facts
    <3>2. HandlerOf[l] \notin registeredBar
      BY <2>1 DEF registeredBar
    <3> QED BY <3>1, <3>2, MoveIsSlotsMove DEF SlotsNext, Slots!Next, Slots!Refuse
  <2>2. CASE regList[HandlerOf[l]] # None
    BY <1>3, <2>2, QuietRun DEF RunLookup, RunStep, Facts, Before
  <2> QED BY <2>1, <2>2
<1>4. ASSUME NEW l \in Triggers, RunLock(l) PROVE SlotsNext
  BY <1>4, QuietRun DEF RunLock, RunStep, Facts, Before
<1>5. ASSUME NEW l \in Triggers, RunTake(l) PROVE SlotsNext
  BY <1>5, QuietRun DEF RunTake, RunStep, Facts, Before
<1>6. ASSUME NEW l \in Triggers, RunBusy(l) PROVE SlotsNext
  <2>1. pc[l] = "check" /\ pc' = [pc EXCEPT ![l] = "refused"]
    BY <1>6 DEF RunBusy, RunStep, Serial
  <2>2. Moves(l, "pending", "refused")
    <3>1. phaseBar[l] = "pending"
      BY <1>6, <2>1 DEF RunBusy, RunStep, phaseBar, Holding, Facts, TypeInv, TypeOK, GoReady
    <3>2. phaseBar'[l] = "refused"
      BY <1>6, <2>1 DEF RunBusy, RunStep, phaseBar, Holding, Facts, TypeInv, TypeOK, GoReady
    <3>3. regList' = regList /\ \A m \in Triggers \ {l} : pc'[m] = pc[m] /\ gpc'[m] = gpc[m]
      BY <1>6, <2>1 DEF RunBusy, RunStep, Facts, TypeInv, TypeOK, GoReady
    <3> QED BY <3>1, <3>2, <3>3, Crossing DEF Facts
  <2>3. PICK m \in Triggers : JobOf[m] = JobOf[l] /\ Holding(m)
    BY <1>6 DEF RunBusy, SerialInv, ListedIsRunning
  <2>4. phaseBar[m] = "running"
    BY <2>3, HoldingIsRunning DEF Facts
  <2> QED BY <2>2, <2>3, <2>4, MoveIsSlotsMove DEF SlotsNext, Slots!Next, Slots!Refuse,
      Slots!Busy
<1>7. ASSUME NEW l \in Triggers, RunCover(l) PROVE SlotsNext
  BY <1>7, QuietRun DEF RunCover, RunStep, Facts, Before
<1>8. ASSUME NEW l \in Triggers, RunCoverDel(l) PROVE SlotsNext
  BY <1>8, QuietRun DEF RunCoverDel, RunStep, Facts, Before
<1>9. ASSUME NEW l \in Triggers, RunSetCtx(l) PROVE SlotsNext
  BY <1>9, QuietRun DEF RunSetCtx, RunStep, Facts, Before
<1>10. ASSUME NEW l \in Triggers, RunSetId(l) PROVE SlotsNext
  BY <1>10, QuietRun DEF RunSetId, RunStep, Facts, Before
<1>11. ASSUME NEW l \in Triggers, RunSetParam(l) PROVE SlotsNext
  BY <1>11, QuietRun DEF RunSetParam, RunStep, Facts, Before
<1>12. ASSUME NEW l \in Triggers, RunSet(l) PROVE SlotsNext
  <2>1. Moves(l, "pending", "running")
    <3>1. phaseBar[l] = "pending"
      BY <1>12 DEF RunSet, RunStep, phaseBar, Holding, Facts, TypeInv, TypeOK, GoReady
    <3>2. phaseBar'[l] = "running"
      BY <1>12 DEF RunSet, RunStep, phaseBar, Holding, Facts, TypeInv, TypeOK, GoReady
    <3>3. regList' = regList /\ \A m \in Triggers \ {l} : pc'[m] = pc[m] /\ gpc'[m] = gpc[m]
      BY <1>12 DEF RunSet, RunStep, Facts, TypeInv, TypeOK, GoReady
    <3> QED BY <3>1, <3>2, <3>3, Crossing DEF Facts
  <2>2. \A m \in Triggers : JobOf[m] = JobOf[l] => ~Holding(m)
    BY <1>12 DEF RunSet, RunStep, Facts, SlotStaysFree, SerialInv, RunningIsListed,
        TypeInv, TaskReady, GoReady, Holding
  <2>3. ~Slots!Busy(l)
    BY <2>2, RunningIsHolding DEF Slots!Busy, Facts
  <2>4. HandlerOf[l] \in registeredBar
    BY <1>12 DEF RunSet, RunStep, Registered, registeredBar
  <2> QED BY <2>1, <2>3, <2>4, MoveIsSlotsMove DEF SlotsNext, Slots!Next, Slots!Start
<1>13. ASSUME NEW l \in Triggers, RunGo(l) PROVE SlotsNext
  <2>1. phaseBar' = phaseBar
    BY <1>13 DEF RunGo, phaseBar, Holding, Facts, TypeInv, TypeOK, GoReady
  <2> QED BY <1>13, <2>1 DEF RunGo, SlotsNext, registeredBar
<1>14. ASSUME NEW k \in Kills, KillExists(k) PROVE SlotsNext
  BY <1>14, QuietElse DEF KillExists, KillStep
<1>15. ASSUME NEW k \in Kills, KillGet(k) PROVE SlotsNext
  BY <1>15, QuietElse DEF KillGet, KillStep
<1>16. ASSUME NEW k \in Kills, KillCancel(k) PROVE SlotsNext
  BY <1>16, QuietElse DEF KillCancel, KillStep
<1>17. ASSUME NEW k \in Kills, KillDel(k) PROVE SlotsNext
  BY <1>17, QuietElse DEF KillDel, KillStep
<1>18. ASSUME NEW j \in BeatJobs, BeatLock(j) PROVE SlotsNext
  BY <1>18, QuietElse DEF BeatLock
<1>19. ASSUME BeatRead PROVE SlotsNext
  BY <1>19, QuietElse DEF BeatRead
<1>20. ASSUME NEW l \in Triggers, Begin(l) PROVE SlotsNext
  BY <1>20, QuietGo DEF Begin, GoStep, Facts, Current, After
<1>21. ASSUME NEW l \in Triggers, ReadCtx(l) PROVE SlotsNext
  BY <1>21, QuietGo DEF ReadCtx, GoStep, Facts, Current, After
<1>22. ASSUME NEW l \in Triggers, CallFn(l) PROVE SlotsNext
  BY <1>22, QuietGo DEF CallFn, GoStep, Facts, Current, After
<1>23. ASSUME NEW l \in Triggers, NEW out \in Outcomes, FnReturn(l, out) PROVE SlotsNext
  BY <1>23, QuietGo DEF FnReturn, GoStep, Facts, Current, After
<1>24. ASSUME NEW l \in Triggers, CbId(l) PROVE SlotsNext
  BY <1>24, QuietGo DEF CbId, GoStep, Facts, Current, After
<1>25. ASSUME NEW l \in Triggers, CbDel(l) PROVE SlotsNext
  <2>1. Moves(l, "running", "finished")
    <3>1. phaseBar[l] = "running"
      BY <1>25 DEF CbDel, GoStep, phaseBar, Holding, Facts, TypeInv, TypeOK, GoReady
    <3>2. phaseBar'[l] = "finished"
      BY <1>25 DEF CbDel, GoStep, phaseBar, Holding, Facts, TypeInv, TypeOK, GoReady
    <3>3. regList' = regList /\ \A m \in Triggers \ {l} : pc'[m] = pc[m] /\ gpc'[m] = gpc[m]
      BY <1>25 DEF CbDel, GoStep, Facts, TypeInv, TypeOK, GoReady
    <3> QED BY <3>1, <3>2, <3>3, Crossing DEF Facts
  <2> QED BY <2>1, MoveIsSlotsMove DEF SlotsNext, Slots!Next, Slots!Finish
<1>26. ASSUME NEW l \in Triggers, CbParam(l) PROVE SlotsNext
  BY <1>26, QuietGo DEF CbParam, GoStep, Facts, Current, After
<1>27. ASSUME NEW l \in Triggers, PostOk(l) PROVE SlotsNext
  BY <1>27, QuietGo DEF PostOk, GoStep, Facts, Current, After
<1>28. ASSUME NEW l \in Triggers, PostFail(l) PROVE SlotsNext
  BY <1>28, QuietGo DEF PostFail, GoStep, AfterCallback, Facts, Current, After
<1>29. ASSUME NEW l \in Triggers, PostDone(l) PROVE SlotsNext
  BY <1>29, QuietGo DEF PostDone, GoStep, AfterCallback, Facts, Current, After
<1>30. ASSUME NEW l \in Triggers, DeferredCancel(l) PROVE SlotsNext
  BY <1>30, QuietGo DEF DeferredCancel, GoStep, Facts, Current, After
<1>31. ASSUME NEW l \in Triggers, Expire(l) PROVE SlotsNext
  BY <1>31, QuietElse DEF Expire
<1>32. ASSUME MapRace PROVE SlotsNext
  BY <1>32, QuietElse DEF MapRace
<1> QED
  BY <1>1, <1>2, <1>3, <1>4, <1>5, <1>6, <1>7, <1>8, <1>9, <1>10, <1>11, <1>12, <1>13,
      <1>14, <1>15, <1>16, <1>17, <1>18, <1>19, <1>20, <1>21, <1>22, <1>23, <1>24, <1>25,
      <1>26, <1>27, <1>28, <1>29, <1>30, <1>31, <1>32 DEF Next, RunTask, KillTask,
      Goroutine, Terminated

\* The executor implements SerialSlots: every step of it is a step of the scheduler's
\* view of the slots, or none.
THEOREM ExecutorImplementsSlots == ASSUME Serial PROVE Spec => ImplementsSlots
<1>1. Init => Slots!Init
  BY DEF Init, Slots!Init, phaseBar, registeredBar, Holding
<1>2. Init => Registered
  BY DEF Init, Registered
<1>3. Facts => TypeInv
  BY DEF Facts
<1>4. Facts /\ SerialInv /\ Registered /\ [Next]_vars => [Slots!Next]_<<phaseBar,
registeredBar>>
  BY SlotsStep DEF SlotsNext
<1>5. Spec => [](Facts /\ SerialInv)
  BY SerialAlways
<1>6. Spec => []Registered
  BY <1>2, <1>3, <1>5, RegisteredStep, PTL DEF Spec
<1>7. Spec => Slots!Init /\ [][Slots!Next]_<<phaseBar, registeredBar>>
  BY <1>1, <1>4, <1>5, <1>6, PTL DEF Spec
<1> QED BY <1>7 DEF ImplementsSlots, Slots!Spec, Slots!vars

=============================================================================

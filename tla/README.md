# A TLA+ model of gcloud-plugins

gcloud-plugins is a set of Go plugins for a micro-service framework: an XXL-JOB executor, message
queue clients for Pulsar and NATS, Nacos configuration and naming, and HTTP clients and servers on
fasthttp, Fiber and Hertz.  This directory holds TLA+ modules of the parts with state and
concurrency of their own, TLC configurations that check them on small instances, and proofs, checked
by TLAPS, of what holds for every instance.  `PROJECT.json` lists the components, runs, hazards and
theorems, and maps every definition to the lines of `src/` it stands for.

- [1. The system](#1-the-system)
- [2. The modules and the code](#2-the-modules-and-the-code)
- [3. The runs](#3-the-runs)
- [4. Fairness](#4-fairness)
- [5. What is proved](#5-what-is-proved)
- [6. What only TLC checks](#6-what-only-tlc-checks)
- [7. Where the code and its comments differ](#7-where-the-code-and-its-comments-differ)
- [8. What is not modelled](#8-what-is-not-modelled)
- [9. Plan](#9-plan)

To repeat the checks: `tlc -workers 2 -config Serial.cfg MCTaskExecutor`, and so on with the module
and configuration of a run; `tlapm TaskExecutorProofs.tla` for a module of proofs.

## 1. The system

### XXL-JOB executor (`job/gxxljob`)

*State.*  `Executor.regList` (handler name to `*Task`), `Executor.runList` (job id to `*Task`), the
mutex `Executor.mu`, and in each `*Task` its `Id`, `Ctx`, `Cancel`, `Param` and `fn`; the timer of the
registration loop.

*Operations.*  `RegTask`; the HTTP handlers `beat`, `idleBeat`, `run`, `kill` and `log`; the
goroutine of a run (`Task.Run`, then `Executor.callback`); `registry`'s loop and `registryRemove`.

*Interaction.*  The admin posts requests, each served in a goroutine of net/http; a run reports to
the admins with `post`; the loop posts a heartbeat to each admin, each in a goroutine.

*What is hard.*  A `*Task` belongs to a handler, not to a trigger: `runTask` writes the trigger's data
into the object all triggers of the handler share, and the goroutine and the callback read it later.
`runTask` and `idleBeat` take `mu`; `killTask` and `callback` do not.  `taskList` locks its writes and
not its reads.  Heartbeats are neither waited for nor cancelled.

*What makes it correct.*  Under SERIAL_EXECUTION a job has one run at a time, each run gets its own
request and context, is reported to every admin under its own log id, and frees its slot, and no
other; `idleBeat` says idle only when it is; a live admin keeps listing the executor while it runs,
and stops after `Stop`.

### Pulsar client (`mq/pulsar`)

*State.*  The package variable `pulsarClient` with its `sync.Once`, the map `producers` with the mutex
`mt`; per subscription the SDK's consumer and its channel.

*Operations.*  `NewClient`, `Send`, `SendAsync`, `Subscribe`, `consume` for each delivery, `Close`.

*What is hard.*  The fast path of `getProducer` and of `NewClient` reads without the lock.  A failed
creation is stored in the cache like a successful one.  A `sync.Once` whose function panics is done.
Redeliveries come from negative acknowledgements, lost connections and restarts, and
`RedeliveryCount` does not tell which.  A listener that panics leaves its delivery unanswered.

*What makes it correct.*  One client, one producer per topic, senders use the producer of the cache;
every call returns; a message is retried no more than `RetryTimes` allows, leaves the subscription
only when a listener has accepted it or there is no retry left, and does leave it in the end.

### NATS client (`mq/gnats`)

*State.*  The package variable `conn`; per subscription up to four pull loops, each with a pool of
`2 * PullBatchSize` workers.

*Operations.*  `NewConnection`, `Send`, `SendAsync`, `Subscribe`, `pullSubscribe` or `pushSubscribe`,
`consume` for each delivery, `Close`.

*What is hard.*  A fetched message waits for its pool while the server's AckWait runs, and may be
delivered again, to another loop, while the first delivery is still under way: two answers for one
message may cross, and one may come after the message is settled.  `NumDelivered` starts at 1 where
Pulsar's count starts at 0.  `FetchBatch`'s error is dropped.

*What makes it correct.*  As for Pulsar, with deliveries in place of retries, and no more copies of a
message than failures explain.

### Nacos (`nacos`)

The configuration centre keeps a package variable `config` (a viper instance), filled by `Read` and
replaced by `OnChange`, which the SDK calls from a goroutine of its own; getters, `Set` and
`SetBaseConfig` use whatever instance they find.  The naming registry, `nacosRegistry`, registers and
removes the instance of the process and passes changes of other services' instances on, as
`RegistryChangeEvent`s which gcloud's load balancer lives on.  `clients.go` only converts options.
*Hard:* the order of Read, event and Watch, what `Set` wrote before a replacement, late callbacks after
`Shutdown`; a callback that does not look at its error, a removal whose error is dropped.  *What makes
it correct:* a getter never finds an instance still to be read, the version in use is the latest and
does not go back; a process that has ended, in whatever way, leaves the lists of its clients.

### HTTP clients (`http/client`)

`FastHttpClient.Exec` and its Hertz twin borrow request and response objects from pools and return
them in deferred calls; `CheckRetry` decides on connection errors.  *Hard:* a body that outlives the
response it belongs to, a recovered panic that looks like a success, a repetition of what a server has
done.  *What makes them correct:* what a call returns is its own answer, and what may have been
processed is not sent again.

### HTTP servers and middlewares (`http/server`)

*State.*  The engine with its pooled request objects, the listener, the channel of signals, Hertz'
`OnShutdown` hooks; per request its object, its response and, once it is answered, its log line in a
goroutine of the worker pool.

*Operations.*  `NewServer`, `Run`, `Shutdown`, `grace`; `TraceMiddleware`, `LoggingMiddleware`,
`requestEnd`, the recovery handlers and Fiber's `ErrorHandler`.

*Interaction.*  The application registers itself with the naming registry and gives `Run` functions to
call in the end, one of which is the registry's `Shutdown`.

*What is hard.*  A signal may come at any time, also before the listener is open; the shutdown has a
limit; Hertz' hook calls `Shutdown` of the engine that is calling it, beside the shutdown itself, which
waits for it only so long.  What a handler reads in an object belongs to a later request when a
goroutine uses it.  The order of recovery, logging and the `ErrorHandler` decides what the log says.

*What makes them correct.*  The functions run once, after the requests, and are done when `Run` is; a
signal does end the process; a log line tells of one request and the answer it got.

## 2. The modules and the code

| Module | Models | Extends or uses |
|---|---|---|
| `TaskExecutor` | runs, kills, probes and callbacks of the executor | |
| `SerialSlots` | what the executor promises the scheduler, in two variables | |
| `MCTaskExecutor` | instances of `TaskExecutor` for TLC | `TaskExecutor` |
| `TaskExecutorProofs` | theorems | `TaskExecutor`, `SerialSlots` |
| `TaskExecutorJobProofs` | theorems on kills, covers, shared handlers and repeated triggers | `TaskExecutorProofs` |
| `ExecutorRegistry` | the heartbeat loop and `Stop` | |
| `ExecutorRegistryProofs` | theorems | `ExecutorRegistry` |
| `MessageQueue` | what both message clients promise an application, in three variables | |
| `PulsarClient` | the Pulsar client, the broker as the code uses it | `MessageQueue` |
| `MCPulsarClient` | an instance for TLC | `PulsarClient` |
| `PulsarClientProofs` | theorems | `PulsarClient` |
| `NatsClient` | the NATS client, JetStream as the code uses it | `MessageQueue` |
| `MCNatsClient` | an instance for TLC | `NatsClient` |
| `NatsClientProofs` | theorems | `NatsClient` |
| `NacosConfig` | the configuration centre, the server and the SDK as the code uses them | |
| `MCNacosConfig` | an instance for TLC | `NacosConfig` |
| `NacosConfigProofs` | theorems | `NacosConfig` |
| `HttpExec` | calls of the HTTP clients, the load balancer as it uses them | |
| `MCHttpExec` | an instance for TLC | `HttpExec` |
| `HttpExecProofs` | theorems | `HttpExec` |
| `NamingRegistry` | registration, removal and subscription, the naming server as the code uses it | |
| `ServerChain` | a request's way through the handlers of either server | |
| `HttpServer` | the life of a server process: `Run`, signals, shutdown, the given functions | `ServerChain`, `NamingRegistry` |
| `HttpServerProofs` | theorems | `HttpServer` |

Operators named `X_Y` after an action `X` and marked "Mutant" are variants of it with a plausible bug.
They take part in no specification; each property is shown to fail when one of them takes `X`'s place.

### TaskExecutor

A trigger is a `RunRequest`, named by its log id; `TaskObjs` are the objects `RegTask` makes.  `pc`,
`kpc` and `gpc` are the program counters of `runTask`, of `killTask` and of a run's goroutine, each
action going from one access to shared state to the next.  `mu` is `Executor.mu`; `runList`,
`regList`, `idOf`, `ctxOf` and `paramOf` are the lists and the fields of the tasks.

| Code | Actions |
|---|---|
| `RegTask` | `RegTask` |
| `runTask`: `regList.Exists`; Lock; `runList.Exists` | `RunLookup`; `RunLock`; `RunTake` or `RunBusy` |
| its COVER_EARLY branch: Get and Cancel; Del | `RunCover`; `RunCoverDel` |
| Get, Ctx, Cancel; Id; Param; `runList.Set`; `go task.Run`, Unlock | `RunSetCtx`, `RunSetId`, `RunSetParam`, `RunSet`, `RunGo` |
| `killTask`: Exists; Get; Cancel; Del | `KillExists`, `KillGet`, `KillCancel`, `KillDel` |
| `idleBeat` | `BeatLock`, `BeatRead` |
| `Task.Run`: the deferred call's argument; `t.fn(t.Ctx, t.Param)`; its return | `Begin`, `ReadCtx`, `CallFn`, `FnReturn` |
| `callback`: `task.Id`; Del; `task.Param`; the loop of posts | `CbId`, `CbDel`, `CbParam`, `PostOk`, `PostFail`, `PostDone` |
| the deferred `cancel()` after a panic | `DeferredCancel` |
| `context.WithTimeout`'s timer | `Expire` |
| an unlocked read of a map that meets a write | `MapRace`: the Go runtime may stop the process |

`Ctx` and `Cancel` are written one after the other and stand for the trigger that made them; they are
one variable, as no property tells a read between the two from one beside it.  A read of a `string` or
an interface field that meets a write is taken as a read of the old or of the new value.  `cancels`
and `reports` are histories.

### ExecutorRegistry

Time is counted in ticks.  `Beat` is the body of `registry`'s loop: the timer fires, is set again, and
every admin is posted to by a goroutine of its own; `beats` and `removes` hold the ages of the posts
under way.  A post ends, well (`BeatOk`, `RemoveOk`) or not (`BeatLost`, `RemoveLost`), within
`Timeout`, the limit of `httpClient`.  `Exit` ends the process at any time.  How long an admin lists
an executor (`TTL`) is the admin's affair and external.

### MessageQueue

Three variables per message: what its `Send` has reported, whether it is stored or settled, and whether
a listener has judged it, that is accepted it, or refused it with no retry left.  A message reported as
sent is stored, one sent asynchronously perhaps later or never; it leaves only when it is judged, and
never comes back.  `PulsarClient` and `NatsClient` implement it (`ImplementsQueue`), with retries,
redeliveries, lost answers, lost connections and restarts as stuttering.

### PulsarClient

A caller of `Send` or `SendAsync` is named by its message.  `NewCheck`, `OnceEnter` and `Connect` are
`NewClient`; `GetCached`, `Lock`, `Recheck`, `Create` and `Store` are `getProducer`, line by line;
`Send`, `SendAsync` and `SentAsync` are what follows.  `Dispatch` is a delivery, from the channel to
the start of the listener in a goroutine; `Ack`, `Nack` and `Panicked` are the three ends of
`consume`.  A listener's return and the answer to the broker are one action: nothing else can see the
state between them but a crash, which `Restart` before the action and the loss of the answer after it
cover.  External, as the code uses them: the broker delivers what is not acknowledged, raises
`RedeliveryCount` when it delivers again, after a Nack or a lost connection, and has no
acknowledgement timeout, for none is set.

### NatsClient

`Subscribe` is `doSubscribe` up to the start of the loops; `Bind`, `Fetch`, `FetchFails` and `Execute`
are `pullSubscribe`; `Deliver` is a message that comes into a batch.  If the consumer has a
DeliverGroup the server pushes: one loop, `pushSubscribe`, whose channel takes the batch's place
(`waiting`, with room for `ChannelSize`) and whose `go` statement is an `Execute` that waits for no
worker.  `Ack`, `Nak` and `Panicked` are the ends of `consume`.  A delivery is the message with its
`NumDelivered`.  External: JetStream stores a published message, counts its deliveries, delivers it
again when AckWait is over (`Late` while an answer may still come, `Lapse` when none will) or when the
delay of a negative answer is over (`NakDue`); an acknowledgement of any delivery settles the message;
`FetchBatch` may return nil with its error; the worker pool, of another module, waits for a free
worker.

### NacosConfig

A version of the file is a number.  Viper instances are named after what makes them: `First` is
`CreateInstance`'s, `v` that of the call of `OnChange` for version `v`; `content` is the version an
instance holds and `config` the global pointer.  `Create`, `ReadFetch`, `ReadParse`, `EmitFirst` and
`Watch` are the phases of `CreateInstance` (`pc`); `Parse`, `Store` and `Emit` the three of `OnChange`
(`opc`).  `SetLoad` and `SetWrite`, `GetLoad` and `GetRead` are a setter and a getter, which load
`config` and then use it.  External: `Publish`, and the SDK, which compares what it knows with the
server's version and calls `OnChange` in a goroutine of its own (`Notify`), so that two calls may
overlap; the history `overlapped` says whether they have.  `MapRace` is a write to the maps of an
instance that meets a read, which may stop the process.

### HttpExec

A call is one use of the load balancer, which calls `Exec` until it is done, or one `Proxy`.
`Acquire`, `EmptyUrl`, `Answered` or `Failed`, `Copy` and `Leave` follow `Exec` in both clients (they
are the same up to the frameworks' names), `ProxyCopy` stands in `Copy`'s place for `Proxy`, and
`Panicked` is the recovered panic between any two lines of them.  `Fills` is what `Do` reads into the
buffer of the pooled object, an answer or, if it fails, perhaps a part of one; `Copy` copies headers
and cookies and leaves in `result[c].body` the object, as `r.Body = response.Body()` does; `Leave` is
the deferred release.  The clients differ in what they make of a status (`HertzStatusErr`,
`FastStatusErr`) and in `CheckRetry`.  `ReadBody` is `ProxyService`, or an application, using the body
after `Exec` has returned.  External: the pools, which hand out any free object, and the load
balancer, which repeats a call when `CheckRetry` says so. `served`, `away` and `stale` are histories.

### NamingRegistry

One instance, that of the process, and one subscriber in another process.  `listed` is the naming
server's, `known` what the subscriber's SDK has been pushed, `told` whether its callback was called for
that, and `routed` whether the last `RegistryChangeEvent` had the instance.  `RegisterInstance`,
`Degister` (which may fail; `Shutdown` drops the error), `Subscribe` and `Callback` are the code;
`Push` and `Expire`, which drops an ephemeral instance whose process is gone, are the server's.  A
callback that comes with an error has no list, and emits an empty one.

### ServerChain

A request gets a pooled object (`ctx`), whose buffers hold its bytes (`text`) until the framework reads
another request into them (`Accept`).  `FiberHandle` and `HertzHandle` run the chain: the handler ends
well, with an error (Fiber) or with a panic; what it means for the log line is `FiberLine` and
`HertzLine`, for the answer `FiberAnswers` and `HertzAnswer`.  With Fiber the recovery stands above
trace and logging, so that a panic leaves no line, and the `ErrorHandler` comes last, so that the line
does not see its answer; with Hertz the recovery is the innermost.  The steps of one chain are one
action, as the object is the request's own until the end; `RequestEnd` is `requestEnd` in its
goroutine.  A field of a line is the request whose bytes it is a copy of, or the object whose bytes it
lies on: Fiber's `ctx.Get` returns a string of the second kind, and the trace id of a header goes into
the line like that.

### HttpServer

| Code | Actions |
|---|---|
| the application: `RegisterInstance`, then `Run` | `Register`, `RegisterPanics`; `FiberRun`, `HertzRun` |
| the listener: Fiber's goroutine, Hertz' Spin | `Listen`, `ListenFails` |
| `<-quit`, `waitSignal` | `Signal`, `FiberStop`, `HertzStop`, `HertzExit` |
| Fiber: `ShutdownWithTimeout`; `grace`; the end of `Run` | `FiberStop`, `FiberDrained` or `FiberLimit`; `FiberCall`; `FiberEnd` |
| Hertz: the hook's `grace`, its `Shutdown` and goroutines; `wg.Wait` | `HookGrace`; `HookDone` |
| Hertz: Spin's shutdown, within the exit limit or not | `HertzEnd`, `HertzLimit` |
| a given function | `Return`, which for the registry's is `Degister`; `FuncPanics` |

`Serve` is a request accepted or handled while the process lives, `Naming` the naming server and the
subscriber, which live on.  External, as the code uses them: Fiber's `ShutdownWithTimeout` closes the
listener that is open and waits for requests up to its limit; Hertz' Spin calls `Shutdown`, which does
nothing unless the engine runs and else closes the listener, starts the hooks and waits for them up to
the exit limit; a second `Shutdown`, from within the hook, finds that the engine does not run any
more.  The process is taken to end with `Run`.

## 3. The runs

| Run | Instance | Shows |
|---|---|---|
| `shared` | two triggers of one job, the second covers; one kill; a re-registration; two admins | types; a listed task has its CancelFunc; no slot is overwritten; the slot of an accepted trigger is freed; its run is reported to every admin |
| `serial` | three triggers of two jobs with a handler each; panics, a time limit, a failing admin, a re-registration, probes | own request; `runList` exact; idle is idle; `SerialSlots` is implemented, so execution is serial |
| `late_param` | as `serial`, nothing fails | a violation: a report under another run's log id |
| `shared_slot` | two jobs that share a handler | a violation: a slot without a run, for ever |
| `first_admin_down` | one trigger, two admins, the first fails | a violation: the second is not told |
| `registry` | a live and a dead admin; a beat every 2 ticks, posts of up to 3, one lost in a row | the registration does not expire; posts do not pile up; a live admin lists the executor |
| `stop_and_stay` | the same | a violation: listed again after `Stop` |
| `pulsar` | two callers of a topic, one asynchronous; a subscriber; one retry; one connection lost or restart | one client and producer; senders use the cache; retries bounded; `MessageQueue` is implemented; sent is settled; calls return |
| `nats` | two messages, one asynchronous; two pull loops of batch 1, or a push loop with a channel of 1; two deliveries; one fault | deliveries bounded; no more copies than faults; `MessageQueue` is implemented; sent is settled |
| `nacos` | four versions, one unreadable and one empty; a `Set`, a `SetBaseConfig`, a reader | no getter finds an instance to be read; who reads after an event finds its version; versions do not go back without overlaps; the latest readable version comes into use |
| `http` | a proxied Hertz call, a fasthttp call, a `Proxy`; two objects for the latter two; one repetition | copies are own; bodies are own or taken again; processed requests are not repeated |
| `server` | either server; two requests and two objects; two functions, one the registry's; a signal, a kill, a failed Listen or a panic at any time; a callback with an error | functions run once and in order, and after the requests; `Run` leaves nothing behind; log lines are true; a signal ends the process; clients stop routing to it |

Why the bounds are enough.  *Executor:* every interference in the code is between two runs of one
object or one slot, or a run and a kill or a probe; two triggers and one kill have all interleavings
of it, and the third trigger of `serial` shows that other jobs are left alone.  A second object gives
the re-registration.  The safety results of these runs are proved without bounds (section 5).
*Registry:* in the run a post may outlast an interval, unlike with the code's 20 s and 10 s, so that
posts overlap and arrive out of order.  *Pulsar and NATS:* two callers race in every order through the
cache; one message is sent with each kind of Send; a limit of one retry has a delivery that may be
retried and one that may not; one fault at each point, with the deliveries it adds, is enough for an
answer to be lost, late or doubled.  NATS batches of one message give pools of two: loops wait for the
server, and a push loop finds its channel full; that `Execute` waits for the pool is in the model but
bites only in larger instances. *Nacos:* a version may be read, skipped, refused or overtaken, which
four show in every order with `CreateInstance` and with each other.  *HTTP:* an object passes from one
call to another and back, each in every state; a repetition follows an attempt of any outcome.  The
pools have two objects for two calls, so that a call also finds the one just released; safety is
proved for any number.  *Server:* two requests overlap on two objects, or follow each other on
one, so that it is reused under a line still to be written; one has a trace id in its header, and each
may be logged or not; two functions have an order and a first and a last; the registry's is one of
them.

Deadlock is checked in the executor and registry runs.  In `pulsar`, `nats` and `nacos` a process that
has ended, or has nothing more to receive, really stops; there the liveness properties say that nothing
is left waiting.  In `http` calls that have returned stop, and in `server` a process that has ended.

## 4. Fairness

*TaskExecutor.*  A handler that has begun, and a goroutine, go on (weak fairness; the Go scheduler is
preemptive).  A handler that waits for `mu` gets it although others keep taking it (strong fairness of
`RunLock`; `sync.Mutex` hands itself over to a waiter after a millisecond).  This includes that a
`TaskFunc` returns, which is the application's part, and that a post ends, which `httpClient`'s limit
of 10 s gives.  Nothing is assumed of the requests: the admin may send none, nor of the process:
properties hold up to its end.

*ExecutorRegistry.*  Time passes, a due beat is posted, a post under way ends.

*PulsarClient and NatsClient.*  One weak fairness condition on `Progress`: the subscriber subscribes,
calls that have begun go on, a listener returns, broker and SDK do their part.  Each does so by
itself.  One condition for all of them is enough since no behaviour repeats a step for ever: messages
are sent once, deliveries and faults are bounded, so a behaviour in which some part of `Progress` stays
enabled and never happens would run out of the others.  Faults, new calls and restarts are not in
`Progress`: nothing is owed to them.

*NacosConfig.*  The SDK goes on notifying a listener that does not have the server's version, and a
call of `OnChange` that has begun goes on.  Nothing is assumed of `CreateInstance`, of the application
or of the server.

*HttpServer.*  Weak fairness for the steps of `Run`, `grace` and the frameworks after a signal, their
time limits among them, and for the naming server's pushes, callbacks and expiry.  Nothing is assumed
of handlers and given functions, which may never return: `RunEnds` says that Fiber then waits for a
function, and that nothing else is waited for.

*HttpExec* states no liveness and assumes no fairness.

## 5. What is proved

All theorems are of `Spec`, without fairness, for every value of the constants that satisfies the
modules' named assumptions.

### Executor

1. `TypeCorrect`, `ListedHasCancelFunc`.  `TypeOK` alone is not inductive: a step writes into
   `task[l]`, so one has to know that it is a task.  `TypeInv` adds that a handler once looked up
   stays registered (`HandlerKnown`), that a trigger past `RunSetCtx` has a task with a context
   (`TaskReady`) and, before it lists it, parameters (`ParamReady`), and that a goroutine has what its
   later lines use (`GoReady`).
2. `SlotsAreNotOverwritten`.  `SlotInv` adds mutual exclusion (`MutexHeld`) and that a slot found
   empty stays empty until the trigger fills it (`SlotStaysFree`): kills and callbacks do not take
   `mu`, but they only ever empty slots.
3. `ReportsAreOfTakenTriggers` (a report names a trigger that `runTask` let through), by following
   which handler an object belongs to (`HandlerInv`).
4. For jobs that share no handler, with no kill and no cover (`Serial`): `SerialIsSerial`,
   `SerialExecutesOwn`, `SerialSlotsMatch`.  `SerialInv` says that a job's object belongs to one run
   from `RunSetCtx` to `CbDel`: while the slot is taken nobody writes `Ctx` or `Param` (`OwnTask`),
   `Id` is always the job's (`TaskId`), the slot holds the run's task (`RunningIsListed`) and a job
   has one holder (`OneHolder`).  The condition is needed: a kill, a cover or a second job on the
   handler makes each of the three fail.
5. `ExecutorImplementsSlots`: under `Serial` every step is a step of `SerialSlots` or changes nothing
   it sees.  A trigger's abstract run begins at `RunSet` and ends at `CbDel`; the proof needs, besides
   `SerialInv`, that a refused trigger was refused for one of the two abstract reasons (`Registered`).
6. `IdleIsTrue`, under `Serial`: who answers idle holds `mu`, so no trigger is setting its task up,
   and a run would be in its slot.
7. `EndedRunsAreReported`, without a condition: `PostInv` says that `callback` has told all the admins
   before the one it is at.
8. What a late read may find when a handler is triggered again and again.  Without conditions, with
   kills, covers, shared handlers and re-registrations: `CallsStayInTheHandler` (it is of the same
   handler, `CallInv`) and `OlderDataAreGone`.  The latter says of two triggers l and m: from a state on
   in which m is set up and the set-up of l has not begun, l is never run with the `Ctx` or `Param` of
   m nor reported under its log id.  A late read may meet a later trigger's data, never an older one's.
   The property is `[](P => []Q)`, whose invariant is `Replaced`: m writes no more, and what it left in
   the object of l is overwritten before the lines that read it.
9. `SerialReportsOwnUntilFreed`, under `Serial`, which allows any number of triggers of a job: a report
   never names another trigger that was set up before `callback` freed the reporting run's slot.  Until
   then the object holds the run's own `Param` (`OwnParam`: the slot keeps other triggers from
   `RunSetParam`), and afterwards who is set up already writes no more (`NotReset`).  So the wrong log
   id of `late_param` is due to the order of `executor.go:250` and `:252` and to nothing else.
10. `NoSlotIsLeft` and `CancelsStayInTheJob`, with kills and covers, where no two jobs share a
    handler. `JobInv` says that an object's `Id` is its job's from `RunSetId` on, however often it
    is set up again (`TaskId`), and that what is listed for a job, or was found there by a kill, is
    an object of one of its handlers (`ListedOfJob`, `KilledOfJob`).  Therefore a slot that is taken
    has a run whose `Del` is still to come, and will empty it; and a kill whose slot has changed
    between its three reads cancels another run of its job at worst.

### Registry

`TypeCorrect`, `PostsAreBounded` and `HeartbeatKeepsRegistration` hold for every interval and time
limit, also where posts outlast an interval, as they may when `BeatInterval` is set below
`httpClient`'s 10 s.  `Spaced` says that the posts under way to an admin were started an interval
apart, and `Posted` that none was after the timer was set.  A lemma on finite sets of numbers an
interval apart then gives `PostsAreBounded`.  `HeartbeatKeepsRegistration` rests on `Fresh`, an
account of the beats since the last one that arrived: a registration is at most an interval old for
each of them, lost or under way, plus the timer.  A post of age 0 to `Timeout` that arrives renews
it; one that is lost moves from one term to the other.  With at most `Timeout \div Interval + 1`
under way and `MaxLost` lost in a row, `TTL`, which `RegistryAssumption` asks to be greater than
`(MaxLost + 1) * Interval + Timeout`, is not reached.  `RemovesAfterStop` gives that no removal
interferes.

### Pulsar client

`OneOfEachKept` and `SendersUseTheCache`, by `CacheInv`: one caller is inside the Once and one inside
`mt`; a producer that exists is in the cache or about to be stored by the caller that holds `mt`.
`RetriesAreBounded` and `AckedAreSettled`, by `DeliveryInv`: every redelivery is charged to a Nack of
its own, sent for a `RedeliveryCount` below the limit, or to a lost connection; so `count <=
Cardinality(Nacked) + breaks`, a count that a step keeps although `RetriesBounded` is not inductive by
itself; and an acknowledgement is on its way only for a settled message.  `TypeCorrect` follows,
`Counts` being wide enough.  `ClientImplementsQueue` maps every step to one of `MessageQueue` or to a
stutter; besides, it needs that a message is stored by its own `Send` only (`FreshInv`).

`LocksAreNotKept`: whoever has the mutex or is inside the Once is at a line inside it, so a waiting
caller waits for one that goes on.  `MessagesAreNotLost`: what was reported as sent is stored
(`SentIsStored`), and a message the broker waits for has its listener running, its answer on the way,
or was forgotten when its listener panicked (`HeldIsAwaited`).

### NATS client

`DeliveriesAreBounded`, `OneCopyKept`, `AckedAreSettled` and `TypeCorrect`, from one invariant with
two accounts per message.  `Charged` pays for deliveries, those made and those to come: `count + Ready
+ Asked + Quiet <= 1 + Cardinality(Naked) + faults`, where `Ready`, `Asked` and `Quiet` are 1 when the
message is ready at the server, has a negative answer on its way or waiting for its delay, or is out
without anything left that could answer.  `Copied` pays for what is in hand: `Cardinality(Live) +
Ready + Asked <= 1 + faults`.  Neither property is inductive without the terms for what is on its way:
a negative answer may arrive after AckWait has made the message ready, or after another delivery was
acknowledged.  `HandsInv` gives that a delivery is in one place and has not ended, so that each
negative answer is a new member of `Naked`; `SettleInv` that such an answer is given below `Limit`
only, which bounds `Cardinality(Naked)` by `Limit - 1`, and that an acknowledgement is on its way only
for a settled message; `StartInv` that a message is stored once. `ClientImplementsQueue`, as with
Pulsar, rests on the same facts: a late, doubled or crossing answer finds the message settled and
leaves it so.  The theorems hold for pull and for push subscriptions.

`LoopsKeepBounds`, by `LoopInv`: what a pull loop has waiting and has asked for is at most a batch,
since it fetches only when both are gone, and what it has running at most the pool; a loop the server
pushes to has its channel's length waiting, and any number running.  `MessagesAreNotLost`: a sent
message is stored, and each delivery the server waits for is in hand or its answer is on the way unless
something has gone wrong, so that AckWait is there for faults only.

### Nacos configuration centre

`TypeCorrect`, `ReadsAreComplete`, `EventsAreNotAhead`, `SetsAreKept` and the action property
`CurrentNeverGoesBack`.  `PhaseInv` ties the instance in `config` to the phase of `CreateInstance` and
says that nothing listens before its end; `VersionInv` that nothing is newer than the server's version
and an instance is parsed before it is stored; `UseInv` that what getters and setters have loaded is
complete.  `OrderInv` holds until calls of `OnChange` overlap: one is under way, for a version not
older than the one in use, what it has stored stays in use until it returns, and no event is ahead.
`NoVersionIsMissed`, by `KnownInv`: what the SDK knows is the version in use or the one whose call of
`OnChange` is under way.  In particular the SDK compares, from `Watch` on, with the version that was
read or with nothing, so that one published after `Read` is notified.

### HTTP clients

`TypeCorrect`, `ObjectsAreExclusive`, `ResultsAreOwn` and `RequestsAreNotRepeated`. `ObjectInv` is one
user per object; `BufferInv` follows a buffer: it holds the call's own answer from `Answered` on, and
after the release until another answer goes to the same object; `MayRepeat` says that a call which is,
or will be, tried again has been processed no more often than it has been told 404, 502 or 504;
`CountInv` gives the bounds of the counts.

### HTTP servers

`TypeCorrect`, `FunctionsRunOnce`, `FunctionsAfterRequests`, `OverIsClean` and `LinesTellTheTruth`,
for any number of requests, objects and functions.  `ChainInv` says of a line still to be written what
the property says of a written one, and that an object a line lies on holds some request's bytes.
`RunInv` ties the phases of the functions to `pc` with Fiber (`FiberInv`: the called ones are an
initial segment, and but the last have returned) and to the hook with Hertz (`HertzInv`: all or none),
and `calls` to the phases (`FuncsInv`), which with `pc` and `hook` moving on only once gives the rest.

`BalancersFollow`, by `RouteInv`: between callbacks the balancer has what the SDK knows, or a callback
came with an error; what the SDK does not know yet is a push under way.  `ShutdownsGoOn`, by
`GraceInv`: the functions of Fiber's `grace` that are done are an initial segment (`Frontier`), the one
after it runs or can be called, and `Run` does not wait for a signal once `Listen` has failed.

Some of these theorems are of properties no run lists, because another one includes them:
`SerialExecution` (by `ImplementsSlots`), `AckedIsSettled` (by `ImplementsQueue`),
`ReportsTakenTrigger`, `Exclusive` and `SetsStay`.  Others are what is safety in a liveness property a
run lists, and are defined beside their theorems: `EndedIsReported` (of `AcceptedIsReported`),
`LocksAreInUse` (of `CallsReturn`), `NoMessageIsLost` (of `SentIsSettled`, once for each client),
`LatestIsInUse` (of `LatestIsUsed`), `ShutdownGoesOn` (of `RunEnds`, for Fiber) and `BalancerFollows`
(of `LeavesBalancer`); `ListedIsRunning` is that of `SlotIsFreed`.  `CancelsItsJob` and
`LoopsAreBounded` are theorems only: the first is about kills in instances larger than the runs', the
second about batches larger than one.  So are `CallsStayInTheHandler`, `OlderDataAreGone` and
`SerialReportsOwnUntilFreed`, which say what is left of `ExecutesOwnRequest` and `ReportsOwnLog` where
these fail.

## 6. What only TLC checks

Liveness, which is out of the prover's reach: `SlotIsFreed`, `AcceptedIsReported`, `GetsListed`,
`SentIsSettled` (both clients), `CallsReturn`, `LatestIsUsed`, `RunEnds`, `LeavesBalancer`.  The
theorems named at the end of section 5 say that none of these can fail because nobody is left to take
the next step; that the steps are taken is what the runs add, under the fairness of section 4.
`GetsListed` has no such part, as the loop never waits, nor has `RunEnds` for Hertz, whose limit ends
it.  Every invariant and every action property of the passing runs is proved, and both implementation
results.  Of the two invariants that runs show violated, `ListedIsRunning` is proved for jobs
that share no handler, and `SerialReportsOwnUntilFreed` says when `ReportsOwnLog` fails.

## 7. Where the code and its comments differ

Each is a run that TLC finds violated, with the steps that lead there.

- `late_param`: `callback` deletes the job's slot before it reads `task.Param.LogID`; the job's next
  trigger may write its `Param` in between, and the report carries the wrong log id
  (`executor.go:250-252`).  `SerialReportsOwnUntilFreed` shows that it takes a trigger set up
  between these two lines.
- `shared_slot`: with two jobs on one handler `callback` reads the `Id` of the job that came last and
  frees that job's slot, its own staying taken: every later trigger of it is refused
  (`executor.go:249`).  `NoSlotIsLeft` shows that it takes two jobs on one handler: kills and covers
  alone leave no slot taken.
- `first_admin_down`: `callback` returns at the first admin that fails; the others are not told
  (`executor.go:261`).
- `stop_and_stay`: nothing ends `registry`'s loop, so an executor that was stopped registers itself
  again while the process lives (`executor.go:360`).

Others are visible in the models' states but contradict no line of the repository, or lie outside the
models: kills and covers let the old run go on beside the new one; a panic of `createClient` makes
every later `NewClient` return nil; the same `RetryTimes` r means r + 1 deliveries with Pulsar and r
with NATS; a failed `FetchBatch` ends the process; calls of `OnChange` that overlap may leave an older
version in use; what `Set` wrote is lost with the next version of the file; `OnChange` takes an empty
text for a configuration where `Read` refuses it; `ProxyService` may send a body that another call has
overwritten (`stale`); a recovered panic in `Exec` looks like a success; Hertz' `CheckRetry` repeats a
request after 404, 502 and 504 whatever its method, fasthttp's never does, for the status error it
gets has nothing in it to unwrap; with Fiber the trace id that a request brought may be another
request's in the log line (`gfiber/middleware/middleware.go:93`, `LinesAreTrue` exempts it), and an
answer of the `ErrorHandler` is not the one the line shows; an error that is neither `*fiber.Error`
nor `server.Error` is answered with what the handler left, perhaps an empty 200
(`gfiber_server.go:76`); a panic there leaves no line; Hertz' exit limit may end the process in the
middle of the given functions, and a signal before its engine runs ends it without calling them; both
servers close the listener before they remove the registration, so clients still route to a closed
port; an error given to the naming callback empties the clients' list; `http.NewRequest`'s error is
overwritten (`executor.go:388`); the access token is sent under the literal name
`AccessTokenHeaderKey` (`executor.go:392`).

## 8. What is not modelled

- Executor: the text of requests and answers, logging, the `log` and `beat` handlers, which answer a
  constant.  Other block strategies than COVER_EARLY are one, as in the code.
- Pulsar client: `Close`, which nothing in the package calls; delayed delivery, which the SDK does; the
  payload.
- NATS client: `NewConnection`'s unlocked check of `conn`, which may connect twice (the code forbids it
  nowhere, so there is no property to state); the schedule headers of delayed messages; `Close`.
- Nacos configuration: a second `CreateInstance`; the conversions of getters.
- HTTP clients: the pooled requests, which nothing uses after `Exec`; the making of clients; what
  requests are made of; repetitions within the SDKs' `Do`, so that `NotRepeated` is about what `Exec`
  and its caller repeat.
- Naming registry: `GetInstance` and `SelectInstances`, which ask the SDK and change nothing; the
  choice among several instances, which is the load balancer's.
- HTTP servers: binding, parameters, cookies and responses, calls of the frameworks without state that
  outlives a request; `Cors`, which only sets headers; HTTP/2.
- `nacos/clients.go`: conversion of options.

## 9. Plan

Everything the plan of the first version named is done, but for `NewConnection`, left out on purpose
(section 8).  What could follow:

1. An abstract specification of the life of a server process (registered, serving, ending, gone), which
   `HttpServer` implements with Fiber and with Hertz, and the theorem that it does.
2. `HttpServer` with several subscribers and instances, and the choice of the load balancer, once that
   is part of the repository.
3. A second `CreateInstance` of the configuration centre, in a process that reads two files.
4. Delayed delivery of the message clients: the schedule headers of `createMsg`.

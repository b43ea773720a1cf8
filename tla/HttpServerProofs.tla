--------------------------- MODULE HttpServerProofs ---------------------------
(***************************************************************************)
(* Proofs about HttpServer, for any number of requests, objects and given   *)
(* functions, and for either server.                                        *)
(***************************************************************************)
EXTENDS HttpServer, TLAPS

\* A request is handled once, by an object that holds it; its line tells of it.
ChainInv ==
  /\ \A r \in Requests : InHand(r) => answer[r] = None /\ text[ctx[r]] # None
  /\ \A r \in Requests : line[r] # None =>
       /\ answer[r] # None
       /\ line[r].fields = r
       /\ line[r].answer = answer[r] \/ (Fiber /\ answer[r] = "error")
       /\ line[r].trace = r \/ (Fiber /\ r \in Traced)
       /\ line[r].trace \in Contexts => text[line[r].trace] # None
  /\ \A r \in Requests : printed[r] # None => answer[r] # None
  /\ LinesAreTrue

Untouched == \A f \in Funcs : phase[f] = "todo"

\* Fiber's functions wait for the shutdown and for each other.
FiberInv ==
  /\ hook = "none"
  /\ pc \in {"new", "run", "wait", "stop"} => Untouched
  /\ pc = "grace" => NoneInHand \/ forced \/ listener = "open"
  /\ pc = "over" => AllDone
  /\ \A f, g \in Funcs : g < f /\ phase[f] # "todo" => phase[g] = "done"

\* Hertz' are the hook's, which the shutdown starts and waits for until its limit.
HertzInv ==
  /\ pc # "grace"
  /\ pc \in {"new", "run"} => hook = "none"
  /\ pc = "wait" => hook = "added"
  /\ hook \in {"none", "added", "shutdown"} => Untouched
  /\ hook = "done" => AllDone
  /\ pc = "over" => AllDone \/ forced \/ hook = "added"

\* A function is called when it leaves "todo"; nothing registers after the one that removes.
FuncsInv ==
  /\ \A f \in Funcs : calls[f] = IF phase[f] = "todo" THEN 0 ELSE 1
  /\ phase[Off] = "done" => ~listed \/ failed

RunInv == (Fiber => FiberInv) /\ (Hertz => HertzInv) /\ FuncsInv
Inv == TypeOK /\ ChainInv /\ RunInv

PcStates == {"new", "run", "wait", "stop", "grace", "over", "dead"}
ListenerStates == {"none", "starting", "open", "closed", "failed"}
HookStates == {"none", "added", "shutdown", "waiting", "done"}
RunTypeOK ==
  /\ pc \in PcStates /\ listener \in ListenerStates /\ hook \in HookStates
  /\ quit \in BOOLEAN /\ forced \in BOOLEAN
  /\ phase \in [Funcs -> {"todo", "running", "done"}]
  /\ calls \in [Funcs -> Nat]

LEMMA Types == TypeOK <=> ChainTypeOK /\ NamingTypeOK /\ RunTypeOK
BY DEF TypeOK, RunTypeOK, PcStates, ListenerStates, HookStates

-----------------------------------------------------------------------------
(* The requests.                                                            *)

\* What a line has to say.
Tells(r, l, a) ==
  /\ l \in Lines
  /\ l.fields = r
  /\ l.answer = a \/ (Fiber /\ a = "error")
  /\ l.trace = r \/ (Fiber /\ r \in Traced)
  /\ l.trace \in Contexts => text[l.trace] # None

\* A request read into an object that no other is handled with.
LEMMA AcceptStep ==
  ASSUME ChainTypeOK, ChainInv, NEW r \in Requests, NEW c \in Contexts, Accept(r, c)
  PROVE  ChainTypeOK' /\ ChainInv'
<1>1. /\ ctx \in [Requests -> Contexts \union {None}] /\ text \in [Contexts -> Requests \union {None}]
      /\ None \notin Requests /\ None \notin Contexts
  BY ChainAssumption DEF ChainTypeOK
<1>2. /\ UNCHANGED <<engine, answer, line, printed>> /\ answer[r] = None
      /\ ctx' = [ctx EXCEPT ![r] = c] /\ text' = [text EXCEPT ![c] = r]
  BY DEF Accept
<1>3. ChainTypeOK'
  BY <1>1, <1>2 DEF ChainTypeOK, Lines
<1>4. \A d \in Contexts : text[d] # None => text'[d] # None
  BY <1>1, <1>2
<1>5. \A s \in Requests : InHand(s)' => answer'[s] = None /\ text'[ctx'[s]] # None
  BY <1>1, <1>2, <1>4 DEF InHand, ChainInv
<1>6. \A s \in Requests : line'[s] # None =>
       /\ answer'[s] # None
       /\ line'[s].fields = s
       /\ line'[s].answer = answer'[s] \/ (Fiber' /\ answer'[s] = "error")
       /\ line'[s].trace = s \/ (Fiber' /\ s \in Traced)
       /\ line'[s].trace \in Contexts => text'[line'[s].trace] # None
  BY <1>2, <1>4 DEF ChainInv, Fiber
<1>7. (\A s \in Requests : printed'[s] # None => answer'[s] # None) /\ LinesAreTrue'
  BY <1>2 DEF ChainInv, LinesAreTrue, Fiber
<1> QED BY <1>3, <1>5, <1>6, <1>7 DEF ChainInv

\* A request's chain is over.
LEMMA FinishStep ==
  ASSUME ChainTypeOK, ChainInv, NEW r \in Requests, InHand(r), NEW l, NEW a \in Answers,
         l = None \/ Tells(r, l, a), Finish(r, l, a)
  PROVE  ChainTypeOK' /\ ChainInv'
<1>1. /\ ctx \in [Requests -> Contexts \union {None}] /\ answer \in [Requests -> Answers \union {None}]
      /\ line \in [Requests -> Lines \union {None}] /\ printed \in [Requests -> Lines \union {None}]
  BY DEF ChainTypeOK
<1>2. /\ UNCHANGED <<engine, text, printed>>
      /\ ctx' = [ctx EXCEPT ![r] = None] /\ answer' = [answer EXCEPT ![r] = a]
      /\ line' = [line EXCEPT ![r] = l]
  BY DEF Finish
<1>3. answer[r] = None /\ printed[r] = None
  BY DEF ChainInv
<1>4. ChainTypeOK'
  BY <1>1, <1>2 DEF ChainTypeOK, Tells, Lines
<1>5. ASSUME NEW s \in Requests, InHand(s)' PROVE answer'[s] = None /\ text'[ctx'[s]] # None
  BY <1>1, <1>2, <1>5 DEF InHand, ChainInv
<1>6. ASSUME NEW s \in Requests, line'[s] # None
      PROVE  /\ answer'[s] # None
             /\ line'[s].fields = s
             /\ line'[s].answer = answer'[s] \/ (Fiber' /\ answer'[s] = "error")
             /\ line'[s].trace = s \/ (Fiber' /\ s \in Traced)
             /\ line'[s].trace \in Contexts => text'[line'[s].trace] # None
  <2>1. CASE s = r
    <3>1. line'[s] = l /\ answer'[s] = a /\ Tells(r, l, a)
      BY <1>1, <1>2, <1>6, <2>1
    <3>2. a # None
      BY ChainAssumption
    <3> QED BY <1>2, <2>1, <3>1, <3>2 DEF Tells, Fiber
  <2>2. CASE s # r
    <3>1. line'[s] = line[s] /\ answer'[s] = answer[s]
      BY <1>1, <1>2, <2>2
    <3> QED BY <1>2, <1>6, <3>1 DEF ChainInv, Fiber
  <2> QED BY <2>1, <2>2
<1>7. \A s \in Requests : printed'[s] # None => s # r /\ answer'[s] = answer[s]
  BY <1>1, <1>2, <1>3
<1>8. (\A s \in Requests : printed'[s] # None => answer'[s] # None) /\ LinesAreTrue'
  BY <1>2, <1>7 DEF ChainInv, LinesAreTrue, Fiber
<1> QED BY <1>4, <1>5, <1>6, <1>8 DEF ChainInv

\* What the two chains hand over tells of their request.
LEMMA HandleStep ==
  ASSUME ChainTypeOK, ChainInv, NEW r \in Requests, FiberHandle(r) \/ HertzHandle(r)
  PROVE  ChainTypeOK' /\ ChainInv'
<1>1. /\ ctx[r] \in Contexts /\ text[ctx[r]] # None /\ r \notin Contexts
      /\ InHand(r) /\ r \in Requests \union Contexts
  BY ChainAssumption DEF FiberHandle, HertzHandle, InHand, ChainTypeOK, ChainInv
<1>2. CASE FiberHandle(r)
  <2>1. PICK o \in {"ok", "error", "panic"} :
               \E a \in FiberAnswers(o), l \in {FiberLine(r, o), None} : Finish(r, l, a)
    BY <1>2 DEF FiberHandle
  <2>2. PICK a \in FiberAnswers(o), l \in {FiberLine(r, o), None} : Finish(r, l, a)
    BY <2>1
  <2>3. a \in Answers /\ (o # "panic" => a \in {"handler", "error"})
    BY DEF FiberAnswers, Answers
  <2>4. FiberTrace(r) \in {r, ctx[r]} /\ (FiberTrace(r) = r \/ r \in Traced) /\ Fiber
    BY <1>2 DEF FiberTrace, FiberHandle
  <2>5. FiberLine(r, o) = None \/ Tells(r, FiberLine(r, o), a)
    <3>1. CASE o = "panic"
      BY <3>1 DEF FiberLine
    <3>2. CASE o # "panic"
      <4>1. FiberLine(r, o) = [fields |-> r, trace |-> FiberTrace(r), answer |-> "handler"]
        BY <3>2 DEF FiberLine
      <4>2. FiberLine(r, o) \in Lines
        BY <1>1, <2>4, <4>1 DEF Lines, Answers
      <4> QED BY <1>1, <2>3, <2>4, <3>2, <4>1, <4>2 DEF Tells
    <3> QED BY <3>1, <3>2
  <2> QED BY <1>1, <2>2, <2>3, <2>5, FinishStep
<1>3. CASE HertzHandle(r)
  <2>1. PICK o \in {"ok", "panic"} :
               \E l \in {HertzLine(r, o), None} : Finish(r, l, HertzAnswer(o))
    BY <1>3 DEF HertzHandle
  <2>2. HertzAnswer(o) \in Answers
    BY DEF HertzAnswer, Answers
  <2>3. Tells(r, HertzLine(r, o), HertzAnswer(o))
    <3>1. HertzLine(r, o) = [fields |-> r, trace |-> r, answer |-> HertzAnswer(o)]
      BY DEF HertzLine, HertzTrace, HertzAnswer
    <3>2. HertzLine(r, o) \in Lines
      BY <1>1, <2>2, <3>1 DEF Lines
    <3> QED BY <1>1, <3>1, <3>2 DEF Tells
  <2> QED BY <1>1, <2>1, <2>2, <2>3, FinishStep
<1> QED BY <1>2, <1>3

\* A line is written: its fields are its own, its trace id what the object holds by now.
LEMMA PrintStep ==
  ASSUME ChainTypeOK, ChainInv, NEW r \in Requests, RequestEnd(r)
  PROVE  ChainTypeOK' /\ ChainInv'
<1> DEFINE p == [fields |-> Read(line[r].fields), trace |-> Read(line[r].trace), answer |-> line[r].answer]
<1>1. /\ line \in [Requests -> Lines \union {None}] /\ printed \in [Requests -> Lines \union {None}]
      /\ text \in [Contexts -> Requests \union {None}] /\ r \notin Contexts
  BY ChainAssumption DEF ChainTypeOK
<1>2. /\ UNCHANGED <<engine, ctx, text, answer>> /\ line[r] # None
      /\ line' = [line EXCEPT ![r] = None] /\ printed' = [printed EXCEPT ![r] = p]
  BY DEF RequestEnd
<1>3. /\ line[r] \in Lines /\ answer[r] # None /\ line[r].fields = r
      /\ line[r].answer = answer[r] \/ (Fiber /\ answer[r] = "error")
      /\ line[r].trace = r \/ (Fiber /\ r \in Traced)
      /\ line[r].trace \in Contexts => text[line[r].trace] # None
  BY <1>1, <1>2 DEF ChainInv
<1>4. p \in Lines /\ p.fields = r /\ p.answer = line[r].answer /\ p.trace = Read(line[r].trace)
  <2>1. Read(r) = r /\ Read(line[r].trace) \in Requests \union Contexts
    BY <1>1, <1>3 DEF Read, Lines
  <2> QED BY <1>3, <2>1 DEF Lines
<1>5. p.trace = r \/ (Fiber /\ r \in Traced)
  BY <1>1, <1>3, <1>4 DEF Read
<1> HIDE DEF p
<1>6. ChainTypeOK'
  BY <1>1, <1>2, <1>4 DEF ChainTypeOK, Lines
<1>7. \A s \in Requests : InHand(s)' => answer'[s] = None /\ text'[ctx'[s]] # None
  BY <1>2 DEF InHand, ChainInv
<1>8. ASSUME NEW s \in Requests, line'[s] # None
      PROVE  /\ answer'[s] # None
             /\ line'[s].fields = s
             /\ line'[s].answer = answer'[s] \/ (Fiber' /\ answer'[s] = "error")
             /\ line'[s].trace = s \/ (Fiber' /\ s \in Traced)
             /\ line'[s].trace \in Contexts => text'[line'[s].trace] # None
  <2>1. line'[s] = line[s]
    BY <1>1, <1>2, <1>8
  <2> QED BY <1>2, <1>8, <2>1 DEF ChainInv, Fiber
<1>9. ASSUME NEW s \in Requests, printed'[s] # None
      PROVE  /\ answer'[s] # None /\ printed'[s].fields = s
             /\ printed'[s].answer = answer'[s] \/ (Fiber' /\ answer'[s] = "error")
             /\ printed'[s].trace = s \/ (Fiber' /\ s \in Traced)
  <2>1. CASE s = r
    <3>1. printed'[s] = p
      BY <1>1, <1>2, <2>1
    <3> QED BY <1>2, <1>3, <1>4, <1>5, <2>1, <3>1 DEF Fiber
  <2>2. CASE s # r
    <3>1. printed'[s] = printed[s]
      BY <1>1, <1>2, <2>2
    <3> QED BY <1>2, <1>9, <3>1 DEF ChainInv, LinesAreTrue, Fiber
  <2> QED BY <2>1, <2>2
<1> QED BY <1>6, <1>7, <1>8, <1>9 DEF ChainInv, LinesAreTrue

\* Every step keeps what is known of requests.
LEMMA ChainStep ==
  ASSUME ChainTypeOK, ChainInv, [Next]_vars
  PROVE  ChainTypeOK' /\ ChainInv'
<1>1. ASSUME UNCHANGED chainVars PROVE ChainTypeOK' /\ ChainInv'
  BY <1>1 DEF chainVars, ChainTypeOK, ChainInv, LinesAreTrue, InHand, Fiber, Lines
<1>2. CASE Serve
  BY <1>2, AcceptStep, HandleStep, PrintStep DEF Serve, ChainNext
<1>3. CASE RunNext
  BY <1>1, <1>3 DEF RunNext, Register, RegisterPanics, FiberRun, HertzRun, Signal, Kill, Listen,
     ListenFails, FiberStop, FiberDrained, FiberLimit, FiberEnd, HertzStop, HertzExit, HookGrace,
     HookDone, HertzEnd, HertzLimit, FiberCall, Return, FuncPanics
<1>4. CASE Naming \/ UNCHANGED vars
  BY <1>1, <1>4 DEF Naming, vars
<1> QED BY <1>2, <1>3, <1>4 DEF Next

-----------------------------------------------------------------------------
(* The process and its functions.                                           *)

\* The functions are numbered from 1, and one of them removes the registration.
LEMMA FuncsFacts == Funcs \subseteq Nat /\ Off \in Funcs
BY FuncsAssumption DEF Funcs

\* What the requests and the registry do is nothing to the functions.
LEMMA OthersStep ==
  ASSUME RunTypeOK, RunInv, UNCHANGED <<engine, runVars>>,
         NoneInHand => NoneInHand' \/ listener = "open",
         (listed' => listed) \/ failed', failed => failed'
  PROVE  RunTypeOK' /\ RunInv'
<1>1. UNCHANGED <<engine, pc, listener, quit, forced, hook, phase, calls>>
  BY DEF runVars
<1>2. RunTypeOK'
  BY <1>1 DEF RunTypeOK
<1>3. FuncsInv'
  BY <1>1 DEF RunInv, FuncsInv
<1>4. (Fiber => FiberInv)' /\ (Hertz => HertzInv)'
  BY <1>1 DEF RunInv, Fiber, Hertz, FiberInv, HertzInv, Untouched, AllDone
<1> QED BY <1>2, <1>3, <1>4 DEF RunInv

\* Requests are accepted while the server listens.
LEMMA ServeStep ==
  ASSUME ChainTypeOK, RunTypeOK, RunInv, Serve
  PROVE  RunTypeOK' /\ RunInv'
<1>1. UNCHANGED <<namingVars, runVars, engine>>
  BY DEF Serve, Accept, ChainNext, FiberHandle, HertzHandle, Finish, RequestEnd
<1>2. listener = "open" \/ (NoneInHand => NoneInHand')
  <2>1. ASSUME NEW r \in Requests, FiberHandle(r) \/ HertzHandle(r) PROVE ~NoneInHand
    BY <2>1 DEF FiberHandle, HertzHandle, NoneInHand
  <2>2. ASSUME NEW r \in Requests, RequestEnd(r) PROVE ctx' = ctx
    BY <2>2 DEF RequestEnd
  <2> QED BY <2>1, <2>2 DEF Serve, ChainNext, NoneInHand, InHand
<1> QED BY <1>1, <1>2, OthersStep DEF namingVars

\* The naming server lists no instance by itself.
LEMMA NamingStep ==
  ASSUME RunTypeOK, RunInv, Naming \/ UNCHANGED vars
  PROVE  RunTypeOK' /\ RunInv'
<1>1. /\ UNCHANGED <<engine, runVars>> /\ ctx' = ctx
      /\ (listed' => listed) /\ (failed => failed')
  BY DEF Naming, NamingNext, Subscribe, Push, Callback, Expire, vars, chainVars, namingVars
<1>2. NoneInHand' <=> NoneInHand
  BY <1>1 DEF NoneInHand, InHand
<1> QED BY <1>1, <1>2, OthersStep

\* What the goroutines do that run the server.
LEMMA ProcessStep ==
  ASSUME RunTypeOK, RunInv, UNCHANGED chainVars,
         \/ Register \/ RegisterPanics \/ FiberRun \/ HertzRun \/ Signal \/ Kill
         \/ Listen \/ ListenFails
         \/ FiberStop \/ FiberDrained \/ FiberLimit \/ FiberEnd
         \/ HertzStop \/ HertzExit \/ HookGrace \/ HookDone \/ HertzEnd \/ HertzLimit
  PROVE  RunTypeOK' /\ RunInv'
<1> USE DEF RunTypeOK, PcStates, ListenerStates, HookStates
<1>0. /\ UNCHANGED engine /\ (Fiber' <=> Fiber) /\ (Hertz' <=> Hertz) /\ (NoneInHand' <=> NoneInHand)
      /\ (Fiber => FiberInv) /\ (Hertz => HertzInv) /\ FuncsInv /\ (Hertz <=> ~Fiber)
      /\ RunTypeOK
  BY DEF chainVars, Fiber, Hertz, NoneInHand, InHand, RunInv
<1> DEFINE Alone == UNCHANGED <<phase, calls, listed, failed>> /\ FuncsInv'
                    /\ (Untouched' <=> Untouched) /\ (AllDone' <=> AllDone)
<1>1. ASSUME \/ RegisterPanics \/ FiberRun \/ HertzRun \/ Signal \/ Kill \/ Listen \/ ListenFails
             \/ FiberStop \/ FiberDrained \/ FiberLimit \/ FiberEnd
             \/ HertzStop \/ HertzExit \/ HookDone \/ HertzEnd \/ HertzLimit
      PROVE  Alone
  <2>1. UNCHANGED <<phase, calls, listed, failed>>
    BY <1>1 DEF RegisterPanics, FiberRun, HertzRun, Signal, Kill, Listen, ListenFails, FiberStop,
       FiberDrained, FiberLimit, FiberEnd, HertzStop, HertzExit, HookDone, HertzEnd, HertzLimit,
       namingVars
  <2>2. FuncsInv'
    BY <1>0, <2>1 DEF FuncsInv
  <2> QED BY <2>1, <2>2 DEF Untouched, AllDone
<1>2. CASE Register
  <2>1. pc = "new" /\ pc' = "run" /\ UNCHANGED <<listener, quit, forced, hook, phase, calls>>
    BY <1>2 DEF Register
  <2>2. Untouched
    BY <1>0, <2>1 DEF FiberInv, HertzInv
  <2>3. FuncsInv'
    BY <1>0, <2>1, <2>2, FuncsFacts DEF FuncsInv, Untouched
  <2> QED BY <1>0, <2>1, <2>2, <2>3 DEF RunInv, FiberInv, HertzInv, Untouched
<1>3. CASE RegisterPanics
  <2>1. Alone
    BY <1>1, <1>3
  <2> QED BY <1>0, <1>3, <2>1 DEF RegisterPanics, RunInv, FiberInv, HertzInv, Ended
<1>4. CASE FiberRun
  <2>1. Alone
    BY <1>1, <1>4
  <2> QED BY <1>0, <1>4, <2>1 DEF FiberRun, RunInv, FiberInv, HertzInv, Ended
<1>5. CASE HertzRun
  <2>1. Alone
    BY <1>1, <1>5
  <2> QED BY <1>0, <1>5, <2>1 DEF HertzRun, RunInv, FiberInv, HertzInv, Ended
<1>6. CASE Signal
  <2>1. Alone
    BY <1>1, <1>6
  <2> QED BY <1>0, <1>6, <2>1 DEF Signal, RunInv, FiberInv, HertzInv, Ended
<1>7. CASE Kill
  <2>1. Alone
    BY <1>1, <1>7
  <2> QED BY <1>0, <1>7, <2>1 DEF Kill, RunInv, FiberInv, HertzInv, Ended
<1>8. CASE Listen
  <2>1. Alone
    BY <1>1, <1>8
  <2> QED BY <1>0, <1>8, <2>1 DEF Listen, RunInv, FiberInv, HertzInv, Ended
<1>9. CASE ListenFails
  <2>1. Alone
    BY <1>1, <1>9
  <2> QED BY <1>0, <1>9, <2>1 DEF ListenFails, RunInv, FiberInv, HertzInv, Ended
<1>10. CASE FiberStop
  <2>1. Alone
    BY <1>1, <1>10
  <2> QED BY <1>0, <1>10, <2>1 DEF FiberStop, RunInv, FiberInv, HertzInv, Ended
<1>11. CASE FiberDrained
  <2>1. Alone
    BY <1>1, <1>11
  <2> QED BY <1>0, <1>11, <2>1 DEF FiberDrained, RunInv, FiberInv, HertzInv, Ended
<1>12. CASE FiberLimit
  <2>1. Alone
    BY <1>1, <1>12
  <2> QED BY <1>0, <1>12, <2>1 DEF FiberLimit, RunInv, FiberInv, HertzInv, Ended
<1>13. CASE FiberEnd
  <2>1. Alone
    BY <1>1, <1>13
  <2> QED BY <1>0, <1>13, <2>1 DEF FiberEnd, RunInv, FiberInv, HertzInv, Ended
<1>14. CASE HertzStop
  <2>1. Alone
    BY <1>1, <1>14
  <2> QED BY <1>0, <1>14, <2>1 DEF HertzStop, RunInv, FiberInv, HertzInv, Ended
<1>15. CASE HertzExit
  <2>1. Alone
    BY <1>1, <1>15
  <2> QED BY <1>0, <1>15, <2>1 DEF HertzExit, RunInv, FiberInv, HertzInv, Ended
<1>16. CASE HookGrace
  <2>1. Hertz /\ hook' = "waiting" /\ UNCHANGED <<pc, listener, quit, forced, listed, failed>>
    BY <1>0, <1>16 DEF HookGrace, FiberInv, namingVars
  <2>2. /\ phase' = [f \in Funcs |-> "running"] /\ calls' = [f \in Funcs |-> calls[f] + 1]
        /\ ~Ended /\ hook = "shutdown"
    BY <1>16 DEF HookGrace, Called
  <2>3. calls' = [f \in Funcs |-> 1]
    BY <1>0, <2>1, <2>2 DEF HertzInv, Untouched, FuncsInv
  <2>4. FuncsInv'
    BY <2>2, <2>3, FuncsFacts DEF FuncsInv
  <2>5. HertzInv'
    BY <1>0, <2>1, <2>2 DEF HertzInv, Ended
  <2> QED BY <1>0, <2>1, <2>2, <2>3, <2>4, <2>5 DEF RunInv
<1>17. CASE HookDone
  <2>1. Alone
    BY <1>1, <1>17
  <2> QED BY <1>0, <1>17, <2>1 DEF HookDone, RunInv, FiberInv, HertzInv, Ended
<1>18. CASE HertzEnd
  <2>1. Alone
    BY <1>1, <1>18
  <2> QED BY <1>0, <1>18, <2>1 DEF HertzEnd, RunInv, FiberInv, HertzInv, Ended
<1>19. CASE HertzLimit
  <2>1. Alone
    BY <1>1, <1>19
  <2> QED BY <1>0, <1>19, <2>1 DEF HertzLimit, RunInv, FiberInv, HertzInv, Ended
<1> QED BY <1>2, <1>3, <1>4, <1>5, <1>6, <1>7, <1>8, <1>9, <1>10, <1>11, <1>12, <1>13, <1>14, <1>15, <1>16, <1>17, <1>18, <1>19

\* What happens to a single function.
LEMMA FuncStep ==
  ASSUME RunTypeOK, RunInv, NEW f \in Funcs, FiberCall(f) \/ Return(f) \/ FuncPanics(f)
  PROVE  RunTypeOK' /\ RunInv'
<1> USE DEF RunTypeOK, PcStates, ListenerStates, HookStates
<1>0. /\ UNCHANGED engine /\ (Fiber' <=> Fiber) /\ (Hertz' <=> Hertz) /\ (NoneInHand' <=> NoneInHand)
      /\ (Fiber => FiberInv) /\ (Hertz => HertzInv) /\ FuncsInv /\ (Hertz <=> ~Fiber)
      /\ RunTypeOK
  BY DEF FiberCall, Return, FuncPanics, chainVars, Fiber, Hertz, NoneInHand, InHand, RunInv
<1>1. CASE FiberCall(f)
  <2>1. /\ Fiber /\ pc = "grace" /\ phase[f] = "todo" /\ \A g \in 1..(f - 1) : phase[g] = "done"
        /\ UNCHANGED <<pc, listener, quit, forced, hook, listed, failed>>
    BY <1>1 DEF FiberCall, namingVars
  <2>2. \A g \in Funcs : /\ phase'[g] = IF g = f THEN "running" ELSE phase[g]
                         /\ calls'[g] = IF g = f THEN calls[g] + 1 ELSE calls[g]
    BY <1>1 DEF FiberCall, Called
  <2>3. RunTypeOK'
    BY <1>1, <2>1 DEF FiberCall, Called
  <2>4. FuncsInv'
    BY <1>0, <2>1, <2>2, FuncsFacts DEF FuncsInv
  <2>5. \A g \in Funcs : g < f => phase[g] = "done"
    BY <2>1, FuncsAssumption DEF Funcs
  <2>6. \A h, g \in Funcs : g < h /\ phase'[h] # "todo" => phase'[g] = "done"
    <3>1. \A h, g \in Funcs : g < h /\ phase[h] # "todo" => phase[g] = "done"
      BY <1>0, <2>1 DEF FiberInv
    <3> QED BY <2>1, <2>2, <2>5, <3>1
  <2>7. FiberInv'
    BY <1>0, <2>1, <2>6 DEF FiberInv
  <2> QED BY <1>0, <2>1, <2>3, <2>4, <2>7 DEF RunInv
<1>2. CASE Return(f)
  <2>1. /\ ~Ended /\ phase[f] = "running" /\ UNCHANGED <<pc, listener, quit, forced, hook, calls>>
        /\ phase' = [phase EXCEPT ![f] = "done"]
    BY <1>2 DEF Return
  <2>2. \A g \in Funcs : phase'[g] = IF g = f THEN "done" ELSE phase[g]
    BY <1>0, <2>1
  <2>3. FuncsInv'
    <3>1. \A g \in Funcs : calls'[g] = IF phase'[g] = "todo" THEN 0 ELSE 1
      BY <1>0, <2>1, <2>2 DEF FuncsInv
    <3>2. CASE f = Off
      <4>1. ~listed' \/ failed'
        BY <1>2, <3>2 DEF Return, Degister
      <4> QED BY <3>1, <4>1 DEF FuncsInv
    <3>3. CASE f # Off
      <4>1. UNCHANGED <<listed, failed>>
        BY <1>2, <3>3 DEF Return, namingVars
      <4> QED BY <1>0, <2>2, <3>1, <3>3, <4>1, FuncsFacts DEF FuncsInv
    <3> QED BY <3>2, <3>3
  <2>4. ASSUME Fiber PROVE FiberInv'
    <3>1. \A h, g \in Funcs : g < h /\ phase'[h] # "todo" => phase'[g] = "done"
      BY <1>0, <2>1, <2>2, <2>4 DEF FiberInv
    <3>2. pc = "grace"
      BY <1>0, <2>1, <2>4 DEF FiberInv, Untouched, Ended
    <3> QED BY <1>0, <2>1, <2>4, <3>1, <3>2 DEF FiberInv
  <2>5. ASSUME Hertz PROVE HertzInv'
    <3>1. hook = "waiting" /\ pc # "over"
      BY <1>0, <2>1, <2>5 DEF HertzInv, Untouched, AllDone, Ended
    <3> QED BY <1>0, <2>1, <2>5, <3>1 DEF HertzInv
  <2>6. RunTypeOK'
    BY <1>0, <2>1
  <2> QED BY <1>0, <2>3, <2>4, <2>5, <2>6 DEF RunInv
<1>3. CASE FuncPanics(f)
  <2>1. UNCHANGED <<phase, calls, listed, failed, listener, quit, forced, hook>> /\ pc' = "dead"
    BY <1>3 DEF FuncPanics, namingVars
  <2> QED BY <1>0, <2>1 DEF RunInv, FuncsInv, FiberInv, HertzInv, Untouched, AllDone
<1> QED BY <1>1, <1>2, <1>3

\* The registry's variables keep their types.
LEMMA NamingTypes ==
  ASSUME NamingTypeOK, [Next]_vars
  PROVE  NamingTypeOK'
<1>0. MaxErrors \in Nat
  BY NamingAssumption
<1>1. CASE UNCHANGED namingVars
  BY <1>1 DEF namingVars, NamingTypeOK
<1>2. CASE Naming
  <2>1. CASE Subscribe
    BY <2>1 DEF Subscribe, NamingTypeOK
  <2>2. CASE Push
    BY <2>2 DEF Push, NamingTypeOK
  <2>3. CASE Callback
    <3>1. errors' \in 0..MaxErrors
      BY <1>0, <2>3 DEF Callback, NamingTypeOK
    <3>2. routed' \in BOOLEAN
      BY <2>3 DEF Callback, NamingTypeOK
    <3> QED BY <2>3, <3>1, <3>2 DEF Callback, NamingTypeOK
  <2>4. CASE Expire
    BY <2>4 DEF Expire, NamingTypeOK
  <2> QED BY <1>2, <2>1, <2>2, <2>3, <2>4 DEF Naming, NamingNext
<1>3. CASE Register
  BY <1>3 DEF Register, RegisterInstance, NamingTypeOK
<1>4. ASSUME NEW f \in Funcs, Return(f) PROVE NamingTypeOK'
  BY <1>1, <1>4 DEF Return, Degister, NamingTypeOK
<1>5. CASE Serve \/ UNCHANGED vars
  BY <1>1, <1>5 DEF Serve, vars
<1>6. CASE RunNext
  BY <1>1, <1>3, <1>4, <1>6 DEF RunNext, RegisterPanics, FiberRun, HertzRun, Signal, Kill, Listen,
     ListenFails, FiberStop, FiberDrained, FiberLimit, FiberEnd, HertzStop, HertzExit, HookGrace,
     HookDone, HertzEnd, HertzLimit, FiberCall, FuncPanics
<1> QED BY <1>2, <1>5, <1>6 DEF Next

\* Every step keeps the invariant.
LEMMA Step ==
  ASSUME Inv, [Next]_vars
  PROVE  Inv'
<1>1. ChainTypeOK /\ NamingTypeOK /\ RunTypeOK /\ ChainInv /\ RunInv
  BY Types DEF Inv
<1>2. ChainTypeOK' /\ ChainInv' /\ NamingTypeOK'
  BY <1>1, ChainStep, NamingTypes
<1>3. ASSUME RunNext PROVE RunTypeOK' /\ RunInv'
  <2>1. CASE \E f \in Funcs : FiberCall(f) \/ Return(f) \/ FuncPanics(f)
    BY <1>1, <2>1, FuncStep
  <2>2. CASE ~\E f \in Funcs : FiberCall(f) \/ Return(f) \/ FuncPanics(f)
    <3>1. UNCHANGED chainVars
      BY <1>3, <2>2 DEF RunNext, Register, RegisterPanics, FiberRun, HertzRun, Signal, Kill, Listen,
         ListenFails, FiberStop, FiberDrained, FiberLimit, FiberEnd, HertzStop, HertzExit,
         HookGrace, HookDone, HertzEnd, HertzLimit
    <3> QED BY <1>1, <1>3, <2>2, <3>1, ProcessStep DEF RunNext
  <2> QED BY <2>1, <2>2
<1>4. ASSUME Serve PROVE RunTypeOK' /\ RunInv'
  BY <1>1, <1>4, ServeStep
<1>5. ASSUME Naming \/ UNCHANGED vars PROVE RunTypeOK' /\ RunInv'
  BY <1>1, <1>5, NamingStep
<1>6. RunTypeOK' /\ RunInv'
  BY <1>3, <1>4, <1>5 DEF Next
<1>7. TypeOK'
  BY <1>2, <1>6 DEF TypeOK, RunTypeOK, PcStates, ListenerStates, HookStates
<1> QED BY <1>2, <1>6, <1>7 DEF Inv

-----------------------------------------------------------------------------
(* The theorems.                                                            *)

\* Nothing has been accepted, registered or called at the start.
LEMMA Initially == Init => Inv
<1> SUFFICES ASSUME Init PROVE Inv
  OBVIOUS
<1>1. ChainTypeOK
  BY DEF Init, ChainInit, ChainTypeOK
<1>2. NamingTypeOK
  <2>1. errors \in 0..MaxErrors
    BY NamingAssumption DEF Init, NamingInit
  <2> QED BY <2>1 DEF Init, NamingInit, NamingTypeOK
<1>3. RunTypeOK
  BY DEF Init, RunTypeOK, PcStates, ListenerStates, HookStates
<1>4. ChainInv
  BY DEF Init, ChainInit, ChainInv, LinesAreTrue, InHand
<1>5. RunInv
  BY FuncsFacts DEF Init, RunInv, FuncsInv, FiberInv, HertzInv, Untouched, Hertz
<1> QED BY <1>1, <1>2, <1>3, <1>4, <1>5, Types DEF Inv

\* The inductive invariant.
THEOREM Invariance == Spec => []Inv
BY Initially, Step, PTL DEF Spec

\* Every variable keeps its type.
THEOREM TypeCorrect == Spec => []TypeOK
<1>1. Inv => TypeOK
  BY DEF Inv
<1> QED BY <1>1, Invariance, PTL

\* Run calls each of its functions once at most, forced or not; Fiber's in their order.
THEOREM FunctionsRunOnce == Spec => []FuncsRunOnce
<1>1. Inv => FuncsRunOnce
  <2> SUFFICES ASSUME Inv, NEW f \in Funcs
               PROVE  /\ calls[f] <= 1
                      /\ Fiber /\ calls[f] = 1 => \A g \in 1..(f - 1) : phase[g] = "done"
    BY DEF FuncsRunOnce
  <2>1. calls[f] = IF phase[f] = "todo" THEN 0 ELSE 1
    BY DEF Inv, RunInv, FuncsInv
  <2>2. \A g \in 1..(f - 1) : g \in Funcs /\ g < f
    BY FuncsAssumption DEF Funcs
  <2>3. Fiber => \A h, g \in Funcs : g < h /\ phase[h] # "todo" => phase[g] = "done"
    BY DEF Inv, RunInv, FiberInv
  <2> QED BY <2>1, <2>2, <2>3
<1> QED BY <1>1, Invariance, PTL

\* Fiber's functions find no request in hand, if the time was not up and the signal did not
\* come before the server listened.
THEOREM FunctionsAfterRequests == Spec => []FuncsAfterRequests
<1>1. Inv => FuncsAfterRequests
  BY DEF Inv, TypeOK, RunInv, FiberInv, FuncsAfterRequests, Untouched, Ended
<1> QED BY <1>1, Invariance, PTL

\* A process whose Run is over has called every function to its end, and is not listed
\* unless Degister failed; with Hertz only if the engine ran and the time was not up.
THEOREM OverIsClean == Spec => []RunLeavesClean
<1>1. Inv => RunLeavesClean
  BY FuncsFacts DEF Inv, RunInv, FiberInv, HertzInv, FuncsInv, RunLeavesClean, AllDone, Hertz
<1> QED BY <1>1, Invariance, PTL

\* A written line has the fields and the answer of one request, and its trace id, with the
\* exceptions that Fiber's order of handlers and its strings make.
THEOREM LinesTellTheTruth == Spec => []LinesAreTrue
<1>1. Inv => LinesAreTrue
  BY DEF Inv, ChainInv
<1> QED BY <1>1, Invariance, PTL

-----------------------------------------------------------------------------
(* The load balancer of a client: what of LeavesBalancer does not depend on *)
(* fairness.                                                                *)

\* What the balancer has is what the SDK knows, once the callback was called for it; a
\* callback with an error empties it.
RouteInv ==
  /\ known => subscribed
  /\ ~subscribed => told
  /\ told /\ routed => known
  /\ told /\ known => routed \/ errors > 0

\* A client goes on routing to an instance that is no longer listed only while a push or a
\* callback is under way, and misses one that is listed only then or after a callback that
\* came with an error.
BalancerFollows ==
  /\ routed /\ ~listed => (subscribed /\ known # listed) \/ ~told
  /\ subscribed /\ listed /\ ~routed => known # listed \/ ~told \/ errors > 0

\* Every step keeps what the balancer has.
LEMMA RouteStep ==
  ASSUME Inv, RouteInv, [Next]_vars
  PROVE  RouteInv'
<1>0. NamingTypeOK /\ errors \in Nat /\ MaxErrors \in Nat
  BY NamingAssumption DEF Inv, TypeOK, NamingTypeOK
<1>1. ASSUME UNCHANGED <<subscribed, known, told, routed, errors>> PROVE RouteInv'
  BY <1>1 DEF RouteInv
<1>2. CASE Naming
  <2>1. CASE Subscribe
    BY <1>0, <2>1 DEF Subscribe, RouteInv, NamingTypeOK
  <2>2. CASE Push
    BY <1>0, <2>2 DEF Push, RouteInv, NamingTypeOK
  <2>3. CASE Callback
    <3>1. CASE routed' = known /\ UNCHANGED errors
      BY <1>0, <2>3, <3>1 DEF Callback, RouteInv, NamingTypeOK
    <3>2. CASE routed' = FALSE /\ errors' = errors + 1
      BY <1>0, <2>3, <3>2 DEF Callback, RouteInv, NamingTypeOK
    <3> QED BY <2>3, <3>1, <3>2 DEF Callback
  <2>4. CASE Expire
    BY <1>1, <2>4 DEF Expire
  <2> QED BY <1>2, <2>1, <2>2, <2>3, <2>4 DEF Naming, NamingNext
<1>3. CASE Register
  BY <1>1, <1>3 DEF Register, RegisterInstance
<1>4. ASSUME NEW f \in Funcs, Return(f) PROVE RouteInv'
  BY <1>1, <1>4 DEF Return, Degister, namingVars
<1>5. CASE Serve \/ UNCHANGED vars
  BY <1>1, <1>5 DEF Serve, vars, namingVars
<1>6. CASE RunNext
  BY <1>1, <1>3, <1>4, <1>6 DEF RunNext, RegisterPanics, FiberRun, HertzRun, Signal, Kill, Listen,
     ListenFails, FiberStop, FiberDrained, FiberLimit, FiberEnd, HertzStop, HertzExit, HookGrace,
     HookDone, HertzEnd, HertzLimit, FiberCall, FuncPanics, namingVars
<1> QED BY <1>2, <1>5, <1>6 DEF Next

\* A client follows the naming server, but for what is under way.
THEOREM BalancersFollow == Spec => []BalancerFollows
<1>1. Init => RouteInv
  BY DEF Init, NamingInit, RouteInv
<1>2. Inv /\ RouteInv /\ [Next]_vars => RouteInv'
  BY RouteStep
<1>3. Inv /\ RouteInv => BalancerFollows
  BY DEF Inv, TypeOK, NamingTypeOK, RouteInv, BalancerFollows
<1> QED BY <1>1, <1>2, <1>3, Invariance, PTL DEF Spec

-----------------------------------------------------------------------------
(* The shutdown: what of RunEnds does not depend on fairness.               *)

\* The first k functions have returned, and none after the next has been called.
Frontier(k) ==
  /\ \A f \in Funcs : f <= k => phase[f] = "done"
  /\ \A f \in Funcs : f > k => phase[f] # "done"
  /\ \A f \in Funcs : f > k + 1 => phase[f] = "todo"
GraceInv ==
  Fiber => /\ listener = "failed" => Ended
           /\ \E k \in 0..NFuncs : Frontier(k)

\* A Fiber server is never left in its shutdown: it does not wait for a signal when Listen
\* has failed; and grace is through, or exactly one function is the next, which runs or can
\* be called, and no other runs.
ShutdownGoesOn ==
  Fiber /\ ~Ended =>
    /\ listener # "failed"
    /\ pc = "grace" => \/ AllDone
                       \/ \E f \in Funcs : /\ phase[f] # "done"
                                           /\ \A g \in 1..(f - 1) : phase[g] = "done"
                                           /\ \A g \in Funcs \ {f} : phase[g] # "running"

\* A called function is the next one, and the one that returns moves the frontier on.
LEMMA FrontierStep ==
  ASSUME RunTypeOK, NEW k \in 0..NFuncs, Frontier(k), NEW f \in Funcs,
         \/ /\ phase[f] = "todo" /\ \A g \in 1..(f - 1) : phase[g] = "done"
            /\ phase' = [g \in Funcs |-> IF g \in {f} THEN "running" ELSE phase[g]]
         \/ phase[f] = "running" /\ phase' = [phase EXCEPT ![f] = "done"]
  PROVE  \E j \in 0..NFuncs : Frontier(j)'
<1>0. NFuncs \in Nat /\ f \in Nat /\ k \in Nat /\ k <= NFuncs /\ f >= 1 /\ f <= NFuncs
  BY FuncsAssumption DEF Funcs
<1>1. phase \in [Funcs -> {"todo", "running", "done"}] /\ \A g \in Funcs : g \in Nat
  BY FuncsFacts DEF RunTypeOK
<1>2. f > k
  BY <1>0, <1>1 DEF Frontier
<1>3. CASE /\ phase[f] = "todo" /\ \A g \in 1..(f - 1) : phase[g] = "done"
           /\ phase' = [g \in Funcs |-> IF g \in {f} THEN "running" ELSE phase[g]]
  <2>1. f = k + 1
    <3>1. ASSUME f > k + 1 PROVE FALSE
      <4>1. k + 1 \in 1..(f - 1) /\ k + 1 \in Funcs /\ k + 1 > k
        BY <1>0, <3>1, FuncsAssumption DEF Funcs
      <4> QED BY <1>3, <4>1 DEF Frontier
    <3> QED BY <1>0, <1>2, <3>1
  <2>2. Frontier(k)'
    BY <1>0, <1>1, <1>3, <2>1 DEF Frontier
  <2> QED BY <2>2
<1>4. CASE phase[f] = "running" /\ phase' = [phase EXCEPT ![f] = "done"]
  <2>1. f = k + 1
    BY <1>0, <1>2, <1>4 DEF Frontier
  <2>2. k + 1 \in 0..NFuncs
    BY <1>0, <2>1
  <2>3. \A g \in Funcs : phase'[g] = IF g = f THEN "done" ELSE phase[g]
    BY <1>1, <1>4
  <2>4. Frontier(k + 1)'
    BY <1>0, <1>1, <2>1, <2>3 DEF Frontier
  <2> QED BY <2>2, <2>4
<1> QED BY <1>3, <1>4

\* Every step keeps the frontier.
LEMMA GraceStep ==
  ASSUME Inv, GraceInv, [Next]_vars
  PROVE  GraceInv'
<1>0. RunTypeOK /\ (Fiber => hook = "none")
  BY Types DEF Inv, RunInv, FiberInv
<1>1. engine' = engine
  BY DEF Next, RunNext, Serve, Naming, vars, chainVars, Register, RegisterPanics, FiberRun,
     HertzRun, Signal, Kill, Listen, ListenFails, FiberStop, FiberDrained, FiberLimit, FiberEnd,
     HertzStop, HertzExit, HookGrace, HookDone, HertzEnd, HertzLimit, FiberCall, Return,
     FuncPanics, Accept, ChainNext, FiberHandle, HertzHandle, Finish, RequestEnd
<1>2. CASE ~Fiber
  BY <1>1, <1>2 DEF GraceInv, Fiber
<1>3. ASSUME Fiber, UNCHANGED phase, listener' = "failed" => Ended' PROVE GraceInv'
  BY <1>1, <1>3 DEF GraceInv, Frontier
<1>4. ASSUME NEW f \in Funcs, Fiber, FiberCall(f) \/ Return(f) PROVE GraceInv'
  <2>1. \E k \in 0..NFuncs : Frontier(k)
    BY <1>4 DEF GraceInv
  <2>2. \E k \in 0..NFuncs : Frontier(k)'
    BY <1>0, <1>4, <2>1, FrontierStep DEF FiberCall, Called, Return
  <2>3. UNCHANGED <<listener, pc>>
    BY <1>4 DEF FiberCall, Return
  <2> QED BY <1>4, <2>2, <2>3 DEF GraceInv, Ended
<1>5. ASSUME Fiber, \E f \in Funcs : FuncPanics(f) PROVE GraceInv'
  BY <1>3, <1>5 DEF FuncPanics, Ended
<1>6. ASSUME Fiber,
             \/ Register \/ RegisterPanics \/ FiberRun \/ Signal \/ Kill
             \/ ~Ended /\ (Listen \/ ListenFails)
             \/ FiberStop \/ FiberDrained \/ FiberLimit \/ FiberEnd
      PROVE  GraceInv'
  <2>1. UNCHANGED phase
    BY <1>6 DEF Register, RegisterPanics, FiberRun, Signal, Kill, Listen, ListenFails, FiberStop,
       FiberDrained, FiberLimit, FiberEnd
  <2>2. listener' = "failed" => Ended'
    BY <1>6 DEF GraceInv, Ended, Register, RegisterPanics, FiberRun, Signal, Kill, Listen,
       ListenFails, FiberStop, FiberDrained, FiberLimit, FiberEnd
  <2> QED BY <1>3, <1>6, <2>1, <2>2
<1>7. ASSUME Fiber, HertzRun \/ HertzStop \/ HertzExit \/ HookGrace \/ HookDone \/ HertzEnd \/ HertzLimit
      PROVE  FALSE
  BY <1>0, <1>7 DEF HertzRun, HertzStop, HertzExit, HookGrace, HookDone, HertzEnd, HertzLimit, Hertz
<1>8. ASSUME Fiber, Serve \/ Naming \/ UNCHANGED vars PROVE GraceInv'
  <2>1. UNCHANGED <<phase, listener, pc>>
    BY <1>8 DEF Serve, Naming, vars, runVars
  <2> QED BY <1>3, <1>8, <2>1 DEF GraceInv, Ended
<1> QED BY <1>2, <1>4, <1>5, <1>6, <1>7, <1>8 DEF Next, RunNext

\* A Fiber server's shutdown always has a next step.
THEOREM ShutdownsGoOn == Spec => []ShutdownGoesOn
<1>1. Init => GraceInv
  <2> SUFFICES ASSUME Init PROVE GraceInv
    OBVIOUS
  <2>1. Frontier(0) /\ listener # "failed"
    <3>1. \A f \in Funcs : f \in Nat /\ f > 0
      BY FuncsAssumption DEF Funcs
    <3> QED BY <3>1 DEF Init, Frontier
  <2>2. 0 \in 0..NFuncs
    BY FuncsAssumption
  <2> QED BY <2>1, <2>2 DEF GraceInv
<1>2. Inv /\ GraceInv /\ [Next]_vars => GraceInv'
  BY GraceStep
<1>3. Inv /\ GraceInv => ShutdownGoesOn
  <2> SUFFICES ASSUME Inv, GraceInv, Fiber, ~Ended, ~AllDone
               PROVE  \E f \in Funcs : /\ phase[f] # "done"
                                       /\ \A g \in 1..(f - 1) : phase[g] = "done"
                                       /\ \A g \in Funcs \ {f} : phase[g] # "running"
    BY DEF ShutdownGoesOn, GraceInv
  <2>1. PICK k \in 0..NFuncs : Frontier(k)
    BY DEF GraceInv
  <2>2. NFuncs \in Nat /\ k \in Nat /\ k <= NFuncs
    BY FuncsAssumption
  <2>3. k # NFuncs
    BY <2>1, <2>2 DEF Frontier, AllDone, Funcs
  <2>4. k + 1 \in Funcs /\ \A g \in 1..k : g \in Funcs /\ g <= k
    BY <2>2, <2>3 DEF Funcs
  <2>5. phase[k + 1] # "done" /\ \A g \in 1..((k + 1) - 1) : phase[g] = "done"
    BY <2>1, <2>2, <2>4 DEF Frontier
  <2>6. \A g \in Funcs \ {k + 1} : phase[g] # "running"
    BY <2>1, <2>2, FuncsFacts DEF Frontier
  <2> QED BY <2>4, <2>5, <2>6
<1> QED BY <1>1, <1>2, <1>3, Invariance, PTL DEF Spec
=============================================================================

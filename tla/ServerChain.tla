---------------------------- MODULE ServerChain ----------------------------
(***************************************************************************)
(* A request on its way through the handlers that NewServer puts before the *)
(* application's: trace, logging and recovery, with Fiber in the order      *)
(* recovery, trace, logging, and its ErrorHandler behind them all; with     *)
(* Hertz trace, logging, recovery.  The frameworks hand the object that     *)
(* holds a request's bytes to a later request; the log line is written by a *)
(* goroutine of its own.                                                    *)
(***************************************************************************)
EXTENDS Naturals

CONSTANTS
  Requests,   \* requests that arrive
  Contexts,   \* fiber.Ctx or app.RequestContext objects
  Traced,     \* requests with a trace id in their header
  None

\* Who wrote what was sent.
Answers == {"handler", "error", "recovery"}

ASSUME ChainAssumption ==
  /\ Traced \subseteq Requests
  /\ None \notin Requests \union Contexts \union Answers
  /\ Requests \intersect Contexts = {}

VARIABLES
  engine,   \* which of the two servers this is
  ctx,      \* of a request: the object it is handled with
  text,     \* of an object: the request whose bytes its buffers hold
  answer,   \* of a request: who wrote what was sent
  line,     \* of a request: the log line its LoggingMiddleware has handed over
  printed   \* of a request: the log line that was written

chainVars == <<engine, ctx, text, answer, line, printed>>

Fiber == engine = "fiber"
\* The bytes of the fields and of the trace id are the line's own, or are read in an
\* object when the line is written.
Lines == [fields : Requests \union Contexts, trace : Requests \union Contexts, answer : Answers]

ChainTypeOK ==
  /\ engine \in {"fiber", "hertz"}
  /\ ctx \in [Requests -> Contexts \union {None}]
  /\ text \in [Contexts -> Requests \union {None}]
  /\ answer \in [Requests -> Answers \union {None}]
  /\ line \in [Requests -> Lines \union {None}]
  /\ printed \in [Requests -> Lines \union {None}]

ChainInit ==
  /\ engine \in {"fiber", "hertz"}
  /\ ctx = [r \in Requests |-> None]
  /\ text = [c \in Contexts |-> None]
  /\ answer = [r \in Requests |-> None]
  /\ line = [r \in Requests |-> None]
  /\ printed = [r \in Requests |-> None]

InHand(r) == ctx[r] # None

\* The framework reads a request into a free object.
Accept(r, c) ==
  /\ ctx[r] = None /\ answer[r] = None
  /\ \A s \in Requests : ctx[s] # c
  /\ ctx' = [ctx EXCEPT ![r] = c]
  /\ text' = [text EXCEPT ![c] = r]
  /\ UNCHANGED <<engine, answer, line, printed>>

\* Fiber's TraceMiddleware keeps the string that Get returns, which lies on the bytes of the
\* object; a generated id, and with Hertz every id, is a string of its own.
FiberTrace(r) == IF r \in Traced THEN ctx[r] ELSE r
HertzTrace(r) == r

\* Mutant: the fields of the line are not copied.
FiberLine_NoCopy(r, o) ==
  IF o = "panic" THEN None
  ELSE [fields |-> ctx[r], trace |-> FiberTrace(r), answer |-> "handler"]

\* Mutant: the trace id is looked for when the object has been given back.
FiberLine_Released(r, o) ==
  IF o = "panic" THEN None
  ELSE [fields |-> r, trace |-> None, answer |-> "handler"]

\* LoggingMiddleware copies the fields and what the response holds when Next returns.  A
\* panic passes through Fiber's, which stands below the recovery, ...
FiberLine(r, o) ==
  IF o = "panic" THEN None
  ELSE [fields |-> r, trace |-> FiberTrace(r), answer |-> "handler"]
\* ... and is over when Hertz' goes on.
HertzLine(r, o) ==
  [fields |-> r, trace |-> HertzTrace(r), answer |-> IF o = "panic" THEN "recovery" ELSE "handler"]

\* What is sent.  Fiber's recovery answers a panic and passes it on to the ErrorHandler, which
\* comes last: it writes an answer for *fiber.Error and server.Error, and nothing for others.
FiberAnswers(o) ==
  CASE o = "ok" -> {"handler"}
    [] o = "error" -> {"handler", "error"}
    [] o = "panic" -> {"recovery", "error"}
HertzAnswer(o) == IF o = "panic" THEN "recovery" ELSE "handler"

\* The chain runs: the handler ends in some way, the line is handed to the worker pool,
\* the answer is sent and the object is free.
Finish(r, l, a) ==
  /\ line' = [line EXCEPT ![r] = l]
  /\ answer' = [answer EXCEPT ![r] = a]
  /\ ctx' = [ctx EXCEPT ![r] = None]
  /\ UNCHANGED <<engine, text, printed>>

\* A request for /metrics, /swagger or a static file has no line.
FiberHandle(r) ==
  /\ Fiber /\ InHand(r)
  /\ \E o \in {"ok", "error", "panic"} :
       \E a \in FiberAnswers(o), l \in {FiberLine(r, o), None} : Finish(r, l, a)

HertzHandle(r) ==
  /\ ~Fiber /\ InHand(r)
  /\ \E o \in {"ok", "panic"} :
       \E l \in {HertzLine(r, o), None} : Finish(r, l, HertzAnswer(o))

\* Whose bytes a string holds when it is used.
Read(x) == IF x \in Contexts THEN text[x] ELSE x

\* requestEnd writes the line.
RequestEnd(r) ==
  /\ line[r] # None
  /\ line' = [line EXCEPT ![r] = None]
  /\ printed' = [printed EXCEPT ![r] = [fields |-> Read(line[r].fields),
                                        trace |-> Read(line[r].trace),
                                        answer |-> line[r].answer]]
  /\ UNCHANGED <<engine, ctx, text, answer>>

ChainNext == \E r \in Requests : FiberHandle(r) \/ HertzHandle(r) \/ RequestEnd(r)

\* A line tells of one request: its fields, the answer it got and its trace id.  With
\* Fiber it does not for an answer of the ErrorHandler, which comes after the line, nor for
\* a trace id from a header, whose bytes may be a later request's by then.
LinesAreTrue ==
  \A r \in Requests : printed[r] # None =>
    /\ printed[r].fields = r
    /\ printed[r].answer = answer[r] \/ (Fiber /\ answer[r] = "error")
    /\ printed[r].trace = r \/ (Fiber /\ r \in Traced)
=============================================================================

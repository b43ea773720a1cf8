------------------------------ MODULE HttpExec ------------------------------
(***************************************************************************)
(* The HTTP clients of http/client: Exec of the fasthttp and of the Hertz   *)
(* client with the pools of response objects, CheckRetry, and the Proxy of  *)
(* the fasthttp client.  A call is one ProxyService or one use of the load  *)
(* balancer, which calls Exec, and again when CheckRetry allows it; what it *)
(* returns has copies of the headers and cookies, and the body itself.      *)
(*                                                                          *)
(* An answer is named by its call and the attempt it is for.                *)
(***************************************************************************)
EXTENDS Integers, FiniteSets

CONSTANTS
  Calls,      \* the calls of the application, each of one client
  Hertz,      \* those that use HertzHttpClient, others use FastHttpClient
  Proxies,    \* those of FastHttpClient.Proxy
  IsProxy,    \* those with Request.IsProxy
  Objects,    \* response objects
  HertzPool,  \* those of Hertz' pool, others are of fasthttp's
  Retries,    \* how often the load balancer calls Exec again
  None

ASSUME HttpAssumption ==
  /\ Hertz \subseteq Calls
  /\ Proxies \subseteq Calls \ Hertz
  /\ IsProxy \subseteq Calls \ Proxies
  /\ HertzPool \subseteq Objects
  /\ None \notin Objects
  /\ Retries \in Nat

Attempts == 1..(Retries + 1)
Answers == Calls \X Attempts
\* "away" stands for 404, 502 and 504, "fault" for the other errors.
Statuses == {"ok", "redirect", "away", "fault"}
\* fasthttp.ErrDialTimeout, a *net.OpError of a dial, one in another error, all of them
\* before the request is sent; others may come after it.
Errors == {"dial timeout", "dial", "wrapped dial", "other"}
Responses == [status : Statuses \union {"none"}, copies : Answers \union {None},
              body : Objects \union {None}]
Blank == [status |-> "none", copies |-> None, body |-> None]

VARIABLES
  pool,     \* the response objects that are free
  content,  \* per object: the answer in its buffer, or None
  pc,       \* per call: where it is
  attempt,  \* per call: how often Exec has been called
  obj,      \* per call: Exec's local response
  result,   \* per call: r
  err,      \* per call: err
  seen,     \* per call: the answer whose body its caller has read
  stale,    \* per call: whether a later answer has gone to the object of its body (a history)
  served,   \* per call: of how many attempts a server has processed the request
  away      \* per call: how many of these answered with 404, 502 or 504

poolVars == <<pool, content>>
vars == <<poolVars, pc, attempt, obj, result, err, seen, stale, served, away>>

Init ==
  /\ pool = Objects
  /\ content = [o \in Objects |-> None]
  /\ pc = [c \in Calls |-> "ready"]
  /\ attempt = [c \in Calls |-> 0]
  /\ obj = [c \in Calls |-> None]
  /\ result = [c \in Calls |-> Blank]
  /\ err = [c \in Calls |-> "none"]
  /\ seen = [c \in Calls |-> None]
  /\ stale = [c \in Calls |-> FALSE]
  /\ served = [c \in Calls |-> 0]
  /\ away = [c \in Calls |-> 0]

-----------------------------------------------------------------------------
(* Exec and Proxy.                                                          *)

PoolOf(c) == IF c \in Hertz THEN HertzPool ELSE Objects \ HertzPool

\* AcquireResponse; the bytes of an earlier answer stay in the buffer until the next one.
Acquire(c) ==
  /\ pc[c] = "ready"
  /\ \E o \in pool \intersect PoolOf(c) :
       /\ pool' = pool \ {o}
       /\ obj' = [obj EXCEPT ![c] = o]
  /\ attempt' = [attempt EXCEPT ![c] = @ + 1]
  /\ result' = [result EXCEPT ![c] = Blank]
  /\ err' = [err EXCEPT ![c] = "none"]
  /\ stale' = [stale EXCEPT ![c] = FALSE]
  /\ pc' = [pc EXCEPT ![c] = "held"]
  /\ UNCHANGED <<content, seen, served, away>>

\* Only Exec asks for a url.
EmptyUrl(c) ==
  /\ pc[c] = "held"
  /\ c \notin Proxies
  /\ err' = [err EXCEPT ![c] = "url"]
  /\ pc' = [pc EXCEPT ![c] = "leaving"]
  /\ UNCHANGED <<poolVars, attempt, obj, result, seen, stale, served, away>>

\* Do reads what comes into the object's buffer.
Fills(c) ==
  /\ content' = [content EXCEPT ![obj[c]] = <<c, attempt[c]>>]
  /\ stale' = [d \in Calls |-> stale[d] \/ result[d].body = obj[c]]

\* Do returns with an answer, ...
Answered(c, s) ==
  /\ pc[c] = "held"
  /\ Fills(c)
  /\ result' = [result EXCEPT ![c].status = s]
  /\ served' = [served EXCEPT ![c] = @ + 1]
  /\ away' = [away EXCEPT ![c] = IF s = "away" THEN @ + 1 ELSE @]
  /\ pc' = [pc EXCEPT ![c] = "answered"]
  /\ UNCHANGED <<pool, attempt, obj, err, seen>>

\* Mutant: the object is released on the spot, and by the deferred call again.
Failed_Releases(c, e) ==
  /\ pc[c] = "held"
  /\ pool' = pool \union {obj[c]}
  /\ \/ served' = served /\ UNCHANGED <<content, stale>>
     \/ /\ e = "other"
        /\ served' = [served EXCEPT ![c] = @ + 1]
        /\ Fills(c) \/ UNCHANGED <<content, stale>>
  /\ err' = [err EXCEPT ![c] = e]
  /\ pc' = [pc EXCEPT ![c] = "leaving"]
  /\ UNCHANGED <<attempt, obj, result, seen, away>>

\* ... or it fails, perhaps after a server has got the request and part of the answer is here.
Failed(c, e) ==
  /\ pc[c] = "held"
  /\ \/ served' = served /\ UNCHANGED <<content, stale>>
     \/ /\ e = "other"
        /\ served' = [served EXCEPT ![c] = @ + 1]
        /\ Fills(c) \/ UNCHANGED <<content, stale>>
  /\ err' = [err EXCEPT ![c] = e]
  /\ pc' = [pc EXCEPT ![c] = "leaving"]
  /\ UNCHANGED <<pool, attempt, obj, result, seen, away>>

\* What Exec makes of the status: Hertz' excuses the redirect of a proxied request, ...
HertzStatusErr(c) ==
  IF \/ result[c].status = "ok"
     \/ c \in IsProxy /\ result[c].status = "redirect"
  THEN "none" ELSE "status"

\* ... and fasthttp's every status of one.
FastStatusErr(c) ==
  IF result[c].status = "ok" \/ c \in IsProxy THEN "none" ELSE "status"

\* Headers and cookies are copied, the body is not.
Copy(c) ==
  /\ pc[c] = "answered"
  /\ c \notin Proxies
  /\ result' = [result EXCEPT ![c].copies = content[obj[c]], ![c].body = obj[c]]
  /\ err' = [err EXCEPT ![c] = IF c \in Hertz THEN HertzStatusErr(c) ELSE FastStatusErr(c)]
  /\ pc' = [pc EXCEPT ![c] = "leaving"]
  /\ UNCHANGED <<poolVars, attempt, obj, seen, stale, served, away>>

\* Mutant: Proxy returns the body, for its caller to copy.
ProxyCopy_Later(c) ==
  /\ pc[c] = "answered"
  /\ c \in Proxies
  /\ result' = [result EXCEPT ![c].copies = content[obj[c]], ![c].body = obj[c]]
  /\ pc' = [pc EXCEPT ![c] = "leaving"]
  /\ UNCHANGED <<poolVars, attempt, obj, err, seen, stale, served, away>>

\* Proxy copies the body too, before it returns, and takes every status.
ProxyCopy(c) ==
  /\ pc[c] = "answered"
  /\ c \in Proxies
  /\ result' = [result EXCEPT ![c].copies = content[obj[c]]]
  /\ seen' = [seen EXCEPT ![c] = content[obj[c]]]
  /\ pc' = [pc EXCEPT ![c] = "leaving"]
  /\ UNCHANGED <<poolVars, attempt, obj, err, stale, served, away>>

\* Mutant: the object is released after the copies and not by a deferred call.
Panicked_Keeps(c) ==
  /\ pc[c] \in {"held", "answered"}
  /\ \/ UNCHANGED <<served, content, stale>>
     \/ /\ pc[c] = "held"
        /\ served' = [served EXCEPT ![c] = @ + 1]
        /\ Fills(c) \/ UNCHANGED <<content, stale>>
  /\ \/ result' = result
     \/ /\ pc[c] = "answered" /\ c \notin Proxies
        /\ result' = [result EXCEPT ![c].body = obj[c]]
  /\ err' = [err EXCEPT ![c] = IF c \in Proxies THEN "panic" ELSE @]
  /\ pc' = [pc EXCEPT ![c] = "returned"]
  /\ UNCHANGED <<pool, attempt, obj, seen, away>>

\* A panic in Exec is recovered, and err stays nil; one in Proxy is its caller's.
Panicked(c) ==
  /\ pc[c] \in {"held", "answered"}
  /\ \/ UNCHANGED <<served, content, stale>>
     \/ /\ pc[c] = "held"
        /\ served' = [served EXCEPT ![c] = @ + 1]
        /\ Fills(c) \/ UNCHANGED <<content, stale>>
  /\ \/ result' = result
     \/ /\ pc[c] = "answered" /\ c \notin Proxies
        /\ result' = [result EXCEPT ![c].body = obj[c]]
  /\ err' = [err EXCEPT ![c] = IF c \in Proxies THEN "panic" ELSE @]
  /\ pc' = [pc EXCEPT ![c] = "leaving"]
  /\ UNCHANGED <<pool, attempt, obj, seen, away>>

\* The deferred ReleaseResponse.
Leave(c) ==
  /\ pc[c] = "leaving"
  /\ pool' = pool \union {obj[c]}
  /\ obj' = [obj EXCEPT ![c] = None]
  /\ pc' = [pc EXCEPT ![c] = "returned"]
  /\ UNCHANGED <<content, attempt, result, err, seen, stale, served, away>>

-----------------------------------------------------------------------------
(* The callers.                                                             *)

\* Mutant: every error of Do is retried.
CheckRetry_Any(c) == err[c] \in Errors

\* CheckRetry of Hertz: the error of a dial, or a status which is taken for an absence.
HertzCheckRetry(c) ==
  \/ err[c] = "dial"
  \/ err[c] = "status" /\ result[c].status = "away"

\* fasthttp's unwraps the error first, and a status error has none in it.
CheckRetry(c) ==
  IF c \in Hertz THEN HertzCheckRetry(c) ELSE err[c] \in {"dial timeout", "wrapped dial"}

\* The load balancer calls Exec again, ...
Again(c) ==
  /\ pc[c] = "returned"
  /\ c \notin Proxies
  /\ CheckRetry(c)
  /\ attempt[c] <= Retries
  /\ pc' = [pc EXCEPT ![c] = "ready"]
  /\ UNCHANGED <<poolVars, attempt, obj, result, err, seen, stale, served, away>>

\* ... or returns.
Finish(c) ==
  /\ pc[c] = "returned"
  /\ c \notin Proxies /\ CheckRetry(c) => attempt[c] > Retries
  /\ pc' = [pc EXCEPT ![c] = "done"]
  /\ UNCHANGED <<poolVars, attempt, obj, result, err, seen, stale, served, away>>

\* ProxyService, or the application, uses r.Body.
ReadBody(c) ==
  /\ pc[c] = "done"
  /\ err[c] = "none"
  /\ result[c].body # None
  /\ seen' = [seen EXCEPT ![c] = content[result[c].body]]
  /\ pc' = [pc EXCEPT ![c] = "read"]
  /\ UNCHANGED <<poolVars, attempt, obj, result, err, stale, served, away>>

Step(c) ==
  \/ Acquire(c) \/ EmptyUrl(c) \/ Copy(c) \/ ProxyCopy(c) \/ Panicked(c) \/ Leave(c)
  \/ \E s \in Statuses : Answered(c, s)
  \/ \E e \in Errors : Failed(c, e)
  \/ Again(c) \/ Finish(c) \/ ReadBody(c)

Next == \E c \in Calls : Step(c)

Spec == Init /\ [][Next]_vars

-----------------------------------------------------------------------------
(* Properties.                                                              *)

\* Every variable keeps its type, and a call holds an object from AcquireResponse to
\* ReleaseResponse, a panic between them or not.
TypeOK ==
  /\ pool \subseteq Objects
  /\ content \in [Objects -> Answers \union {None}]
  /\ pc \in [Calls -> {"ready", "held", "answered", "leaving", "returned", "done", "read"}]
  /\ attempt \in [Calls -> 0..(Retries + 1)]
  /\ obj \in [Calls -> Objects \union {None}]
  /\ result \in [Calls -> Responses]
  /\ err \in [Calls -> Errors \union {"none", "url", "status", "panic"}]
  /\ seen \in [Calls -> Answers \union {None}]
  /\ stale \in [Calls -> BOOLEAN]
  /\ served \in [Calls -> 0..(Retries + 1)]
  /\ away \in [Calls -> 0..(Retries + 1)]
  /\ \A c \in Calls : obj[c] # None <=> pc[c] \in {"held", "answered", "leaving"}

\* A response object is free, or in use by exactly one call, never both: the deferred
\* ReleaseResponse is the only one, whatever path Exec or Proxy takes.
Exclusive ==
  \A o \in Objects :
    IF o \in pool THEN \A c \in Calls : obj[c] # o
    ELSE \E c \in Calls : obj[c] = o /\ \A d \in Calls \ {c} : obj[d] # o

\* The status, headers and cookies a call returns come from the answer to the attempt it
\* returns from, never from that of another call or of an earlier attempt.
CopiesAreOwn ==
  \A c \in Calls : result[c].copies \in {None, <<c, attempt[c]>>}

\* The body which Proxy has copied is that of its answer; one that is read after Exec has
\* returned is, unless a later answer has gone to the same pooled object.
BodyIsOwn ==
  \A c \in Calls :
    \/ seen[c] \in {None, <<c, attempt[c]>>}
    \/ stale[c] /\ c \notin Proxies

\* A caller never gets another call's answer, in part or whole, except for a body that it
\* reads when a later answer has gone to its object.
AnswersAreOwn == CopiesAreOwn /\ BodyIsOwn

\* A request which a server has processed is sent again only by a Hertz client, and only
\* after an answer of 404, 502 or 504: no other error after which a server may have
\* processed it makes CheckRetry allow another attempt.
NotRepeated ==
  \A c \in Calls : served[c] <= 1 + (IF c \in Hertz THEN away[c] ELSE 0)

=============================================================================

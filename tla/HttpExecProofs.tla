--------------------------- MODULE HttpExecProofs ---------------------------
(***************************************************************************)
(* Proofs about HttpExec, for any number of calls, objects and retries.     *)
(***************************************************************************)
EXTENDS HttpExec, TLAPS

\* The attempts of a call, and those a server has processed: none of the one that has just
\* begun.  Proxy makes one attempt.
CountInv ==
  \A c \in Calls :
    /\ pc[c] = "ready" => attempt[c] <= Retries
    /\ pc[c] # "ready" => attempt[c] >= 1
    /\ served[c] <= attempt[c] /\ away[c] <= attempt[c]
    /\ pc[c] = "held" => served[c] < attempt[c] /\ away[c] < attempt[c]

\* An object in use is not free, and one call uses it; the others are free.
ObjectInv ==
  /\ \A c \in Calls : obj[c] \notin pool
  /\ \A c, d \in Calls : obj[c] = obj[d] /\ obj[c] # None => c = d
  /\ \A o \in Objects \ pool : \E c \in Calls : obj[c] = o

\* What is in the object of a call, and in that of the body it returned.
BufferInv ==
  \A c \in Calls :
    /\ pc[c] = "answered" => content[obj[c]] = <<c, attempt[c]>>
    /\ result[c].body # None =>
         /\ c \notin Proxies
         /\ pc[c] \notin {"held", "answered"}
         /\ stale[c] \/ content[result[c].body] = <<c, attempt[c]>>
    /\ seen[c] # None => pc[c] \in {"leaving", "returned", "done", "read"}
    /\ seen[c] # None /\ c \notin Proxies => pc[c] = "read"

\* A call that is or will be tried again has been processed no more often than it may.
MayRepeat(c) ==
  LET Allowed == IF c \in Hertz THEN away[c] ELSE 0
  IN  /\ pc[c] \in {"held", "answered"} => err[c] = "none"
      /\ pc[c] \in {"ready", "held"} => served[c] <= Allowed
      /\ c \in Hertz /\ pc[c] = "answered" /\ result[c].status = "away" => served[c] <= Allowed
      /\ c \notin Proxies /\ pc[c] \in {"leaving", "returned"} /\ CheckRetry(c) => served[c] <= Allowed
      /\ served[c] <= 1 + Allowed

RepeatInv == \A c \in Calls : MayRepeat(c)

Inv == TypeOK /\ CountInv /\ ObjectInv /\ BufferInv /\ CopiesAreOwn /\ BodyIsOwn /\ RepeatInv

\* What Do reads into a buffer is typed.
LEMMA FillType ==
  ASSUME TypeOK, CountInv, NEW c \in Calls, pc[c] = "held", Fills(c)
  PROVE  content' \in [Objects -> Answers \union {None}] /\ stale' \in [Calls -> BOOLEAN]
<1>1. attempt[c] \in Attempts
  BY HttpAssumption DEF TypeOK, CountInv, Attempts
<1> QED BY <1>1 DEF TypeOK, Fills, Answers

\* Do reads into the buffer of its own call, and every other call that has returned a body in
\* the same object becomes stale.
LEMMA FillBuffer ==
  ASSUME TypeOK, ObjectInv, BufferInv,
         NEW c \in Calls, pc[c] = "held", Fills(c),
         NEW p \in {"answered", "leaving"}, pc' = [pc EXCEPT ![c] = p],
         attempt' = attempt, obj' = obj, seen' = seen,
         \A d \in Calls : result'[d].body = result[d].body
  PROVE  BufferInv'
<1> USE HttpAssumption DEF Responses
<1>1. /\ obj[c] \in Objects
      /\ content'[obj[c]] = <<c, attempt[c]>>
      /\ \A o \in Objects : o # obj[c] => content'[o] = content[o]
  BY DEF TypeOK, Fills
<1>2. \A d \in Calls : /\ pc'[d] = IF d = c THEN p ELSE pc[d]
                       /\ result[d].body \in Objects \union {None}
                       /\ obj[d] \in Objects \union {None}
  BY DEF TypeOK
<1>3. \A d \in Calls : (stale'[d] <=> stale[d] \/ result[d].body = obj[c])
  BY DEF Fills
<1>4. result[c].body = None /\ seen[c] = None
  BY DEF BufferInv
<1>5. \A d \in Calls \ {c} : pc[d] = "answered" => obj[d] # obj[c] /\ obj[d] \in Objects
  BY <1>1, <1>2 DEF TypeOK, ObjectInv
<1>6. ASSUME NEW d \in Calls, pc'[d] = "answered" PROVE content'[obj'[d]] = <<d, attempt'[d]>>
  BY <1>1, <1>2, <1>5, <1>6 DEF BufferInv
<1>7. ASSUME NEW d \in Calls, result'[d].body # None
      PROVE  /\ d \notin Proxies
             /\ pc'[d] \notin {"held", "answered"}
             /\ stale'[d] \/ content'[result'[d].body] = <<d, attempt'[d]>>
  <2>1. d # c
    BY <1>4, <1>7
  <2>2. d \notin Proxies /\ pc'[d] \notin {"held", "answered"}
    BY <1>2, <1>7, <2>1 DEF BufferInv
  <2>3. CASE result[d].body = obj[c]
    BY <1>3, <2>2, <2>3
  <2>4. CASE result[d].body # obj[c]
    <3>1. content'[result[d].body] = content[result[d].body]
      BY <1>1, <1>2, <1>7, <2>4
    <3>2. stale[d] \/ content[result[d].body] = <<d, attempt[d]>>
      BY <1>7 DEF BufferInv
    <3> QED BY <1>3, <2>2, <3>1, <3>2
  <2> QED BY <2>3, <2>4
<1>8. ASSUME NEW d \in Calls, seen'[d] # None
      PROVE  /\ pc'[d] \in {"leaving", "returned", "done", "read"}
             /\ d \notin Proxies => pc'[d] = "read"
  BY <1>2, <1>4, <1>8 DEF BufferInv
<1> QED BY <1>6, <1>7, <1>8 DEF BufferInv

\* Every step keeps the types.
LEMMA TypeStep ==
  ASSUME Inv, [Next]_vars
  PROVE  TypeOK'
<1> USE HttpAssumption DEF poolVars, Responses
<1>0. TypeOK /\ CountInv
  BY DEF Inv
<1>1. ASSUME NEW c \in Calls, Acquire(c) PROVE TypeOK'
  BY <1>0, <1>1 DEF TypeOK, CountInv, Acquire, Blank
<1>2. ASSUME NEW c \in Calls, EmptyUrl(c) PROVE TypeOK'
  BY <1>0, <1>2 DEF TypeOK, EmptyUrl
<1>3. ASSUME NEW c \in Calls, Copy(c) PROVE TypeOK'
  <2>1. result[c] \in Responses /\ content[obj[c]] \in Answers \union {None} /\ obj[c] \in Objects
    BY <1>0, <1>3 DEF TypeOK, Copy
  <2>2. result' = [result EXCEPT ![c] = [result[c] EXCEPT !.copies = content[obj[c]], !.body = obj[c]]]
    BY <1>3 DEF Copy
  <2>3. [result[c] EXCEPT !.copies = content[obj[c]], !.body = obj[c]] \in Responses
    BY <2>1
  <2>4. result' \in [Calls -> Responses]
    BY <1>0, <2>2, <2>3 DEF TypeOK
  <2>5. HertzStatusErr(c) \in {"none", "status"} /\ FastStatusErr(c) \in {"none", "status"}
    BY DEF HertzStatusErr, FastStatusErr
  <2> QED BY <1>0, <1>3, <2>4, <2>5 DEF TypeOK, Copy
<1>4. ASSUME NEW c \in Calls, ProxyCopy(c) PROVE TypeOK'
  <2>1. result[c] \in Responses /\ content[obj[c]] \in Answers \union {None} /\ obj[c] \in Objects
    BY <1>0, <1>4 DEF TypeOK, ProxyCopy
  <2>2. result' = [result EXCEPT ![c] = [result[c] EXCEPT !.copies = content[obj[c]]]]
    BY <1>4 DEF ProxyCopy
  <2>3. [result[c] EXCEPT !.copies = content[obj[c]]] \in Responses
    BY <2>1
  <2>4. result' \in [Calls -> Responses]
    BY <1>0, <2>2, <2>3 DEF TypeOK
  <2> QED BY <1>0, <1>4, <2>1, <2>4 DEF TypeOK, ProxyCopy
<1>5. ASSUME NEW c \in Calls, Panicked(c) PROVE TypeOK'
  <2>1. served' \in [Calls -> 0..(Retries + 1)]
    BY <1>0, <1>5 DEF TypeOK, CountInv, Panicked
  <2>2. content' \in [Objects -> Answers \union {None}] /\ stale' \in [Calls -> BOOLEAN]
    BY <1>0, <1>5, FillType DEF Panicked, TypeOK
  <2>3. result' \in [Calls -> Responses]
    <3>1. result[c] \in Responses /\ obj[c] \in Objects \union {None}
      BY <1>0 DEF TypeOK
    <3>2. [result[c] EXCEPT !.body = obj[c]] \in Responses
      BY <3>1
    <3>3. result' = result \/ result' = [result EXCEPT ![c] = [result[c] EXCEPT !.body = obj[c]]]
      BY <1>5 DEF Panicked
    <3> QED BY <1>0, <3>2, <3>3 DEF TypeOK
  <2> QED BY <1>0, <1>5, <2>1, <2>2, <2>3 DEF TypeOK, Panicked
<1>6. ASSUME NEW c \in Calls, Leave(c) PROVE TypeOK'
  BY <1>0, <1>6 DEF TypeOK, Leave
<1>7. ASSUME NEW c \in Calls, NEW s \in Statuses, Answered(c, s) PROVE TypeOK'
  <2>2. content' \in [Objects -> Answers \union {None}] /\ stale' \in [Calls -> BOOLEAN]
    BY <1>0, <1>7, FillType DEF Answered
  <2>3. result[c] \in Responses
    BY <1>0 DEF TypeOK
  <2>4. [result[c] EXCEPT !.status = s] \in Responses
    BY <2>3
  <2>5. result' = [result EXCEPT ![c] = [result[c] EXCEPT !.status = s]]
    BY <1>7 DEF Answered
  <2>6. result' \in [Calls -> Responses]
    BY <1>0, <2>4, <2>5 DEF TypeOK
  <2>7. served' \in [Calls -> 0..(Retries + 1)] /\ away' \in [Calls -> 0..(Retries + 1)]
    BY <1>0, <1>7 DEF TypeOK, CountInv, Answered
  <2>8. pool' = pool /\ attempt' = attempt /\ obj' = obj /\ err' = err /\ seen' = seen
    BY <1>7 DEF Answered
  <2>9. /\ pc' \in [Calls -> {"ready", "held", "answered", "leaving", "returned", "done", "read"}]
        /\ \A d \in Calls : obj[d] # None <=> pc'[d] \in {"held", "answered", "leaving"}
    BY <1>0, <1>7 DEF TypeOK, Answered
  <2> QED BY <1>0, <2>2, <2>6, <2>7, <2>8, <2>9 DEF TypeOK
<1>8. ASSUME NEW c \in Calls, NEW e \in Errors, Failed(c, e) PROVE TypeOK'
  <2>1. served' \in [Calls -> 0..(Retries + 1)]
    BY <1>0, <1>8 DEF TypeOK, CountInv, Failed
  <2>2. content' \in [Objects -> Answers \union {None}] /\ stale' \in [Calls -> BOOLEAN]
    BY <1>0, <1>8, FillType DEF Failed, TypeOK
  <2> QED BY <1>0, <1>8, <2>1, <2>2 DEF TypeOK, Failed
<1>9. ASSUME NEW c \in Calls, Again(c) PROVE TypeOK'
  BY <1>0, <1>9 DEF TypeOK, Again
<1>10. ASSUME NEW c \in Calls, Finish(c) PROVE TypeOK'
  BY <1>0, <1>10 DEF TypeOK, Finish
<1>11. ASSUME NEW c \in Calls, ReadBody(c) PROVE TypeOK'
  BY <1>0, <1>11 DEF TypeOK, ReadBody
<1>12. CASE UNCHANGED vars
  BY <1>0, <1>12 DEF TypeOK, vars
<1> QED BY <1>1, <1>2, <1>3, <1>4, <1>5, <1>6, <1>7, <1>8, <1>9, <1>10, <1>11, <1>12 DEF Next, Step

\* Every step keeps the counts of attempts.
LEMMA CountStep ==
  ASSUME Inv, [Next]_vars
  PROVE  CountInv'
<1> USE HttpAssumption DEF poolVars, Responses
<1>0. TypeOK /\ CountInv
  BY DEF Inv
<1>1. ASSUME NEW c \in Calls, Acquire(c) PROVE CountInv'
  BY <1>0, <1>1 DEF TypeOK, CountInv, Acquire
<1>2. ASSUME NEW c \in Calls, EmptyUrl(c) PROVE CountInv'
  BY <1>0, <1>2 DEF CountInv, EmptyUrl
<1>3. ASSUME NEW c \in Calls, Copy(c) PROVE CountInv'
  BY <1>0, <1>3 DEF CountInv, Copy
<1>4. ASSUME NEW c \in Calls, ProxyCopy(c) PROVE CountInv'
  BY <1>0, <1>4 DEF CountInv, ProxyCopy
<1>5. ASSUME NEW c \in Calls, Panicked(c) PROVE CountInv'
  BY <1>0, <1>5 DEF TypeOK, CountInv, Panicked
<1>6. ASSUME NEW c \in Calls, Leave(c) PROVE CountInv'
  BY <1>0, <1>6 DEF CountInv, Leave
<1>7. ASSUME NEW c \in Calls, NEW s \in Statuses, Answered(c, s) PROVE CountInv'
  BY <1>0, <1>7 DEF TypeOK, CountInv, Answered
<1>8. ASSUME NEW c \in Calls, NEW e \in Errors, Failed(c, e) PROVE CountInv'
  BY <1>0, <1>8 DEF TypeOK, CountInv, Failed
<1>9. ASSUME NEW c \in Calls, Again(c) PROVE CountInv'
  BY <1>0, <1>9 DEF CountInv, Again
<1>10. ASSUME NEW c \in Calls, Finish(c) PROVE CountInv'
  BY <1>0, <1>10 DEF CountInv, Finish
<1>11. ASSUME NEW c \in Calls, ReadBody(c) PROVE CountInv'
  BY <1>0, <1>11 DEF CountInv, ReadBody
<1>12. CASE UNCHANGED vars
  BY <1>0, <1>12 DEF CountInv, vars
<1> QED BY <1>1, <1>2, <1>3, <1>4, <1>5, <1>6, <1>7, <1>8, <1>9, <1>10, <1>11, <1>12 DEF Next, Step

\* Every step keeps one user per object.
LEMMA ObjectStep ==
  ASSUME Inv, [Next]_vars
  PROVE  ObjectInv'
<1> USE HttpAssumption DEF poolVars, Responses
<1>0. TypeOK /\ ObjectInv
  BY DEF Inv
<1>1. ASSUME NEW c \in Calls, Acquire(c) PROVE ObjectInv'
  BY <1>0, <1>1 DEF TypeOK, ObjectInv, Acquire
<1>2. ASSUME NEW c \in Calls, EmptyUrl(c) PROVE ObjectInv'
  BY <1>0, <1>2 DEF ObjectInv, EmptyUrl
<1>3. ASSUME NEW c \in Calls, Copy(c) PROVE ObjectInv'
  BY <1>0, <1>3 DEF ObjectInv, Copy
<1>4. ASSUME NEW c \in Calls, ProxyCopy(c) PROVE ObjectInv'
  BY <1>0, <1>4 DEF ObjectInv, ProxyCopy
<1>5. ASSUME NEW c \in Calls, Panicked(c) PROVE ObjectInv'
  BY <1>0, <1>5 DEF ObjectInv, Panicked
<1>6. ASSUME NEW c \in Calls, Leave(c) PROVE ObjectInv'
  BY <1>0, <1>6 DEF TypeOK, ObjectInv, Leave
<1>7. ASSUME NEW c \in Calls, NEW s \in Statuses, Answered(c, s) PROVE ObjectInv'
  BY <1>0, <1>7 DEF ObjectInv, Answered
<1>8. ASSUME NEW c \in Calls, NEW e \in Errors, Failed(c, e) PROVE ObjectInv'
  BY <1>0, <1>8 DEF ObjectInv, Failed
<1>9. ASSUME NEW c \in Calls, Again(c) PROVE ObjectInv'
  BY <1>0, <1>9 DEF ObjectInv, Again
<1>10. ASSUME NEW c \in Calls, Finish(c) PROVE ObjectInv'
  BY <1>0, <1>10 DEF ObjectInv, Finish
<1>11. ASSUME NEW c \in Calls, ReadBody(c) PROVE ObjectInv'
  BY <1>0, <1>11 DEF ObjectInv, ReadBody
<1>12. CASE UNCHANGED vars
  BY <1>0, <1>12 DEF ObjectInv, vars
<1> QED BY <1>1, <1>2, <1>3, <1>4, <1>5, <1>6, <1>7, <1>8, <1>9, <1>10, <1>11, <1>12 DEF Next, Step

\* Every step keeps what the buffers hold.
LEMMA BufferStep ==
  ASSUME Inv, [Next]_vars
  PROVE  BufferInv'
<1> USE HttpAssumption DEF poolVars, Responses
<1>0. TypeOK /\ CountInv /\ ObjectInv /\ BufferInv
  BY DEF Inv
<1>1. ASSUME NEW c \in Calls, Acquire(c) PROVE BufferInv'
  BY <1>0, <1>1 DEF TypeOK, BufferInv, Acquire, Blank
<1>2. ASSUME NEW c \in Calls, EmptyUrl(c) PROVE BufferInv'
  BY <1>0, <1>2 DEF TypeOK, BufferInv, EmptyUrl
<1>3. ASSUME NEW c \in Calls, Copy(c) PROVE BufferInv'
  BY <1>0, <1>3 DEF TypeOK, BufferInv, Copy
<1>4. ASSUME NEW c \in Calls, ProxyCopy(c) PROVE BufferInv'
  BY <1>0, <1>4 DEF TypeOK, BufferInv, ProxyCopy
<1>5. ASSUME NEW c \in Calls, Panicked(c) PROVE BufferInv'
  <2>1. /\ pc' = [pc EXCEPT ![c] = "leaving"]
        /\ attempt' = attempt /\ obj' = obj /\ seen' = seen
    BY <1>5 DEF Panicked
  <2>2. CASE pc[c] = "held" /\ Fills(c)
    <3>1. result' = result
      BY <1>5, <2>2 DEF Panicked
    <3> QED BY <1>0, <2>1, <2>2, <3>1, FillBuffer
  <2>3. CASE UNCHANGED <<content, stale>>
    BY <1>0, <1>5, <2>1, <2>3 DEF TypeOK, BufferInv, Panicked
  <2> QED BY <1>5, <2>2, <2>3 DEF Panicked
<1>6. ASSUME NEW c \in Calls, Leave(c) PROVE BufferInv'
  BY <1>0, <1>6 DEF TypeOK, BufferInv, Leave
<1>7. ASSUME NEW c \in Calls, NEW s \in Statuses, Answered(c, s) PROVE BufferInv'
  <2>1. pc[c] = "held" /\ pc' = [pc EXCEPT ![c] = "answered"] /\ Fills(c)
    BY <1>7 DEF Answered
  <2>2. /\ attempt' = attempt /\ obj' = obj /\ seen' = seen
        /\ \A d \in Calls : result'[d].body = result[d].body
    BY <1>0, <1>7 DEF TypeOK, Answered
  <2> QED BY <1>0, <2>1, <2>2, FillBuffer
<1>8. ASSUME NEW c \in Calls, NEW e \in Errors, Failed(c, e) PROVE BufferInv'
  <2>1. /\ pc[c] = "held" /\ pc' = [pc EXCEPT ![c] = "leaving"]
        /\ attempt' = attempt /\ obj' = obj /\ seen' = seen /\ result' = result
    BY <1>8 DEF Failed
  <2>2. CASE Fills(c)
    BY <1>0, <2>1, <2>2, FillBuffer
  <2>3. CASE UNCHANGED <<content, stale>>
    BY <1>0, <2>1, <2>3 DEF TypeOK, BufferInv
  <2> QED BY <1>8, <2>2, <2>3 DEF Failed
<1>9. ASSUME NEW c \in Calls, Again(c) PROVE BufferInv'
  BY <1>0, <1>9 DEF BufferInv, Again
<1>10. ASSUME NEW c \in Calls, Finish(c) PROVE BufferInv'
  BY <1>0, <1>10 DEF TypeOK, BufferInv, Finish
<1>11. ASSUME NEW c \in Calls, ReadBody(c) PROVE BufferInv'
  BY <1>0, <1>11 DEF TypeOK, BufferInv, ReadBody
<1>12. CASE UNCHANGED vars
  BY <1>0, <1>12 DEF BufferInv, vars
<1> QED BY <1>1, <1>2, <1>3, <1>4, <1>5, <1>6, <1>7, <1>8, <1>9, <1>10, <1>11, <1>12 DEF Next, Step

\* Every step keeps the copies its own.
LEMMA CopiesStep ==
  ASSUME Inv, [Next]_vars
  PROVE  CopiesAreOwn'
<1> USE HttpAssumption DEF poolVars, Responses
<1>0. TypeOK /\ BufferInv /\ CopiesAreOwn
  BY DEF Inv
<1>1. ASSUME NEW c \in Calls, Acquire(c) PROVE CopiesAreOwn'
  BY <1>0, <1>1 DEF TypeOK, CopiesAreOwn, Acquire, Blank
<1>2. ASSUME NEW c \in Calls, EmptyUrl(c) PROVE CopiesAreOwn'
  BY <1>0, <1>2 DEF CopiesAreOwn, EmptyUrl
<1>3. ASSUME NEW c \in Calls, Copy(c) PROVE CopiesAreOwn'
  BY <1>0, <1>3 DEF TypeOK, BufferInv, Copy
<1>4. ASSUME NEW c \in Calls, ProxyCopy(c) PROVE CopiesAreOwn'
  <2>1. content[obj[c]] = <<c, attempt[c]>>
    BY <1>0, <1>4 DEF BufferInv, ProxyCopy
  <2>2. \A d \in Calls : result'[d].copies = IF d = c THEN content[obj[c]] ELSE result[d].copies
    BY <1>0, <1>4 DEF TypeOK, ProxyCopy
  <2> QED BY <1>0, <1>4, <2>1, <2>2 DEF CopiesAreOwn, ProxyCopy
<1>5. ASSUME NEW c \in Calls, Panicked(c) PROVE CopiesAreOwn'
  BY <1>0, <1>5 DEF TypeOK, CopiesAreOwn, Panicked
<1>6. ASSUME NEW c \in Calls, Leave(c) PROVE CopiesAreOwn'
  BY <1>0, <1>6 DEF CopiesAreOwn, Leave
<1>7. ASSUME NEW c \in Calls, NEW s \in Statuses, Answered(c, s) PROVE CopiesAreOwn'
  BY <1>0, <1>7 DEF CopiesAreOwn, Answered
<1>8. ASSUME NEW c \in Calls, NEW e \in Errors, Failed(c, e) PROVE CopiesAreOwn'
  BY <1>0, <1>8 DEF CopiesAreOwn, Failed
<1>9. ASSUME NEW c \in Calls, Again(c) PROVE CopiesAreOwn'
  BY <1>0, <1>9 DEF CopiesAreOwn, Again
<1>10. ASSUME NEW c \in Calls, Finish(c) PROVE CopiesAreOwn'
  BY <1>0, <1>10 DEF CopiesAreOwn, Finish
<1>11. ASSUME NEW c \in Calls, ReadBody(c) PROVE CopiesAreOwn'
  BY <1>0, <1>11 DEF CopiesAreOwn, ReadBody
<1>12. CASE UNCHANGED vars
  BY <1>0, <1>12 DEF CopiesAreOwn, vars
<1> QED BY <1>1, <1>2, <1>3, <1>4, <1>5, <1>6, <1>7, <1>8, <1>9, <1>10, <1>11, <1>12 DEF Next, Step

\* Every step keeps the bodies which callers have read.
LEMMA BodyStep ==
  ASSUME Inv, [Next]_vars
  PROVE  BodyIsOwn'
<1> USE HttpAssumption DEF poolVars, Responses
<1>0. TypeOK /\ BufferInv /\ BodyIsOwn
  BY DEF Inv
<1>1. ASSUME NEW c \in Calls, Acquire(c) PROVE BodyIsOwn'
  BY <1>0, <1>1 DEF BufferInv, BodyIsOwn, Acquire
<1>2. ASSUME NEW c \in Calls, EmptyUrl(c) PROVE BodyIsOwn'
  BY <1>0, <1>2 DEF BodyIsOwn, EmptyUrl
<1>3. ASSUME NEW c \in Calls, Copy(c) PROVE BodyIsOwn'
  BY <1>0, <1>3 DEF BodyIsOwn, Copy
<1>4. ASSUME NEW c \in Calls, ProxyCopy(c) PROVE BodyIsOwn'
  <2>1. content[obj[c]] = <<c, attempt[c]>>
    BY <1>0, <1>4 DEF BufferInv, ProxyCopy
  <2>2. \A d \in Calls : seen'[d] = IF d = c THEN <<c, attempt[c]>> ELSE seen[d]
    BY <1>0, <1>4, <2>1 DEF TypeOK, ProxyCopy
  <2>3. attempt' = attempt /\ stale' = stale
    BY <1>4 DEF ProxyCopy
  <2> QED BY <1>0, <2>2, <2>3 DEF BodyIsOwn
<1>5. ASSUME NEW c \in Calls, Panicked(c) PROVE BodyIsOwn'
  <2>1. \A d \in Calls : stale[d] => stale'[d]
    BY <1>5 DEF Panicked, Fills
  <2>2. attempt' = attempt /\ seen' = seen
    BY <1>5 DEF Panicked
  <2> QED BY <1>0, <2>1, <2>2 DEF BodyIsOwn
<1>6. ASSUME NEW c \in Calls, Leave(c) PROVE BodyIsOwn'
  BY <1>0, <1>6 DEF BodyIsOwn, Leave
<1>7. ASSUME NEW c \in Calls, NEW s \in Statuses, Answered(c, s) PROVE BodyIsOwn'
  <2>1. \A d \in Calls : stale[d] => stale'[d]
    BY <1>7 DEF Answered, Fills
  <2>2. attempt' = attempt /\ seen' = seen
    BY <1>7 DEF Answered
  <2> QED BY <1>0, <2>1, <2>2 DEF BodyIsOwn
<1>8. ASSUME NEW c \in Calls, NEW e \in Errors, Failed(c, e) PROVE BodyIsOwn'
  <2>1. \A d \in Calls : stale[d] => stale'[d]
    BY <1>8 DEF Failed, Fills
  <2>2. attempt' = attempt /\ seen' = seen
    BY <1>8 DEF Failed
  <2> QED BY <1>0, <2>1, <2>2 DEF BodyIsOwn
<1>9. ASSUME NEW c \in Calls, Again(c) PROVE BodyIsOwn'
  BY <1>0, <1>9 DEF BodyIsOwn, Again
<1>10. ASSUME NEW c \in Calls, Finish(c) PROVE BodyIsOwn'
  BY <1>0, <1>10 DEF BodyIsOwn, Finish
<1>11. ASSUME NEW c \in Calls, ReadBody(c) PROVE BodyIsOwn'
  BY <1>0, <1>11 DEF TypeOK, BufferInv, BodyIsOwn, ReadBody
<1>12. CASE UNCHANGED vars
  BY <1>0, <1>12 DEF BodyIsOwn, vars
<1> QED BY <1>1, <1>2, <1>3, <1>4, <1>5, <1>6, <1>7, <1>8, <1>9, <1>10, <1>11, <1>12 DEF Next, Step

\* Every step keeps how often a request may have been processed.
LEMMA RepeatStep ==
  ASSUME Inv, [Next]_vars
  PROVE  RepeatInv'
<1> USE HttpAssumption DEF poolVars, Responses
<1>0. TypeOK /\ RepeatInv
  BY DEF Inv
<1>1. ASSUME NEW c \in Calls, Acquire(c) PROVE RepeatInv'
  BY <1>0, <1>1 DEF TypeOK, RepeatInv, MayRepeat, CheckRetry, HertzCheckRetry, Acquire, PoolOf, Blank
<1>2. ASSUME NEW c \in Calls, EmptyUrl(c) PROVE RepeatInv'
  BY <1>0, <1>2 DEF TypeOK, RepeatInv, MayRepeat, CheckRetry, HertzCheckRetry, EmptyUrl
<1>3. ASSUME NEW c \in Calls, Copy(c) PROVE RepeatInv'
  <2>1. ASSUME NEW d \in Calls \ {c}
        PROVE  /\ pc'[d] = pc[d] /\ err'[d] = err[d] /\ served'[d] = served[d]
               /\ away'[d] = away[d] /\ result'[d].status = result[d].status
    BY <1>0, <1>3 DEF TypeOK, Copy
  <2>2. /\ pc[c] \in {"held", "answered"} /\ err[c] = "none"
        /\ (c \in Hertz => away[c] \in Nat) /\ served[c] \in Nat
    BY <1>0, <1>3 DEF TypeOK, RepeatInv, MayRepeat, Copy
  <2>3. /\ pc'[c] = "leaving" /\ served'[c] = served[c] /\ away'[c] = away[c]
        /\ result'[c].status = result[c].status /\ err'[c] \in {"none", "status"} /\ pc[c] = "answered"
    BY <1>0, <1>3 DEF TypeOK, Copy, HertzStatusErr, FastStatusErr
  <2>4. ASSUME NEW d \in Calls \ {c} PROVE MayRepeat(d)'
    <3>1. MayRepeat(d)
      BY <1>0 DEF RepeatInv
    <3> QED BY <2>1, <3>1 DEF MayRepeat, CheckRetry, HertzCheckRetry
  <2>5. MayRepeat(c)'
    <3>1. MayRepeat(c)
      BY <1>0 DEF RepeatInv
    <3> QED BY <2>2, <2>3, <3>1 DEF MayRepeat, CheckRetry, HertzCheckRetry
  <2> QED BY <2>4, <2>5 DEF RepeatInv
<1>4. ASSUME NEW c \in Calls, ProxyCopy(c) PROVE RepeatInv'
  BY <1>0, <1>4 DEF TypeOK, RepeatInv, MayRepeat, CheckRetry, HertzCheckRetry, ProxyCopy
<1>5. ASSUME NEW c \in Calls, Panicked(c) PROVE RepeatInv'
  <2>1. ASSUME NEW d \in Calls \ {c}
        PROVE  /\ pc'[d] = pc[d] /\ err'[d] = err[d] /\ served'[d] = served[d]
               /\ away'[d] = away[d] /\ result'[d].status = result[d].status
    BY <1>0, <1>5 DEF TypeOK, Panicked
  <2>2. /\ pc[c] \in {"held", "answered"} /\ err[c] = "none"
        /\ (c \in Hertz => away[c] \in Nat) /\ served[c] \in Nat
    BY <1>0, <1>5 DEF TypeOK, RepeatInv, MayRepeat, Panicked
  <2>3. /\ pc'[c] = "leaving" /\ away'[c] = away[c] /\ err'[c] \in {"none", "panic"}
        /\ served'[c] = served[c] \/ (pc[c] = "held" /\ served'[c] = served[c] + 1)
    <3>1. served' = served \/ (pc[c] = "held" /\ served' = [served EXCEPT ![c] = served[c] + 1])
      BY <2>2, <1>5 DEF Panicked
    <3>2. pc'[c] = "leaving" /\ away'[c] = away[c] /\ err'[c] \in {"none", "panic"}
      BY <1>0, <2>2, <1>5 DEF TypeOK, Panicked
    <3> QED BY <1>0, <3>1, <3>2 DEF TypeOK
  <2>4. ASSUME NEW d \in Calls \ {c} PROVE MayRepeat(d)'
    <3>1. MayRepeat(d)
      BY <1>0 DEF RepeatInv
    <3> QED BY <2>1, <3>1 DEF MayRepeat, CheckRetry, HertzCheckRetry
  <2>5. MayRepeat(c)'
    <3>1. MayRepeat(c)
      BY <1>0 DEF RepeatInv
    <3>2. ~CheckRetry(c)'
      BY <2>3 DEF CheckRetry, HertzCheckRetry
    <3> DEFINE Allowed == IF c \in Hertz THEN away[c] ELSE 0
    <3>3. /\ pc[c] = "held" => served[c] <= Allowed
          /\ served[c] <= 1 + Allowed /\ Allowed' = Allowed /\ Allowed \in Nat
      BY <2>2, <2>3, <3>1 DEF MayRepeat
    <3>4. served'[c] <= 1 + Allowed
      BY <2>2, <2>3, <3>3
    <3> QED BY <2>3, <3>2, <3>3, <3>4 DEF MayRepeat
  <2> QED BY <2>4, <2>5 DEF RepeatInv
<1>6. ASSUME NEW c \in Calls, Leave(c) PROVE RepeatInv'
  BY <1>0, <1>6 DEF TypeOK, RepeatInv, MayRepeat, CheckRetry, HertzCheckRetry, Leave
<1>7. ASSUME NEW c \in Calls, NEW s \in Statuses, Answered(c, s) PROVE RepeatInv'
  <2>1. ASSUME NEW d \in Calls \ {c}
        PROVE  /\ pc'[d] = pc[d] /\ err'[d] = err[d] /\ served'[d] = served[d]
               /\ away'[d] = away[d] /\ result'[d].status = result[d].status
    BY <1>0, <1>7 DEF TypeOK, Answered
  <2>2. /\ pc[c] \in {"held", "answered"} /\ err[c] = "none"
        /\ (c \in Hertz => away[c] \in Nat) /\ served[c] \in Nat
    BY <1>0, <1>7 DEF TypeOK, RepeatInv, MayRepeat, Answered
  <2>3. /\ pc'[c] = "answered" /\ err'[c] = "none" /\ pc[c] = "held" /\ served'[c] = served[c] + 1
        /\ result'[c].status = s
        /\ away'[c] = IF s = "away" THEN away[c] + 1 ELSE away[c]
    BY <1>0, <2>2, <1>7 DEF TypeOK, Answered
  <2>4. ASSUME NEW d \in Calls \ {c} PROVE MayRepeat(d)'
    <3>1. MayRepeat(d)
      BY <1>0 DEF RepeatInv
    <3> QED BY <2>1, <3>1 DEF MayRepeat, CheckRetry, HertzCheckRetry
  <2>5. MayRepeat(c)'
    <3>1. MayRepeat(c)
      BY <1>0 DEF RepeatInv
    <3> QED BY <2>2, <2>3, <3>1 DEF MayRepeat, CheckRetry, HertzCheckRetry
  <2> QED BY <2>4, <2>5 DEF RepeatInv
<1>8. ASSUME NEW c \in Calls, NEW e \in Errors, Failed(c, e) PROVE RepeatInv'
  <2>1. ASSUME NEW d \in Calls \ {c}
        PROVE  /\ pc'[d] = pc[d] /\ err'[d] = err[d] /\ served'[d] = served[d]
               /\ away'[d] = away[d] /\ result'[d].status = result[d].status
    BY <1>0, <1>8 DEF TypeOK, Failed
  <2>2. /\ pc[c] \in {"held", "answered"} /\ err[c] = "none"
        /\ (c \in Hertz => away[c] \in Nat) /\ served[c] \in Nat
    BY <1>0, <1>8 DEF TypeOK, RepeatInv, MayRepeat, Failed
  <2>3. /\ pc'[c] = "leaving" /\ err'[c] = e /\ pc[c] = "held" /\ away'[c] = away[c]
        /\ e \in Errors
        /\ served'[c] = served[c] \/ (e = "other" /\ served'[c] = served[c] + 1)
    <3>1. served' = served \/ (e = "other" /\ served' = [served EXCEPT ![c] = served[c] + 1])
      BY <1>8 DEF Failed
    <3>2. /\ pc'[c] = "leaving" /\ err'[c] = e /\ pc[c] = "held" /\ away'[c] = away[c]
          /\ e \in Errors
      BY <1>0, <2>2, <1>8 DEF TypeOK, Failed
    <3> QED BY <1>0, <3>1, <3>2 DEF TypeOK
  <2>4. ASSUME NEW d \in Calls \ {c} PROVE MayRepeat(d)'
    <3>1. MayRepeat(d)
      BY <1>0 DEF RepeatInv
    <3> QED BY <2>1, <3>1 DEF MayRepeat, CheckRetry, HertzCheckRetry
  <2>5. MayRepeat(c)'
    <3>1. MayRepeat(c)
      BY <1>0 DEF RepeatInv
    <3>2. CheckRetry(c)' => served'[c] = served[c]
      BY <2>3 DEF CheckRetry, HertzCheckRetry, Errors
    <3> DEFINE Allowed == IF c \in Hertz THEN away[c] ELSE 0
    <3>3. served[c] <= Allowed /\ Allowed' = Allowed /\ Allowed \in Nat
      BY <2>2, <2>3, <3>1 DEF MayRepeat
    <3>4. served'[c] <= 1 + Allowed
      BY <2>2, <2>3, <3>3
    <3> HIDE DEF Allowed
    <3>5. (CheckRetry(c)' => served'[c] <= Allowed') /\ served'[c] <= 1 + Allowed'
      BY <3>2, <3>3, <3>4
    <3> QED BY <2>3, <3>5 DEF MayRepeat, Allowed
  <2> QED BY <2>4, <2>5 DEF RepeatInv
<1>9. ASSUME NEW c \in Calls, Again(c) PROVE RepeatInv'
  BY <1>0, <1>9 DEF TypeOK, RepeatInv, MayRepeat, CheckRetry, HertzCheckRetry, Again
<1>10. ASSUME NEW c \in Calls, Finish(c) PROVE RepeatInv'
  BY <1>0, <1>10 DEF TypeOK, RepeatInv, MayRepeat, CheckRetry, HertzCheckRetry, Finish
<1>11. ASSUME NEW c \in Calls, ReadBody(c) PROVE RepeatInv'
  BY <1>0, <1>11 DEF TypeOK, RepeatInv, MayRepeat, CheckRetry, HertzCheckRetry, ReadBody
<1>12. CASE UNCHANGED vars
  BY <1>0, <1>12 DEF TypeOK, RepeatInv, MayRepeat, CheckRetry, HertzCheckRetry, vars
<1> QED BY <1>1, <1>2, <1>3, <1>4, <1>5, <1>6, <1>7, <1>8, <1>9, <1>10, <1>11, <1>12 DEF Next, Step

\* The invariant holds in every state.
THEOREM Invariance == Spec => []Inv
<1>1. Init => Inv
  BY HttpAssumption DEF Init, Inv, TypeOK, CountInv, ObjectInv, BufferInv, CopiesAreOwn,
    BodyIsOwn, RepeatInv, MayRepeat, CheckRetry, HertzCheckRetry,
    Blank, Responses
<1>2. Inv /\ [Next]_vars => Inv'
  BY TypeStep, CountStep, ObjectStep, BufferStep, CopiesStep, BodyStep, RepeatStep DEF Inv
<1> QED BY <1>1, <1>2, PTL DEF Spec

\* Every variable keeps its type, and a call holds an object exactly from AcquireResponse to
\* ReleaseResponse.
THEOREM TypeCorrect == Spec => []TypeOK
<1>1. Inv => TypeOK
  BY DEF Inv
<1> QED BY <1>1, Invariance, PTL

\* A response object is free, or in use by exactly one call.
THEOREM ObjectsAreExclusive == Spec => []Exclusive
<1>1. Inv => Exclusive
  BY HttpAssumption DEF Inv, ObjectInv, Exclusive
<1> QED BY <1>1, Invariance, PTL

\* The copies a call returns are of the answer to the attempt it returns from, and so is a
\* body that is read, unless it is not Proxy's and a later answer has gone to the same object.
THEOREM ResultsAreOwn == Spec => []AnswersAreOwn
<1>1. Inv => AnswersAreOwn
  BY DEF Inv, AnswersAreOwn
<1> QED BY <1>1, Invariance, PTL

\* A processed request is sent again only by a Hertz client, after 404, 502 or 504.
THEOREM RequestsAreNotRepeated == Spec => []NotRepeated
<1>1. Inv => NotRepeated
  BY DEF Inv, RepeatInv, MayRepeat, NotRepeated
<1> QED BY <1>1, Invariance, PTL

=============================================================================

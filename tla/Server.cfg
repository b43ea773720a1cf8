\* Either server; two requests, the first with a trace id, and two objects, so that requests
\* overlap or follow each other on one object; two functions, the second removes the
\* registration; a callback with an error.
\* A process that has ended stops: RunEnds and LeavesBalancer say that nothing else is
\* left waiting.
CHECK_DEADLOCK FALSE
SPECIFICATION FairSpec
CONSTANTS
  None = None
  Requests = {r1, r2}
  Contexts = {c1, c2}
  Traced = {r1}
  NFuncs = 2
  Off = 2
  MaxErrors = 1
INVARIANTS TypeOK FuncsRunOnce FuncsAfterRequests RunLeavesClean LinesAreTrue
PROPERTIES RunEnds LeavesBalancer

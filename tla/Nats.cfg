\* Two messages; two pull loops that fetch one message at a time, or one loop the server
\* pushes to, through a channel for one message; one retry; one panic, late answer, lost
\* connection or restart.  A dead process, or one with nothing to receive, stops:
\* SentIsSettled says that nothing else is left waiting.
CHECK_DEADLOCK FALSE
SPECIFICATION FairSpec
CONSTANTS
  Messages = {m1, m2}
  Async <- Second
  m2 = m2
  p1 = p1
  Pullers = {p1, p2}
  Main <- First
  Batch = 1
  ChannelSize = 1
  IsErrorPanic = FALSE
  RetryTimes = 2
  MaxRetryTimes = 3
  Manual = TRUE
  MaxFaults = 1
INVARIANTS TypeOK DeliveriesBounded OneCopy
PROPERTIES ImplementsQueue SentIsSettled

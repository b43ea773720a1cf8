\* Two callers, one topic, one retry; a connection lost or a process restarted.
\* A dead process, or one with nothing to receive, stops: CallsReturn and
\* SentIsSettled say that nothing else is left waiting.
CHECK_DEADLOCK FALSE
SPECIFICATION FairSpec
CONSTANTS
  None = None
  Subscriber = Subscriber
  Messages = {m1, m2}
  Topics = {t}
  TopicOf <- OneTopic
  Async <- Second
  m2 = m2
  t = t
  IsErrorPanic = FALSE
  RetryTimes = 1
  MaxRetryTimes = 2
  Manual = TRUE
  MaxBreaks = 1
INVARIANTS TypeOK OneOfEach  RetriesBounded
PROPERTIES ImplementsQueue SentIsSettled CallsReturn

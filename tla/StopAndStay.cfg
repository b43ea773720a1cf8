\* Stop is called and the process lives on.
SPECIFICATION FairSpec
CONSTANTS
  Admins = {p, q}  Dead = {q}
  Interval = 2  Timeout = 3  TTL = 8  MaxLost = 1
PROPERTY StopIsFinal

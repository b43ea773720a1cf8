\* Four versions, the second unreadable, the third empty; a Set, a SetBaseConfig and one
\* reader.  A process that has ended stops.
CHECK_DEADLOCK FALSE
SPECIFICATION FairSpec
CONSTANTS
  LastVersion = 4
  Bad <- Unreadable
  Empty <- Textless
  s1 = s1
  s2 = s2
  Setters = {s1, s2}
  Base <- SetBase
  Readers = {r1}
INVARIANTS TypeOK ReadsComplete ReadsAreFresh
PROPERTIES NeverGoesBack LatestIsUsed

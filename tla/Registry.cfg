\* Two admins, one dead; a beat every 2 ticks, posts take up to 3, one may be lost.
SPECIFICATION FairSpec
CONSTANTS
  Admins = {p, q}  Dead = {q}
  Interval = 2  Timeout = 3  TTL = 8  MaxLost = 1
INVARIANT TypeOK
INVARIANT PostsBounded
PROPERTY NeverExpires
PROPERTY GetsListed

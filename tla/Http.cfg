\* A proxied Hertz call, one of fasthttp's load-balanced client and one of Proxy, the
\* latter two with two objects.  Calls that have returned stop.
CONSTANTS
  h = h
  f = f
  p = p
  o1 = o1
  o2 = o2
  o3 = o3
  Calls = {h, f, p}
  Hertz = {h}
  Proxies = {p}
  IsProxy = {h}
  Objects = {o1, o2, o3}
  HertzPool = {o3}
  Retries = 1
  None = None
SPECIFICATION Spec
SYMMETRY Symmetry
CHECK_DEADLOCK FALSE
INVARIANTS TypeOK AnswersAreOwn NotRepeated

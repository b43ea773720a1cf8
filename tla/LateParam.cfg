\* A handler per job, no cover, no kill: whose LogID is reported?
SPECIFICATION Spec
CONSTANTS
  l3 = l3  a = a  b = b  h1 = h1  h2 = h2
  None = None  Beat = Beat
  Triggers = {l1, l2, l3}
  Jobs = {a, b}
  Handlers = {h1, h2}
  TaskObjs = {o1, o2}
  Kills = {}
  JobOf <- TwoOfJobA
  HandlerOf <- OneHandlerPerJob
  Covers = {}
  Timed = {}
  KillJob <- KillJobA
  BeatJobs = {}
  NAdmins = 1
  Faulty = {}
  Outcomes = {"ok"}
INVARIANT ReportsOwnLog

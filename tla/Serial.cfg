\* A handler per job, no cover, no kill; a panic, a time limit, a failing admin, a
\* re-registration, idle probes of job a.
SPECIFICATION Spec
CONSTANTS
  l3 = l3  a = a  b = b  h1 = h1  h2 = h2
  None = None  Beat = Beat
  Triggers = {l1, l2, l3}
  Jobs = {a, b}
  Handlers = {h1, h2}
  TaskObjs = {o1, o2}
  Kills = {}
  JobOf <- TwoOfJobA
  HandlerOf <- OneHandlerPerJob
  Covers = {}
  Timed = {l1}
  KillJob <- KillJobA
  BeatJobs = {a}
  NAdmins = 1
  Faulty = {1}
  Outcomes = {"ok", "panic"}
INVARIANT ExecutesOwnRequest
INVARIANT SlotsMatchRuns
PROPERTY IdleIsIdle
PROPERTY ImplementsSlots

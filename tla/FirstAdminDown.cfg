\* The first of two admins is down: is the other told?
SPECIFICATION FairSpec
CONSTANTS
  l3 = l3  a = a  b = b  h1 = h1  h2 = h2
  None = None  Beat = Beat
  Triggers = {l1}
  Jobs = {a}
  Handlers = {h1}
  TaskObjs = {o1}
  Kills = {}
  JobOf <- TwoOfJobA
  HandlerOf <- OneHandlerPerJob
  Covers = {}
  Timed = {}
  KillJob <- KillJobA
  BeatJobs = {}
  NAdmins = 2
  Faulty = {1}
  Outcomes = {"ok"}
PROPERTY HealthyAdminsTold

\* Two jobs share a handler: is a listed job running?
SPECIFICATION Spec
CONSTANTS
  l3 = l3  a = a  b = b  h1 = h1  h2 = h2
  None = None  Beat = Beat
  Triggers = {l1, l2, l3}
  Jobs = {a, b}
  Handlers = {h1}
  TaskObjs = {o1}
  Kills = {}
  JobOf <- TwoOfJobA
  HandlerOf <- SharedHandler
  Covers = {}
  Timed = {}
  KillJob <- KillJobA
  BeatJobs = {}
  NAdmins = 1
  Faulty = {}
  Outcomes = {"ok"}
INVARIANT ListedIsRunning

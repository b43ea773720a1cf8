\* One handler, two triggers of a job, the second covers; a kill, a re-registration, two
\* admins; under fairness.
SPECIFICATION FairSpec
CONSTANTS
  l3 = l3  a = a  b = b  h1 = h1  h2 = h2
  None = None  Beat = Beat
  Triggers = {l1, l2}
  Jobs = {a}
  Handlers = {h1}
  TaskObjs = {o1, o2}
  Kills = {k1}
  JobOf <- TwoOfJobA
  HandlerOf <- OneHandlerPerJob
  Covers = {l2}
  Timed = {}
  KillJob <- KillJobA
  BeatJobs = {}
  NAdmins = 2
  Faulty = {}
  Outcomes = {"ok"}
INVARIANT TypeOK
INVARIANT ListedHasCancel
PROPERTY SlotNeverOverwritten
PROPERTY SlotIsFreed
PROPERTY AcceptedIsReported

--------------------------- MODULE MCTaskExecutor ---------------------------
(* Instances of TaskExecutor for TLC: three triggers, two of one job.       *)
EXTENDS TaskExecutor

CONSTANTS l3, a, b, h1, h2

TwoOfJobA == [l \in Triggers |-> IF l = l3 THEN b ELSE a]
OneHandlerPerJob == [l \in Triggers |-> IF l = l3 THEN h2 ELSE h1]
SharedHandler == [l \in Triggers |-> h1]
KillJobA == [k \in Kills |-> a]
=============================================================================

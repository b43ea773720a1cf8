----------------------------- MODULE SerialSlots -----------------------------
(***************************************************************************)
(* What the executor promises the scheduler under SERIAL_EXECUTION and      *)
(* DISCARD_LATER: a trigger is refused when its handler is unknown or its   *)
(* job has a run that is not over, and is run to its end otherwise, so a    *)
(* job has at most one run at a time.                                       *)
(***************************************************************************)
CONSTANTS Triggers, Handlers, JobOf, HandlerOf
VARIABLES phase,      \* of a trigger: pending, then refused or running, then finished
          registered  \* the handlers that have a task
vars == <<phase, registered>>

Busy(l) == \E m \in Triggers : JobOf[m] = JobOf[l] /\ phase[m] = "running"

Init == phase = [l \in Triggers |-> "pending"] /\ registered = {}

Move(l, from, to) == /\ phase[l] = from
                     /\ phase' = [phase EXCEPT ![l] = to]
                     /\ UNCHANGED registered

Register(h) == registered' = registered \union {h} /\ UNCHANGED phase
Start(l) == HandlerOf[l] \in registered /\ ~Busy(l) /\ Move(l, "pending", "running")
Refuse(l) == (HandlerOf[l] \notin registered \/ Busy(l)) /\ Move(l, "pending", "refused")
Finish(l) == Move(l, "running", "finished")

Next == \/ \E h \in Handlers : Register(h)
        \/ \E l \in Triggers : Start(l) \/ Refuse(l) \/ Finish(l)

Spec == Init /\ [][Next]_vars
=============================================================================

---------------------------- MODULE MessageQueue ----------------------------
(***************************************************************************)
(* What the message clients promise an application, whatever fails: a       *)
(* message that Send reports as sent is stored; a stored message stays      *)
(* until a listener has accepted it, or has refused it for the last time,   *)
(* and never comes back when it has left.  A Send that reports an error may *)
(* have stored the message, and SendAsync may store nothing.                *)
(***************************************************************************)
CONSTANTS Messages, Async
VARIABLES told,    \* of a message: what its Send has reported, if anything
          state,   \* of a message: absent, then stored, then settled
          judged   \* the messages a listener has accepted or refused for good
vars == <<told, state, judged>>

Init ==
  /\ told = [m \in Messages |-> "nothing"]
  /\ state = [m \in Messages |-> "absent"]
  /\ judged = {}

Report(m, what) == /\ told[m] = "nothing"
                   /\ told' = [told EXCEPT ![m] = what]
                   /\ UNCHANGED judged
Move(m, from, to) == state[m] = from /\ state' = [state EXCEPT ![m] = to]

Sent(m) == Report(m, "sent") /\ Move(m, "absent", "stored")
Taken(m) == m \in Async /\ Report(m, "sent") /\ UNCHANGED state
Failed(m) == Report(m, "error") /\ (Move(m, "absent", "stored") \/ UNCHANGED state)
StoredLate(m) == /\ m \in Async /\ told[m] = "sent"
                 /\ Move(m, "absent", "stored")
                 /\ UNCHANGED <<told, judged>>
Judge(m) == /\ state[m] = "stored"
            /\ judged' = judged \union {m}
            /\ UNCHANGED <<told, state>>
Settle(m) == m \in judged /\ Move(m, "stored", "settled") /\ UNCHANGED <<told, judged>>

Next == \E m \in Messages :
          Sent(m) \/ Taken(m) \/ Failed(m) \/ StoredLate(m) \/ Judge(m) \/ Settle(m)

Spec == Init /\ [][Next]_vars
=============================================================================

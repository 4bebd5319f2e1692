------------------------------ MODULE Custody ------------------------------
(* What the hook and its buffer promise together, without files, retries or *)
(* processes: an event, once parsed, stays in the hooks' custody until the  *)
(* server has it.  Custody may be lost only for an event that was given up  *)
(* (evicted, or hit by a crash or a disk fault), a stored event stays       *)
(* stored, and a lost one never comes back.                                 *)
CONSTANT Events

VARIABLES
    state,   \* "new", "held", "stored" or "lost"
    given    \* events that were given up at least once

vars == <<state, given>>

States == {"new", "held", "stored", "lost"}

Move(e, from, to) == state[e] = from /\ state' = [state EXCEPT ![e] = to]

\* A hook parses the event.
Take(e) == Move(e, "new", "held") /\ UNCHANGED given

\* The server commits it.
Store(e) == Move(e, "held", "stored") /\ UNCHANGED given

\* One copy is given up; it may or may not have been the last.
GiveUp(e) ==
    /\ given' = given \cup {e}
    /\ Move(e, "held", "lost") \/ UNCHANGED state

\* The last copy of an event given up earlier goes.
Lose(e) == e \in given /\ Move(e, "held", "lost") /\ UNCHANGED given

Init == state = [e \in Events |-> "new"] /\ given = {}

Next == \E e \in Events : Take(e) \/ Store(e) \/ GiveUp(e) \/ Lose(e)

Spec == Init /\ [][Next]_vars
=============================================================================

----------------------------- MODULE AtLeastOnce -----------------------------
(***************************************************************************)
(* What a publisher may rely on: a message the queue has accepted is held  *)
(* until a handler has processed it or it is parked in the dead-letter     *)
(* queue, and it does reach one of the two.  The docstring of consume      *)
(* (backend/app/queue/connection.py:476-481) promises this.                *)
(***************************************************************************)
CONSTANT Messages

VARIABLE fate

Fates == {"new", "held", "done", "dead"}

Init == fate = [m \in Messages |-> "new"]

Accept(m) ==
    /\ fate[m] = "new"
    /\ fate' = [fate EXCEPT ![m] = "held"]

Complete(m) ==
    /\ fate[m] = "held"
    /\ fate' = [fate EXCEPT ![m] = "done"]

DeadLetter(m) ==
    /\ fate[m] = "held"
    /\ fate' = [fate EXCEPT ![m] = "dead"]

Next == \E m \in Messages : Accept(m) \/ Complete(m) \/ DeadLetter(m)

Spec == Init /\ [][Next]_fate

FairSpec ==
    Spec /\ \A m \in Messages : WF_fate(Complete(m) \/ DeadLetter(m))
=============================================================================

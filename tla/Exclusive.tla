----------------------------- MODULE Exclusive -----------------------------
(***************************************************************************)
(* What a caller of withDeployLock (panel/server/api/deploy-runner.mjs) is  *)
(* promised: one at a time.  The store behind the lock has no              *)
(* compare-and-swap and a process may be suspended, so the promise has an   *)
(* end: once the lock is broken anybody may enter.  Deploy is written       *)
(* against this module's promise, with an unbroken lock.                    *)
(***************************************************************************)
CONSTANT Procs

VARIABLES
    inside,  \* who runs the function the lock guards
    broken   \* the record was replaced under somebody who relied on it

Init == inside = {} /\ broken = FALSE

Enter(p) ==
    /\ p \notin inside
    /\ broken \/ inside = {}
    /\ inside' = inside \cup {p}
    /\ UNCHANGED broken

\* Returning, throwing, or dying.
Leave(p) ==
    /\ p \in inside
    /\ inside' = inside \ {p}
    /\ broken' \in {broken, TRUE}

Break ==
    /\ broken' = TRUE
    /\ UNCHANGED inside

Next == Break \/ \E p \in Procs : Enter(p) \/ Leave(p)

Spec == Init /\ [][Next]_<<inside, broken>>
=============================================================================

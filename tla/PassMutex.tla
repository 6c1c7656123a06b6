----------------------------- MODULE PassMutex ------------------------------
(***************************************************************************)
(* What the lease of a brain pass promises                                 *)
(* (apps/orchestrator/src/services/brain/brain-lease.service.ts): of the   *)
(* processes that keep running, at most one works on the pass at a time.   *)
(***************************************************************************)
CONSTANT Runs          \* the runs that may work on the pass

VARIABLE working       \* the runs at work

Init == working = {}

\* A run starts only when nobody works.
Start == working = {} /\ \E r \in Runs : working' = {r}

\* The run ends, or its process dies.
Stop == working # {} /\ working' = {}

Next == Start \/ Stop

Spec == Init /\ [][Next]_working

=============================================================================

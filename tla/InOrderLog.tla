----------------------------- MODULE InOrderLog -----------------------------
(***************************************************************************)
(* What the PmActivity outbox promises one consumer                        *)
(* (apps/orchestrator/src/services/pm/pm-outbox.ts): events reach it for   *)
(* the first time oldest first, no event still there is passed over, and   *)
(* none joins the log behind one that was consumed.  An event is a pair    *)
(* (createdAt, id).                                                        *)
(***************************************************************************)
EXTENDS Integers

VARIABLES
    log,        \* the events the consumer is owed
    gone,       \* the ones deleted since
    done        \* the ones consumed, or given up on, at least once

Before(e, f) == e[1] < f[1] \/ (e[1] = f[1] /\ e[2] < f[2])

Init == log = {} /\ gone = {} /\ done = {}

\* Events join, none of them behind a consumed one, and events are deleted.
Write ==
    /\ log \subseteq log'
    /\ \A e \in log' \ log : \A d \in done : Before(d, e)
    /\ gone \subseteq gone' /\ gone' \subseteq log'
    /\ UNCHANGED done

\* The oldest event that is left is consumed.
Consume ==
    \E e \in log \ done :
        /\ \A f \in log : Before(f, e) => f \in done \cup gone
        /\ done' = done \cup {e}
        /\ UNCHANGED <<log, gone>>

Next == Write \/ Consume

Spec == Init /\ [][Next]_<<log, gone, done>>

=============================================================================

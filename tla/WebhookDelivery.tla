--------------------------- MODULE WebhookDelivery ---------------------------
(***************************************************************************)
(* One outgoing webhook and its delivery queue                             *)
(* (apps/orchestrator/src/services/pm/webhook-delivery.service.ts,         *)
(* webhook-fanout.ts, pm-webhook.service.ts).                              *)
(*                                                                         *)
(* The outbox consumer queues a delivery per event; a sweep under an       *)
(* advisory lock claims the due ones, leases them and attempts them side   *)
(* by side, each with the row and the webhook as they were at the claim;   *)
(* an administrator pauses, resumes, deletes, tests and redelivers at the  *)
(* same time.                                                              *)
(*                                                                         *)
(* A delivery is due or not: the lengths of its delays are left out, and   *)
(* so are the URL, the payload, the signature and its secret.  A worker is *)
(* a process of its own and runs one sweep or one test at a time.          *)
(***************************************************************************)
EXTENDS Integers, FiniteSets

CONSTANTS
    Deliveries,     \* the rows that may be created, by id
    Events,         \* the events of the outbox, each the sourceKey of its delivery
    Workers,        \* the processes that sweep and serve tests
    None,           \* no lock holder
    MaxAttempts,    \* MAX_ATTEMPTS
    DisableAfter,   \* DISABLE_AFTER_FAILURES
    Batch,          \* DELIVERY_BATCH
    MaxOps,         \* bound of the model: what the administrator does
    MaxFaults,      \* bound: restarts, database errors, lost locks
    MaxOverruns     \* bound: leases that end while their attempt is still going on

ASSUME WebhookAssumption ==
    /\ IsFiniteSet(Deliveries) /\ IsFiniteSet(Workers)
    /\ None \notin Workers
    /\ Events \cap {"test", "again"} = {}
    /\ MaxAttempts \in Nat \ {0} /\ DisableAfter \in Nat \ {0} /\ Batch \in Nat \ {0}
    /\ MaxOps \in Nat /\ MaxFaults \in Nat /\ MaxOverruns \in Nat

VARIABLES
    hook,           \* the webhook's status, enabled while ACTIVE; or "deleted"
    failures,       \* its consecutiveFailures, up to DisableAfter
    egress,         \* the work_integrations switch
    status,         \* status[d], "none" before the row and "gone" after it
    source,         \* source[d]: its event, "test" or "again" for a redelivery
    attempts,       \* attempts[d]
    due,            \* due[d]: nextAttemptAt has come
    expired,        \* the rows older than DELIVERY_EXPIRY_MS
    fan,            \* the events whose fan-out has read that the webhook is enabled
    lock,           \* the worker whose sweep holds the advisory lock
    mode,           \* mode[w]: "idle", "sweep" or "test"
    pc,             \* pc[w][d]: where the attempt of a worker at a row is
    seen,           \* seen[w][d]: the attempts of the row it works with
    active,         \* active[w][d]: the webhook was ACTIVE in its copy
    gate,           \* gate[w]: the switch as its sweep read it
    accepted,       \* the rows the receiver took with a 2xx
    notices,        \* how often the administrators were told it was turned off
    resumes,        \* how often it was turned on again
    ops, faults, overruns

hookVars == <<hook, failures, egress>>
rowVars == <<status, source, attempts, due, expired, fan>>
jobVars == <<lock, mode, pc, seen, active, gate>>
bounds == <<ops, faults, overruns>>
vars == <<hookVars, rowVars, jobVars, accepted, notices, resumes, bounds>>

-----------------------------------------------------------------------------
(* Data *)

OWED == {"PENDING", "FAILED"}

Settled == {"DELIVERED", "GIVEN_UP"}

\* The steps of an attempt that has not written its outcome.
InFlight == {"begin", "dial", "send", "ok", "failed"}

Steps == InFlight \cup {"no", "reset", "count", "flip", "notify"}

Exists(d) == status[d] \notin {"none", "gone"}

Held(d) == \E w \in Workers : pc[w][d] \in InFlight

Smaller(m, n) == IF m < n THEN m ELSE n

Init ==
    /\ hook = "ACTIVE" /\ failures = 0 /\ egress = TRUE
    /\ status = [d \in Deliveries |-> "none"]
    /\ source = [d \in Deliveries |-> "again"]
    /\ attempts = [d \in Deliveries |-> 0]
    /\ due = [d \in Deliveries |-> FALSE]
    /\ expired = {} /\ fan = {}
    /\ lock = None
    /\ mode = [w \in Workers |-> "idle"]
    /\ pc = [w \in Workers |-> [d \in Deliveries |-> "no"]]
    /\ seen = [w \in Workers |-> [d \in Deliveries |-> 0]]
    /\ active = [w \in Workers |-> [d \in Deliveries |-> FALSE]]
    /\ gate = [w \in Workers |-> "unread"]
    /\ accepted = {} /\ notices = 0 /\ resumes = 0
    /\ ops = 0 /\ faults = 0 /\ overruns = 0

-----------------------------------------------------------------------------
(* Writing rows *)

\* A new row, due at once or leased from birth.
Create(d, from, now) ==
    /\ status[d] = "none"
    /\ status' = [status EXCEPT ![d] = "PENDING"]
    /\ source' = [source EXCEPT ![d] = from]
    /\ due' = [due EXCEPT ![d] = now]
    /\ UNCHANGED <<attempts, expired>>

\* settle: guarded on the row still being owed an attempt.  Nothing settles into
\* a row that is due: it is finished or waits.
Settle(d, to, n) ==
    /\ status' = IF status[d] \in OWED THEN [status EXCEPT ![d] = to] ELSE status
    /\ attempts' = IF status[d] \in OWED THEN [attempts EXCEPT ![d] = n] ELSE attempts
    /\ due' = IF status[d] \in OWED THEN [due EXCEPT ![d] = FALSE] ELSE due
    /\ UNCHANGED <<source, expired, fan>>

\* The attempt of a worker at a row goes to a step.
Goes(w, d, to) == pc' = [pc EXCEPT ![w][d] = to]

-----------------------------------------------------------------------------
(* Fan-out: the outbox consumer, at least once per event *)

\* fanOutActivity reads which webhooks are enabled.
FanOutRead(e) ==
    /\ hook = "ACTIVE"
    /\ fan' = fan \cup {e}
    /\ UNCHANGED <<hookVars, status, source, attempts, due, expired, jobVars,
                   accepted, notices, resumes, bounds>>

\* createDeliveries: one row per event, a duplicate is skipped; a webhook that
\* was deleted since fails the write.
FanOutWrite(e) ==
    /\ e \in fan
    /\ fan' = fan \ {e}
    /\ \/ /\ hook = "deleted" \/ \E d \in Deliveries : Exists(d) /\ source[d] = e
          /\ UNCHANGED <<status, source, attempts, due, expired>>
       \/ /\ hook # "deleted" /\ ~\E d \in Deliveries : Exists(d) /\ source[d] = e
          /\ \E d \in Deliveries : Create(d, e, TRUE)
    /\ UNCHANGED <<hookVars, jobVars, accepted, notices, resumes, bounds>>

-----------------------------------------------------------------------------
(* Time *)

\* The delay or the lease of a row runs out.
Wake(d) ==
    /\ status[d] \in OWED /\ ~due[d]
    /\ due' = [due EXCEPT ![d] = TRUE]
    /\ \/ ~Held(d) /\ UNCHANGED overruns
       \/ Held(d) /\ overruns < MaxOverruns /\ overruns' = overruns + 1
    /\ UNCHANGED <<hookVars, status, source, attempts, expired, fan, jobVars,
                   accepted, notices, resumes, ops, faults>>

\* The row is older than DELIVERY_EXPIRY_MS.
Expire(d) ==
    /\ status[d] \in OWED /\ d \notin expired
    /\ expired' = expired \cup {d}
    /\ UNCHANGED <<hookVars, status, source, attempts, due, fan, jobVars,
                   accepted, notices, resumes, bounds>>

\* pruneWebhookDeliveries, past the retention.
Prune(d) ==
    /\ status[d] \in Settled
    /\ status' = [status EXCEPT ![d] = "gone"]
    /\ UNCHANGED <<hookVars, source, attempts, due, expired, fan, jobVars,
                   accepted, notices, resumes, bounds>>

-----------------------------------------------------------------------------
(* The administrator *)

Operates == ops < MaxOps /\ ops' = ops + 1

\* updateWebhook with enabled = false.
Pause ==
    /\ Operates
    /\ hook # "deleted"
    /\ hook' = "PAUSED"
    /\ UNCHANGED <<failures, egress, rowVars, jobVars, accepted, notices, resumes,
                   faults, overruns>>

\* Faulty variant: the failure count is kept.
ResumeCounting ==
    /\ Operates
    /\ hook # "deleted"
    /\ hook' = "ACTIVE"
    /\ resumes' = resumes + 1
    /\ UNCHANGED <<failures, egress, rowVars, jobVars, accepted, notices, faults, overruns>>

\* updateWebhook with enabled = true, which forgives the failure count.
Resume ==
    /\ Operates
    /\ hook # "deleted"
    /\ hook' = "ACTIVE" /\ failures' = 0
    /\ resumes' = resumes + 1
    /\ UNCHANGED <<egress, rowVars, jobVars, accepted, notices, faults, overruns>>

\* deleteWebhook: the deliveries cascade.
Delete ==
    /\ Operates
    /\ hook # "deleted"
    /\ hook' = "deleted" /\ failures' = 0
    /\ status' = [d \in Deliveries |-> IF Exists(d) THEN "gone" ELSE status[d]]
    /\ UNCHANGED <<egress, source, attempts, due, expired, fan, jobVars,
                   accepted, notices, resumes, faults, overruns>>

\* The work_integrations switch is turned.
Switch ==
    /\ Operates
    /\ egress' = ~egress
    /\ UNCHANGED <<hook, failures, rowVars, jobVars, accepted, notices, resumes,
                   faults, overruns>>

\* redeliver: a new row with the payload of one that is in the log.
Redeliver ==
    /\ Operates
    /\ hook # "deleted"
    /\ \E d \in Deliveries : Exists(d)
    /\ \E d \in Deliveries : Create(d, "again", TRUE)
    /\ UNCHANGED <<hookVars, fan, jobVars, accepted, notices, resumes, faults, overruns>>

\* The worker's copy of the row and the webhook; the attempt begins.
Takes(w, S) ==
    /\ pc' = [pc EXCEPT ![w] = [d \in Deliveries |-> IF d \in S THEN "begin" ELSE "no"]]
    /\ seen' = [seen EXCEPT ![w] = [d \in Deliveries |-> IF d \in S THEN attempts[d] ELSE 0]]
    /\ active' = [active EXCEPT ![w] = [d \in Deliveries |-> d \in S /\ hook = "ACTIVE"]]

\* Faulty variant: the row of a test is due from birth.
TestDue(w) ==
    /\ Operates
    /\ mode[w] = "idle" /\ hook # "deleted"
    /\ mode' = [mode EXCEPT ![w] = "test"]
    /\ \E d \in Deliveries : Create(d, "test", TRUE) /\ Takes(w, {d})
    /\ UNCHANGED <<hookVars, fan, lock, gate, accepted, notices, resumes, faults, overruns>>

\* sendTestDelivery: its row is born leased, and attempted at once.
Test(w) ==
    /\ Operates
    /\ mode[w] = "idle" /\ hook # "deleted"
    /\ mode' = [mode EXCEPT ![w] = "test"]
    /\ \E d \in Deliveries : Create(d, "test", FALSE) /\ Takes(w, {d})
    /\ UNCHANGED <<hookVars, fan, lock, gate, accepted, notices, resumes, faults, overruns>>

-----------------------------------------------------------------------------
(* runWebhookDeliveries *)

Due == {d \in Deliveries : status[d] \in OWED /\ due[d]}

\* Faulty variant: the claimed rows are not leased.
ClaimUnleased(w) ==
    /\ mode[w] = "idle" /\ lock = None
    /\ \E S \in SUBSET Due :
        /\ S # {} /\ Cardinality(S) = Smaller(Cardinality(Due), Batch)
        /\ Takes(w, S)
    /\ lock' = w
    /\ mode' = [mode EXCEPT ![w] = "sweep"]
    /\ UNCHANGED <<hookVars, rowVars, gate, accepted, notices, resumes, bounds>>

\* Faulty variant: a row that failed once is not claimed again.
ClaimPending(w) ==
    /\ mode[w] = "idle" /\ lock = None
    /\ \E S \in SUBSET {d \in Due : status[d] = "PENDING"} :
        /\ S # {} /\ Cardinality(S) <= Batch
        /\ Takes(w, S)
        /\ due' = [d \in Deliveries |-> due[d] /\ d \notin S]
    /\ lock' = w
    /\ mode' = [mode EXCEPT ![w] = "sweep"]
    /\ UNCHANGED <<hookVars, status, source, attempts, expired, fan, gate,
                   accepted, notices, resumes, bounds>>

\* claimDueDeliveries, under the sweep's advisory lock: a batch of the due rows
\* is leased in one transaction.
Claim(w) ==
    /\ mode[w] = "idle" /\ lock = None
    /\ \E S \in SUBSET Due :
        /\ S # {} /\ Cardinality(S) = Smaller(Cardinality(Due), Batch)
        /\ Takes(w, S)
        /\ due' = [d \in Deliveries |-> due[d] /\ d \notin S]
    /\ lock' = w
    /\ mode' = [mode EXCEPT ![w] = "sweep"]
    /\ UNCHANGED <<hookVars, status, source, attempts, expired, fan, gate,
                   accepted, notices, resumes, bounds>>

\* What a worker holds goes with its sweep or its test.
Leaves(w) ==
    /\ mode' = [mode EXCEPT ![w] = "idle"]
    /\ pc' = [pc EXCEPT ![w] = [d \in Deliveries |-> "no"]]
    /\ seen' = [seen EXCEPT ![w] = [d \in Deliveries |-> 0]]
    /\ active' = [active EXCEPT ![w] = [d \in Deliveries |-> FALSE]]
    /\ gate' = [gate EXCEPT ![w] = "unread"]
    /\ lock' = IF lock = w THEN None ELSE lock

\* Every attempt has ended.
End(w) ==
    /\ mode[w] # "idle"
    /\ \A d \in Deliveries : pc[w][d] = "no"
    /\ Leaves(w)
    /\ UNCHANGED <<hookVars, rowVars, accepted, notices, resumes, bounds>>

-----------------------------------------------------------------------------
(* attemptDelivery *)

\* An expired row and one whose webhook is off are given up, unless it is a test.
Begin(w, d) ==
    LET off == mode[w] = "sweep" /\ (d \in expired \/ ~active[w][d]) IN
    /\ pc[w][d] = "begin"
    /\ \/ /\ off
          /\ Settle(d, "GIVEN_UP", attempts[d])
          /\ Goes(w, d, "no")
       \/ /\ ~off
          /\ Goes(w, d, "dial")
          /\ UNCHANGED rowVars
    /\ UNCHANGED <<hookVars, lock, mode, seen, active, gate, accepted, notices, resumes, bounds>>

\* The destination is resolved: refused, on the local network, or public.  A
\* public one asks the switch, which a sweep reads once; a row it blocks waits
\* and is not counted, a test it blocks is given up.
Dial(w, d) ==
    LET read == IF gate[w] # "unread" THEN gate[w] ELSE IF egress THEN "on" ELSE "off" IN
    /\ pc[w][d] = "dial"
    /\ \/ /\ \E to \in {"failed", "send"} : Goes(w, d, to)
          /\ UNCHANGED <<gate, rowVars>>
       \/ /\ read = "on"
          /\ gate' = [gate EXCEPT ![w] = read]
          /\ Goes(w, d, "send")
          /\ UNCHANGED rowVars
       \/ /\ read = "off"
          /\ gate' = [gate EXCEPT ![w] = read]
          /\ Settle(d, IF mode[w] = "test" THEN "GIVEN_UP" ELSE status[d], attempts[d])
          /\ Goes(w, d, "no")
    /\ UNCHANGED <<hookVars, lock, mode, seen, active, accepted, notices, resumes, bounds>>

\* The POST: the receiver takes it or does not, and only an answer in time tells.
Send(w, d) ==
    /\ pc[w][d] = "send"
    /\ \/ accepted' = accepted \cup {d} /\ \E to \in {"ok", "failed"} : Goes(w, d, to)
       \/ Goes(w, d, "failed") /\ UNCHANGED accepted
    /\ UNCHANGED <<hookVars, rowVars, lock, mode, seen, active, gate, notices, resumes, bounds>>

\* Faulty variant: the outcome is written whatever the row says.
DeliverAnyway(w, d) ==
    /\ pc[w][d] = "ok"
    /\ status' = [status EXCEPT ![d] = "DELIVERED"]
    /\ attempts' = [attempts EXCEPT ![d] = seen[w][d] + 1]
    /\ due' = [due EXCEPT ![d] = FALSE]
    /\ Goes(w, d, IF mode[w] = "test" THEN "no" ELSE "reset")
    /\ UNCHANGED <<hookVars, source, expired, fan, lock, mode, seen, active, gate,
                   accepted, notices, resumes, bounds>>

\* A 2xx is written down.
Deliver(w, d) ==
    /\ pc[w][d] = "ok"
    /\ Settle(d, "DELIVERED", seen[w][d] + 1)
    /\ Goes(w, d, IF mode[w] = "test" THEN "no" ELSE "reset")
    /\ UNCHANGED <<hookVars, lock, mode, seen, active, gate, accepted, notices, resumes, bounds>>

\* The streak of the webhook ends.
Reset(w, d) ==
    /\ pc[w][d] = "reset"
    /\ failures' = 0
    /\ Goes(w, d, "no")
    /\ UNCHANGED <<hook, egress, rowVars, lock, mode, seen, active, gate,
                   accepted, notices, resumes, bounds>>

\* Faulty variant: the bound of the ladder is passed by one.
FailLate(w, d) ==
    /\ pc[w][d] = "failed"
    /\ Settle(d, IF mode[w] = "test" \/ seen[w][d] + 1 > MaxAttempts
                 THEN "GIVEN_UP" ELSE "FAILED", seen[w][d] + 1)
    /\ Goes(w, d, IF mode[w] = "test" THEN "no" ELSE "count")
    /\ UNCHANGED <<hookVars, lock, mode, seen, active, gate, accepted, notices, resumes, bounds>>

\* fail: the next rung of the ladder, or the end of it; a test has one rung.
Fail(w, d) ==
    /\ pc[w][d] = "failed"
    /\ Settle(d, IF mode[w] = "test" \/ seen[w][d] + 1 >= MaxAttempts
                 THEN "GIVEN_UP" ELSE "FAILED", seen[w][d] + 1)
    /\ Goes(w, d, IF mode[w] = "test" THEN "no" ELSE "count")
    /\ UNCHANGED <<hookVars, lock, mode, seen, active, gate, accepted, notices, resumes, bounds>>

\* recordWebhookFailure: the increment,
Count(w, d) ==
    /\ pc[w][d] = "count"
    /\ failures' = IF hook = "deleted" THEN failures ELSE Smaller(failures + 1, DisableAfter)
    /\ Goes(w, d, "flip")
    /\ UNCHANGED <<hook, egress, rowVars, lock, mode, seen, active, gate,
                   accepted, notices, resumes, bounds>>

\* Faulty variant: not guarded on ACTIVE.
FlipAgain(w, d) ==
    /\ pc[w][d] = "flip"
    /\ \/ failures >= DisableAfter /\ hook' = "DISABLED_FAILING" /\ Goes(w, d, "notify")
       \/ failures < DisableAfter /\ Goes(w, d, "no") /\ UNCHANGED hook
    /\ UNCHANGED <<failures, egress, rowVars, lock, mode, seen, active, gate,
                   accepted, notices, resumes, bounds>>

\* then the update guarded on ACTIVE and on the count, which one attempt wins,
Flip(w, d) ==
    LET off == hook = "ACTIVE" /\ failures >= DisableAfter IN
    /\ pc[w][d] = "flip"
    /\ \/ off /\ hook' = "DISABLED_FAILING" /\ Goes(w, d, "notify")
       \/ ~off /\ Goes(w, d, "no") /\ UNCHANGED hook
    /\ UNCHANGED <<failures, egress, rowVars, lock, mode, seen, active, gate,
                   accepted, notices, resumes, bounds>>

\* and its notice.
Notify(w, d) ==
    /\ pc[w][d] = "notify"
    /\ notices' = notices + 1
    /\ Goes(w, d, "no")
    /\ UNCHANGED <<hookVars, rowVars, lock, mode, seen, active, gate, accepted, resumes, bounds>>

-----------------------------------------------------------------------------
(* Faults *)

Faulty == faults < MaxFaults /\ faults' = faults + 1

\* A query of the attempt, or the notice, throws: the row keeps its lease.
Throw(w, d) ==
    /\ Faulty
    /\ pc[w][d] \in Steps \ {"no", "send"}
    /\ Goes(w, d, "no")
    /\ UNCHANGED <<hookVars, rowVars, lock, mode, seen, active, gate,
                   accepted, notices, resumes, ops, overruns>>

\* The process restarts.
Crash(w) ==
    /\ Faulty
    /\ mode[w] # "idle"
    /\ Leaves(w)
    /\ UNCHANGED <<hookVars, rowVars, accepted, notices, resumes, ops, overruns>>

\* The connection that holds the advisory lock is lost; the sweep goes on.
LoseLock ==
    /\ Faulty
    /\ lock # None
    /\ lock' = None
    /\ UNCHANGED <<hookVars, rowVars, mode, pc, seen, active, gate,
                   accepted, notices, resumes, ops, overruns>>

-----------------------------------------------------------------------------
(* Specification *)

Attempt(w, d) ==
    \/ Begin(w, d) \/ Dial(w, d) \/ Send(w, d)
    \/ Deliver(w, d) \/ Reset(w, d)
    \/ Fail(w, d) \/ Count(w, d) \/ Flip(w, d) \/ Notify(w, d)

Next ==
    \/ \E e \in Events : FanOutRead(e) \/ FanOutWrite(e)
    \/ \E d \in Deliveries : Wake(d) \/ Expire(d) \/ Prune(d)
    \/ Pause \/ Resume \/ Delete \/ Switch \/ Redeliver
    \/ \E w \in Workers : Test(w) \/ Claim(w) \/ End(w) \/ Crash(w)
    \/ \E w \in Workers, d \in Deliveries : Attempt(w, d) \/ Throw(w, d)
    \/ LoseLock

Spec == Init /\ [][Next]_vars

\* The worker's interval, the event loop and time go on.
LiveSpec ==
    /\ Spec
    /\ WF_vars(\E w \in Workers : Claim(w))
    /\ \A w \in Workers : WF_vars(End(w) \/ \E d \in Deliveries : Attempt(w, d))
    /\ \A d \in Deliveries : WF_vars(Wake(d)) /\ WF_vars(Expire(d))

-----------------------------------------------------------------------------
(* Properties *)

\* Every variable keeps the values the code gives it; a row counts at most
\* MAX_ATTEMPTS attempts.
TypeOK ==
    /\ hook \in {"ACTIVE", "PAUSED", "DISABLED_FAILING", "deleted"}
    /\ failures \in 0..DisableAfter
    /\ egress \in BOOLEAN
    /\ status \in [Deliveries -> OWED \cup Settled \cup {"none", "gone"}]
    /\ source \in [Deliveries -> Events \cup {"test", "again"}]
    /\ attempts \in [Deliveries -> 0..MaxAttempts]
    /\ due \in [Deliveries -> BOOLEAN]
    /\ expired \subseteq Deliveries
    /\ fan \subseteq Events
    /\ lock \in Workers \cup {None}
    /\ mode \in [Workers -> {"idle", "sweep", "test"}]
    /\ pc \in [Workers -> [Deliveries -> Steps]]
    /\ seen \in [Workers -> [Deliveries -> 0..(MaxAttempts - 1)]]
    /\ active \in [Workers -> [Deliveries -> BOOLEAN]]
    /\ gate \in [Workers -> {"unread", "on", "off"}]
    /\ accepted \subseteq Deliveries
    /\ notices \in Nat
    /\ resumes \in Nat
    /\ ops \in 0..MaxOps
    /\ faults \in 0..MaxFaults
    /\ overruns \in 0..MaxOverruns

\* The lease keeps a second attempt away (claimDueDeliveries): unless a lease ran
\* out under its attempt, at most one is in flight per row, even when two sweeps
\* run because the lock was lost.
OneAttempt ==
    overruns = 0 =>
        \A d \in Deliveries, v, w \in Workers :
            pc[v][d] \in InFlight /\ pc[w][d] \in InFlight => v = w

\* Exactly one notice per turn-off (recordWebhookFailure), however many deliveries
\* fail together: there are at most as many as there were periods of being on.
OneNotice == notices <= resumes + 1

\* A webhook at the limit does not stay on: unless the attempt that reached it was
\* cut off, one is about to turn it off.
LimitTurnsOff ==
    faults = 0 /\ hook = "ACTIVE" /\ failures = DisableAfter =>
        \E w \in Workers, d \in Deliveries : pc[w][d] = "flip"

\* A test is one attempt and no effect on the webhook (sendTestDelivery): its row
\* is not taken by a sweep, as long as its process lives and its lease holds.
TestIsOnce ==
    faults = 0 /\ overruns = 0 =>
        \A w \in Workers, d \in Deliveries :
            source[d] = "test" /\ mode[w] = "sweep" => pc[w][d] = "no"

\* What the log says of a finished delivery is not changed (settle), by a late
\* attempt neither; and delivered means the receiver took it.
SettledStays ==
    [][\A d \in Deliveries :
        /\ status[d] \in Settled => status'[d] \in {status[d], "gone"}
        /\ status'[d] = "DELIVERED" => d \in accepted]_vars

\* The retry ladder is on the rows, so a restart loses nothing: every delivery is
\* in the end delivered, given up or deleted, also one that is blocked.
EachSettles ==
    \A d \in Deliveries : status[d] \in OWED ~> status[d] \notin OWED

=============================================================================

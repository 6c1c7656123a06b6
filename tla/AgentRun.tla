------------------------------ MODULE AgentRun ------------------------------
(***************************************************************************)
(* The durable agent run of the orchestrator                               *)
(* (apps/orchestrator/src/services/agent-run-worker.service.ts).           *)
(*                                                                         *)
(* A run is a database row.  Worker processes claim it, execute it step by *)
(* step outside any transaction, checkpoint it, park it for a person's     *)
(* approval and finish it.  Every SQL statement is one atomic step; between*)
(* two awaits of an execution anything else may happen: another worker     *)
(* reclaims the lease, the owner cancels, the deadline passes, the process *)
(* dies.  What an execution knows (exec) is therefore kept apart from what *)
(* the row says (row).                                                     *)
(***************************************************************************)
EXTENDS Naturals, FiniteSets, Sequences

CONSTANTS
    Runs,            \* the AgentRun rows
    Workers,         \* process incarnations: a restart is another worker
    Clients,         \* open run pages from which a person decides
    Repeatable,      \* calls that may run twice: reads, workspace writes
    Ungated,         \* calls of ungated writes (send_notification)
    Gated,           \* calls the interceptor challenges (Tier-2)
    Proposals,       \* the gated calls of workspace_propose
    None,            \* SQL null
    MaxIter,         \* min(run.maxIter, AGENT_RUN_MAX_ITER)
    MaxAttempts,     \* AGENT_RUN_MAX_ATTEMPTS
    Concurrency,     \* AGENT_RUN_CONCURRENCY
    MaxPreemptions,  \* AGENT_RUN_MAX_PREEMPTIONS
    MaxYields,       \* bound of the model: how often chat takes the box
    MaxFaults        \* bound of the model: crashes, shutdowns and rejected awaits

Calls == Repeatable \cup Ungated \cup Gated

ASSUME BoundsAssumption ==
    /\ MaxIter \in Nat \ {0}
    /\ MaxAttempts \in Nat
    /\ Concurrency \in Nat \ {0}
    /\ MaxPreemptions \in Nat
    /\ MaxYields \in Nat
    /\ MaxFaults \in Nat

ASSUME CallsAssumption ==
    /\ Repeatable \cap Ungated = {}
    /\ Repeatable \cap Gated = {}
    /\ Ungated \cap Gated = {}
    /\ Proposals \subseteq Gated
    /\ None \notin Calls
    /\ None \notin Workers

VARIABLES
    row,        \* row[r]: the database row of run r
    exec,       \* exec[w][r]: what worker w's execution of run r holds in memory
    phase,      \* phase[w]: "up", "draining" (releaseAll under way), "exited" or "crashed"
    held,       \* held[w][r]: the lease releaseAll captured, 0 for none
    preempts,   \* preempts[w][r]: preemptionsWithoutProgress of w
    client,     \* client[c]: what a person's run page shows and has sent
    approved,   \* approved[r]: history of the approvals recorded on r
    effects,    \* effects[r]: history of the writes r's calls made in the world
    faults      \* how many faults have happened

vars == <<row, exec, phase, held, preempts, client, approved, effects, faults>>

-----------------------------------------------------------------------------
(* Data *)

Terminal == {"succeeded", "failed", "cancelled"}

\* ACTIVE_AGENT_RUN_STATUSES
Active == {"queued", "running", "awaiting_confirmation"}

\* StopReason
StopReasons == {"cancelled", "deadline", "fenced", "parked", "unknown_outcome", "proposed"}

\* How runAgent ended; "none" is a null result (a checkpoint hook threw).
Results == {"none", "done", "error", "limit", "aborted", "busy", "preempted", "threw"}

\* AgentRunTraceEntry: text "absent" is a call dispatched whose outcome was
\* never recorded, "challenge" an interceptor envelope.
Entries == [call : Calls, iter : Nat, confirmation : {"none", "confirmed", "denied"},
            text : {"absent", "ok", "error", "challenge"}, unknownOutcome : BOOLEAN]

\* A call the conversation answers, and the iteration that made it.
Answers == [call : Calls, iter : Nat]

PCs == {"idle", "launched", "admit", "resume", "consume", "leg1", "leg2", "answer",
        "top", "checkpoint", "model", "calls", "guard", "dispatch", "after", "end"}

\* The pcs at which a rejected await lands in execute's catch.  A rejected
\* dispatch does not: it is a tool error.
Driving == {"resume", "consume", "answer", "top", "checkpoint", "model", "calls", "guard", "after"}

Rows == [status : Active \cup Terminal \cup {"absent"},
         claimedBy : Workers \cup {None}, claimedAt : Nat,
         claims : Nat,            \* claims so far: the clock claimedAt reads
         stale : BOOLEAN,         \* heartbeatAt is older than reclaimAfterMs
         started : BOOLEAN, overdue : BOOLEAN,     \* startedAt, deadlineAt <= now
         attempts : Nat, yields : Nat,
         iteration : Nat, messages : SUBSET Answers, trace : SUBSET Entries,
         pending : Calls \cup {None},
         pendingDecision : {"none", "approved", "denied"},
         approval : Nat]          \* history: which approval pendingDecision is

Execs == [pc : PCs, lease : Nat, base : Nat, iter : Nat,
          trace : SUBSET Entries, messages : SUBSET Answers,
          decided : Calls \cup {None}, decision : {"none", "approved", "denied"},
          approval : Nat, call : Calls \cup {None},
          text : {"absent", "ok", "error", "challenge"},
          park : Calls \cup {None}, stop : StopReasons \cup {"none"},
          result : Results, reached : Nat, progressed : BOOLEAN]

NoRow == [status |-> "absent", claimedBy |-> None, claimedAt |-> 0, claims |-> 0,
          stale |-> FALSE, started |-> FALSE, overdue |-> FALSE,
          attempts |-> 0, yields |-> 0, iteration |-> 0, messages |-> {}, trace |-> {},
          pending |-> None, pendingDecision |-> "none", approval |-> 0]

Idle == [pc |-> "idle", lease |-> 0, base |-> 0, iter |-> 0, trace |-> {}, messages |-> {},
         decided |-> None, decision |-> "none", approval |-> 0, call |-> None,
         text |-> "absent", park |-> None, stop |-> "none", result |-> "none",
         reached |-> 0, progressed |-> FALSE]

Away == [pc |-> "away", run |-> None, shown |-> None, checked |-> None, decision |-> "none"]

Init ==
    /\ row = [r \in Runs |-> NoRow]
    /\ exec = [w \in Workers |-> [r \in Runs |-> Idle]]
    /\ phase = [w \in Workers |-> "up"]
    /\ held = [w \in Workers |-> [r \in Runs |-> 0]]
    /\ preempts = [w \in Workers |-> [r \in Runs |-> 0]]
    /\ client = [c \in Clients |-> Away]
    /\ approved = [r \in Runs |-> << >>]
    /\ effects = [r \in Runs |-> << >>]
    /\ faults = 0

-----------------------------------------------------------------------------
(* The fence, the stop and the writes every handler shares *)

\* Faulty variant: the fence forgets whose lease it is.
OwnsAnyLease(w, r) == row[r].status = "running"

\* The `owned` predicate: a lease is the (workerId, claimedAt) pair.
Owns(w, r) ==
    /\ row[r].status = "running"
    /\ row[r].claimedBy = w
    /\ row[r].claimedAt = exec[w][r].lease

\* observe(): why this execution must stop, read from the row.
Observed(w, r) ==
    IF ~Owns(w, r)
    THEN IF row[r].status = "cancelled" THEN "cancelled" ELSE "fenced"
    ELSE IF row[r].overdue THEN "deadline" ELSE "none"

\* stop(): the first recorded cause wins.
FirstStop(x, reason) == IF x.stop = "none" THEN reason ELSE x.stop

\* CLEAR_PENDING
ClearPending(rw) == [rw EXCEPT !.pending = None, !.pendingDecision = "none", !.approval = 0]

\* Faulty variant: the lease time is compared as a number after it was nulled.
ReleaseLeaseToNull(rw) == [rw EXCEPT !.claimedBy = None, !.claimedAt = None, !.stale = FALSE]

\* claimedBy, claimedAt and heartbeatAt set to null together.
ReleaseLease(rw) == [rw EXCEPT !.claimedBy = None, !.claimedAt = 0, !.stale = FALSE]

\* heartbeatAt: now()
Beat(rw) == [rw EXCEPT !.stale = FALSE]

\* Faulty variant: the terminal write leaves the parked call and its decision.
EndedStillPending(rw, status) == [rw EXCEPT !.status = status]

\* A terminal write.
Ended(rw, status) == [ClearPending(rw) EXCEPT !.status = status]

\* finish(): the conditional update; a lost lease leaves the row alone.
Finish(w, r, rw) == row' = IF Owns(w, r) THEN [row EXCEPT ![r] = rw] ELSE row

\* The execution moves on to x; nothing else of this process changes.
Become(w, r, x) == exec' = [exec EXCEPT ![w][r] = x]

\* The loop is over.  Of what the execution held, its end reads this much.
Over(x, reason, result, reached) ==
    LET y == [Idle EXCEPT !.pc = "end", !.lease = x.lease, !.stop = reason] IN
    CASE reason = "fenced" -> y
      [] reason = "parked" -> [y EXCEPT !.park = x.park, !.trace = x.trace]
      [] OTHER -> [y EXCEPT !.base = x.base, !.progressed = x.progressed,
                            !.result = result, !.reached = reached]

\* The await throws AgentRunStopped(reason): no result.
StoppedBy(x, reason) == Over(x, FirstStop(x, reason), "none", 0)

\* runAgent returns.
Returns(x, result, reached) == Over(x, x.stop, result, reached)

\* The call being made is answered; nothing reads it any more.
Answered(x) ==
    [x EXCEPT !.call = None, !.text = "absent", !.decided = None, !.decision = "none", !.approval = 0]

\* A fenced write of an execution: rw and x when the lease is held, a
\* "fenced" stop when it is not.
FencedStep(w, r, rw, x) ==
    /\ Finish(w, r, rw)
    /\ Become(w, r, IF Owns(w, r) THEN x ELSE StoppedBy(exec[w][r], "fenced"))

\* The running processes keep their other state.
Rest == <<phase, held, client, faults>>

\* The crons run: stop() only clears their intervals, so a tick or a beat
\* under way when the process starts to drain still finishes.
Ticking(w) == phase[w] \in {"up", "draining"}

InFlight(w) == {r \in Runs : exec[w][r].pc # "idle"}

-----------------------------------------------------------------------------
(* What people do: start, cancel, decide *)

\* enqueueAgentRun
Enqueue(r) ==
    /\ row[r].status = "absent"
    /\ row' = [row EXCEPT ![r].status = "queued"]
    /\ UNCHANGED <<exec, Rest, preempts, approved, effects>>

\* cancelAgentRun
Cancel(r) ==
    /\ row[r].status \in Active
    /\ row' = [row EXCEPT ![r] = Ended(@, "cancelled")]
    /\ UNCHANGED <<exec, Rest, preempts, approved, effects>>

\* A run page is opened or refreshed: it shows the parked call.
View(c, r) ==
    /\ client[c].pc = "away"
    /\ row[r].status = "awaiting_confirmation"
    /\ client' = [client EXCEPT ![c] = [Away EXCEPT !.pc = "viewing", !.run = r, !.shown = row[r].pending]]
    /\ UNCHANGED <<row, exec, phase, held, preempts, approved, effects, faults>>

\* decideAgentRun up to its update: the row is read and, for an approval, the
\* principal's reach to the tool read is checked.
DecideRead(c, d) ==
    /\ client[c].pc = "viewing"
    /\ LET rw == row[client[c].run] IN
          /\ rw.status = "awaiting_confirmation"
          /\ rw.pending # None
          /\ client' = [client EXCEPT ![c].pc = "checked", ![c].checked = rw.pending, ![c].decision = d]
    /\ UNCHANGED <<row, exec, phase, held, preempts, approved, effects, faults>>

\* decideAgentRun answers 403 or 409 before its update (not parked, not the
\* owner, reach lost), or the page is closed.
DecideRefused(c) ==
    /\ client[c].pc = "viewing"
    /\ client' = [client EXCEPT ![c] = Away]
    /\ UNCHANGED <<row, exec, phase, held, preempts, approved, effects, faults>>

\* decideAgentRun's update, conditioned on the status alone.
DecideWrite(c) ==
    /\ client[c].pc = "checked"
    /\ LET r == client[c].run
           d == client[c].decision
           n == Len(approved[r]) + 1
           lands == row[r].status = "awaiting_confirmation"
       IN /\ row' = IF lands
                    THEN [row EXCEPT ![r].status = "queued", ![r].pendingDecision = d,
                                     ![r].approval = IF d = "approved" THEN n ELSE 0]
                    ELSE row
          /\ approved' = IF lands /\ d = "approved"
                         THEN [approved EXCEPT ![r] = Append(@, [call |-> row[r].pending,
                                                                 shown |-> client[c].shown,
                                                                 checked |-> client[c].checked])]
                         ELSE approved
    /\ client' = [client EXCEPT ![c] = Away]
    /\ UNCHANGED <<exec, phase, held, preempts, effects, faults>>

-----------------------------------------------------------------------------
(* Leases: time, tick, heartbeat *)

\* reclaimAfterMs passes without a heartbeat on the row.
LeaseExpires(r) ==
    /\ row[r].status = "running"
    /\ ~row[r].stale
    /\ row' = [row EXCEPT ![r].stale = TRUE]
    /\ UNCHANGED <<exec, Rest, preempts, approved, effects>>

\* The wall clock passes deadlineAt.  The time a run sits parked is added to
\* deadlineAt by the decision, so it never passes there.
DeadlinePasses(r) ==
    /\ row[r].started
    /\ ~row[r].overdue
    /\ row[r].status \in {"queued", "running"}
    /\ row' = [row EXCEPT ![r].overdue = TRUE]
    /\ UNCHANGED <<exec, Rest, preempts, approved, effects>>

\* Faulty variant: a stale row out of attempts is skipped.
ReclaimWithinAttempts(w, r) ==
    /\ Ticking(w)
    /\ row[r].status = "running"
    /\ row[r].stale
    /\ row[r].attempts < MaxAttempts
    /\ row' = [row EXCEPT ![r] = [ReleaseLease(@) EXCEPT !.status = "queued", !.attempts = row[r].attempts + 1]]
    /\ UNCHANGED <<exec, Rest, preempts, approved, effects>>

\* reclaimStale, one stale row.  Its read and its update are one step here:
\* the update's fence is implied, since a row goes stale at any moment and
\* only a tick, which the advisory lock excludes, may claim it in between.
ReclaimStale(w, r) ==
    /\ Ticking(w)
    /\ row[r].status = "running"
    /\ row[r].stale
    /\ row' = [row EXCEPT ![r] = IF @.attempts >= MaxAttempts
                                 THEN Ended(@, "failed")
                                 ELSE [ReleaseLease(@) EXCEPT !.status = "queued", !.attempts = row[r].attempts + 1]]
    /\ UNCHANGED <<exec, Rest, preempts, approved, effects>>

\* tickOnce claims a queued row this process is not executing, and launches
\* it.
Claim(w, r) ==
    /\ Ticking(w)
    /\ row[r].status = "queued"
    /\ r \notin InFlight(w)
    /\ Cardinality(InFlight(w)) < Concurrency
    /\ row' = [row EXCEPT ![r].status = "running", ![r].claimedBy = w,
                          ![r].claims = @ + 1, ![r].claimedAt = row[r].claims + 1,
                          ![r].stale = FALSE, ![r].started = TRUE]
    /\ Become(w, r, [Idle EXCEPT !.pc = "launched", !.lease = row[r].claims + 1])
    /\ UNCHANGED <<Rest, preempts, approved, effects>>

\* heartbeatOnce, one run in flight.  observe() stops the execution; a lease
\* lost between the observation and the beat stops it as fenced.
Heartbeat(w, r) ==
    /\ Ticking(w)
    /\ exec[w][r].pc # "idle"
    /\ \/ /\ Observed(w, r) = "none"
          /\ row' = [row EXCEPT ![r] = Beat(@)]
          /\ UNCHANGED exec
       \/ /\ Observed(w, r) # "none"
          /\ \E reason \in {Observed(w, r)} \cup (IF Owns(w, r) THEN {} ELSE {"fenced"}) :
                Become(w, r, [exec[w][r] EXCEPT !.stop = FirstStop(exec[w][r], reason)])
          /\ UNCHANGED row
    /\ UNCHANGED <<Rest, preempts, approved, effects>>

-----------------------------------------------------------------------------
(* execute: admission and the decided call *)

\* execute reads the row it was launched for.
ReadRow(w, r) ==
    LET x == exec[w][r]
        rw == row[r]
        isDecided == rw.pending # None /\ rw.pendingDecision # "none"
    IN
    /\ x.pc = "launched"
    /\ Become(w, r,
          IF Owns(w, r)
          THEN [x EXCEPT !.pc = "admit", !.base = rw.iteration, !.iter = rw.iteration,
                         !.trace = rw.trace, !.messages = rw.messages,
                         !.decided = IF isDecided THEN rw.pending ELSE None,
                         !.decision = IF isDecided THEN rw.pendingDecision ELSE "none",
                         !.approval = IF isDecided THEN rw.approval ELSE 0]
          ELSE Idle)
    /\ UNCHANGED <<row, Rest, preempts, approved, effects>>

\* The principal does not resolve, or the cloud gate refuses: the run fails.
Refuse(w, r) ==
    /\ exec[w][r].pc = "admit"
    /\ Finish(w, r, Ended(row[r], "failed"))
    /\ Become(w, r, Idle)
    /\ UNCHANGED <<Rest, preempts, approved, effects>>

\* Admitted; a run with no iteration left fails here.
Admit(w, r) ==
    LET x == exec[w][r] IN
    /\ x.pc = "admit"
    /\ IF x.base >= MaxIter
       THEN /\ Finish(w, r, Ended(row[r], "failed"))
            /\ Become(w, r, Idle)
       ELSE /\ UNCHANGED row
            /\ Become(w, r, IF Owns(w, r) THEN [x EXCEPT !.pc = "resume"] ELSE Idle)
    /\ UNCHANGED <<Rest, preempts, approved, effects>>

\* The approved calls of the checkpoint's iteration whose outcome was lost.
LostApproved(x) ==
    {e \in x.trace : /\ e.iter = x.base
                     /\ e.confirmation = "confirmed"
                     /\ e.text = "absent"
                     /\ ~e.unknownOutcome}

Mark(trace, e) == (trace \ {e}) \cup {[e EXCEPT !.unknownOutcome = TRUE]}

\* resumeDecidedCall with no decision: a lost approved call is put to the
\* person again, marked; otherwise the loop is entered.
ResumeUndecided(w, r) ==
    LET x == exec[w][r] IN
    /\ x.pc = "resume"
    /\ x.decided = None
    /\ \/ /\ LostApproved(x) = {}
          /\ Become(w, r, [x EXCEPT !.pc = "top"])
       \/ \E e \in LostApproved(x) :
             Become(w, r, StoppedBy([x EXCEPT !.trace = Mark(x.trace, e), !.park = e.call], "parked"))
    /\ UNCHANGED <<row, Rest, preempts, approved, effects>>

\* The trace entry of the decided call.
DecidedEntry(x) ==
    [call |-> x.decided, iter |-> x.base,
     confirmation |-> IF x.decision = "approved" THEN "confirmed" ELSE "denied",
     text |-> "absent", unknownOutcome |-> FALSE]

\* Faulty variant: any decision goes on to be redeemed.
ResumeAnyDecision(w, r) ==
    LET x == exec[w][r] IN
    /\ x.pc = "resume"
    /\ x.decided # None
    /\ Observed(w, r) = "none"
    /\ Become(w, r, [x EXCEPT !.trace = @ \cup {DecidedEntry(x)}, !.pc = "consume"])
    /\ UNCHANGED <<row, Rest, preempts, approved, effects>>

\* resumeDecidedCall with a decision: a denial, a binding mismatch or lost
\* reach is answered without a dispatch; an approval goes on to be consumed.
ResumeDecided(w, r) ==
    LET x == exec[w][r]
        pushed == [x EXCEPT !.trace = @ \cup {DecidedEntry(x)}]
    IN
    /\ x.pc = "resume"
    /\ x.decided # None
    /\ \/ /\ Observed(w, r) # "none"
          /\ Become(w, r, StoppedBy(x, Observed(w, r)))
       \/ /\ Observed(w, r) = "none"
          /\ Become(w, r, [pushed EXCEPT !.text = "error", !.pc = "answer"])
       \/ /\ Observed(w, r) = "none"
          /\ x.decision = "approved"
          /\ Become(w, r, [pushed EXCEPT !.pc = "consume"])
    /\ UNCHANGED <<row, Rest, preempts, approved, effects>>

\* Faulty variant: the approval stays on the row until the call is answered.
ConsumeKeepsDecision(w, r) ==
    LET x == exec[w][r] IN
    /\ x.pc = "consume"
    /\ FencedStep(w, r, [Beat(row[r]) EXCEPT !.trace = x.trace], [x EXCEPT !.pc = "leg1"])
    /\ UNCHANGED <<Rest, preempts, approved, effects>>

\* Faulty variant: the checkpoint is advanced before the call is answered.
ConsumeAndAdvance(w, r) ==
    LET x == exec[w][r] IN
    /\ x.pc = "consume"
    /\ FencedStep(w, r, [Beat(ClearPending(row[r])) EXCEPT !.trace = x.trace, !.iteration = x.base + 1],
                  [x EXCEPT !.pc = "leg1"])
    /\ UNCHANGED <<Rest, preempts, approved, effects>>

\* The write that records the entry and spends the approval BEFORE the call
\* is dispatched.
Consume(w, r) ==
    LET x == exec[w][r] IN
    /\ x.pc = "consume"
    /\ FencedStep(w, r, [Beat(ClearPending(row[r])) EXCEPT !.trace = x.trace],
                  [x EXCEPT !.pc = "leg1"])
    /\ UNCHANGED <<Rest, preempts, approved, effects>>

\* redeem, first leg: dispatched without a token, challenged, refused or failed.
RedeemChallenge(w, r) ==
    LET x == exec[w][r] IN
    /\ x.pc = "leg1"
    /\ \/ Become(w, r, [x EXCEPT !.pc = "leg2"])
       \/ Become(w, r, [x EXCEPT !.pc = "answer", !.text = "error"])
    /\ UNCHANGED <<row, Rest, preempts, approved, effects>>

\* The call writes in the world.
Happens(r, call, iter, approval) ==
    effects' = [effects EXCEPT ![r] = Append(@, [call |-> call, iter |-> iter, approval |-> approval])]

\* redeem, the leg that runs the tool: the second, dispatched with the token,
\* or the first of a tool that no longer asks for confirmation.  The answer may
\* be lost; or the token is refused and nothing runs.
Redeem(w, r) ==
    LET x == exec[w][r] IN
    /\ x.pc \in {"leg1", "leg2"}
    /\ \/ /\ Happens(r, x.decided, x.base, x.approval)
          /\ \E t \in {"ok", "error"} : Become(w, r, [x EXCEPT !.pc = "answer", !.text = t])
       \/ /\ UNCHANGED effects
          /\ Become(w, r, [x EXCEPT !.pc = "answer", !.text = "error"])
    /\ UNCHANGED <<row, Rest, preempts, approved>>

\* The decided call's result, the conversation and the advanced checkpoint in
\* one write.  A workspace_propose that ran ends the run; a run with no
\* iteration left ends on its cap.
Answer(w, r) ==
    LET x == exec[w][r]
        e == DecidedEntry(x)
        y == [x EXCEPT !.trace = (@ \ {e}) \cup {[e EXCEPT !.text = x.text]},
                       !.messages = @ \cup {[call |-> x.decided, iter |-> x.base]},
                       !.base = @ + 1, !.iter = x.base + 1]
        z == IF x.text = "ok" /\ x.decided \in Proposals THEN StoppedBy(y, "proposed")
             ELSE IF y.base >= MaxIter THEN Returns(y, "limit", y.base)
             ELSE [Answered(y) EXCEPT !.pc = "top"]
    IN
    /\ x.pc = "answer"
    /\ FencedStep(w, r, [Beat(ClearPending(row[r])) EXCEPT
                            !.trace = y.trace, !.messages = y.messages, !.iteration = y.base],
                  z)
    /\ UNCHANGED <<Rest, preempts, approved, effects>>

-----------------------------------------------------------------------------
(* runAgent, as the run's checkpoint port drives it *)

\* Top of an iteration: the abort check, then onIteration's observation.
Top(w, r) ==
    LET x == exec[w][r] IN
    /\ x.pc = "top"
    /\ Become(w, r,
          IF x.stop # "none" THEN Returns(x, "aborted", x.iter)
          ELSE IF Observed(w, r) # "none" THEN StoppedBy(x, Observed(w, r))
          ELSE [x EXCEPT !.pc = "checkpoint", !.progressed = @ \/ x.iter > x.base])
    /\ UNCHANGED <<row, Rest, preempts, approved, effects>>

\* onIteration's write.
Checkpoint(w, r) ==
    LET x == exec[w][r] IN
    /\ x.pc = "checkpoint"
    /\ FencedStep(w, r, [Beat(row[r]) EXCEPT !.iteration = x.iter, !.messages = x.messages],
                  [x EXCEPT !.pc = "model"])
    /\ UNCHANGED <<Rest, preempts, approved, effects>>

\* The model call ends: a final answer, an error, an abort, or tool calls.
ModelReplies(w, r) ==
    LET x == exec[w][r] IN
    /\ x.pc = "model"
    /\ \/ Become(w, r, Returns(x, "done", x.iter + 1))
       \/ Become(w, r, Returns(x, "error", x.iter))
       \/ x.stop # "none" /\ Become(w, r, Returns(x, "aborted", x.iter))
       \/ Become(w, r, [x EXCEPT !.pc = "calls"])
    /\ UNCHANGED <<row, Rest, preempts, approved, effects>>

\* Chat has the box: the gateway refuses the request (429) or cuts a
\* preemptible one.
ModelYields(w, r) ==
    LET x == exec[w][r] IN
    /\ x.pc = "model"
    /\ row[r].yields < MaxYields
    /\ \/ Become(w, r, Returns(x, "busy", x.iter))
       \/ preempts[w][r] < MaxPreemptions /\ Become(w, r, Returns(x, "preempted", x.iter))
    /\ UNCHANGED <<row, Rest, preempts, approved, effects>>

\* The response's next tool call: the abort check, then beforeToolCall's
\* observation.
NextCall(w, r, c) ==
    LET x == exec[w][r] IN
    /\ x.pc = "calls"
    /\ Become(w, r,
          IF x.stop # "none" THEN Returns(x, "aborted", x.iter + 1)
          ELSE IF Observed(w, r) # "none" THEN StoppedBy(x, Observed(w, r))
          ELSE [x EXCEPT !.pc = "guard", !.call = c])
    /\ UNCHANGED <<row, Rest, preempts, approved, effects>>

\* The response's calls are all answered.
NextIteration(w, r) ==
    LET x == exec[w][r] IN
    /\ x.pc = "calls"
    /\ Become(w, r, IF x.iter + 1 >= MaxIter
                    THEN Returns(x, "limit", MaxIter)
                    ELSE [x EXCEPT !.pc = "top", !.iter = @ + 1])
    /\ UNCHANGED <<row, Rest, preempts, approved, effects>>

\* decidedBefore: a person already decided this very call, and it ran or was
\* declined.
DecidedBefore(x) ==
    \E e \in x.trace : /\ e.call = x.call
                       /\ \/ e.confirmation = "denied" /\ e.text # "absent"
                          \/ e.confirmation = "confirmed" /\ e.text = "ok"

\* The completed entries of this iteration and call.  The code also skips
\* the entries it already served, but serving pushes a completed copy, so a
\* call once completed in an iteration is always served again.
ReplayHits(x) == {e \in x.trace : e.iter = x.iter /\ e.call = x.call /\ e.text \in {"ok", "error"}}

\* The dispatches of this iteration and call whose outcome was lost.
LostCalls(x) == {e \in x.trace : e.iter = x.iter /\ e.call = x.call /\ e.text = "absent"}

\* Faulty variant: every lost call is dispatched again.
RedispatchAlways(e) == e.call \in Calls

\* redispatchSafe
RedispatchSafe(e) ==
    \/ e.call \in Repeatable
    \/ e.call \in Gated /\ e.confirmation # "confirmed"

Intent(x) ==
    [call |-> x.call, iter |-> x.iter, confirmation |-> "none",
     text |-> "absent", unknownOutcome |-> FALSE]

AnswerTo(x) == [call |-> x.call, iter |-> x.iter]

\* beforeToolCall answers from the trace: nothing is dispatched.
Serve(w, r) ==
    LET x == exec[w][r] IN
    /\ x.pc = "guard"
    /\ DecidedBefore(x) \/ ReplayHits(x) # {}
    /\ \E t \in IF DecidedBefore(x) THEN {"error"} ELSE {e.text : e \in ReplayHits(x)} :
          LET y == [Answered(x) EXCEPT !.trace = @ \cup {[Intent(x) EXCEPT !.text = t]},
                                       !.messages = @ \cup {AnswerTo(x)}, !.pc = "calls"]
          IN FencedStep(w, r, [Beat(row[r]) EXCEPT !.trace = y.trace], y)
    /\ UNCHANGED <<Rest, preempts, approved, effects>>

\* beforeToolCall finds a lost ungated write: marked, and the run stops.
Halt(w, r) ==
    LET x == exec[w][r] IN
    /\ x.pc = "guard"
    /\ ~DecidedBefore(x)
    /\ ReplayHits(x) = {}
    /\ \E e \in LostCalls(x) :
          /\ ~RedispatchSafe(e)
          /\ e.confirmation # "confirmed"
          /\ FencedStep(w, r, [Beat(row[r]) EXCEPT !.trace = Mark(x.trace, e)],
                        StoppedBy(x, "unknown_outcome"))
    /\ UNCHANGED <<Rest, preempts, approved, effects>>

\* Faulty variant: the intent is kept in memory until the call has returned.
IntentInMemory(w, r) ==
    LET x == exec[w][r] IN
    /\ x.pc = "guard"
    /\ ~DecidedBefore(x)
    /\ ReplayHits(x) = {}
    /\ Become(w, r, [x EXCEPT !.trace = @ \cup {Intent(x)}, !.pc = "dispatch"])
    /\ UNCHANGED <<row, Rest, preempts, approved, effects>>

\* beforeToolCall records the intent; a lost approved call is marked first.
RecordIntent(w, r) ==
    LET x == exec[w][r]
        reask == {e \in LostCalls(x) : e.confirmation = "confirmed"}
        y == [x EXCEPT !.trace = {IF e \in reask THEN [e EXCEPT !.unknownOutcome = TRUE] ELSE e : e \in @}
                                    \cup {Intent(x)},
                       !.pc = "dispatch"]
    IN
    /\ x.pc = "guard"
    /\ ~DecidedBefore(x)
    /\ ReplayHits(x) = {}
    /\ \A e \in LostCalls(x) : RedispatchSafe(e) \/ e.confirmation = "confirmed"
    /\ FencedStep(w, r, [Beat(row[r]) EXCEPT !.trace = y.trace], y)
    /\ UNCHANGED <<Rest, preempts, approved, effects>>

\* mcp.callTool without a token.  A gated call is challenged or denied; any
\* other runs, and may fail with or without having run.
Dispatch(w, r) ==
    LET x == exec[w][r]
        got(t) == Become(w, r, [x EXCEPT !.text = t, !.pc = "after"])
    IN
    /\ x.pc = "dispatch"
    /\ \/ /\ x.call \in Gated
          /\ UNCHANGED effects
          /\ \E t \in {"challenge", "error"} : got(t)
       \/ /\ x.call \in Ungated
          /\ Happens(r, x.call, x.iter, 0)
          /\ \E t \in {"ok", "error"} : got(t)
       \/ /\ x.call \in Ungated
          /\ UNCHANGED effects
          /\ got("error")
       \/ /\ x.call \in Repeatable
          /\ UNCHANGED effects
          /\ \E t \in {"ok", "error"} : got(t)
    /\ UNCHANGED <<row, Rest, preempts, approved>>

\* Faulty variant: the completed entry waits for the next write of the trace.
AnswerInMemory(w, r) ==
    LET x == exec[w][r] IN
    /\ x.pc = "after"
    /\ x.text # "challenge"
    /\ Become(w, r, [Answered(x) EXCEPT !.trace = (@ \ {Intent(x)}) \cup {[Intent(x) EXCEPT !.text = x.text]},
                                        !.messages = @ \cup {AnswerTo(x)}, !.pc = "calls"])
    /\ UNCHANGED <<row, Rest, preempts, approved, effects>>

\* afterToolCall completes the entry; a challenge then parks the run
\* (approvals.register), which aborts the loop.
AfterToolCall(w, r) ==
    LET x == exec[w][r]
        y == [x EXCEPT !.trace = (@ \ {Intent(x)}) \cup {[Intent(x) EXCEPT !.text = x.text]},
                       !.messages = @ \cup {AnswerTo(x)}]
        z == IF x.text = "challenge"
             THEN Over([y EXCEPT !.park = x.call], FirstStop(x, "parked"), "aborted", x.iter + 1)
             ELSE [Answered(y) EXCEPT !.pc = "calls"]
    IN
    /\ x.pc = "after"
    /\ FencedStep(w, r, [Beat(row[r]) EXCEPT !.trace = y.trace], z)
    /\ UNCHANGED <<Rest, preempts, approved, effects>>

Fault == faults < MaxFaults /\ faults' = faults + 1

\* Any other rejected await while the loop is driven (a database error).
Throws(w, r) ==
    LET x == exec[w][r] IN
    /\ x.pc \in Driving
    /\ Become(w, r, Returns(x, "threw", x.base))
    /\ Fault
    /\ UNCHANGED <<row, phase, held, client, preempts, approved, effects>>

-----------------------------------------------------------------------------
(* The end of execute, by reason; launch's finally forgets the execution *)

\* iteration: base + (result?.iterations ?? 0)
Reached(x) == IF x.result = "none" THEN x.base ELSE x.reached

\* preemptionsWithoutProgress is forgotten unless chat preempted the call.
Forget(w, r) == preempts' = [preempts EXCEPT ![w][r] = 0]

Leaves(w, r) ==
    /\ Become(w, r, Idle)
    /\ UNCHANGED <<Rest, approved, effects>>

EndFenced(w, r) ==
    /\ exec[w][r].pc = "end"
    /\ exec[w][r].stop = "fenced"
    /\ UNCHANGED row
    /\ Forget(w, r)
    /\ Leaves(w, r)

\* The canceller wrote the status; the position is recorded under a fence on
\* `cancelled`.
EndCancelled(w, r) ==
    LET x == exec[w][r] IN
    /\ x.pc = "end"
    /\ x.stop = "cancelled"
    /\ row' = IF row[r].status = "cancelled" /\ row[r].claimedBy = w /\ row[r].claimedAt = x.lease
              THEN [row EXCEPT ![r] = [ClearPending(@) EXCEPT !.iteration = Reached(x)]]
              ELSE row
    /\ Forget(w, r)
    /\ Leaves(w, r)

\* The park: the lease is released, the call is stored, no decision on it.
EndParked(w, r) ==
    LET x == exec[w][r] IN
    /\ x.pc = "end"
    /\ x.stop = "parked"
    /\ Finish(w, r, [ReleaseLease(row[r]) EXCEPT
                        !.status = "awaiting_confirmation", !.trace = x.trace,
                        !.pending = x.park, !.pendingDecision = "none", !.approval = 0])
    /\ Forget(w, r)
    /\ Leaves(w, r)

\* proposed, unknown_outcome and deadline: terminal, whatever the loop returned.
EndStopped(w, r) ==
    LET x == exec[w][r] IN
    /\ x.pc = "end"
    /\ x.stop \in {"proposed", "unknown_outcome", "deadline"}
    /\ Finish(w, r, [Ended(row[r], IF x.stop = "proposed" THEN "succeeded" ELSE "failed")
                        EXCEPT !.iteration = Reached(x)])
    /\ Forget(w, r)
    /\ Leaves(w, r)

\* Chat has the box: back to the queue at the same checkpoint, no attempt
\* charged.
EndYielded(w, r) ==
    LET x == exec[w][r] IN
    /\ x.pc = "end"
    /\ x.stop = "none"
    /\ x.result \in {"busy", "preempted"}
    /\ Finish(w, r, [ReleaseLease(row[r]) EXCEPT !.status = "queued", !.yields = @ + 1])
    /\ IF x.result = "preempted"
       THEN preempts' = [preempts EXCEPT ![w][r] = IF x.progressed THEN 1 ELSE @ + 1]
       ELSE Forget(w, r)
    /\ Leaves(w, r)

\* The loop ended on its own, or threw.
EndReturned(w, r) ==
    LET x == exec[w][r] IN
    /\ x.pc = "end"
    /\ x.stop = "none"
    /\ x.result \in {"done", "error", "limit", "threw"}
    /\ Finish(w, r, [Ended(row[r], IF x.result = "done" THEN "succeeded" ELSE "failed")
                        EXCEPT !.iteration = IF x.result = "threw" THEN @ ELSE Reached(x)])
    /\ Forget(w, r)
    /\ Leaves(w, r)

\* The await outside execute's try rejects (the row's read, the gates, the
\* final write): launch logs it and the row keeps a lease nobody beats.
ExecutorThrows(w, r) ==
    /\ exec[w][r].pc \in {"launched", "admit", "end"}
    /\ Become(w, r, Idle)
    /\ IF exec[w][r].pc = "end" /\ ~(exec[w][r].stop = "none" /\ exec[w][r].result = "preempted")
       THEN Forget(w, r)
       ELSE UNCHANGED preempts
    /\ Fault
    /\ UNCHANGED <<row, phase, held, client, approved, effects>>

-----------------------------------------------------------------------------
(* Processes *)

\* A box keeps a process: its supervisor restarts one that stops, under a new
\* worker id.
Survivor(w) == \E v \in Workers \ {w} : phase[v] = "up"

\* releaseAll, up to its await: every run in flight is told to stop and the
\* leases are captured.
ReleaseAll(w) ==
    /\ phase[w] = "up"
    /\ Survivor(w)
    /\ phase' = [phase EXCEPT ![w] = "draining"]
    /\ held' = [held EXCEPT ![w] = [r \in Runs |-> exec[w][r].lease]]
    /\ exec' = [exec EXCEPT ![w] = [r \in Runs |->
                   IF exec[w][r].pc = "idle" THEN Idle
                   ELSE [exec[w][r] EXCEPT !.stop = FirstStop(exec[w][r], "fenced")]]]
    /\ Fault
    /\ UNCHANGED <<row, preempts, client, approved, effects>>

\* Faulty variant: the hand-back forgets to ask that the row still runs.
ReleaseAnyStatus(w, r) ==
    /\ phase[w] = "draining"
    /\ held[w][r] # 0
    /\ \A q \in Runs : held[w][q] # 0 => exec[w][q].lease # held[w][q]
    /\ row' = IF row[r].claimedBy = w /\ row[r].claimedAt = held[w][r]
              THEN [row EXCEPT ![r] = [ReleaseLease(@) EXCEPT !.status = "queued"]]
              ELSE row
    /\ held' = [held EXCEPT ![w][r] = 0]
    /\ UNCHANGED <<exec, phase, preempts, client, approved, effects, faults>>

\* The executions captured have settled; one row is handed back uncharged.
ReleaseRow(w, r) ==
    /\ phase[w] = "draining"
    /\ held[w][r] # 0
    /\ \A q \in Runs : held[w][q] # 0 => exec[w][q].lease # held[w][q]
    /\ row' = IF /\ row[r].status = "running"
                 /\ row[r].claimedBy = w
                 /\ row[r].claimedAt = held[w][r]
              THEN [row EXCEPT ![r] = [ReleaseLease(@) EXCEPT !.status = "queued"]]
              ELSE row
    /\ held' = [held EXCEPT ![w][r] = 0]
    /\ UNCHANGED <<exec, phase, preempts, client, approved, effects, faults>>

Down(w, how) ==
    /\ phase' = [phase EXCEPT ![w] = how]
    /\ exec' = [exec EXCEPT ![w] = [r \in Runs |-> Idle]]
    /\ held' = [held EXCEPT ![w] = [r \in Runs |-> 0]]
    /\ preempts' = [preempts EXCEPT ![w] = [r \in Runs |-> 0]]
    /\ UNCHANGED <<row, client, approved, effects>>

\* releaseAll is done and the process exits, with whatever a late tick
\* launched in the meantime.
Exit(w) ==
    /\ phase[w] = "draining"
    /\ \A r \in Runs : held[w][r] = 0
    /\ Down(w, "exited")
    /\ UNCHANGED faults

Crash(w) ==
    /\ phase[w] \in {"up", "draining"}
    /\ Survivor(w)
    /\ Down(w, "crashed")
    /\ Fault

-----------------------------------------------------------------------------
(* The specification *)

Execute(w, r) ==
    \/ ReadRow(w, r) \/ Refuse(w, r) \/ Admit(w, r)
    \/ ResumeUndecided(w, r) \/ ResumeDecided(w, r) \/ Consume(w, r)
    \/ RedeemChallenge(w, r) \/ Redeem(w, r) \/ Answer(w, r)
    \/ Top(w, r) \/ Checkpoint(w, r) \/ ModelReplies(w, r) \/ ModelYields(w, r)
    \/ (\E c \in Calls : NextCall(w, r, c)) \/ NextIteration(w, r)
    \/ Serve(w, r) \/ Halt(w, r) \/ RecordIntent(w, r)
    \/ Dispatch(w, r) \/ AfterToolCall(w, r) \/ Throws(w, r)
    \/ EndFenced(w, r) \/ EndCancelled(w, r) \/ EndParked(w, r)
    \/ EndStopped(w, r) \/ EndYielded(w, r) \/ EndReturned(w, r)
    \/ ExecutorThrows(w, r)

Next ==
    \/ \E r \in Runs : Enqueue(r) \/ Cancel(r) \/ LeaseExpires(r) \/ DeadlinePasses(r)
    \/ \E c \in Clients, r \in Runs : View(c, r)
    \/ \E c \in Clients, d \in {"approved", "denied"} : DecideRead(c, d)
    \/ \E c \in Clients : DecideRefused(c) \/ DecideWrite(c)
    \/ \E w \in Workers, r \in Runs :
          \/ ReclaimStale(w, r) \/ Claim(w, r) \/ Heartbeat(w, r)
          \/ Execute(w, r) \/ ReleaseRow(w, r)
    \/ \E w \in Workers : ReleaseAll(w) \/ Exit(w) \/ Crash(w)

Spec == Init /\ [][Next]_vars

\* What the scheduling of the code justifies: promises settle and timers keep
\* firing in a process that runs, a response holds finitely many calls, and a
\* lease nobody holds is found stale and reclaimed.
Fairness ==
    /\ \A w \in Workers, r \in Runs :
          /\ WF_vars(Execute(w, r))
          /\ SF_vars(NextIteration(w, r))
          /\ WF_vars(ReleaseRow(w, r))
    /\ \A w \in Workers : WF_vars(Exit(w))
    /\ \A r \in Runs :
          /\ SF_vars(\E w \in Workers : Claim(w, r))
          /\ WF_vars(LeaseExpires(r) /\ \A w \in Workers : ~Owns(w, r))
          /\ WF_vars(\E w \in Workers : ReclaimStale(w, r))

LiveSpec == Spec /\ Fairness

-----------------------------------------------------------------------------
(* Properties *)

\* Every field of the row and of an execution keeps its type, through every
\* write of execute, of the crons, of the routes and of a shutdown.
TypeOK ==
    /\ row \in [Runs -> Rows]
    /\ exec \in [Workers -> [Runs -> Execs]]
    /\ phase \in [Workers -> {"up", "draining", "exited", "crashed"}]
    /\ held \in [Workers -> [Runs -> Nat]]
    /\ preempts \in [Workers -> [Runs -> Nat]]
    /\ client \in [Clients -> [pc : {"away", "viewing", "checked"}, run : Runs \cup {None},
                               shown : Calls \cup {None}, checked : Calls \cup {None},
                               decision : {"none", "approved", "denied"}]]
    /\ approved \in [Runs -> Seq([call : Calls, shown : Calls \cup {None}, checked : Calls \cup {None}])]
    /\ effects \in [Runs -> Seq([call : Calls, iter : Nat, approval : Nat])]
    /\ faults \in Nat

\* A gated write happens only on an approval, on the very call that was parked
\* when the person approved (resumeDecidedCall runs the stored call).
RunsOnlyWhatWasApproved ==
    \A r \in Runs : \A i \in DOMAIN effects[r] :
        LET f == effects[r][i] IN
        f.call \in Gated => /\ f.approval \in DOMAIN approved[r]
                            /\ approved[r][f.approval].call = f.call

\* One approval is spent on at most one write, whatever crashes, reclaims and
\* zombies come between its consumption and the record of its result.
ApprovalSpentOnce ==
    \A r \in Runs : \A i, j \in DOMAIN effects[r] :
        /\ i # j
        /\ effects[r][i].call \in Gated
        => effects[r][i].approval # effects[r][j].approval

\* An ungated write is never repeated for the same call of the same
\* iteration: a resumed or a zombie execution is served or halted.
UngatedOncePerIteration ==
    \A r \in Runs : \A i, j \in DOMAIN effects[r] :
        /\ i # j
        /\ effects[r][i].call \in Ungated
        => \/ effects[r][i].call # effects[r][j].call
           \/ effects[r][i].iter # effects[r][j].iter

\* The durable trace names every write the run ever made: the intent is
\* persisted before the dispatch and no later write of any execution, a
\* zombie's included, drops it.
TraceHoldsEveryEffect ==
    \A r \in Runs : \A i \in DOMAIN effects[r] :
        \E e \in row[r].trace : /\ e.call = effects[r][i].call
                                /\ e.iter = effects[r][i].iter

\* The checkpointed conversation holds no answer of a dispatched call that the
\* durable trace does not hold: a resume never continues from a result that could
\* be lost.
ConversationIsTraced ==
    \A r \in Runs : \A a \in row[r].messages :
        \E e \in row[r].trace : e.call = a.call /\ e.iter = a.iter /\ e.text # "absent"

\* The pending fields agree with the status.
PendingFits(rw) ==
    /\ rw.status = "awaiting_confirmation" =>
          rw.pending # None /\ rw.pendingDecision = "none" /\ rw.claimedBy = None
    /\ rw.pendingDecision # "none" => rw.status \in {"queued", "running"} /\ rw.pending # None
    /\ rw.status \in Terminal => rw.pending = None

\* A parked row holds a call, no decision and no lease; a decision waits only
\* on a row that will be or is being executed, and dies with a terminal one.
PendingMatchesStatus == \A r \in Runs : PendingFits(row[r])

\* A dispatched approved call whose outcome was lost is found by the next
\* claim, before the loop: it sits at the checkpoint's iteration.
LostApprovalIsAtCheckpoint ==
    \A r \in Runs : \A e \in row[r].trace :
        /\ e.confirmation = "confirmed" /\ e.text = "absent" /\ ~e.unknownOutcome
        /\ row[r].status \in Active
        => e.iter = row[r].iteration

\* The checkpoint of a live run only moves forward, and its durable trace
\* never loses a call: an older execution cannot overwrite its successor.
CheckpointAdvances ==
    [][\A r \in Runs : row'[r].status \notin Terminal =>
          /\ row'[r].iteration >= row[r].iteration
          /\ {[call |-> e.call, iter |-> e.iter] : e \in row[r].trace}
                \subseteq {[call |-> e.call, iter |-> e.iter] : e \in row'[r].trace}]_vars

\* A finished run stays finished: no late write of an execution, a reclaim, a
\* release or a decision brings it back.
TerminalIsFinal ==
    [][\A r \in Runs : row[r].status \in Terminal => row'[r].status = row[r].status]_vars

\* A queued run ends or comes to wait for a person, through crashes,
\* reclaims, yields and shutdowns.
RunsSettle ==
    \A r \in Runs :
        row[r].status = "queued" ~> row[r].status \in Terminal \cup {"awaiting_confirmation"}

-----------------------------------------------------------------------------
(* What the repository says and the code does not do *)

\* "`messages` the complete conversation at its top" (design section 4): every
\* call answered in an iteration before the checkpoint is in the conversation.
ConversationIsComplete ==
    \A r \in Runs : \A e \in row[r].trace :
        row[r].status \in Active /\ e.text \in {"ok", "error"} /\ e.iter < row[r].iteration
        => [call |-> e.call, iter |-> e.iter] \in row[r].messages

\* "what runs is what the human was shown" (design section 7).
ApprovesWhatWasShown ==
    \A r \in Runs : \A i \in DOMAIN approved[r] : approved[r][i].shown = approved[r][i].call

\* "hand the rows back to `queued` (not charged as an attempt)": a process
\* that exited gracefully leaves no row in its lease.
GracefulExitLeavesNothing ==
    \A w \in Workers, r \in Runs :
        phase[w] = "exited" => ~(row[r].status = "running" /\ row[r].claimedBy = w)

=============================================================================

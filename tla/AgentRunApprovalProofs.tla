----------------------- MODULE AgentRunApprovalProofs -----------------------
(***************************************************************************)
(* A gated write happens only on an approval of that very call, and one    *)
(* approval is spent at most once: for every set of runs, workers and      *)
(* calls, through any number of crashes, reclaims and zombie executions.   *)
(***************************************************************************)
EXTENDS AgentRunProofs

-----------------------------------------------------------------------------
(* What an approval is worth *)

\* Approval a of run r was given for call c.
Backed(r, a, c) == a \in 1..Len(approved[r]) /\ approved[r][a].call = c

\* The legs of the redemption: the approval is off the row, the write not yet
\* made.
Redeems(x) == x.pc \in {"leg1", "leg2"}

\* A row's approval is for the call it holds.
RowApproval(r) ==
    LET rw == row[r] IN
    /\ rw.pendingDecision = "approved" <=> rw.approval # 0
    /\ rw.approval # 0 => Backed(r, rw.approval, rw.pending)

\* So is an execution's, and only an approved call goes on to be dispatched.
ExecApproval(w, r) ==
    LET x == exec[w][r] IN
    /\ x.approval # 0 => Backed(r, x.approval, x.decided)
    /\ x.decision = "approved" => x.approval # 0
    /\ x.pc \in {"consume", "leg1", "leg2"} => x.decision = "approved"

\* As long as it holds the lease, an execution that is about to consume an
\* approval finds on the row the approval it read.
LeaseApproval(w, r) ==
    LET x == exec[w][r] IN
    /\ x.pc \in {"admit", "resume", "consume"}
    /\ x.approval # 0
    /\ Owns(w, r)
    => row[r].approval = x.approval

\* The approval on the row is neither being redeemed nor spent.
RowUnspent(r) ==
    row[r].approval # 0 =>
        /\ \A i \in DOMAIN effects[r] : effects[r][i].approval # row[r].approval
        /\ \A w \in Workers : Redeems(exec[w][r]) => exec[w][r].approval # row[r].approval

\* An approval being redeemed is not spent, and nobody else redeems it.
ExecUnspent(w, r) ==
    Redeems(exec[w][r]) =>
        /\ \A i \in DOMAIN effects[r] : effects[r][i].approval # exec[w][r].approval
        /\ \A v \in Workers \ {w} : Redeems(exec[v][r]) => exec[v][r].approval # exec[w][r].approval

\* A write made on an approval is the approved call's, and the only one made
\* on it; a gated write is made on an approval.
EffectApproval(r) ==
    \A i \in DOMAIN effects[r] :
        LET f == effects[r][i] IN
        /\ f.call \in Gated => f.approval # 0
        /\ f.approval # 0 => /\ Backed(r, f.approval, f.call)
                             /\ \A j \in DOMAIN effects[r] \ {i} : effects[r][j].approval # f.approval

\* The inductive invariant behind RunsOnlyWhatWasApproved and
\* ApprovalSpentOnce: where an approval can be at any moment.
ApprovalInv ==
    /\ \A r \in Runs : RowApproval(r) /\ RowUnspent(r) /\ EffectApproval(r)
    /\ \A w \in Workers, r \in Runs : ExecApproval(w, r) /\ LeaseApproval(w, r) /\ ExecUnspent(w, r)

-----------------------------------------------------------------------------
(* Steps that neither give, take up nor spend an approval *)

\* The row keeps its approval, or drops it.
RowKeeps(a, b) ==
    \/ b.approval = a.approval /\ b.pending = a.pending /\ b.pendingDecision = a.pendingDecision
    \/ b.approval = 0 /\ b.pendingDecision # "approved"

\* So does the execution; it takes up only a call that was approved, and
\* redeems only one whose approval it has taken off the row.
ExecKeeps(x, y) ==
    \/ /\ y.approval = 0 /\ y.decision # "approved"
       /\ y.pc \notin {"consume", "leg1", "leg2"}
    \/ /\ y.approval = x.approval /\ y.decided = x.decided /\ y.decision = x.decision
       /\ \/ y.pc = x.pc
          \/ y.pc \notin {"admit", "resume", "consume", "leg1", "leg2"}
          \/ x.pc = "admit" /\ y.pc = "resume"
          \/ x.pc = "resume" /\ y.pc = "consume" /\ x.decision = "approved"
          \/ x.pc = "leg1" /\ y.pc = "leg2"

\* Nobody gains a lease while it waits to consume an approval.
LeaseKeeps(v, q) ==
    /\ exec'[v][q].pc \in {"admit", "resume", "consume"}
    /\ exec'[v][q].approval # 0
    /\ Owns(v, q)'
    => Owns(v, q) /\ row'[q].approval = row[q].approval

\* A step that only keeps or drops approvals keeps the invariant.
LEMMA KeepsApprovalInv ==
    ASSUME ApprovalInv, UNCHANGED <<approved, effects>>,
           \A r \in Runs : RowKeeps(row[r], row'[r]),
           \A w \in Workers, r \in Runs : ExecKeeps(exec[w][r], exec'[w][r]) /\ LeaseKeeps(w, r)
    PROVE  ApprovalInv'
<1>1. ASSUME NEW r \in Runs PROVE RowApproval(r)'
  BY <1>1 DEF ApprovalInv, RowApproval, RowKeeps, Backed
<1>2. ASSUME NEW w \in Workers, NEW r \in Runs PROVE ExecApproval(w, r)'
  BY <1>2 DEF ApprovalInv, ExecApproval, ExecKeeps, Backed
<1>3. ASSUME NEW w \in Workers, NEW r \in Runs PROVE LeaseApproval(w, r)'
  BY <1>3 DEF ApprovalInv, LeaseApproval, ExecKeeps, LeaseKeeps
<1>4. ASSUME NEW w \in Workers, NEW r \in Runs, Redeems(exec[w][r])'
      PROVE  Redeems(exec[w][r]) /\ exec'[w][r].approval = exec[w][r].approval
  BY <1>4 DEF ExecKeeps, Redeems
<1>5. ASSUME NEW r \in Runs PROVE RowUnspent(r)'
  BY <1>4, <1>5 DEF ApprovalInv, RowUnspent, RowKeeps
<1>6. ASSUME NEW w \in Workers, NEW r \in Runs PROVE ExecUnspent(w, r)'
  BY <1>4, <1>6 DEF ApprovalInv, ExecUnspent
<1>7. ASSUME NEW r \in Runs PROVE EffectApproval(r)'
  BY <1>7 DEF ApprovalInv, EffectApproval, Backed
<1>8. QED
  BY <1>1, <1>2, <1>3, <1>5, <1>6, <1>7 DEF ApprovalInv

\* The same for a step of one execution on one row: a new row is written
\* under the lease, or on a row that no longer runs, and names no other worker.
LEMMA StepKeeps ==
    ASSUME TypeInv, ApprovalInv, NEW w \in Workers, NEW r \in Runs, NEW rw, NEW x,
           UNCHANGED <<approved, effects>>,
           \/ row' = row
           \/ /\ row' = [row EXCEPT ![r] = rw]
              /\ RowKeeps(row[r], rw)
              /\ rw.status = "running" =>
                    /\ rw.claimedBy = row[r].claimedBy /\ rw.claimedAt = row[r].claimedAt
                    /\ row[r].status = "running"
                    /\ rw.approval = row[r].approval
                         \/ (row[r].claimedBy = w /\ x.pc \notin {"admit", "resume", "consume"}),
           exec' = [exec EXCEPT ![w][r] = x],
           ExecKeeps(exec[w][r], x),
           x.lease = exec[w][r].lease \/ x.pc \notin {"admit", "resume", "consume"}
    PROVE  ApprovalInv'
<1>1. row \in [Runs -> Rows] /\ exec \in [Workers -> [Runs -> Execs]]
  BY DEF TypeInv, TypeOK
<1>2. \A q \in Runs : RowKeeps(row[q], row'[q])
  BY <1>1 DEF RowKeeps
<1>3. /\ exec'[w][r] = x
      /\ \A v \in Workers, q \in Runs : v # w \/ q # r => exec'[v][q] = exec[v][q]
  BY <1>1
<1>4. \A v \in Workers, q \in Runs : ExecKeeps(exec[v][q], exec'[v][q])
  BY <1>3 DEF ExecKeeps
<1>5. ASSUME NEW v \in Workers, NEW q \in Runs PROVE LeaseKeeps(v, q)
  <2>1. CASE v = w /\ q = r
    BY <1>1, <1>3, <2>1 DEF LeaseKeeps, Owns
  <2>2. CASE q # r
    BY <1>1, <1>3, <2>2 DEF LeaseKeeps, Owns
  <2>3. CASE v # w /\ q = r
    BY <1>1, <1>3, <2>3 DEF LeaseKeeps, Owns
  <2>4. QED
    BY <2>1, <2>2, <2>3
<1>6. QED
  BY <1>2, <1>4, <1>5, KeepsApprovalInv

\* An execution that is over, or at rest, holds no approval.
LEMMA OverKeeps ==
    ASSUME NEW x, NEW y, NEW s, NEW t, NEW n
    PROVE  /\ ExecKeeps(y, Over(x, s, t, n)) /\ Over(x, s, t, n).pc = "end"
           /\ ExecKeeps(y, StoppedBy(x, s)) /\ StoppedBy(x, s).pc = "end"
           /\ ExecKeeps(y, Returns(x, t, n)) /\ Returns(x, t, n).pc = "end"
           /\ ExecKeeps(y, Idle) /\ Idle.pc = "idle"
<1>1. ASSUME NEW a, NEW b, NEW c
      PROVE  Over(x, a, b, c).approval = 0 /\ Over(x, a, b, c).decision = "none" /\ Over(x, a, b, c).pc = "end"
  <2>1. CASE a = "fenced"
    BY <2>1 DEF Over, Idle
  <2>2. CASE a = "parked"
    BY <2>2 DEF Over, Idle
  <2>3. CASE a \notin {"fenced", "parked"}
    BY <2>3 DEF Over, Idle
  <2>4. QED
    BY <2>1, <2>2, <2>3
<1>2. QED
  BY <1>1 DEF StoppedBy, Returns, ExecKeeps, Idle

\* The new row keeps or drops the approval, and keeps the lease.
FencedRow(rw, z) == RowKeeps(rw, z) /\ z.claimedBy = rw.claimedBy /\ z.claimedAt = rw.claimedAt

\* A fenced write that drops or keeps the row's approval keeps the invariant
\* when the execution keeps or drops its own.
LEMMA FencedKeeps ==
    ASSUME TypeInv, ApprovalInv, NEW w \in Workers, NEW r \in Runs, NEW rw, NEW x,
           UNCHANGED <<approved, effects>>,
           FencedStep(w, r, rw, x), FencedRow(row[r], rw), ExecKeeps(exec[w][r], x),
           x.pc \notin {"admit", "resume", "consume"}
    PROVE  ApprovalInv'
<1> DEFINE y == StoppedBy(exec[w][r], "fenced")
<1>1. ExecKeeps(exec[w][r], y) /\ y.pc = "end"
  BY OverKeeps
<1>2. CASE Owns(w, r)
  <2>1. /\ row' = [row EXCEPT ![r] = rw] /\ exec' = [exec EXCEPT ![w][r] = x]
        /\ row[r].status = "running" /\ row[r].claimedBy = w
        /\ RowKeeps(row[r], rw) /\ rw.claimedBy = row[r].claimedBy /\ rw.claimedAt = row[r].claimedAt
    BY <1>2 DEF FencedStep, Finish, Become, Owns, FencedRow
  <2>2. QED
    BY <2>1, StepKeeps
<1>3. CASE ~Owns(w, r)
  <2>1. row' = row /\ exec' = [exec EXCEPT ![w][r] = y]
    BY <1>3 DEF FencedStep, Finish, Become
  <2> HIDE DEF y
  <2>2. QED
    BY <1>1, <2>1, StepKeeps
<1>4. QED
  BY <1>2, <1>3

\* A step that leaves the row alone keeps the invariant when the execution
\* keeps or drops its approval.
LEMMA BecomeKeeps ==
    ASSUME TypeInv, ApprovalInv, NEW w \in Workers, NEW r \in Runs, NEW x,
           UNCHANGED <<row, approved, effects>>, Become(w, r, x), ExecKeeps(exec[w][r], x),
           x.lease = exec[w][r].lease \/ x.pc \notin {"admit", "resume", "consume"}
    PROVE  ApprovalInv'
BY StepKeeps DEF Become

\* The last write of an execution keeps the invariant when it drops or keeps
\* the row's approval.
LEMMA FinishKeeps ==
    ASSUME TypeInv, ApprovalInv, NEW w \in Workers, NEW r \in Runs, NEW rw,
           UNCHANGED <<approved, effects>>, Finish(w, r, rw), Become(w, r, Idle),
           RowKeeps(row[r], rw), rw.status # "running"
    PROVE  ApprovalInv'
<1>1. ExecKeeps(exec[w][r], Idle) /\ Idle.pc = "idle"
  BY OverKeeps
<1>2. exec' = [exec EXCEPT ![w][r] = Idle] /\ (row' = row \/ row' = [row EXCEPT ![r] = rw])
  BY DEF Finish, Become
<1>3. QED
  BY <1>1, <1>2, StepKeeps

\* The fenced writes of the loop are such.
LEMMA FencedRowKeeps ==
    ASSUME NEW rw \in Rows, NEW tr
    PROVE  FencedRow(rw, [Beat(rw) EXCEPT !.trace = tr])
BY DEF Beat, FencedRow, RowKeeps, Rows

\* So is the checkpoint.
LEMMA CheckpointRowKeeps ==
    ASSUME NEW rw \in Rows, NEW ms, NEW n
    PROVE  FencedRow(rw, [Beat(rw) EXCEPT !.iteration = n, !.messages = ms])
BY DEF Beat, FencedRow, RowKeeps, Rows

\* So is the answer of the decided call.
LEMMA AnswerRowKeeps ==
    ASSUME NEW rw \in Rows, NEW tr, NEW ms, NEW n
    PROVE  FencedRow(rw, [Beat(ClearPending(rw)) EXCEPT !.trace = tr, !.messages = ms, !.iteration = n])
BY DEF Beat, ClearPending, FencedRow, RowKeeps, Rows

\* The terminal writes drop the row's approval.
LEMMA EndedKeeps ==
    ASSUME NEW rw \in Rows, NEW s, NEW n, s # "running"
    PROVE  /\ RowKeeps(rw, Ended(rw, s)) /\ Ended(rw, s).status # "running"
           /\ RowKeeps(rw, [Ended(rw, s) EXCEPT !.iteration = n])
           /\ [Ended(rw, s) EXCEPT !.iteration = n].status # "running"
BY DEF Ended, ClearPending, RowKeeps, Rows

\* The steps of admission and of the loop that keep approvals.
LEMMA LoopKeeps ==
    ASSUME TypeInv, ApprovalInv, NEW w \in Workers, NEW r \in Runs,
           \/ Refuse(w, r) \/ Admit(w, r) \/ ResumeUndecided(w, r) \/ Answer(w, r)
           \/ Top(w, r) \/ Checkpoint(w, r) \/ ModelReplies(w, r) \/ ModelYields(w, r)
           \/ (\E c \in Calls : NextCall(w, r, c)) \/ NextIteration(w, r)
           \/ Serve(w, r) \/ Halt(w, r) \/ RecordIntent(w, r) \/ AfterToolCall(w, r)
           \/ Throws(w, r)
    PROVE  ApprovalInv'
<1> DEFINE x == exec[w][r]
           rw == row[r]
<1>1. x \in Execs /\ rw \in Rows
  BY TypeInvAt
<1>2. UNCHANGED <<approved, effects>>
  BY Zenon DEF Refuse, Admit, ResumeUndecided, Answer, Top, Checkpoint, ModelReplies, ModelYields, NextCall,
     NextIteration, Serve, Halt, RecordIntent, AfterToolCall, Throws
<1>3. CASE Refuse(w, r)
  BY <1>1, <1>2, <1>3, EndedKeeps, FinishKeeps DEF Refuse
<1>4. CASE Admit(w, r)
  <2>1. CASE x.base >= MaxIter
    BY <1>1, <1>2, <1>4, <2>1, EndedKeeps, FinishKeeps DEF Admit
  <2>2. CASE ~(x.base >= MaxIter)
    <3>1. /\ ExecKeeps(x, [x EXCEPT !.pc = "resume"]) /\ [x EXCEPT !.pc = "resume"].lease = x.lease
          /\ ExecKeeps(x, Idle) /\ Idle.pc = "idle"
      BY <1>1, <1>4, OverKeeps DEF Admit, ExecKeeps, Execs
    <3>2. QED
      BY <1>2, <1>4, <2>2, <3>1, BecomeKeeps DEF Admit
  <2>3. QED
    BY <2>1, <2>2
<1>5. CASE ResumeUndecided(w, r)
  <2>1. ExecKeeps(x, [x EXCEPT !.pc = "top"]) /\ [x EXCEPT !.pc = "top"].pc = "top"
    BY <1>1 DEF ExecKeeps, Execs
  <2>2. QED
    BY <1>2, <1>5, <2>1, OverKeeps, BecomeKeeps DEF ResumeUndecided
<1>6. CASE Answer(w, r)
  <2> DEFINE e == DecidedEntry(x)
             y == [x EXCEPT !.trace = (@ \ {e}) \cup {[e EXCEPT !.text = x.text]},
                            !.messages = @ \cup {[call |-> x.decided, iter |-> x.base]},
                            !.base = @ + 1, !.iter = x.base + 1]
             z == IF x.text = "ok" /\ x.decided \in Proposals THEN StoppedBy(y, "proposed")
                  ELSE IF y.base >= MaxIter THEN Returns(y, "limit", y.base)
                  ELSE [Answered(y) EXCEPT !.pc = "top"]
  <2>1. FencedStep(w, r, [Beat(ClearPending(rw)) EXCEPT
                            !.trace = y.trace, !.messages = y.messages, !.iteration = y.base], z)
    BY <1>6, Zenon DEF Answer
  <2>2. ExecKeeps(x, [Answered(y) EXCEPT !.pc = "top"]) /\ [Answered(y) EXCEPT !.pc = "top"].pc = "top"
    BY <1>1 DEF Answered, ExecKeeps, Execs
  <2> HIDE DEF y
  <2>3. ExecKeeps(x, z) /\ z.pc \in {"end", "top"}
    BY <2>2, OverKeeps
  <2> HIDE DEF z
  <2>4. FencedRow(rw, [Beat(ClearPending(rw)) EXCEPT
                            !.trace = y.trace, !.messages = y.messages, !.iteration = y.base])
    BY <1>1, AnswerRowKeeps
  <2>5. QED
    BY <1>2, <2>1, <2>3, <2>4, FencedKeeps
<1>7. CASE Top(w, r)
  <2> DEFINE y == [x EXCEPT !.pc = "checkpoint", !.progressed = @ \/ x.iter > x.base]
  <2>1. ExecKeeps(x, y) /\ y.pc = "checkpoint"
    BY <1>1 DEF ExecKeeps, Execs
  <2>2. QED
    BY <1>2, <1>7, <2>1, OverKeeps, BecomeKeeps DEF Top
<1>8. CASE Checkpoint(w, r)
  <2>1. ExecKeeps(x, [x EXCEPT !.pc = "model"]) /\ [x EXCEPT !.pc = "model"].pc = "model"
    BY <1>1 DEF ExecKeeps, Execs
  <2>2. FencedRow(rw, [Beat(rw) EXCEPT !.iteration = x.iter, !.messages = x.messages])
    BY <1>1, CheckpointRowKeeps
  <2>3. QED
    BY <1>2, <1>8, <2>1, <2>2, FencedKeeps DEF Checkpoint
<1>9. CASE ModelReplies(w, r)
  <2>1. ExecKeeps(x, [x EXCEPT !.pc = "calls"]) /\ [x EXCEPT !.pc = "calls"].pc = "calls"
    BY <1>1 DEF ExecKeeps, Execs
  <2>2. QED
    BY <1>2, <1>9, <2>1, OverKeeps, BecomeKeeps DEF ModelReplies
<1>10. CASE ModelYields(w, r)
  BY <1>2, <1>10, OverKeeps, BecomeKeeps DEF ModelYields
<1>11. ASSUME NEW c \in Calls, NextCall(w, r, c)
       PROVE  ApprovalInv'
  <2> DEFINE y == [x EXCEPT !.pc = "guard", !.call = c]
  <2>1. ExecKeeps(x, y) /\ y.pc = "guard"
    BY <1>1 DEF ExecKeeps, Execs
  <2>2. QED
    BY <1>2, <1>11, <2>1, OverKeeps, BecomeKeeps DEF NextCall
<1>12. CASE NextIteration(w, r)
  <2> DEFINE y == [x EXCEPT !.pc = "top", !.iter = @ + 1]
  <2>1. ExecKeeps(x, y) /\ y.pc = "top"
    BY <1>1 DEF ExecKeeps, Execs
  <2>2. QED
    BY <1>2, <1>12, <2>1, OverKeeps, BecomeKeeps DEF NextIteration
<1>13. CASE Serve(w, r)
  <2> DEFINE y(t) == [Answered(x) EXCEPT !.trace = @ \cup {[Intent(x) EXCEPT !.text = t]},
                                         !.messages = @ \cup {AnswerTo(x)}, !.pc = "calls"]
  <2>1. PICK t \in {"ok", "error"} : FencedStep(w, r, [Beat(rw) EXCEPT !.trace = y(t).trace], y(t))
    BY <1>13, Zenon DEF Serve, ReplayHits
  <2>2. ExecKeeps(x, y(t)) /\ y(t).pc = "calls"
    BY <1>1 DEF Answered, ExecKeeps, Execs
  <2> HIDE DEF y
  <2>3. QED
    BY <1>1, <1>2, <2>1, <2>2, FencedRowKeeps, FencedKeeps
<1>14. CASE Halt(w, r)
  <2>1. PICK e \in LostCalls(x) :
             FencedStep(w, r, [Beat(rw) EXCEPT !.trace = Mark(x.trace, e)], StoppedBy(x, "unknown_outcome"))
    BY <1>14 DEF Halt
  <2>2. QED
    BY <1>1, <1>2, <2>1, OverKeeps, FencedRowKeeps, FencedKeeps
<1>15. CASE RecordIntent(w, r)
  <2>1. PICK tr : FencedStep(w, r, [Beat(rw) EXCEPT !.trace = [x EXCEPT !.trace = tr, !.pc = "dispatch"].trace],
                             [x EXCEPT !.trace = tr, !.pc = "dispatch"])
    BY <1>15, Zenon DEF RecordIntent
  <2> DEFINE y == [x EXCEPT !.trace = tr, !.pc = "dispatch"]
  <2>2. ExecKeeps(x, y) /\ y.pc = "dispatch"
    BY <1>1 DEF ExecKeeps, Execs
  <2>3. FencedStep(w, r, [Beat(rw) EXCEPT !.trace = y.trace], y)
    BY <2>1, Zenon
  <2> HIDE DEF y
  <2>4. QED
    BY <1>1, <1>2, <2>2, <2>3, FencedRowKeeps, FencedKeeps
<1>16. CASE AfterToolCall(w, r)
  <2> DEFINE y == [x EXCEPT !.trace = (@ \ {Intent(x)}) \cup {[Intent(x) EXCEPT !.text = x.text]},
                            !.messages = @ \cup {AnswerTo(x)}]
             z == IF x.text = "challenge"
                  THEN Over([y EXCEPT !.park = x.call], FirstStop(x, "parked"), "aborted", x.iter + 1)
                  ELSE [Answered(y) EXCEPT !.pc = "calls"]
  <2>1. FencedStep(w, r, [Beat(rw) EXCEPT !.trace = y.trace], z)
    BY <1>16, Zenon DEF AfterToolCall
  <2>2. ExecKeeps(x, [Answered(y) EXCEPT !.pc = "calls"]) /\ [Answered(y) EXCEPT !.pc = "calls"].pc = "calls"
    BY <1>1 DEF Answered, ExecKeeps, Execs
  <2> HIDE DEF y
  <2>3. ExecKeeps(x, z) /\ z.pc \in {"end", "calls"}
    BY <2>2, OverKeeps
  <2> HIDE DEF z
  <2>4. QED
    BY <1>1, <1>2, <2>1, <2>3, FencedRowKeeps, FencedKeeps
<1>17. CASE Throws(w, r)
  BY <1>2, <1>17, OverKeeps, BecomeKeeps DEF Throws
<1>18. QED
  BY <1>3, <1>4, <1>5, <1>6, <1>7, <1>8, <1>9, <1>10, <1>11, <1>12, <1>13, <1>14, <1>15, <1>16, <1>17

\* The ends of execute keep approvals or drop them.
LEMMA EndKeeps ==
    ASSUME TypeInv, ApprovalInv, NEW w \in Workers, NEW r \in Runs,
           \/ EndFenced(w, r) \/ EndCancelled(w, r) \/ EndParked(w, r) \/ EndStopped(w, r)
           \/ EndYielded(w, r) \/ EndReturned(w, r) \/ ExecutorThrows(w, r)
    PROVE  ApprovalInv'
<1> DEFINE x == exec[w][r]
           rw == row[r]
<1>1. x \in Execs /\ rw \in Rows /\ ExecKeeps(x, Idle) /\ Idle.pc = "idle"
  BY TypeInvAt, OverKeeps
<1>2. UNCHANGED <<approved, effects>> /\ Become(w, r, Idle)
  BY DEF EndFenced, EndCancelled, EndParked, EndStopped, EndYielded, EndReturned, ExecutorThrows, Leaves
<1>3. CASE EndFenced(w, r) \/ ExecutorThrows(w, r)
  BY <1>1, <1>2, <1>3, BecomeKeeps DEF EndFenced, ExecutorThrows
<1>4. CASE EndCancelled(w, r)
  <2> DEFINE z == [ClearPending(rw) EXCEPT !.iteration = Reached(x)]
  <2>1. RowKeeps(rw, z) /\ z.status = rw.status
    BY <1>1 DEF RowKeeps, ClearPending, Rows
  <2>2. row' = row \/ (rw.status = "cancelled" /\ row' = [row EXCEPT ![r] = z])
    BY <1>4 DEF EndCancelled
  <2> HIDE DEF z
  <2>3. QED
    BY <1>1, <1>2, <2>1, <2>2, StepKeeps DEF Become
<1>5. CASE EndParked(w, r)
  <2> DEFINE z == [ReleaseLease(rw) EXCEPT
                     !.status = "awaiting_confirmation", !.trace = x.trace,
                     !.pending = x.park, !.pendingDecision = "none", !.approval = 0]
  <2>1. RowKeeps(rw, z) /\ z.status # "running"
    BY <1>1 DEF RowKeeps, ReleaseLease, Rows
  <2>2. QED
    BY <1>2, <1>5, <2>1, FinishKeeps DEF EndParked
<1>6. CASE EndStopped(w, r)
  BY <1>1, <1>2, <1>6, EndedKeeps, FinishKeeps DEF EndStopped
<1>7. CASE EndYielded(w, r)
  <2> DEFINE z == [ReleaseLease(rw) EXCEPT !.status = "queued", !.yields = @ + 1]
  <2>1. RowKeeps(rw, z) /\ z.status # "running"
    BY <1>1 DEF RowKeeps, ReleaseLease, Rows
  <2>2. QED
    BY <1>2, <1>7, <2>1, FinishKeeps DEF EndYielded
<1>8. CASE EndReturned(w, r)
  <2> DEFINE st == IF x.result = "done" THEN "succeeded" ELSE "failed"
             n == IF x.result = "threw" THEN Ended(rw, st).iteration ELSE Reached(x)
  <2>1. st # "running"
    OBVIOUS
  <2>2. Finish(w, r, [Ended(rw, st) EXCEPT !.iteration = n])
    BY <1>8, Zenon DEF EndReturned
  <2> HIDE DEF st, n
  <2>3. QED
    BY <1>1, <1>2, <2>1, <2>2, EndedKeeps, FinishKeeps
<1>9. QED
  BY <1>3, <1>4, <1>5, <1>6, <1>7, <1>8

\* Taking up the decision, and the first leg, keep approvals.
LEMMA ResumeKeeps ==
    ASSUME TypeInv, ApprovalInv, NEW w \in Workers, NEW r \in Runs,
           ResumeDecided(w, r) \/ RedeemChallenge(w, r)
    PROVE  ApprovalInv'
<1> DEFINE x == exec[w][r]
<1>1. x \in Execs
  BY TypeInvAt
<1>2. CASE ResumeDecided(w, r)
  <2> DEFINE p == [x EXCEPT !.trace = @ \cup {DecidedEntry(x)}]
             y == [p EXCEPT !.text = "error", !.pc = "answer"]
             z == [p EXCEPT !.pc = "consume"]
  <2>1. UNCHANGED <<row, approved, effects>>
    BY <1>2 DEF ResumeDecided
  <2>2. ExecKeeps(x, y) /\ y.pc = "answer"
    BY <1>1 DEF ExecKeeps, Execs
  <2>3. x.decision = "approved" => ExecKeeps(x, z) /\ z.lease = x.lease
    BY <1>1, <1>2 DEF ResumeDecided, ExecKeeps, Execs
  <2>4. \/ Become(w, r, StoppedBy(x, Observed(w, r)))
        \/ Become(w, r, y)
        \/ x.decision = "approved" /\ Become(w, r, z)
    BY <1>2, Zenon DEF ResumeDecided
  <2> HIDE DEF y, z
  <2>5. QED
    BY <2>1, <2>2, <2>3, <2>4, OverKeeps, BecomeKeeps
<1>3. CASE RedeemChallenge(w, r)
  <2> DEFINE y == [x EXCEPT !.pc = "leg2"]
             z == [x EXCEPT !.pc = "answer", !.text = "error"]
  <2>1. ExecKeeps(x, y) /\ y.pc = "leg2" /\ ExecKeeps(x, z) /\ z.pc = "answer"
    BY <1>1, <1>3 DEF RedeemChallenge, ExecKeeps, Execs
  <2>2. UNCHANGED <<row, approved, effects>> /\ (Become(w, r, y) \/ Become(w, r, z))
    BY <1>3 DEF RedeemChallenge
  <2> HIDE DEF y, z
  <2>3. QED
    BY <2>1, <2>2, BecomeKeeps
<1>4. QED
  BY <1>2, <1>3

-----------------------------------------------------------------------------
(* Steps that give, take up or spend an approval *)

\* Reading the row takes up the approval it holds.
LEMMA ReadRowApprovalInv ==
    ASSUME TypeInv, ApprovalInv, NEW w \in Workers, NEW r \in Runs, ReadRow(w, r)
    PROVE  ApprovalInv'
<1> DEFINE x == exec[w][r]
           rw == row[r]
           y == exec'[w][r]
<1>1. x \in Execs /\ rw \in Rows /\ exec \in [Workers -> [Runs -> Execs]]
  BY TypeInvAt DEF TypeInv, TypeOK
<1>2. UNCHANGED <<row, approved, effects>>
  BY DEF ReadRow
<1>3. \A v \in Workers, q \in Runs : v # w \/ q # r => exec'[v][q] = exec[v][q]
  BY <1>1 DEF ReadRow, Become
<1>4. CASE ~Owns(w, r)
  BY <1>2, <1>4, OverKeeps, BecomeKeeps DEF ReadRow
<1>5. CASE Owns(w, r)
  <2>1. /\ y.pc = "admit" /\ y.lease = x.lease
        /\ \/ /\ rw.pending # None /\ rw.pendingDecision # "none"
              /\ y.approval = rw.approval /\ y.decided = rw.pending /\ y.decision = rw.pendingDecision
           \/ y.approval = 0 /\ y.decision = "none"
    BY <1>1, <1>5 DEF ReadRow, Become, Execs
  <2>2. RowApproval(r)
    BY DEF ApprovalInv
  <2>3. ExecApproval(w, r)' /\ LeaseApproval(w, r)'
    BY <1>2, <2>1, <2>2 DEF ExecApproval, LeaseApproval, RowApproval, Backed
  <2>4. \A v \in Workers, q \in Runs : ExecApproval(v, q)' /\ LeaseApproval(v, q)'
    BY <1>2, <1>3, <2>3, SMTT(40) DEF ApprovalInv, ExecApproval, LeaseApproval, Backed, Owns
  <2>5. \A v \in Workers, q \in Runs :
            Redeems(exec[v][q])' => Redeems(exec[v][q]) /\ exec'[v][q] = exec[v][q]
    BY <1>3, <2>1 DEF Redeems
  <2>6. \A q \in Runs : RowApproval(q)' /\ RowUnspent(q)' /\ EffectApproval(q)'
    BY <1>2, <2>5 DEF ApprovalInv, RowApproval, RowUnspent, EffectApproval, Backed
  <2>7. \A v \in Workers, q \in Runs : ExecUnspent(v, q)'
    BY <1>2, <2>5 DEF ApprovalInv, ExecUnspent
  <2>8. QED
    BY <2>4, <2>6, <2>7 DEF ApprovalInv
<1>6. QED
  BY <1>4, <1>5

\* Consuming takes the approval off the row before the call is dispatched.
LEMMA ConsumeApprovalInv ==
    ASSUME TypeInv, ApprovalInv, NEW w \in Workers, NEW r \in Runs, Consume(w, r)
    PROVE  ApprovalInv'
<1> DEFINE x == exec[w][r]
           rw == row[r]
           y == [x EXCEPT !.pc = "leg1"]
           z == [Beat(ClearPending(rw)) EXCEPT !.trace = x.trace]
<1>1. /\ x \in Execs /\ rw \in Rows /\ exec \in [Workers -> [Runs -> Execs]] /\ row \in [Runs -> Rows]
      /\ x.pc = "consume" /\ UNCHANGED <<approved, effects>>
  BY TypeInvAt DEF TypeInv, TypeOK, Consume
<1>2. CASE ~Owns(w, r)
  BY <1>1, <1>2, OverKeeps, BecomeKeeps DEF Consume, FencedStep, Finish
<1>3. CASE Owns(w, r)
  <2>1. row' = [row EXCEPT ![r] = z] /\ exec' = [exec EXCEPT ![w][r] = y]
    BY <1>3 DEF Consume, FencedStep, Finish, Become
  <2>2. /\ y.pc = "leg1" /\ y.approval = x.approval /\ y.decided = x.decided /\ y.decision = x.decision
        /\ z.approval = 0 /\ z.pendingDecision = "none" /\ z.claimedBy = w
    BY <1>1, <1>3 DEF Execs, Rows, Beat, ClearPending, Owns
  <2> HIDE DEF y, z
  <2>3. /\ exec'[w][r] = y /\ row'[r] = z
        /\ \A v \in Workers, q \in Runs : v # w \/ q # r => exec'[v][q] = exec[v][q]
        /\ \A q \in Runs \ {r} : row'[q] = row[q]
    BY <1>1, <2>1
  <2>4. ExecApproval(w, r) /\ LeaseApproval(w, r) /\ RowUnspent(r)
    BY DEF ApprovalInv
  <2>5. x.approval # 0 /\ rw.approval = x.approval
    BY <1>1, <1>3, <2>4 DEF ExecApproval, LeaseApproval
  <2>6. \A v \in Workers, q \in Runs : ExecApproval(v, q)'
    BY <1>1, <2>2, <2>3 DEF ApprovalInv, ExecApproval, Backed
  <2>7. ASSUME NEW v \in Workers, NEW q \in Runs PROVE LeaseApproval(v, q)'
    <3>1. CASE q # r
      BY <2>3, <3>1 DEF ApprovalInv, LeaseApproval, Owns
    <3>2. CASE q = r
      BY <2>2, <2>3, <3>2 DEF LeaseApproval, Owns
    <3>3. QED
      BY <3>1, <3>2
  <2>8. ASSUME NEW q \in Runs PROVE RowApproval(q)' /\ RowUnspent(q)' /\ EffectApproval(q)'
    <3>1. CASE q # r
      BY <1>1, <2>3, <3>1 DEF ApprovalInv, RowApproval, RowUnspent, EffectApproval, Backed
    <3>2. CASE q = r
      BY <1>1, <2>2, <2>3, <3>2 DEF ApprovalInv, RowApproval, RowUnspent, EffectApproval, Backed
    <3>3. QED
      BY <3>1, <3>2
  <2>9. ASSUME NEW v \in Workers, NEW q \in Runs PROVE ExecUnspent(v, q)'
    <3>1. CASE q # r
      BY <1>1, <2>3, <3>1 DEF ApprovalInv, ExecUnspent
    <3>2. CASE q = r /\ v = w
      BY <1>1, <2>2, <2>3, <2>4, <2>5, <3>2 DEF ExecUnspent, RowUnspent
    <3>3. CASE q = r /\ v # w
      BY <1>1, <2>2, <2>3, <2>4, <2>5, <3>3 DEF ApprovalInv, ExecUnspent, RowUnspent
    <3>4. QED
      BY <3>1, <3>2, <3>3
  <2>10. QED
    BY <2>6, <2>7, <2>8, <2>9 DEF ApprovalInv
<1>4. QED
  BY <1>2, <1>3

\* What Happens appends.
LEMMA HappensAppends ==
    ASSUME TypeInv, NEW r \in Runs, NEW c \in Calls, NEW n \in Nat, NEW a \in Nat, Happens(r, c, n, a)
    PROVE  /\ \A q \in Runs \ {r} : effects'[q] = effects[q]
           /\ DOMAIN effects'[r] = DOMAIN effects[r] \cup {Len(effects[r]) + 1}
           /\ Len(effects[r]) + 1 \notin DOMAIN effects[r]
           /\ \A i \in DOMAIN effects[r] : effects'[r][i] = effects[r][i]
           /\ effects'[r][Len(effects[r]) + 1].call = c /\ effects'[r][Len(effects[r]) + 1].approval = a
<1> DEFINE E == [call : Calls, iter : Nat, approval : Nat]
           f == [call |-> c, iter |-> n, approval |-> a]
<1>1. f \in E
  OBVIOUS
<1>2. effects \in [Runs -> Seq(E)]
  BY DEF TypeInv, TypeOK
<1>3. effects' = [effects EXCEPT ![r] = Append(@, f)]
  BY DEF Happens
<1> HIDE DEF E, f
<1>4. effects[r] \in Seq(E)
  BY <1>2
<1>5. effects'[r] = Append(effects[r], f) /\ \A q \in Runs \ {r} : effects'[q] = effects[q]
  BY <1>2, <1>3
<1>6. Len(effects[r]) \in Nat
  BY <1>4
<1>7. /\ DOMAIN effects[r] = 1..Len(effects[r])
      /\ DOMAIN effects'[r] = 1..(Len(effects[r]) + 1)
      /\ \A i \in 1..Len(effects[r]) : effects'[r][i] = effects[r][i]
      /\ effects'[r][Len(effects[r]) + 1] = f
  BY <1>1, <1>4, <1>5, AppendTo
<1>8. QED
  BY <1>5, <1>6, <1>7 DEF f

\* A dispatched call is not a gated one, or writes nothing.
LEMMA DispatchApprovalInv ==
    ASSUME TypeInv, ApprovalInv, NEW w \in Workers, NEW r \in Runs, Dispatch(w, r)
    PROVE  ApprovalInv'
<1> DEFINE x == exec[w][r]
<1>1. x \in Execs /\ ExecFits(x) /\ exec \in [Workers -> [Runs -> Execs]]
  BY TypeInvAt DEF TypeInv, TypeOK
<1>2. PICK t \in {"ok", "error", "challenge"} : Become(w, r, [x EXCEPT !.text = t, !.pc = "after"])
  BY Zenon DEF Dispatch
<1> DEFINE y == [x EXCEPT !.text = t, !.pc = "after"]
<1>3. /\ ExecKeeps(x, y) /\ y.pc = "after" /\ y.approval = x.approval /\ y.decided = x.decided
      /\ y.decision = x.decision
  BY <1>1 DEF ExecKeeps, Execs
<1>4. UNCHANGED <<row, approved>>
  BY DEF Dispatch
<1>5. CASE UNCHANGED effects
  BY <1>2, <1>3, <1>4, <1>5, BecomeKeeps
<1>6. CASE x.call \in Ungated /\ Happens(r, x.call, x.iter, 0)
  <2> DEFINE k == Len(effects[r]) + 1
  <2>1. x.call \in Calls /\ x.iter \in Nat /\ 0 \in Nat /\ x.call \notin Gated
    BY <1>1, <1>6, ExecFields, CallsAssumption DEF Calls
  <2>2. /\ \A q \in Runs \ {r} : effects'[q] = effects[q]
        /\ DOMAIN effects'[r] = DOMAIN effects[r] \cup {k}
        /\ k \notin DOMAIN effects[r]
        /\ \A i \in DOMAIN effects[r] : effects'[r][i] = effects[r][i]
        /\ effects'[r][k].call = x.call /\ effects'[r][k].approval = 0
    BY <1>6, <2>1, HappensAppends, Zenon
  <2> HIDE DEF k, y
  <2>3. /\ exec'[w][r] = y
        /\ \A v \in Workers, q \in Runs : v # w \/ q # r => exec'[v][q] = exec[v][q]
    BY <1>1, <1>2 DEF Become, y
  <2>4. \A v \in Workers, q \in Runs : Redeems(exec[v][q])' => Redeems(exec[v][q]) /\ exec'[v][q] = exec[v][q]
    BY <1>3, <2>3 DEF Redeems
  <2>5. ASSUME NEW v \in Workers, NEW q \in Runs PROVE ExecApproval(v, q)' /\ LeaseApproval(v, q)'
    <3>1. ExecApproval(v, q) /\ LeaseApproval(v, q)
      BY DEF ApprovalInv
    <3>2. CASE v # w \/ q # r
      BY <1>4, <2>3, <3>1, <3>2 DEF ExecApproval, LeaseApproval, Owns, Backed
    <3>3. CASE v = w /\ q = r
      <4>1. exec'[w][r] = y /\ ExecApproval(w, r)
        BY <2>3, <3>1, <3>3
      <4>2. ExecApproval(w, r)'
        BY <1>3, <1>4, <4>1 DEF ExecApproval, Backed
      <4>3. LeaseApproval(w, r)'
        BY <1>3, <4>1 DEF LeaseApproval
      <4>4. QED
        BY <3>3, <4>2, <4>3
    <3>4. QED
      BY <3>2, <3>3
  <2>6. ASSUME NEW v \in Workers, NEW q \in Runs, Redeems(exec[v][q]) PROVE exec[v][q].approval # 0
    BY <2>6 DEF ApprovalInv, ExecApproval, Redeems
  <2>7. ASSUME NEW q \in Runs PROVE RowApproval(q)' /\ RowUnspent(q)' /\ EffectApproval(q)'
    <3>1. CASE q # r
      BY <1>4, <2>2, <2>4, <3>1 DEF ApprovalInv, RowApproval, RowUnspent, EffectApproval, Backed
    <3>2. CASE q = r
      <4>1. RowApproval(r)' /\ RowUnspent(r)'
        BY <1>4, <2>2, <2>4 DEF ApprovalInv, RowApproval, RowUnspent, Backed
      <4>2. EffectApproval(r)'
        BY <1>4, <2>1, <2>2 DEF ApprovalInv, EffectApproval, Backed
      <4>3. QED
        BY <3>2, <4>1, <4>2
    <3>3. QED
      BY <3>1, <3>2
  <2>8. ASSUME NEW v \in Workers, NEW q \in Runs PROVE ExecUnspent(v, q)'
    BY <2>2, <2>4, <2>6 DEF ApprovalInv, ExecUnspent
  <2>9. QED
    BY <2>5, <2>7, <2>8 DEF ApprovalInv
<1>7. QED
  BY <1>5, <1>6 DEF Dispatch

\* The second leg spends the approval.
LEMMA RedeemApprovalInv ==
    ASSUME TypeInv, ApprovalInv, NEW w \in Workers, NEW r \in Runs, Redeem(w, r)
    PROVE  ApprovalInv'
<1> DEFINE x == exec[w][r]
<1>1. x \in Execs /\ ExecFits(x) /\ exec \in [Workers -> [Runs -> Execs]] /\ x.pc \in {"leg1", "leg2"}
  BY TypeInvAt DEF TypeInv, TypeOK, Redeem
<1>2. PICK t \in {"ok", "error"} : Become(w, r, [x EXCEPT !.pc = "answer", !.text = t])
  BY DEF Redeem
<1> DEFINE y == [x EXCEPT !.pc = "answer", !.text = t]
<1>3. /\ ExecKeeps(x, y) /\ y.pc = "answer" /\ y.approval = x.approval /\ y.decided = x.decided
      /\ y.decision = x.decision
  BY <1>1 DEF ExecKeeps, Execs
<1>4. UNCHANGED <<row, approved>>
  BY DEF Redeem
<1>5. CASE UNCHANGED effects
  BY <1>2, <1>3, <1>4, <1>5, BecomeKeeps
<1>6. CASE Happens(r, x.decided, x.base, x.approval)
  <2> DEFINE k == Len(effects[r]) + 1
  <2>1. x.decided \in Calls /\ x.base \in Nat /\ x.approval \in Nat
    BY <1>1, ExecFields DEF ExecFits
  <2>2. /\ \A q \in Runs \ {r} : effects'[q] = effects[q]
        /\ DOMAIN effects'[r] = DOMAIN effects[r] \cup {k}
        /\ k \notin DOMAIN effects[r]
        /\ \A i \in DOMAIN effects[r] : effects'[r][i] = effects[r][i]
        /\ effects'[r][k].call = x.decided /\ effects'[r][k].approval = x.approval
    BY <1>6, <2>1, HappensAppends, Zenon
  <2> HIDE DEF k, y
  <2>3. /\ exec'[w][r] = y
        /\ \A v \in Workers, q \in Runs : v # w \/ q # r => exec'[v][q] = exec[v][q]
    BY <1>1, <1>2 DEF Become, y
  <2>4. \A v \in Workers, q \in Runs :
            Redeems(exec[v][q])' => Redeems(exec[v][q]) /\ exec'[v][q] = exec[v][q] /\ (v # w \/ q # r)
    BY <1>3, <2>3 DEF Redeems
  <2>5. ASSUME NEW v \in Workers, NEW q \in Runs PROVE ExecApproval(v, q)' /\ LeaseApproval(v, q)'
    <3>1. ExecApproval(v, q) /\ LeaseApproval(v, q)
      BY DEF ApprovalInv
    <3>2. CASE v # w \/ q # r
      BY <1>4, <2>3, <3>1, <3>2 DEF ExecApproval, LeaseApproval, Owns, Backed
    <3>3. CASE v = w /\ q = r
      <4>1. exec'[w][r] = y /\ ExecApproval(w, r)
        BY <2>3, <3>1, <3>3
      <4>2. ExecApproval(w, r)'
        BY <1>3, <1>4, <4>1 DEF ExecApproval, Backed
      <4>3. LeaseApproval(w, r)'
        BY <1>3, <4>1 DEF LeaseApproval
      <4>4. QED
        BY <3>3, <4>2, <4>3
    <3>4. QED
      BY <3>2, <3>3
  <2>6. /\ x.approval # 0 /\ Backed(r, x.approval, x.decided)
        /\ \A i \in DOMAIN effects[r] : effects[r][i].approval # x.approval
        /\ \A v \in Workers \ {w} : Redeems(exec[v][r]) => exec[v][r].approval # x.approval
        /\ row[r].approval # x.approval
    BY <1>1 DEF ApprovalInv, ExecApproval, ExecUnspent, RowUnspent, Redeems
  <2>7. ASSUME NEW q \in Runs PROVE RowApproval(q)' /\ RowUnspent(q)' /\ EffectApproval(q)'
    <3>1. CASE q # r
      BY <1>4, <2>2, <2>4, <3>1 DEF ApprovalInv, RowApproval, RowUnspent, EffectApproval, Backed
    <3>2. CASE q = r
      <4>1. RowApproval(r)' /\ RowUnspent(r)'
        BY <1>4, <2>2, <2>4, <2>6 DEF ApprovalInv, RowApproval, RowUnspent, Backed
      <4>2. EffectApproval(r)'
        BY <1>4, <2>2, <2>6 DEF ApprovalInv, EffectApproval, Backed
      <4>3. QED
        BY <3>2, <4>1, <4>2
    <3>3. QED
      BY <3>1, <3>2
  <2>8. ASSUME NEW v \in Workers, NEW q \in Runs PROVE ExecUnspent(v, q)'
    BY <2>2, <2>4, <2>6 DEF ApprovalInv, ExecUnspent
  <2>9. QED
    BY <2>5, <2>7, <2>8 DEF ApprovalInv
<1>7. QED
  BY <1>5, <1>6 DEF Redeem

\* An approval is recorded: it is new, so nobody holds or has spent it.
LEMMA DecideWriteApprovalInv ==
    ASSUME TypeInv, ApprovalInv, NEW c \in Clients, DecideWrite(c)
    PROVE  ApprovalInv'
<1> DEFINE r == client[c].run
           d == client[c].decision
           n == Len(approved[r]) + 1
           lands == row[r].status = "awaiting_confirmation"
           rw == [row[r] EXCEPT !.status = "queued", !.pendingDecision = d,
                                !.approval = IF d = "approved" THEN n ELSE 0]
           a == [call |-> row[r].pending, shown |-> client[c].shown, checked |-> client[c].checked]
           Approvals == [call : Calls, shown : Calls \cup {None}, checked : Calls \cup {None}]
<1>1. /\ r \in Runs /\ d \in {"none", "approved", "denied"} /\ row \in [Runs -> Rows] /\ row[r] \in Rows
      /\ PendingFits(row[r]) /\ approved \in [Runs -> Seq(Approvals)]
      /\ client[c].shown \in Calls \cup {None} /\ client[c].checked \in Calls \cup {None}
  BY DEF TypeInv, TypeOK, DecideWrite, PendingMatchesStatus
<1>2. UNCHANGED <<exec, effects>>
  BY DEF DecideWrite
<1>3. CASE ~lands
  <2>1. UNCHANGED <<row, approved>>
    BY <1>3 DEF DecideWrite
  <2>2. QED
    BY <1>2, <2>1, KeepsApprovalInv DEF RowKeeps, ExecKeeps, LeaseKeeps, Owns
<1>4. CASE lands
  <2>1. /\ row' = [row EXCEPT ![r] = rw]
        /\ approved' = IF d = "approved" THEN [approved EXCEPT ![r] = Append(@, a)] ELSE approved
    BY <1>4 DEF DecideWrite
  <2>2. /\ rw.status = "queued" /\ rw.pending = row[r].pending /\ rw.pendingDecision = d
        /\ rw.approval = IF d = "approved" THEN n ELSE 0
    BY <1>1 DEF Rows
  <2>3. a \in Approvals /\ a.call = row[r].pending
    BY <1>1, <1>4, RowFields DEF PendingFits
  <2> HIDE DEF rw, a, Approvals
  <2>4. row'[r] = rw /\ \A q \in Runs \ {r} : row'[q] = row[q]
    BY <1>1, <2>1
  <2>5. CASE d # "approved"
    <3>1. approved' = approved /\ RowKeeps(row[r], rw)
      BY <2>1, <2>2, <2>5 DEF RowKeeps
    <3>2. \A q \in Runs : RowKeeps(row[q], row'[q])
      BY <2>4, <3>1 DEF RowKeeps
    <3>3. \A v \in Workers, q \in Runs : ExecKeeps(exec[v][q], exec'[v][q]) /\ LeaseKeeps(v, q)
      BY <1>1, <1>2, <2>2, <2>4 DEF ExecKeeps, LeaseKeeps, Owns
    <3>4. QED
      BY <1>2, <3>1, <3>2, <3>3, KeepsApprovalInv
  <2>6. CASE d = "approved"
    <3>1. approved[r] \in Seq(Approvals)
      BY <1>1
    <3>2. /\ approved'[r] = Append(approved[r], a)
          /\ \A q \in Runs \ {r} : approved'[q] = approved[q]
      BY <1>1, <2>1, <2>6
    <3>3. /\ Len(approved[r]) \in Nat /\ Len(approved'[r]) = n
          /\ \A i \in 1..Len(approved[r]) : approved'[r][i] = approved[r][i]
          /\ approved'[r][n] = a
      BY <2>3, <3>1, <3>2, AppendTo
    <3>4. ASSUME NEW q \in Runs, NEW b, NEW e, Backed(q, b, e) PROVE Backed(q, b, e)' /\ (q = r => b # n)
      <4>1. CASE q # r
        BY <3>2, <3>4, <4>1 DEF Backed
      <4>2. CASE q = r
        BY <3>3, <3>4, <4>2 DEF Backed
      <4>3. QED
        BY <4>1, <4>2
    <3>5. n # 0 /\ n \in 1..Len(approved'[r]) /\ approved'[r][n].call = row[r].pending
      BY <2>3, <3>3
    <3>6. rw.approval = n
      BY <2>2, <2>6
    <3> HIDE DEF n, d
    <3>7. ASSUME NEW q \in Runs PROVE RowApproval(q)'
      <4>1. CASE q # r
        BY <2>4, <3>4, <4>1 DEF ApprovalInv, RowApproval
      <4>2. CASE q = r
        BY <2>2, <2>4, <2>6, <3>5, <3>6, <4>2 DEF RowApproval, Backed
      <4>3. QED
        BY <4>1, <4>2
    <3>8. ASSUME NEW v \in Workers, NEW q \in Runs PROVE ExecApproval(v, q)'
      BY <1>2, <3>4 DEF ApprovalInv, ExecApproval
    <3>9. ASSUME NEW v \in Workers, NEW q \in Runs PROVE LeaseApproval(v, q)'
      BY <1>2, <2>2, <2>4 DEF ApprovalInv, LeaseApproval, Owns
    <3>10. ASSUME NEW q \in Runs PROVE EffectApproval(q)'
      BY <1>2, <3>4 DEF ApprovalInv, EffectApproval
    <3>11. ASSUME NEW q \in Runs PROVE RowUnspent(q)'
      <4>1. CASE q # r
        BY <1>2, <2>4, <4>1 DEF ApprovalInv, RowUnspent
      <4>2. CASE q = r
        <5>1. ASSUME NEW i \in DOMAIN effects[r] PROVE effects[r][i].approval # n
          BY <1>1, <3>4, <3>5 DEF ApprovalInv, EffectApproval
        <5>2. ASSUME NEW v \in Workers PROVE exec[v][r].approval # n
          BY <1>1, <3>4, <3>5 DEF ApprovalInv, ExecApproval
        <5>3. QED
          BY <1>2, <2>4, <3>6, <4>2, <5>1, <5>2 DEF RowUnspent
      <4>3. QED
        BY <4>1, <4>2
    <3>12. ASSUME NEW v \in Workers, NEW q \in Runs PROVE ExecUnspent(v, q)'
      BY <1>2 DEF ApprovalInv, ExecUnspent
    <3>13. QED
      BY <3>7, <3>8, <3>9, <3>10, <3>11, <3>12 DEF ApprovalInv
  <2>7. QED
    BY <2>5, <2>6
<1>5. QED
  BY <1>3, <1>4

\* Every step of an execution keeps the invariant.
LEMMA ExecuteApprovalInv ==
    ASSUME TypeInv, ApprovalInv, NEW w \in Workers, NEW r \in Runs, Execute(w, r)
    PROVE  ApprovalInv'
BY LoopKeeps, EndKeeps, ResumeKeeps, ReadRowApprovalInv, ConsumeApprovalInv, DispatchApprovalInv,
   RedeemApprovalInv DEF Execute

\* The requests, the clock and the reclaim keep or drop approvals.
LEMMA RowActionsKeep ==
    ASSUME TypeInv, ApprovalInv, NEW r \in Runs,
           \/ Enqueue(r) \/ Cancel(r) \/ LeaseExpires(r) \/ DeadlinePasses(r)
           \/ \E w \in Workers : ReclaimStale(w, r) \/ ReleaseRow(w, r)
    PROVE  ApprovalInv'
<1> DEFINE rw == row[r]
<1>1. rw \in Rows /\ row \in [Runs -> Rows]
  BY DEF TypeInv, TypeOK
<1>2. UNCHANGED <<exec, approved, effects>>
  BY DEF Enqueue, Cancel, LeaseExpires, DeadlinePasses, ReclaimStale, ReleaseRow, Rest
<1>3. ASSUME NEW z, row' = [row EXCEPT ![r] = z], RowKeeps(rw, z),
             \/ z.status # "running"
             \/ /\ z.status = rw.status /\ z.claimedBy = rw.claimedBy
                /\ z.claimedAt = rw.claimedAt /\ z.approval = rw.approval
      PROVE  ApprovalInv'
  <2>1. \A q \in Runs : RowKeeps(row[q], row'[q])
    BY <1>1, <1>3 DEF RowKeeps
  <2>2. \A v \in Workers, q \in Runs : ExecKeeps(exec[v][q], exec'[v][q]) /\ LeaseKeeps(v, q)
    BY <1>1, <1>2, <1>3 DEF ExecKeeps, LeaseKeeps, Owns
  <2>3. QED
    BY <1>2, <2>1, <2>2, KeepsApprovalInv
<1>4. CASE Enqueue(r)
  <2>1. LET z == [rw EXCEPT !.status = "queued"] IN RowKeeps(rw, z) /\ z.status # "running"
    BY <1>1 DEF RowKeeps, Rows
  <2>2. row' = [row EXCEPT ![r] = [rw EXCEPT !.status = "queued"]]
    BY <1>1, <1>4 DEF Enqueue
  <2>3. QED
    BY <1>3, <2>1, <2>2
<1>5. CASE Cancel(r)
  <2>1. LET z == Ended(rw, "cancelled") IN RowKeeps(rw, z) /\ z.status # "running"
    BY <1>1, EndedKeeps
  <2>2. QED
    BY <1>3, <1>5, <2>1 DEF Cancel
<1>6. CASE LeaseExpires(r)
  <2> DEFINE z == [rw EXCEPT !.stale = TRUE]
  <2>1. /\ RowKeeps(rw, z) /\ z.status = rw.status /\ z.claimedBy = rw.claimedBy
        /\ z.claimedAt = rw.claimedAt /\ z.approval = rw.approval
    BY <1>1 DEF RowKeeps, Rows
  <2>2. row' = [row EXCEPT ![r] = z]
    BY <1>1, <1>6 DEF LeaseExpires
  <2> HIDE DEF z
  <2>3. QED
    BY <1>3, <2>1, <2>2
<1>7. CASE DeadlinePasses(r)
  <2> DEFINE z == [rw EXCEPT !.overdue = TRUE]
  <2>1. /\ RowKeeps(rw, z) /\ z.status = rw.status /\ z.claimedBy = rw.claimedBy
        /\ z.claimedAt = rw.claimedAt /\ z.approval = rw.approval
    BY <1>1 DEF RowKeeps, Rows
  <2>2. row' = [row EXCEPT ![r] = z]
    BY <1>1, <1>7 DEF DeadlinePasses
  <2> HIDE DEF z
  <2>3. QED
    BY <1>3, <2>1, <2>2
<1>8. ASSUME NEW w \in Workers, ReclaimStale(w, r) PROVE ApprovalInv'
  <2> DEFINE z == IF rw.attempts >= MaxAttempts THEN Ended(rw, "failed")
                  ELSE [ReleaseLease(rw) EXCEPT !.status = "queued", !.attempts = rw.attempts + 1]
  <2>1. RowKeeps(rw, z) /\ z.status # "running"
    <3>1. CASE rw.attempts >= MaxAttempts
      BY <1>1, <3>1, EndedKeeps
    <3>2. CASE ~(rw.attempts >= MaxAttempts)
      BY <1>1, <3>2 DEF RowKeeps, ReleaseLease, Rows
    <3>3. QED
      BY <3>1, <3>2
  <2>2. row' = [row EXCEPT ![r] = z]
    BY <1>8 DEF ReclaimStale
  <2> HIDE DEF z
  <2>3. QED
    BY <1>3, <2>1, <2>2
<1>9. ASSUME NEW w \in Workers, ReleaseRow(w, r) PROVE ApprovalInv'
  <2> DEFINE z == [ReleaseLease(rw) EXCEPT !.status = "queued"]
  <2>1. RowKeeps(rw, z) /\ z.status # "running"
    BY <1>1 DEF RowKeeps, ReleaseLease, Rows
  <2>2. row' = row \/ row' = [row EXCEPT ![r] = z]
    BY <1>9 DEF ReleaseRow
  <2>3. CASE row' = row
    BY <1>2, <2>3, KeepsApprovalInv DEF RowKeeps, ExecKeeps, LeaseKeeps, Owns
  <2> HIDE DEF z
  <2>4. QED
    BY <1>3, <2>1, <2>2, <2>3
<1>10. QED
  BY <1>4, <1>5, <1>6, <1>7, <1>8, <1>9

\* Claims, heartbeats, shutdowns and crashes keep or drop approvals.
LEMMA ProcessKeeps ==
    ASSUME TypeInv, ApprovalInv, NEW w \in Workers,
           \/ \E r \in Runs : Claim(w, r) \/ Heartbeat(w, r)
           \/ ReleaseAll(w) \/ Exit(w) \/ Crash(w)
    PROVE  ApprovalInv'
<1>1. row \in [Runs -> Rows] /\ exec \in [Workers -> [Runs -> Execs]]
  BY DEF TypeInv, TypeOK
<1>2. UNCHANGED <<approved, effects>>
  BY DEF Claim, Heartbeat, ReleaseAll, Exit, Crash, Down, Rest
<1>3. ASSUME NEW x \in Execs, NEW s
      PROVE  LET y == [x EXCEPT !.stop = s] IN ExecKeeps(x, y) /\ y.lease = x.lease /\ y.pc = x.pc
  BY DEF ExecKeeps, Execs
<1>4. ASSUME NEW r \in Runs, Claim(w, r) PROVE ApprovalInv'
  <2> DEFINE y == [Idle EXCEPT !.pc = "launched", !.lease = row[r].claims + 1]
             z == [row[r] EXCEPT !.status = "running", !.claimedBy = w, !.claims = row[r].claims + 1,
                                 !.claimedAt = row[r].claims + 1, !.stale = FALSE, !.started = TRUE]
  <2>1. row[r] \in Rows
    BY <1>1
  <2>2. row' = [row EXCEPT ![r] = z] /\ exec' = [exec EXCEPT ![w][r] = y]
    BY <1>1, <1>4 DEF Claim, Become
  <2>3. RowKeeps(row[r], z) /\ z.claimedBy = w
    BY <2>1 DEF RowKeeps, Rows
  <2>4. ExecKeeps(exec[w][r], y) /\ y.pc = "launched"
    BY DEF ExecKeeps, Idle
  <2> HIDE DEF y, z
  <2>5. /\ row'[r] = z /\ exec'[w][r] = y
        /\ \A q \in Runs \ {r} : row'[q] = row[q]
        /\ \A v \in Workers, q \in Runs : v # w \/ q # r => exec'[v][q] = exec[v][q]
    BY <1>1, <2>2
  <2>6. \A q \in Runs : RowKeeps(row[q], row'[q])
    BY <2>3, <2>5 DEF RowKeeps
  <2>7. \A v \in Workers, q \in Runs : ExecKeeps(exec[v][q], exec'[v][q])
    BY <2>4, <2>5 DEF ExecKeeps
  <2>8. \A v \in Workers, q \in Runs : LeaseKeeps(v, q)
    BY <2>3, <2>4, <2>5 DEF LeaseKeeps, Owns
  <2>9. QED
    BY <1>2, <2>6, <2>7, <2>8, KeepsApprovalInv
<1>5. ASSUME NEW r \in Runs, Heartbeat(w, r) PROVE ApprovalInv'
  <2>1. CASE Observed(w, r) = "none"
    <3> DEFINE z == Beat(row[r])
    <3>1. /\ RowKeeps(row[r], z) /\ z.status = row[r].status /\ z.claimedBy = row[r].claimedBy
          /\ z.claimedAt = row[r].claimedAt /\ z.approval = row[r].approval
      BY <1>1 DEF RowKeeps, Beat, Rows
    <3>2. row' = [row EXCEPT ![r] = z] /\ exec' = exec
      BY <1>5, <2>1 DEF Heartbeat
    <3> HIDE DEF z
    <3>3. \A q \in Runs : RowKeeps(row[q], row'[q])
      BY <1>1, <3>1, <3>2 DEF RowKeeps
    <3>4. \A v \in Workers, q \in Runs : ExecKeeps(exec[v][q], exec'[v][q]) /\ LeaseKeeps(v, q)
      BY <1>1, <3>1, <3>2 DEF ExecKeeps, LeaseKeeps, Owns
    <3>5. QED
      BY <1>2, <3>3, <3>4, KeepsApprovalInv
  <2>2. CASE Observed(w, r) # "none"
    <3>1. PICK s : Become(w, r, [exec[w][r] EXCEPT !.stop = s]) /\ row' = row
      BY <1>5, <2>2 DEF Heartbeat
    <3>2. exec[w][r] \in Execs
      BY <1>1
    <3>3. QED
      BY <1>2, <1>3, <3>1, <3>2, BecomeKeeps
  <2>3. QED
    BY <2>1, <2>2
<1>6. CASE ReleaseAll(w) \/ Exit(w) \/ Crash(w)
  <2>1. row' = row
    BY <1>6 DEF ReleaseAll, Exit, Crash, Down
  <2>2. ASSUME NEW v \in Workers, NEW q \in Runs
        PROVE  \/ exec'[v][q] = exec[v][q]
               \/ exec'[v][q] = Idle
               \/ \E s : exec'[v][q] = [exec[v][q] EXCEPT !.stop = s]
    <3>1. CASE ReleaseAll(w)
      <4>1. \/ exec'[v][q] = exec[v][q]
            \/ exec'[v][q] = Idle
            \/ exec'[v][q] = [exec[v][q] EXCEPT !.stop = FirstStop(exec[v][q], "fenced")]
        BY <1>1, <3>1 DEF ReleaseAll
      <4>2. QED
        BY <4>1, Zenon
    <3>2. CASE Exit(w) \/ Crash(w)
      BY <1>1, <3>2 DEF Exit, Crash, Down
    <3>3. QED
      BY <1>6, <3>1, <3>2
  <2>3. ASSUME NEW v \in Workers, NEW q \in Runs
        PROVE  /\ ExecKeeps(exec[v][q], exec'[v][q])
               /\ \/ exec'[v][q].lease = exec[v][q].lease
                  \/ exec'[v][q].pc = "idle"
    <3>1. exec[v][q] \in Execs
      BY <1>1
    <3>2. CASE exec'[v][q] = exec[v][q]
      BY <3>2 DEF ExecKeeps
    <3>3. CASE exec'[v][q] = Idle
      BY <3>3, OverKeeps
    <3>4. CASE \E s : exec'[v][q] = [exec[v][q] EXCEPT !.stop = s]
      BY <1>3, <3>1, <3>4
    <3>5. QED
      BY <2>2, <3>2, <3>3, <3>4
  <2>4. \A v \in Workers, q \in Runs : LeaseKeeps(v, q)
    BY <2>1, <2>3 DEF LeaseKeeps, Owns
  <2>5. \A q \in Runs : RowKeeps(row[q], row'[q])
    BY <2>1 DEF RowKeeps
  <2>6. QED
    BY <1>2, <2>3, <2>4, <2>5, KeepsApprovalInv
<1>7. QED
  BY <1>4, <1>5, <1>6

\* No approval exists initially.
LEMMA InitApprovalInv == Init => ApprovalInv
BY DEF Init, ApprovalInv, RowApproval, RowUnspent, EffectApproval, ExecApproval, LeaseApproval, ExecUnspent,
       Redeems, NoRow, Idle

\* Every step keeps the invariant.
LEMMA NextApprovalInv == TypeInv /\ ApprovalInv /\ [Next]_vars => ApprovalInv'
<1> SUFFICES ASSUME TypeInv, ApprovalInv, [Next]_vars PROVE ApprovalInv'
  OBVIOUS
<1>1. ASSUME UNCHANGED <<row, exec, approved, effects>> PROVE ApprovalInv'
  BY <1>1, KeepsApprovalInv DEF RowKeeps, ExecKeeps, LeaseKeeps, Owns
<1>2. ASSUME NEW c \in Clients,
             \/ \E r \in Runs : View(c, r)
             \/ \E d \in {"approved", "denied"} : DecideRead(c, d)
             \/ DecideRefused(c)
      PROVE  ApprovalInv'
  BY <1>1, <1>2 DEF View, DecideRead, DecideRefused
<1>3. CASE Next
  BY <1>2, <1>3, RowActionsKeep, ProcessKeeps, ExecuteApprovalInv, DecideWriteApprovalInv DEF Next
<1>4. CASE UNCHANGED vars
  BY <1>1, <1>4 DEF vars
<1>5. QED
  BY <1>3, <1>4

\* The invariant holds in every reachable state.
THEOREM ApprovalsAccounted == Spec => []ApprovalInv
<1>1. Init => TypeInv /\ ApprovalInv
  BY InitTypeInv, InitApprovalInv
<1>2. (TypeInv /\ ApprovalInv) /\ [Next]_vars => (TypeInv /\ ApprovalInv)'
  BY NextTypeInv, NextApprovalInv
<1>3. QED
  BY <1>1, <1>2, PTL DEF Spec

\* A gated write happens only on an approval, of the very call that was parked
\* when the person approved (decideAgentRun and resumeDecidedCall).
THEOREM OnlyApprovedRuns == Spec => []RunsOnlyWhatWasApproved
<1>1. TypeInv /\ ApprovalInv => RunsOnlyWhatWasApproved
  BY DEF TypeInv, TypeOK, ApprovalInv, EffectApproval, RunsOnlyWhatWasApproved, Backed
<1>2. Init => TypeInv /\ ApprovalInv
  BY InitTypeInv, InitApprovalInv
<1>3. (TypeInv /\ ApprovalInv) /\ [Next]_vars => (TypeInv /\ ApprovalInv)'
  BY NextTypeInv, NextApprovalInv
<1>4. QED
  BY <1>1, <1>2, <1>3, PTL DEF Spec

\* One approval is spent on at most one write, whatever crashes, reclaims and
\* zombies come between its consumption and the record of its result.
THEOREM SpentOnce == Spec => []ApprovalSpentOnce
<1>1. ApprovalInv => ApprovalSpentOnce
  BY DEF ApprovalInv, EffectApproval, ApprovalSpentOnce
<1>2. QED
  BY <1>1, ApprovalsAccounted, PTL

=============================================================================

--------------------------- MODULE AgentRunProofs ---------------------------
(***************************************************************************)
(* Theorems about AgentRun, for every set of runs, workers and calls and   *)
(* every value of the limits.                                              *)
(***************************************************************************)
EXTENDS AgentRun, TLAPS

-----------------------------------------------------------------------------
(* The operators the actions are built from *)

\* An update of one entry of a table keeps its type, and the other entries.
LEMMA TableUpdate ==
    ASSUME NEW S, NEW T, NEW V, NEW f \in [S -> [T -> V]], NEW w \in S, NEW r \in T, NEW x \in V
    PROVE  /\ [f EXCEPT ![w][r] = x] \in [S -> [T -> V]]
           /\ [f EXCEPT ![w][r] = x][w][r] = x
           /\ \A v \in S, q \in T : v # w \/ q # r => [f EXCEPT ![w][r] = x][v][q] = f[v][q]
OBVIOUS

\* Appending to a sequence keeps its type and what it held.
LEMMA AppendTo ==
    ASSUME NEW E, NEW s \in Seq(E), NEW e \in E
    PROVE  /\ Append(s, e) \in Seq(E)
           /\ Len(Append(s, e)) = Len(s) + 1
           /\ DOMAIN s = 1..Len(s)
           /\ DOMAIN Append(s, e) = 1..(Len(s) + 1)
           /\ \A i \in 1..Len(s) : Append(s, e)[i] = s[i]
           /\ Append(s, e)[Len(s) + 1] = e
OBVIOUS

\* The fields of an execution have their types.
LEMMA ExecFields ==
    ASSUME NEW x \in Execs
    PROVE  /\ x.pc \in PCs /\ x.lease \in Nat /\ x.base \in Nat /\ x.iter \in Nat
           /\ x.trace \in SUBSET Entries /\ x.messages \in SUBSET Answers
           /\ x.decided \in Calls \cup {None} /\ x.decision \in {"none", "approved", "denied"}
           /\ x.approval \in Nat /\ x.call \in Calls \cup {None}
           /\ x.text \in {"absent", "ok", "error", "challenge"}
           /\ x.park \in Calls \cup {None} /\ x.stop \in StopReasons \cup {"none"}
           /\ x.result \in Results /\ x.reached \in Nat /\ x.progressed \in BOOLEAN
BY DEF Execs

\* The fields of a row have their types.
LEMMA RowFields ==
    ASSUME NEW rw \in Rows
    PROVE  /\ rw.status \in Active \cup Terminal \cup {"absent"}
           /\ rw.claimedBy \in Workers \cup {None} /\ rw.claimedAt \in Nat /\ rw.claims \in Nat
           /\ rw.attempts \in Nat /\ rw.yields \in Nat /\ rw.iteration \in Nat
           /\ rw.messages \in SUBSET Answers /\ rw.trace \in SUBSET Entries
           /\ rw.pending \in Calls \cup {None}
           /\ rw.pendingDecision \in {"none", "approved", "denied"} /\ rw.approval \in Nat
BY DEF Rows

\* Trace entries and answers the actions build are entries and answers.
LEMMA EntryTypes ==
    ASSUME NEW x \in Execs
    PROVE  /\ x.call # None =>
                 /\ Intent(x) \in Entries
                 /\ \A t \in {"absent", "ok", "error", "challenge"} : [Intent(x) EXCEPT !.text = t] \in Entries
                 /\ AnswerTo(x) \in Answers
           /\ x.decided # None =>
                 /\ DecidedEntry(x) \in Entries
                 /\ \A t \in {"absent", "ok", "error", "challenge"} : [DecidedEntry(x) EXCEPT !.text = t] \in Entries
                 /\ [call |-> x.decided, iter |-> x.base] \in Answers
BY ExecFields, Zenon DEF Intent, AnswerTo, DecidedEntry, Entries, Answers

\* Marking an entry of unknown outcome keeps a trace a trace.
LEMMA MarkType ==
    ASSUME NEW trace \in SUBSET Entries, NEW e \in trace
    PROVE  /\ [e EXCEPT !.unknownOutcome = TRUE] \in Entries
           /\ Mark(trace, e) \in SUBSET Entries
<1>1. [e EXCEPT !.unknownOutcome = TRUE] \in Entries
  BY Zenon DEF Entries
<1>2. QED
  BY <1>1 DEF Mark

\* An execution at rest is an execution.
LEMMA IdleType == Idle \in Execs
BY Zenon DEF Idle, Execs, PCs, Results

\* The first stop recorded is a stop.
LEMMA FirstStopType ==
    ASSUME NEW x \in Execs, NEW s \in StopReasons
    PROVE  FirstStop(x, s) \in StopReasons
BY ExecFields DEF FirstStop

\* An execution sent to its end is an execution.
LEMMA EndType ==
    ASSUME NEW z \in Execs, NEW m \in Nat, NEW s \in StopReasons \cup {"none"}
    PROVE  [z EXCEPT !.pc = "end", !.lease = m, !.stop = s] \in Execs
BY ZenonT(60) DEF Execs, PCs

\* The end of the loop, whatever its reason, is an execution.
LEMMA OverType ==
    ASSUME NEW x \in Execs, NEW s \in StopReasons \cup {"none"}, NEW t \in Results, NEW n \in Nat
    PROVE  Over(x, s, t, n) \in Execs
<1> DEFINE y == [Idle EXCEPT !.pc = "end", !.lease = x.lease, !.stop = s]
<1>0. /\ x.lease \in Nat /\ x.base \in Nat /\ x.park \in Calls \cup {None}
      /\ x.trace \in SUBSET Entries /\ x.progressed \in BOOLEAN
  BY ExecFields
<1>1. y \in Execs
  BY <1>0, IdleType, EndType
<1>2. [y EXCEPT !.park = x.park, !.trace = x.trace] \in Execs
  BY <1>0, <1>1, ZenonT(60) DEF Execs
<1>3. [y EXCEPT !.base = x.base, !.progressed = x.progressed, !.result = t, !.reached = n] \in Execs
  BY <1>0, <1>1, ZenonT(60) DEF Execs
<1>4. QED
  BY <1>1, <1>2, <1>3, Zenon DEF Over

\* Each update of an execution that the actions make keeps its type; first,
\* moving on.
LEMMA SetPc ==
    ASSUME NEW x \in Execs, NEW p \in PCs
    PROVE  [x EXCEPT !.pc = p] \in Execs
BY Zenon DEF Execs

\* Recording a stop.
LEMMA SetStop ==
    ASSUME NEW x \in Execs, NEW s \in StopReasons
    PROVE  [x EXCEPT !.stop = s] \in Execs
BY Zenon DEF Execs

\* Taking a call's outcome.
LEMMA SetPcText ==
    ASSUME NEW x \in Execs, NEW p \in PCs, NEW t \in {"absent", "ok", "error", "challenge"}
    PROVE  [x EXCEPT !.pc = p, !.text = t] \in Execs /\ [x EXCEPT !.text = t, !.pc = p] \in Execs
BY ZenonT(60) DEF Execs

\* Being launched under a lease.
LEMMA SetPcLease ==
    ASSUME NEW x \in Execs, NEW p \in PCs, NEW m \in Nat
    PROVE  [x EXCEPT !.pc = p, !.lease = m] \in Execs
BY Zenon DEF Execs

\* Taking up the next call.
LEMMA SetPcCall ==
    ASSUME NEW x \in Execs, NEW p \in PCs, NEW c \in Calls
    PROVE  [x EXCEPT !.pc = p, !.call = c] \in Execs
BY Zenon DEF Execs

\* Starting the next iteration.
LEMMA SetPcIter ==
    ASSUME NEW x \in Execs, NEW p \in PCs, NEW m \in Nat
    PROVE  [x EXCEPT !.pc = p, !.iter = m] \in Execs
BY Zenon DEF Execs

\* Reaching the top of an iteration.
LEMMA SetPcProgressed ==
    ASSUME NEW x \in Execs, NEW p \in PCs, NEW b \in BOOLEAN
    PROVE  [x EXCEPT !.pc = p, !.progressed = b] \in Execs
BY Zenon DEF Execs

\* Pushing on the trace.
LEMMA SetTrace ==
    ASSUME NEW x \in Execs, NEW tr \in SUBSET Entries
    PROVE  [x EXCEPT !.trace = tr] \in Execs
BY Zenon DEF Execs

\* Recording an intent.
LEMMA SetTracePc ==
    ASSUME NEW x \in Execs, NEW tr \in SUBSET Entries, NEW p \in PCs
    PROVE  [x EXCEPT !.trace = tr, !.pc = p] \in Execs
BY Zenon DEF Execs

\* Choosing the call to park.
LEMMA SetPark ==
    ASSUME NEW x \in Execs, NEW tr \in SUBSET Entries, NEW c \in Calls
    PROVE  [x EXCEPT !.park = c] \in Execs /\ [x EXCEPT !.trace = tr, !.park = c] \in Execs
BY Zenon DEF Execs

\* Answering a call.
LEMMA SetTraceMessages ==
    ASSUME NEW x \in Execs, NEW tr \in SUBSET Entries, NEW ms \in SUBSET Answers
    PROVE  [x EXCEPT !.trace = tr, !.messages = ms] \in Execs
BY Zenon DEF Execs

\* Serving a call from the trace.
LEMMA SetTraceMessagesPc ==
    ASSUME NEW x \in Execs, NEW tr \in SUBSET Entries, NEW ms \in SUBSET Answers, NEW p \in PCs
    PROVE  [x EXCEPT !.trace = tr, !.messages = ms, !.pc = p] \in Execs
BY Zenon DEF Execs

\* Answering the decided call.
LEMMA SetAnswered ==
    ASSUME NEW x \in Execs, NEW tr \in SUBSET Entries, NEW ms \in SUBSET Answers, NEW m \in Nat
    PROVE  [x EXCEPT !.trace = tr, !.messages = ms, !.base = m, !.iter = m] \in Execs
BY Zenon DEF Execs

\* Reading the row.
LEMMA SetRead ==
    ASSUME NEW x \in Execs, NEW rw \in Rows, NEW c \in Calls \cup {None},
           NEW d \in {"none", "approved", "denied"}, NEW n \in Nat
    PROVE  [x EXCEPT !.pc = "admit", !.base = rw.iteration, !.iter = rw.iteration,
                     !.trace = rw.trace, !.messages = rw.messages,
                     !.decided = c, !.decision = d, !.approval = n] \in Execs
<1>1. ASSUME NEW m \in Nat, NEW tr \in SUBSET Entries, NEW ms \in SUBSET Answers
      PROVE  [x EXCEPT !.pc = "admit", !.base = m, !.iter = m, !.trace = tr, !.messages = ms,
                       !.decided = c, !.decision = d, !.approval = n] \in Execs
  BY Zenon DEF Execs, PCs
<1>2. rw.iteration \in Nat /\ rw.trace \in SUBSET Entries /\ rw.messages \in SUBSET Answers
  BY RowFields
<1>3. QED
  BY <1>1, <1>2

\* Being done with a call.
LEMMA AnsweredType ==
    ASSUME NEW x \in Execs
    PROVE  Answered(x) \in Execs
BY Zenon DEF Execs, Answered

-----------------------------------------------------------------------------
(* Type correctness, and what the pending fields say *)

\* An execution that dispatches a call has one, and one that stopped to park
\* has the call to park.
ExecFits(x) ==
    /\ x.pc \in {"consume", "leg1", "leg2", "answer"} => x.decided # None
    /\ x.pc \in {"guard", "dispatch", "after"} => x.call # None
    /\ x.stop = "parked" => x.pc = "end" /\ x.park # None

\* TypeOK is not inductive alone: a trace entry is typed only because the
\* execution that writes it holds a call, and an approval only because a
\* parked row holds one.
TypeInv ==
    /\ TypeOK
    /\ PendingMatchesStatus
    /\ \A w \in Workers, r \in Runs : ExecFits(exec[w][r])
    /\ \A c \in Clients : client[c].pc # "away" => client[c].run \in Runs

\* What a step of an execution does to the row and to the execution.
Moves(w, r) ==
    \E x \in Execs, rw \in Rows :
        /\ ExecFits(x)
        /\ PendingFits(rw)
        /\ exec' = [exec EXCEPT ![w][r] = x]
        /\ row' = row \/ row' = [row EXCEPT ![r] = rw]

\* The end of the loop fits, given a call to park if it parks.
LEMMA OverFits ==
    ASSUME NEW x \in Execs, NEW s \in StopReasons \cup {"none"}, NEW t \in Results, NEW n \in Nat,
           s = "parked" => x.park # None
    PROVE  ExecFits(Over(x, s, t, n))
<1>1. CASE s = "fenced"
  BY <1>1 DEF Over, ExecFits, Idle
<1>2. CASE s = "parked"
  BY <1>2 DEF Over, ExecFits, Idle
<1>3. CASE s \notin {"fenced", "parked"}
  BY <1>3 DEF Over, ExecFits, Idle
<1>4. QED
  BY <1>1, <1>2, <1>3

\* The terms of an invariant state that every step of an execution uses.
LEMMA TypeInvAt ==
    ASSUME TypeInv, NEW w \in Workers, NEW r \in Runs
    PROVE  /\ exec[w][r] \in Execs /\ ExecFits(exec[w][r])
           /\ row[r] \in Rows /\ PendingFits(row[r])
BY DEF TypeInv, TypeOK, PendingMatchesStatus

\* A conditional update of the row is a move.
LEMMA FinishMoves ==
    ASSUME TypeInv, NEW w \in Workers, NEW r \in Runs, NEW rw, NEW x \in Execs,
           Owns(w, r) => rw \in Rows /\ PendingFits(rw),
           ExecFits(x), Finish(w, r, rw), Become(w, r, x)
    PROVE  Moves(w, r)
<1>1. CASE Owns(w, r)
  BY <1>1 DEF Finish, Become, Moves
<1>2. CASE ~Owns(w, r)
  BY <1>2, TypeInvAt DEF Finish, Become, Moves
<1>3. QED
  BY <1>1, <1>2

\* A step that leaves the row alone is a move.
LEMMA BecomeMoves ==
    ASSUME TypeInv, NEW w \in Workers, NEW r \in Runs, NEW x \in Execs,
           ExecFits(x), UNCHANGED row, Become(w, r, x)
    PROVE  Moves(w, r)
BY TypeInvAt DEF Become, Moves

\* Stopping is typed and fits.
LEMMA StoppedByFits ==
    ASSUME NEW x \in Execs, NEW s \in StopReasons, x.stop # "parked", s = "parked" => x.park # None
    PROVE  StoppedBy(x, s) \in Execs /\ ExecFits(StoppedBy(x, s))
<1>1. FirstStop(x, s) \in StopReasons /\ (FirstStop(x, s) = "parked" => x.park # None)
  BY FirstStopType DEF FirstStop
<1>2. "none" \in Results /\ 0 \in Nat
  BY DEF Results
<1>3. QED
  BY <1>1, <1>2, OverType, OverFits DEF StoppedBy

\* Returning from the loop is typed and fits.
LEMMA ReturnsFits ==
    ASSUME NEW x \in Execs, NEW t \in Results, NEW n \in Nat, x.stop # "parked"
    PROVE  Returns(x, t, n) \in Execs /\ ExecFits(Returns(x, t, n))
BY ExecFields, OverType, OverFits DEF Returns

\* A fenced write is a move.
LEMMA FencedMoves ==
    ASSUME TypeInv, NEW w \in Workers, NEW r \in Runs, NEW rw, NEW x \in Execs,
           Owns(w, r) => rw \in Rows /\ PendingFits(rw),
           ExecFits(x), exec[w][r].pc # "end", FencedStep(w, r, rw, x)
    PROVE  Moves(w, r)
<1>1. exec[w][r] \in Execs /\ exec[w][r].stop # "parked" /\ "fenced" \in StopReasons
  BY TypeInvAt DEF ExecFits, StopReasons
<1>2. StoppedBy(exec[w][r], "fenced") \in Execs /\ ExecFits(StoppedBy(exec[w][r], "fenced"))
  BY <1>1, StoppedByFits
<1>3. QED
  BY <1>2, FinishMoves DEF FencedStep

\* What observe() reports is a stop.
LEMMA ObservedType ==
    ASSUME NEW w \in Workers, NEW r \in Runs, Observed(w, r) # "none"
    PROVE  Observed(w, r) \in StopReasons /\ Observed(w, r) # "parked"
BY DEF Observed, StopReasons

\* The fenced writes of a running row keep what its pending fields say.
LEMMA FencedFits ==
    ASSUME NEW rw \in Rows, PendingFits(rw), rw.status = "running",
           NEW tr \in SUBSET Entries, NEW ms \in SUBSET Answers, NEW n \in Nat
    PROVE  /\ [Beat(rw) EXCEPT !.trace = tr] \in Rows
           /\ PendingFits([Beat(rw) EXCEPT !.trace = tr])
           /\ [Beat(rw) EXCEPT !.iteration = n, !.messages = ms] \in Rows
           /\ PendingFits([Beat(rw) EXCEPT !.iteration = n, !.messages = ms])
           /\ [Beat(ClearPending(rw)) EXCEPT !.trace = tr] \in Rows
           /\ PendingFits([Beat(ClearPending(rw)) EXCEPT !.trace = tr])
           /\ [Beat(ClearPending(rw)) EXCEPT !.trace = tr, !.messages = ms, !.iteration = n] \in Rows
           /\ PendingFits([Beat(ClearPending(rw)) EXCEPT !.trace = tr, !.messages = ms, !.iteration = n])
<1>1. Beat(rw) \in Rows /\ ClearPending(rw) \in Rows
  BY DEF Beat, ClearPending, Rows
<1>2. Beat(ClearPending(rw)) \in Rows
  BY <1>1 DEF Beat, Rows
<1>3. /\ [Beat(rw) EXCEPT !.trace = tr] \in Rows
      /\ [Beat(rw) EXCEPT !.iteration = n, !.messages = ms] \in Rows
      /\ [Beat(ClearPending(rw)) EXCEPT !.trace = tr] \in Rows
      /\ [Beat(ClearPending(rw)) EXCEPT !.trace = tr, !.messages = ms, !.iteration = n] \in Rows
  <2>1. ASSUME NEW z \in Rows
        PROVE  /\ [z EXCEPT !.trace = tr] \in Rows
               /\ [z EXCEPT !.iteration = n, !.messages = ms] \in Rows
               /\ [z EXCEPT !.trace = tr, !.messages = ms, !.iteration = n] \in Rows
    BY Zenon DEF Rows
  <2>2. QED
    BY <1>1, <1>2, <2>1
<1>4. /\ PendingFits([Beat(rw) EXCEPT !.trace = tr])
      /\ PendingFits([Beat(rw) EXCEPT !.iteration = n, !.messages = ms])
  BY RowFields DEF PendingFits, Beat, Terminal, Rows
<1>5. /\ PendingFits([Beat(ClearPending(rw)) EXCEPT !.trace = tr])
      /\ PendingFits([Beat(ClearPending(rw)) EXCEPT !.trace = tr, !.messages = ms, !.iteration = n])
  BY RowFields DEF PendingFits, Beat, ClearPending, Terminal, Rows
<1>6. QED
  BY <1>3, <1>4, <1>5

\* A terminal write leaves nothing pending.
LEMMA EndedFits ==
    ASSUME NEW rw \in Rows, NEW st \in Terminal, NEW n \in Nat
    PROVE  /\ Ended(rw, st) \in Rows /\ PendingFits(Ended(rw, st))
           /\ [Ended(rw, st) EXCEPT !.iteration = n] \in Rows
           /\ PendingFits([Ended(rw, st) EXCEPT !.iteration = n])
<1>1. Ended(rw, st) \in Rows
  BY Zenon DEF Ended, ClearPending, Rows
<1>2. [Ended(rw, st) EXCEPT !.iteration = n] \in Rows
  <2>1. ASSUME NEW z \in Rows PROVE [z EXCEPT !.iteration = n] \in Rows
    BY Zenon DEF Rows
  <2>2. QED
    BY <1>1, <2>1
<1>3. PendingFits(Ended(rw, st)) /\ PendingFits([Ended(rw, st) EXCEPT !.iteration = n])
  BY DEF PendingFits, Ended, ClearPending, Terminal, Rows
<1>4. QED
  BY <1>1, <1>2, <1>3

\* Admission and the decided call: every step is a move.
LEMMA AdmissionMoves ==
    ASSUME TypeInv, NEW w \in Workers, NEW r \in Runs,
           \/ ReadRow(w, r) \/ Refuse(w, r) \/ Admit(w, r) \/ ResumeUndecided(w, r)
           \/ ResumeDecided(w, r) \/ Consume(w, r) \/ RedeemChallenge(w, r)
           \/ Redeem(w, r) \/ Answer(w, r)
    PROVE  Moves(w, r)
<1> DEFINE x == exec[w][r]
           rw == row[r]
<1>1. /\ x \in Execs /\ ExecFits(x) /\ rw \in Rows /\ PendingFits(rw)
      /\ Idle \in Execs /\ ExecFits(Idle)
      /\ "failed" \in Terminal
  BY TypeInvAt, IdleType DEF ExecFits, Idle, Terminal
<1>2. CASE ReadRow(w, r)
  <2> DEFINE isDecided == rw.pending # None /\ rw.pendingDecision # "none"
             c == IF isDecided THEN rw.pending ELSE None
             d == IF isDecided THEN rw.pendingDecision ELSE "none"
             n == IF isDecided THEN rw.approval ELSE 0
             y == [x EXCEPT !.pc = "admit", !.base = rw.iteration, !.iter = rw.iteration,
                            !.trace = rw.trace, !.messages = rw.messages,
                            !.decided = c, !.decision = d, !.approval = n]
  <2>1. c \in Calls \cup {None} /\ d \in {"none", "approved", "denied"} /\ n \in Nat
    BY <1>1, RowFields
  <2>2. x.pc = "launched" /\ UNCHANGED row /\ Become(w, r, IF Owns(w, r) THEN y ELSE Idle)
    BY <1>2, Zenon DEF ReadRow
  <2> HIDE DEF c, d, n
  <2>3. y \in Execs
    BY <1>1, <2>1, SetRead
  <2>4. ExecFits(y)
    BY <1>1, <2>2 DEF ExecFits, Execs
  <2>5. QED
    BY <1>1, <2>2, <2>3, <2>4, BecomeMoves
<1>3. CASE Refuse(w, r)
  BY <1>1, <1>3, EndedFits, FinishMoves DEF Refuse
<1>4. CASE Admit(w, r)
  <2>1. [x EXCEPT !.pc = "resume"] \in Execs
    BY <1>1, SetPc DEF PCs
  <2>2. ExecFits([x EXCEPT !.pc = "resume"])
    BY <1>1, <1>4 DEF Admit, ExecFits, Execs
  <2>3. CASE x.base >= MaxIter
    BY <1>1, <1>4, <2>3, EndedFits, FinishMoves DEF Admit
  <2>4. CASE ~(x.base >= MaxIter)
    BY <1>1, <1>4, <2>1, <2>2, <2>4, BecomeMoves DEF Admit
  <2>5. QED
    BY <2>3, <2>4
<1>5. CASE ResumeUndecided(w, r)
  <2>1. [x EXCEPT !.pc = "top"] \in Execs
    BY <1>1, SetPc DEF PCs
  <2>2. ExecFits([x EXCEPT !.pc = "top"])
    BY <1>1, <1>5 DEF ResumeUndecided, ExecFits, Execs
  <2>3. ASSUME NEW e \in LostApproved(x)
        PROVE  LET y == StoppedBy([x EXCEPT !.trace = Mark(x.trace, e), !.park = e.call], "parked")
               IN  y \in Execs /\ ExecFits(y)
    <3> DEFINE z == [x EXCEPT !.trace = Mark(x.trace, e), !.park = e.call]
    <3>1. e \in x.trace /\ x.trace \in SUBSET Entries
      BY <1>1, ExecFields DEF LostApproved
    <3>2. e.call \in Calls
      BY <3>1 DEF Entries
    <3>3. z \in Execs
      BY <1>1, <3>1, <3>2, MarkType, SetPark
    <3>4. z.park # None
      BY <1>1, <3>2, CallsAssumption DEF Execs
    <3>5. z.stop # "parked" /\ "parked" \in StopReasons
      BY <1>1, <1>5 DEF ResumeUndecided, ExecFits, Execs, StopReasons
    <3>6. QED
      BY <3>3, <3>4, <3>5, StoppedByFits
  <2>4. QED
    BY <1>5, <2>1, <2>2, <2>3, BecomeMoves DEF ResumeUndecided
<1>6. CASE ResumeDecided(w, r)
  <2> DEFINE p == [x EXCEPT !.trace = @ \cup {DecidedEntry(x)}]
  <2>1. x.decided # None /\ x.pc = "resume" /\ x.stop # "parked"
    BY <1>1, <1>6 DEF ResumeDecided, ExecFits
  <2>2. p \in Execs
    <3>1. x.trace \cup {DecidedEntry(x)} \in SUBSET Entries
      BY <1>1, <2>1, EntryTypes, ExecFields
    <3>2. QED
      BY <1>1, <3>1, SetTrace
  <2>3. /\ [p EXCEPT !.text = "error", !.pc = "answer"] \in Execs
        /\ [p EXCEPT !.pc = "consume"] \in Execs
    BY <2>2, SetPc, SetPcText DEF PCs
  <2>4. p.decided = x.decided /\ p.call = x.call /\ p.stop = x.stop
    BY <1>1 DEF Execs
  <2>5. /\ ExecFits([p EXCEPT !.text = "error", !.pc = "answer"])
        /\ ExecFits([p EXCEPT !.pc = "consume"])
    BY <2>1, <2>2, <2>4 DEF ExecFits, Execs
  <2>6. CASE Observed(w, r) # "none"
    BY <1>1, <1>6, <2>1, <2>6, ObservedType, StoppedByFits, BecomeMoves DEF ResumeDecided
  <2>7. CASE Observed(w, r) = "none"
    BY <1>6, <2>3, <2>5, <2>7, BecomeMoves DEF ResumeDecided
  <2>8. QED
    BY <2>6, <2>7
<1>7. CASE Consume(w, r)
  <2>1. [x EXCEPT !.pc = "leg1"] \in Execs
    BY <1>1, SetPc DEF PCs
  <2>2. ExecFits([x EXCEPT !.pc = "leg1"]) /\ x.pc # "end"
    BY <1>1, <1>7 DEF Consume, ExecFits, Execs
  <2>3. Owns(w, r) => LET z == [Beat(ClearPending(rw)) EXCEPT !.trace = x.trace]
                      IN  z \in Rows /\ PendingFits(z)
    BY <1>1, FencedFits, ExecFields DEF Owns
  <2>4. QED
    BY <1>7, <2>1, <2>2, <2>3, FencedMoves DEF Consume
<1>8. CASE RedeemChallenge(w, r)
  <2>1. /\ [x EXCEPT !.pc = "leg2"] \in Execs
        /\ [x EXCEPT !.pc = "answer", !.text = "error"] \in Execs
    BY <1>1, SetPc, SetPcText DEF PCs
  <2>2. /\ ExecFits([x EXCEPT !.pc = "leg2"])
        /\ ExecFits([x EXCEPT !.pc = "answer", !.text = "error"])
    BY <1>1, <1>8 DEF RedeemChallenge, ExecFits, Execs
  <2>3. QED
    BY <1>8, <2>1, <2>2, BecomeMoves DEF RedeemChallenge
<1>9. CASE Redeem(w, r)
  <2>1. \A t \in {"ok", "error"} : [x EXCEPT !.pc = "answer", !.text = t] \in Execs
    BY <1>1, SetPcText DEF PCs
  <2>2. \A t \in {"ok", "error"} : ExecFits([x EXCEPT !.pc = "answer", !.text = t])
    BY <1>1, <1>9 DEF Redeem, ExecFits, Execs
  <2>3. QED
    BY <1>9, <2>1, <2>2, BecomeMoves DEF Redeem
<1>10. CASE Answer(w, r)
  <2> DEFINE e == DecidedEntry(x)
             y == [x EXCEPT !.trace = (@ \ {e}) \cup {[e EXCEPT !.text = x.text]},
                            !.messages = @ \cup {[call |-> x.decided, iter |-> x.base]},
                            !.base = @ + 1, !.iter = x.base + 1]
             z == IF x.text = "ok" /\ x.decided \in Proposals THEN StoppedBy(y, "proposed")
                  ELSE IF y.base >= MaxIter THEN Returns(y, "limit", y.base)
                  ELSE [Answered(y) EXCEPT !.pc = "top"]
  <2>1. x.pc = "answer" /\ x.decided # None /\ x.stop # "parked"
    BY <1>1, <1>10 DEF Answer, ExecFits
  <2>2. y \in Execs
    <3>0. [e EXCEPT !.text = x.text] \in Entries
      BY <1>1, <2>1, EntryTypes, ExecFields, Zenon
    <3>a. [call |-> x.decided, iter |-> x.base] \in Answers
      BY <1>1, <2>1, EntryTypes
    <3>b. x.trace \in SUBSET Entries /\ x.messages \in SUBSET Answers /\ x.base + 1 \in Nat
      BY <1>1, ExecFields
    <3>1. /\ (x.trace \ {e}) \cup {[e EXCEPT !.text = x.text]} \in SUBSET Entries
          /\ x.messages \cup {[call |-> x.decided, iter |-> x.base]} \in SUBSET Answers
          /\ x.base + 1 \in Nat
      BY <3>0, <3>a, <3>b
    <3>2. QED
      BY <1>1, <3>1, SetAnswered
  <2>3. y.stop = x.stop /\ y.park = x.park
    BY <1>1 DEF Execs
  <2>4. z \in Execs /\ ExecFits(z)
    <3>1. "proposed" \in StopReasons /\ "limit" \in Results /\ y.base \in Nat /\ "top" \in PCs
      BY <2>2, ExecFields DEF StopReasons, Results, PCs
    <3>2. /\ StoppedBy(y, "proposed") \in Execs /\ ExecFits(StoppedBy(y, "proposed"))
          /\ Returns(y, "limit", y.base) \in Execs /\ ExecFits(Returns(y, "limit", y.base))
      BY <2>1, <2>2, <2>3, <3>1, StoppedByFits, ReturnsFits
    <3>3. [Answered(y) EXCEPT !.pc = "top"] \in Execs
      BY <2>2, <3>1, AnsweredType, SetPc
    <3>4. Answered(y) \in Execs /\ Answered(y).stop = x.stop
      BY <2>2, <2>3, AnsweredType, ZenonT(60) DEF Answered, Execs
    <3>5. ExecFits([Answered(y) EXCEPT !.pc = "top"])
      BY <2>1, <3>4 DEF ExecFits, Execs
    <3>6. QED
      BY <3>2, <3>3, <3>5
  <2>5. Owns(w, r) => LET q == [Beat(ClearPending(rw)) EXCEPT
                                  !.trace = y.trace, !.messages = y.messages, !.iteration = y.base]
                      IN  q \in Rows /\ PendingFits(q)
    BY <1>1, <2>2, FencedFits, ExecFields DEF Owns
  <2>6. QED
    BY <1>10, <2>1, <2>4, <2>5, FencedMoves DEF Answer
<1>11. QED
  BY <1>2, <1>3, <1>4, <1>5, <1>6, <1>7, <1>8, <1>9, <1>10

\* The loop of runAgent: every step is a move.
LEMMA LoopMoves ==
    ASSUME TypeInv, NEW w \in Workers, NEW r \in Runs,
           \/ Top(w, r) \/ Checkpoint(w, r) \/ ModelReplies(w, r) \/ ModelYields(w, r)
           \/ (\E c \in Calls : NextCall(w, r, c)) \/ NextIteration(w, r)
           \/ Serve(w, r) \/ Halt(w, r) \/ RecordIntent(w, r)
           \/ Dispatch(w, r) \/ AfterToolCall(w, r) \/ Throws(w, r)
    PROVE  Moves(w, r)
<1> DEFINE x == exec[w][r]
           rw == row[r]
<1>1. x \in Execs /\ ExecFits(x) /\ rw \in Rows /\ PendingFits(rw)
  BY TypeInvAt
<1>2. x.pc # "end" /\ x.stop # "parked"
  BY <1>1 DEF ExecFits, Top, Checkpoint, ModelReplies, ModelYields, NextCall, NextIteration, Serve,
              Halt, RecordIntent, Dispatch, AfterToolCall, Throws, Driving
<1>3. x.iter \in Nat /\ x.iter + 1 \in Nat /\ x.base \in Nat /\ MaxIter \in Nat
  BY <1>1, ExecFields, BoundsAssumption
<1>4. \A t \in Results, n \in Nat : Returns(x, t, n) \in Execs /\ ExecFits(Returns(x, t, n))
  BY <1>1, <1>2, ReturnsFits
<1>5. {"done", "error", "limit", "aborted", "busy", "preempted", "threw"} \subseteq Results
  BY DEF Results
<1>6. Observed(w, r) # "none" => LET y == StoppedBy(x, Observed(w, r)) IN y \in Execs /\ ExecFits(y)
  BY <1>1, <1>2, ObservedType, StoppedByFits
<1>7. CASE Top(w, r)
  <2> DEFINE y == [x EXCEPT !.pc = "checkpoint", !.progressed = @ \/ x.iter > x.base]
  <2>1. y \in Execs
    BY <1>1, ExecFields, SetPcProgressed DEF PCs
  <2>2. ExecFits(y)
    BY <1>1, <1>2 DEF ExecFits, Execs
  <2>3. QED
    BY <1>3, <1>4, <1>5, <1>6, <1>7, <2>1, <2>2, BecomeMoves DEF Top
<1>8. CASE Checkpoint(w, r)
  <2>1. [x EXCEPT !.pc = "model"] \in Execs
    BY <1>1, SetPc DEF PCs
  <2>2. ExecFits([x EXCEPT !.pc = "model"])
    BY <1>1, <1>2 DEF ExecFits, Execs
  <2>3. Owns(w, r) => LET z == [Beat(rw) EXCEPT !.iteration = x.iter, !.messages = x.messages]
                      IN  z \in Rows /\ PendingFits(z)
    BY <1>1, FencedFits, ExecFields DEF Owns
  <2>4. QED
    BY <1>2, <1>8, <2>1, <2>2, <2>3, FencedMoves DEF Checkpoint
<1>9. CASE ModelReplies(w, r)
  <2>1. [x EXCEPT !.pc = "calls"] \in Execs
    BY <1>1, SetPc DEF PCs
  <2>2. ExecFits([x EXCEPT !.pc = "calls"])
    BY <1>1, <1>2 DEF ExecFits, Execs
  <2>3. QED
    BY <1>3, <1>4, <1>5, <1>9, <2>1, <2>2, BecomeMoves DEF ModelReplies
<1>10. CASE ModelYields(w, r)
  BY <1>3, <1>4, <1>5, <1>10, BecomeMoves DEF ModelYields
<1>11. ASSUME NEW c \in Calls, NextCall(w, r, c)
       PROVE  Moves(w, r)
  <2>1. [x EXCEPT !.pc = "guard", !.call = c] \in Execs
    BY <1>1, SetPcCall DEF PCs
  <2>2. ExecFits([x EXCEPT !.pc = "guard", !.call = c])
    BY <1>1, <1>2, CallsAssumption DEF ExecFits, Execs
  <2>3. QED
    BY <1>3, <1>4, <1>5, <1>6, <1>11, <2>1, <2>2, BecomeMoves DEF NextCall
<1>12. CASE NextIteration(w, r)
  <2> DEFINE y == [x EXCEPT !.pc = "top", !.iter = @ + 1]
  <2>1. y \in Execs
    BY <1>1, <1>3, SetPcIter DEF PCs
  <2>2. ExecFits(y)
    BY <1>1, <1>2 DEF ExecFits, Execs
  <2>3. QED
    BY <1>3, <1>4, <1>5, <1>12, <2>1, <2>2, BecomeMoves DEF NextIteration
<1>13. CASE Serve(w, r)
  <2> DEFINE y(t) == [Answered(x) EXCEPT !.trace = @ \cup {[Intent(x) EXCEPT !.text = t]},
                                         !.messages = @ \cup {AnswerTo(x)}, !.pc = "calls"]
  <2>1. PICK t \in {"ok", "error"} : FencedStep(w, r, [Beat(rw) EXCEPT !.trace = y(t).trace], y(t))
    BY <1>13, Zenon DEF Serve, ReplayHits
  <2>2. /\ Answered(x) \in Execs /\ Answered(x).trace = x.trace /\ Answered(x).messages = x.messages
        /\ Answered(x).stop = x.stop
    BY <1>1, AnsweredType, ZenonT(60) DEF Answered, Execs
  <2>3. [Intent(x) EXCEPT !.text = t] \in Entries /\ AnswerTo(x) \in Answers
    BY <1>1, <1>13, EntryTypes DEF Serve, ExecFits
  <2>4. /\ x.trace \cup {[Intent(x) EXCEPT !.text = t]} \in SUBSET Entries
        /\ x.messages \cup {AnswerTo(x)} \in SUBSET Answers
    BY <1>1, <2>3, ExecFields
  <2>5. y(t) \in Execs
    BY <2>2, <2>4, SetTraceMessagesPc DEF PCs
  <2>6. ExecFits(y(t))
    BY <1>2, <2>2 DEF ExecFits, Execs
  <2> HIDE DEF y
  <2>7. Owns(w, r) => LET z == [Beat(rw) EXCEPT !.trace = y(t).trace] IN z \in Rows /\ PendingFits(z)
    BY <1>1, <2>5, FencedFits, ExecFields DEF Owns
  <2>8. QED
    BY <1>2, <2>1, <2>5, <2>6, <2>7, FencedMoves
<1>14. CASE Halt(w, r)
  <2>1. PICK e \in LostCalls(x) :
             FencedStep(w, r, [Beat(rw) EXCEPT !.trace = Mark(x.trace, e)], StoppedBy(x, "unknown_outcome"))
    BY <1>14 DEF Halt
  <2>2. Mark(x.trace, e) \in SUBSET Entries
    BY <1>1, ExecFields, MarkType DEF LostCalls
  <2>3. Owns(w, r) => LET z == [Beat(rw) EXCEPT !.trace = Mark(x.trace, e)] IN z \in Rows /\ PendingFits(z)
    BY <1>1, <2>2, FencedFits, ExecFields DEF Owns
  <2>4. LET y == StoppedBy(x, "unknown_outcome") IN y \in Execs /\ ExecFits(y)
    BY <1>1, <1>2, StoppedByFits DEF StopReasons
  <2>5. QED
    BY <1>2, <2>1, <2>3, <2>4, FencedMoves
<1>15. CASE RecordIntent(w, r)
  <2> DEFINE reask == {e \in LostCalls(x) : e.confirmation = "confirmed"}
             tr == {IF e \in reask THEN [e EXCEPT !.unknownOutcome = TRUE] ELSE e : e \in x.trace}
                      \cup {Intent(x)}
             y == [x EXCEPT !.trace = tr, !.pc = "dispatch"]
  <2>1. tr \in SUBSET Entries
    <3>1. \A e \in x.trace : e \in Entries /\ [e EXCEPT !.unknownOutcome = TRUE] \in Entries
      BY <1>1, ExecFields, MarkType
    <3>2. Intent(x) \in Entries
      BY <1>1, <1>15, EntryTypes DEF RecordIntent, ExecFits
    <3>3. QED
      BY <3>1, <3>2
  <2>2. FencedStep(w, r, [Beat(rw) EXCEPT !.trace = y.trace], y)
    BY <1>15, Zenon DEF RecordIntent
  <2> HIDE DEF tr
  <2>3. y \in Execs
    BY <1>1, <2>1, SetTracePc DEF PCs
  <2>4. ExecFits(y)
    BY <1>1, <1>2, <1>15 DEF ExecFits, Execs, RecordIntent
  <2> HIDE DEF y
  <2>5. Owns(w, r) => LET z == [Beat(rw) EXCEPT !.trace = y.trace] IN z \in Rows /\ PendingFits(z)
    BY <1>1, <2>3, FencedFits, ExecFields DEF Owns
  <2>6. QED
    BY <1>2, <2>2, <2>3, <2>4, <2>5, FencedMoves
<1>16. CASE Dispatch(w, r)
  <2>1. PICK t \in {"ok", "error", "challenge"} : Become(w, r, [x EXCEPT !.text = t, !.pc = "after"])
    BY <1>16, Zenon DEF Dispatch
  <2>2. [x EXCEPT !.text = t, !.pc = "after"] \in Execs
    BY <1>1, SetPcText DEF PCs
  <2>3. ExecFits([x EXCEPT !.text = t, !.pc = "after"])
    BY <1>1, <1>2, <1>16 DEF ExecFits, Execs, Dispatch
  <2>4. QED
    BY <1>16, <2>1, <2>2, <2>3, BecomeMoves DEF Dispatch
<1>17. CASE AfterToolCall(w, r)
  <2> DEFINE tr == (x.trace \ {Intent(x)}) \cup {[Intent(x) EXCEPT !.text = x.text]}
             y == [x EXCEPT !.trace = tr, !.messages = @ \cup {AnswerTo(x)}]
             z == IF x.text = "challenge"
                  THEN Over([y EXCEPT !.park = x.call], FirstStop(x, "parked"), "aborted", x.iter + 1)
                  ELSE [Answered(y) EXCEPT !.pc = "calls"]
  <2>1. x.call # None /\ x.call \in Calls
    BY <1>1, <1>17, ExecFields DEF AfterToolCall, ExecFits
  <2>2. FencedStep(w, r, [Beat(rw) EXCEPT !.trace = y.trace], z)
    BY <1>17, Zenon DEF AfterToolCall
  <2>3. tr \in SUBSET Entries /\ x.messages \cup {AnswerTo(x)} \in SUBSET Answers
    <3>1. [Intent(x) EXCEPT !.text = x.text] \in Entries /\ AnswerTo(x) \in Answers
      BY <1>1, <2>1, EntryTypes, ExecFields, Zenon
    <3>2. QED
      BY <1>1, <3>1, ExecFields
  <2> HIDE DEF tr
  <2>4. y \in Execs
    BY <1>1, <2>3, SetTraceMessages
  <2>5. y.stop = x.stop
    BY <1>1 DEF Execs
  <2> HIDE DEF y
  <2>6. /\ [y EXCEPT !.park = x.call] \in Execs
        /\ [y EXCEPT !.park = x.call].park # None
    BY <2>1, <2>4, SetPark DEF Execs
  <2>7. FirstStop(x, "parked") \in StopReasons
    BY <1>1, FirstStopType DEF StopReasons
  <2>8. LET q == Over([y EXCEPT !.park = x.call], FirstStop(x, "parked"), "aborted", x.iter + 1)
        IN  q \in Execs /\ ExecFits(q)
    BY <1>3, <1>5, <2>6, <2>7, OverType, OverFits
  <2>9. Answered(y) \in Execs /\ Answered(y).stop = x.stop
    BY <2>4, <2>5, AnsweredType, ZenonT(60) DEF Answered, Execs
  <2>10. [Answered(y) EXCEPT !.pc = "calls"] \in Execs
    BY <2>9, SetPc DEF PCs
  <2>11. ExecFits([Answered(y) EXCEPT !.pc = "calls"])
    BY <1>2, <2>9 DEF ExecFits, Execs
  <2>12. Owns(w, r) => LET q == [Beat(rw) EXCEPT !.trace = y.trace] IN q \in Rows /\ PendingFits(q)
    BY <1>1, <2>4, FencedFits, ExecFields DEF Owns
  <2>13. z \in Execs /\ ExecFits(z)
    BY <2>8, <2>10, <2>11
  <2> HIDE DEF z
  <2>14. QED
    BY <1>2, <2>2, <2>12, <2>13, FencedMoves
<1>18. CASE Throws(w, r)
  BY <1>3, <1>4, <1>5, <1>18, BecomeMoves DEF Throws
<1>19. QED
  BY <1>7, <1>8, <1>9, <1>10, <1>11, <1>12, <1>13, <1>14, <1>15, <1>16, <1>17, <1>18

\* The end of execute: every step is a move.
LEMMA EndMoves ==
    ASSUME TypeInv, NEW w \in Workers, NEW r \in Runs,
           \/ EndFenced(w, r) \/ EndCancelled(w, r) \/ EndParked(w, r) \/ EndStopped(w, r)
           \/ EndYielded(w, r) \/ EndReturned(w, r) \/ ExecutorThrows(w, r)
    PROVE  Moves(w, r)
<1> DEFINE x == exec[w][r]
           rw == row[r]
<1>1. /\ x \in Execs /\ ExecFits(x) /\ rw \in Rows /\ PendingFits(rw)
      /\ Idle \in Execs /\ ExecFits(Idle) /\ Reached(x) \in Nat
  BY TypeInvAt, IdleType, ExecFields DEF ExecFits, Idle, Reached
<1>2. CASE EndFenced(w, r) \/ ExecutorThrows(w, r)
  BY <1>1, <1>2, BecomeMoves DEF EndFenced, ExecutorThrows, Leaves
<1>3. CASE EndCancelled(w, r)
  <2> DEFINE z == [ClearPending(rw) EXCEPT !.iteration = Reached(x)]
  <2>1. z \in Rows
    <3>1. ASSUME NEW q \in Rows, NEW n \in Nat PROVE [q EXCEPT !.iteration = n] \in Rows
      BY Zenon DEF Rows
    <3>2. ClearPending(rw) \in Rows
      BY <1>1, Zenon DEF ClearPending, Rows
    <3>3. QED
      BY <1>1, <3>1, <3>2
  <2>2. rw.status = "cancelled" => PendingFits(z)
    BY <1>1 DEF PendingFits, ClearPending, Terminal, Rows
  <2>3. /\ Become(w, r, Idle)
        /\ row' = row \/ (rw.status = "cancelled" /\ row' = [row EXCEPT ![r] = z])
    BY <1>3 DEF EndCancelled, Leaves
  <2>4. QED
    BY <1>1, <2>1, <2>2, <2>3 DEF Moves, Become
<1>4. CASE EndParked(w, r)
  <2> DEFINE z == [ReleaseLease(rw) EXCEPT
                     !.status = "awaiting_confirmation", !.trace = x.trace,
                     !.pending = x.park, !.pendingDecision = "none", !.approval = 0]
  <2>1. z \in Rows
    <3>1. ASSUME NEW q \in Rows, NEW tr \in SUBSET Entries, NEW c \in Calls \cup {None}
          PROVE  [q EXCEPT !.status = "awaiting_confirmation", !.trace = tr, !.pending = c,
                           !.pendingDecision = "none", !.approval = 0] \in Rows
      BY Zenon DEF Rows, Active
    <3>2. ReleaseLease(rw) \in Rows
      BY <1>1 DEF ReleaseLease, Rows
    <3>3. QED
      BY <1>1, <3>1, <3>2, ExecFields
  <2>2. PendingFits(z)
    BY <1>1, <1>4 DEF EndParked, ExecFits, PendingFits, ReleaseLease, Terminal, Rows
  <2>3. QED
    BY <1>1, <1>4, <2>1, <2>2, FinishMoves DEF EndParked, Leaves
<1>5. CASE EndStopped(w, r)
  <2>1. (IF x.stop = "proposed" THEN "succeeded" ELSE "failed") \in Terminal
    BY DEF Terminal
  <2>2. QED
    BY <1>1, <1>5, <2>1, EndedFits, FinishMoves DEF EndStopped, Leaves
<1>6. CASE EndYielded(w, r)
  <2> DEFINE z == [ReleaseLease(rw) EXCEPT !.status = "queued", !.yields = @ + 1]
  <2>1. z \in Rows
    <3>1. ASSUME NEW q \in Rows, NEW n \in Nat
          PROVE  [q EXCEPT !.status = "queued", !.yields = n] \in Rows
      BY Zenon DEF Rows, Active
    <3>2. ReleaseLease(rw) \in Rows
      BY <1>1 DEF ReleaseLease, Rows
    <3>3. ReleaseLease(rw).yields + 1 \in Nat
      BY <3>2, RowFields
    <3>4. QED
      BY <3>1, <3>2, <3>3
  <2>2. Owns(w, r) => PendingFits(z)
    BY <1>1 DEF PendingFits, ReleaseLease, Terminal, Rows, Owns
  <2>3. QED
    BY <1>1, <1>6, <2>1, <2>2, FinishMoves DEF EndYielded, Leaves
<1>7. CASE EndReturned(w, r)
  <2> DEFINE st == IF x.result = "done" THEN "succeeded" ELSE "failed"
             n == IF x.result = "threw" THEN Ended(rw, st).iteration ELSE Reached(x)
  <2>1. st \in Terminal
    BY DEF Terminal
  <2>2. Finish(w, r, [Ended(rw, st) EXCEPT !.iteration = n]) /\ Become(w, r, Idle)
    BY <1>7, Zenon DEF EndReturned, Leaves
  <2> HIDE DEF st
  <2>3. n \in Nat
    BY <1>1, <2>1, EndedFits, RowFields
  <2> HIDE DEF n
  <2>4. QED
    BY <1>1, <2>1, <2>2, <2>3, EndedFits, FinishMoves
<1>8. QED
  BY <1>2, <1>3, <1>4, <1>5, <1>6, <1>7

\* Every step of an execution is a move.
LEMMA ExecuteMoves ==
    ASSUME TypeInv, NEW w \in Workers, NEW r \in Runs, Execute(w, r)
    PROVE  Moves(w, r)
BY AdmissionMoves, LoopMoves, EndMoves DEF Execute

\* What the steps of an execution do to the rest of the state.
Others ==
    /\ UNCHANGED <<phase, held, client, approved>>
    /\ preempts' \in [Workers -> [Runs -> Nat]]
    /\ effects' \in [Runs -> Seq([call : Calls, iter : Nat, approval : Nat])]
    /\ faults' \in Nat

\* Every step of an execution leaves the other processes and the clients
\* alone, and its writes in the world are typed.
LEMMA ExecuteOthers ==
    ASSUME TypeInv, NEW w \in Workers, NEW r \in Runs, Execute(w, r)
    PROVE  Others
<1> DEFINE x == exec[w][r]
<1>1. x \in Execs /\ ExecFits(x)
  BY TypeInvAt
<1>2. /\ preempts \in [Workers -> [Runs -> Nat]] /\ faults \in Nat
      /\ effects \in [Runs -> Seq([call : Calls, iter : Nat, approval : Nat])]
  BY DEF TypeInv, TypeOK
<1>3. ASSUME NEW c \in Calls, NEW n \in Nat, NEW a \in Nat, Happens(r, c, n, a)
      PROVE  effects' \in [Runs -> Seq([call : Calls, iter : Nat, approval : Nat])]
  <2>1. [call |-> c, iter |-> n, approval |-> a] \in [call : Calls, iter : Nat, approval : Nat]
    OBVIOUS
  <2> DEFINE E == [call : Calls, iter : Nat, approval : Nat]
  <2> HIDE DEF E
  <2>2. Append(effects[r], [call |-> c, iter |-> n, approval |-> a]) \in Seq(E)
    <3>1. effects[r] \in Seq(E)
      BY <1>2 DEF E
    <3>2. [call |-> c, iter |-> n, approval |-> a] \in E
      BY <2>1 DEF E
    <3>3. QED
      BY <3>1, <3>2, AppendTo
  <2>3. QED
    BY <1>2, <1>3, <2>2 DEF Happens, E
<1>4. CASE \/ ReadRow(w, r) \/ Refuse(w, r) \/ Admit(w, r) \/ ResumeUndecided(w, r)
           \/ ResumeDecided(w, r) \/ Consume(w, r) \/ RedeemChallenge(w, r) \/ Answer(w, r)
           \/ Top(w, r) \/ Checkpoint(w, r) \/ ModelReplies(w, r) \/ ModelYields(w, r)
           \/ (\E c \in Calls : NextCall(w, r, c)) \/ NextIteration(w, r)
           \/ Serve(w, r) \/ Halt(w, r) \/ RecordIntent(w, r) \/ AfterToolCall(w, r)
  <2>1. UNCHANGED <<phase, held, client, faults, approved, preempts, effects>>
    BY <1>4, Zenon DEF ReadRow, Refuse, Admit, ResumeUndecided, ResumeDecided, Consume, RedeemChallenge,
       Answer, Top, Checkpoint, ModelReplies, ModelYields, NextCall, NextIteration, Serve, Halt,
       RecordIntent, AfterToolCall, Rest
  <2>2. QED
    BY <1>2, <2>1 DEF Others
<1>5. CASE Redeem(w, r)
  <2>1. x.decided \in Calls /\ x.base \in Nat /\ x.approval \in Nat
    BY <1>1, <1>5, ExecFields DEF Redeem, ExecFits
  <2>2. UNCHANGED <<phase, held, client, faults, approved, preempts>>
    BY <1>5 DEF Redeem, Rest
  <2>3. UNCHANGED effects \/ Happens(r, x.decided, x.base, x.approval)
    BY <1>5 DEF Redeem
  <2>4. QED
    BY <1>2, <1>3, <2>1, <2>2, <2>3 DEF Others
<1>6. CASE Dispatch(w, r)
  <2>1. x.call \in Calls /\ x.iter \in Nat /\ 0 \in Nat
    BY <1>1, <1>6, ExecFields DEF Dispatch, ExecFits
  <2>2. UNCHANGED <<phase, held, client, faults, approved, preempts>>
    BY <1>6 DEF Dispatch, Rest
  <2>3. UNCHANGED effects \/ Happens(r, x.call, x.iter, 0)
    BY <1>6 DEF Dispatch
  <2>4. QED
    BY <1>2, <1>3, <2>1, <2>2, <2>3 DEF Others
<1>7. CASE Throws(w, r) \/ ExecutorThrows(w, r)
  <2>1. UNCHANGED <<phase, held, client, approved, effects>> /\ faults' = faults + 1
    BY <1>7 DEF Throws, ExecutorThrows, Fault
  <2>2. faults' \in Nat
    BY <1>2, <2>1
  <2>3. preempts' \in [Workers -> [Runs -> Nat]]
    <3>1. UNCHANGED preempts \/ preempts' = [preempts EXCEPT ![w][r] = 0]
      BY <1>7 DEF Throws, ExecutorThrows, Forget
    <3>2. CASE UNCHANGED preempts
      BY <1>2, <3>2
    <3>3. CASE preempts' = [preempts EXCEPT ![w][r] = 0]
      <4>1. 0 \in Nat
        OBVIOUS
      <4>2. QED
        BY <1>2, <3>3, <4>1, TableUpdate
    <3>4. QED
      BY <3>1, <3>2, <3>3
  <2>4. QED
    BY <1>2, <2>1, <2>2, <2>3, Zenon DEF Others
<1>8. CASE \/ EndFenced(w, r) \/ EndCancelled(w, r) \/ EndParked(w, r) \/ EndStopped(w, r)
           \/ EndYielded(w, r) \/ EndReturned(w, r)
  <2>1. UNCHANGED <<phase, held, client, faults, approved, effects>>
    BY <1>8, Zenon DEF EndFenced, EndCancelled, EndParked, EndStopped, EndYielded, EndReturned, Leaves, Rest
  <2>2. \E n \in Nat : preempts' = [preempts EXCEPT ![w][r] = n]
    <3>1. CASE Forget(w, r)
      BY <3>1 DEF Forget
    <3>2. CASE EndYielded(w, r) /\ ~Forget(w, r)
      <4>1. /\ x.stop = "none"
            /\ preempts' = [preempts EXCEPT ![w][r] = IF x.progressed THEN 1 ELSE preempts[w][r] + 1]
        BY <3>2, Zenon DEF EndYielded
      <4>2. (IF x.progressed THEN 1 ELSE preempts[w][r] + 1) \in Nat
        BY <1>2
      <4>3. QED
        BY <4>1, <4>2, Zenon
    <3>3. QED
      BY <1>8, <3>1, <3>2 DEF EndFenced, EndCancelled, EndParked, EndStopped, EndReturned
  <2>3. preempts' \in [Workers -> [Runs -> Nat]]
    BY <1>2, <2>2, TableUpdate
  <2>4. QED
    BY <1>2, <2>1, <2>3 DEF Others
<1>9. QED
  BY <1>4, <1>5, <1>6, <1>7, <1>8 DEF Execute

\* Every step of an execution keeps the invariant.
LEMMA ExecuteTypeInv ==
    ASSUME TypeInv, NEW w \in Workers, NEW r \in Runs, Execute(w, r)
    PROVE  TypeInv'
<1>1. PICK x \in Execs, rw \in Rows :
          /\ ExecFits(x) /\ PendingFits(rw)
          /\ exec' = [exec EXCEPT ![w][r] = x]
          /\ row' = row \/ row' = [row EXCEPT ![r] = rw]
  BY ExecuteMoves DEF Moves
<1>2. Others
  BY ExecuteOthers
<1>3. row' \in [Runs -> Rows] /\ exec' \in [Workers -> [Runs -> Execs]]
  <2>1. row \in [Runs -> Rows] /\ exec \in [Workers -> [Runs -> Execs]]
    BY DEF TypeInv, TypeOK
  <2>2. row' \in [Runs -> Rows]
    BY <1>1, <2>1
  <2>3. exec' \in [Workers -> [Runs -> Execs]]
    BY <1>1, <2>1, TableUpdate
  <2>4. QED
    BY <2>2, <2>3
<1>4. TypeOK'
  BY <1>2, <1>3 DEF TypeInv, TypeOK, Others
<1>5. PendingMatchesStatus'
  BY <1>1 DEF TypeInv, TypeOK, PendingMatchesStatus, PendingFits
<1>6. \A v \in Workers, q \in Runs : ExecFits(exec'[v][q])
  BY <1>1, TableUpdate DEF TypeInv, TypeOK
<1>7. \A c \in Clients : client'[c].pc # "away" => client'[c].run \in Runs
  BY <1>2 DEF TypeInv, Others
<1>8. QED
  BY <1>4, <1>5, <1>6, <1>7 DEF TypeInv, ExecFits

\* A step that updates one row, and at most one execution, keeps the
\* invariant when the new row and the new execution fit.
LEMMA UpdateTypeInv ==
    ASSUME TypeInv, NEW w \in Workers, NEW r \in Runs, NEW rw \in Rows, NEW x \in Execs,
           PendingFits(rw), ExecFits(x),
           row' = row \/ row' = [row EXCEPT ![r] = rw],
           exec' = exec \/ exec' = [exec EXCEPT ![w][r] = x],
           UNCHANGED <<phase, held, client, approved, preempts, effects, faults>>
    PROVE  TypeInv'
<1>1. row \in [Runs -> Rows] /\ exec \in [Workers -> [Runs -> Execs]]
  BY DEF TypeInv, TypeOK
<1>2. row' \in [Runs -> Rows] /\ \A q \in Runs : PendingFits(row'[q])
  BY <1>1 DEF TypeInv, PendingMatchesStatus
<1>3. exec' \in [Workers -> [Runs -> Execs]]
  <2>1. CASE exec' = exec
    BY <1>1, <2>1
  <2>2. CASE exec' = [exec EXCEPT ![w][r] = x]
    BY <1>1, <2>2, TableUpdate
  <2>3. QED
    BY <2>1, <2>2
<1>4. \A v \in Workers, q \in Runs : ExecFits(exec'[v][q])
  BY <1>1, TableUpdate DEF TypeInv
<1>5. TypeOK'
  BY <1>2, <1>3 DEF TypeInv, TypeOK
<1>6. \A c \in Clients : client'[c].pc # "away" => client'[c].run \in Runs
  BY DEF TypeInv
<1>7. QED
  BY <1>2, <1>4, <1>5, <1>6 DEF TypeInv, PendingMatchesStatus, PendingFits, ExecFits

\* A step that updates one row keeps the invariant when the new row fits.
LEMMA RowTypeInv ==
    ASSUME TypeInv, NEW r \in Runs, NEW rw \in Rows, PendingFits(rw),
           row' = [row EXCEPT ![r] = rw],
           UNCHANGED <<exec, phase, held, client, approved, preempts, effects, faults>>
    PROVE  TypeInv'
<1>1. row' \in [Runs -> Rows] /\ \A q \in Runs : PendingFits(row'[q])
  BY DEF TypeInv, TypeOK, PendingMatchesStatus
<1>2. TypeOK'
  BY <1>1 DEF TypeInv, TypeOK
<1>3. QED
  BY <1>1, <1>2 DEF TypeInv, PendingMatchesStatus, PendingFits, ExecFits

\* The requests, the clock and the reclaim keep the invariant.
LEMMA RowActionsTypeInv ==
    ASSUME TypeInv, NEW r \in Runs,
           \/ Enqueue(r) \/ Cancel(r) \/ LeaseExpires(r) \/ DeadlinePasses(r)
           \/ \E w \in Workers : ReclaimStale(w, r)
    PROVE  TypeInv'
<1> DEFINE rw == row[r]
<1>1. /\ rw \in Rows /\ PendingFits(rw) /\ row \in [Runs -> Rows]
      /\ "queued" \in Active /\ {"cancelled", "failed"} \subseteq Terminal
  BY DEF TypeInv, TypeOK, PendingMatchesStatus, Active, Terminal
<1>2. UNCHANGED <<exec, phase, held, client, approved, preempts, effects, faults>>
  BY DEF Enqueue, Cancel, LeaseExpires, DeadlinePasses, ReclaimStale, Rest
<1>3. CASE Enqueue(r)
  <2>1. [rw EXCEPT !.status = "queued"] \in Rows
    BY <1>1, Zenon DEF Rows
  <2>2. PendingFits([rw EXCEPT !.status = "queued"])
    BY <1>1, <1>3 DEF Enqueue, PendingFits, Rows, Terminal
  <2>3. QED
    BY <1>2, <1>3, <2>1, <2>2, RowTypeInv DEF Enqueue
<1>4. CASE Cancel(r)
  BY <1>1, <1>2, <1>4, EndedFits, RowTypeInv DEF Cancel
<1>5. CASE LeaseExpires(r)
  <2>1. [rw EXCEPT !.stale = TRUE] \in Rows
    BY <1>1, Zenon DEF Rows
  <2>2. PendingFits([rw EXCEPT !.stale = TRUE])
    BY <1>1 DEF PendingFits, Rows
  <2>3. QED
    BY <1>2, <1>5, <2>1, <2>2, RowTypeInv DEF LeaseExpires
<1>6. CASE DeadlinePasses(r)
  <2>1. [rw EXCEPT !.overdue = TRUE] \in Rows
    BY <1>1, Zenon DEF Rows
  <2>2. PendingFits([rw EXCEPT !.overdue = TRUE])
    BY <1>1 DEF PendingFits, Rows
  <2>3. QED
    BY <1>2, <1>6, <2>1, <2>2, RowTypeInv DEF DeadlinePasses
<1>7. ASSUME NEW w \in Workers, ReclaimStale(w, r)
      PROVE  TypeInv'
  <2> DEFINE z == [ReleaseLease(rw) EXCEPT !.status = "queued", !.attempts = rw.attempts + 1]
  <2>1. z \in Rows
    <3>1. ASSUME NEW q \in Rows, NEW n \in Nat
          PROVE  [q EXCEPT !.status = "queued", !.attempts = n] \in Rows
      BY Zenon DEF Rows, Active
    <3>2. ReleaseLease(rw) \in Rows
      BY <1>1 DEF ReleaseLease, Rows
    <3>3. rw.attempts + 1 \in Nat
      BY <1>1, RowFields
    <3>4. QED
      BY <3>1, <3>2, <3>3
  <2>2. PendingFits(z)
    BY <1>1, <1>7 DEF PendingFits, ReleaseLease, Terminal, Rows, ReclaimStale
  <2>3. CASE rw.attempts >= MaxAttempts
    BY <1>1, <1>2, <1>7, <2>3, EndedFits, RowTypeInv DEF ReclaimStale
  <2>4. CASE ~(rw.attempts >= MaxAttempts)
    <3>1. row' = [row EXCEPT ![r] = z]
      BY <1>7, <2>4 DEF ReclaimStale
    <3>2. QED
      BY <1>2, <2>1, <2>2, <3>1, RowTypeInv
  <2>5. QED
    BY <2>3, <2>4
<1>8. QED
  BY <1>3, <1>4, <1>5, <1>6, <1>7

\* Claiming a row and beating on it keep the invariant.
LEMMA LeaseActionsTypeInv ==
    ASSUME TypeInv, NEW w \in Workers, NEW r \in Runs, Claim(w, r) \/ Heartbeat(w, r)
    PROVE  TypeInv'
<1> DEFINE x == exec[w][r]
           rw == row[r]
<1>1. x \in Execs /\ ExecFits(x) /\ rw \in Rows /\ PendingFits(rw)
  BY TypeInvAt
<1>2. UNCHANGED <<phase, held, client, approved, preempts, effects, faults>>
  BY DEF Claim, Heartbeat, Rest
<1>3. CASE Claim(w, r)
  <2> DEFINE y == [Idle EXCEPT !.pc = "launched", !.lease = rw.claims + 1]
             z == [rw EXCEPT !.status = "running", !.claimedBy = w, !.claims = @ + 1,
                             !.claimedAt = rw.claims + 1, !.stale = FALSE, !.started = TRUE]
  <2>1. rw.claims + 1 \in Nat
    BY <1>1, RowFields
  <2>2. y \in Execs
    BY <2>1, IdleType, SetPcLease DEF PCs
  <2>3. ExecFits(y)
    BY DEF ExecFits, Idle
  <2>4. z \in Rows
    <3>1. ASSUME NEW q \in Rows, NEW n \in Nat
          PROVE  [q EXCEPT !.status = "running", !.claimedBy = w, !.claims = n, !.claimedAt = n,
                           !.stale = FALSE, !.started = TRUE] \in Rows
      BY Zenon DEF Rows, Active
    <3>2. QED
      BY <1>1, <2>1, <3>1
  <2>5. PendingFits(z)
    BY <1>1, <1>3 DEF Claim, PendingFits, Rows, Terminal
  <2>6. row' = [row EXCEPT ![r] = z] /\ exec' = [exec EXCEPT ![w][r] = y]
    BY <1>3 DEF Claim, Become, TypeInv, TypeOK
  <2>7. QED
    BY <1>2, <2>2, <2>3, <2>4, <2>5, <2>6, UpdateTypeInv
<1>4. CASE Heartbeat(w, r)
  <2>1. Beat(rw) \in Rows /\ PendingFits(Beat(rw))
    BY <1>1 DEF Beat, Rows, PendingFits
  <2>2. ASSUME NEW s \in StopReasons, s # "parked", x.pc # "idle"
        PROVE  LET y == [x EXCEPT !.stop = FirstStop(x, s)] IN y \in Execs /\ ExecFits(y)
    <3>1. [x EXCEPT !.stop = FirstStop(x, s)] \in Execs
      BY <1>1, FirstStopType, SetStop
    <3>2. ExecFits([x EXCEPT !.stop = FirstStop(x, s)])
      BY <1>1, <2>2 DEF ExecFits, FirstStop, Execs
    <3>3. QED
      BY <3>1, <3>2
  <2>3. CASE Observed(w, r) = "none"
    <3>1. row' = [row EXCEPT ![r] = Beat(rw)] /\ exec' = exec
      BY <1>4, <2>3 DEF Heartbeat
    <3>2. QED
      BY <1>2, <2>1, <3>1, RowTypeInv
  <2>4. CASE Observed(w, r) # "none"
    <3>1. PICK s \in {Observed(w, r), "fenced"} :
              Become(w, r, [x EXCEPT !.stop = FirstStop(x, s)]) /\ row' = row /\ x.pc # "idle"
      BY <1>4, <2>4 DEF Heartbeat
    <3>2. s \in StopReasons /\ s # "parked"
      BY <2>4, <3>1, ObservedType DEF StopReasons
    <3>3. QED
      BY <1>1, <1>2, <2>2, <3>1, <3>2, UpdateTypeInv DEF Become
  <2>5. QED
    BY <2>3, <2>4
<1>5. QED
  BY <1>3, <1>4

\* A person's page and decision keep the invariant.
LEMMA ClientTypeInv ==
    ASSUME TypeInv, NEW c \in Clients,
           \/ \E r \in Runs : View(c, r)
           \/ \E d \in {"approved", "denied"} : DecideRead(c, d)
           \/ DecideRefused(c) \/ DecideWrite(c)
    PROVE  TypeInv'
<1> DEFINE Pages == [pc : {"away", "viewing", "checked"}, run : Runs \cup {None},
                     shown : Calls \cup {None}, checked : Calls \cup {None},
                     decision : {"none", "approved", "denied"}]
           Approvals == [call : Calls, shown : Calls \cup {None}, checked : Calls \cup {None}]
           r0 == client[c].run
<1>1. /\ client \in [Clients -> Pages] /\ row \in [Runs -> Rows]
      /\ approved \in [Runs -> Seq(Approvals)]
  BY DEF TypeInv, TypeOK
<1>2. client[c] \in Pages /\ (client[c].pc # "away" => r0 \in Runs)
  BY <1>1 DEF TypeInv
<1>3. Away \in Pages /\ Away.pc = "away"
  BY DEF Away
<1>4. ASSUME UNCHANGED <<row, exec, phase, held, preempts, approved, effects, faults>>,
             NEW p \in Pages, p.pc # "away" => p.run \in Runs, client' = [client EXCEPT ![c] = p]
      PROVE  TypeInv'
  <2>1. client' \in [Clients -> Pages]
    BY <1>1, <1>4
  <2>2. TypeOK'
    BY <1>4, <2>1 DEF TypeInv, TypeOK
  <2>3. \A e \in Clients : client'[e].pc # "away" => client'[e].run \in Runs
    BY <1>1, <1>4 DEF TypeInv
  <2>4. QED
    BY <1>4, <2>2, <2>3 DEF TypeInv, PendingMatchesStatus, PendingFits, ExecFits
<1>5. ASSUME NEW r \in Runs, View(c, r) PROVE TypeInv'
  <2> DEFINE p == [Away EXCEPT !.pc = "viewing", !.run = r, !.shown = row[r].pending]
  <2>1. p \in Pages /\ p.run \in Runs
    BY <1>1, <1>3, RowFields DEF Away
  <2>2. QED
    BY <1>4, <1>5, <2>1 DEF View
<1>6. ASSUME NEW d \in {"approved", "denied"}, DecideRead(c, d) PROVE TypeInv'
  <2> DEFINE p == [client[c] EXCEPT !.pc = "checked", !.checked = row[r0].pending, !.decision = d]
  <2>1. r0 \in Runs /\ row[r0].pending \in Calls \cup {None}
    BY <1>1, <1>2, <1>6, RowFields DEF DecideRead
  <2>2. p \in Pages /\ p.run \in Runs
    BY <1>2, <2>1
  <2>3. client' = [client EXCEPT ![c] = p]
    BY <1>1, <1>6 DEF DecideRead
  <2>4. QED
    BY <1>4, <1>6, <2>2, <2>3 DEF DecideRead
<1>7. CASE DecideRefused(c)
  BY <1>3, <1>4, <1>7 DEF DecideRefused
<1>8. CASE DecideWrite(c)
  <2> DEFINE d == client[c].decision
             n == Len(approved[r0]) + 1
             lands == row[r0].status = "awaiting_confirmation"
             rw == [row[r0] EXCEPT !.status = "queued", !.pendingDecision = d,
                                   !.approval = IF d = "approved" THEN n ELSE 0]
             a == [call |-> row[r0].pending, shown |-> client[c].shown, checked |-> client[c].checked]
  <2>1. /\ r0 \in Runs /\ d \in {"none", "approved", "denied"}
        /\ approved[r0] \in Seq(Approvals) /\ row[r0] \in Rows /\ PendingFits(row[r0])
    BY <1>1, <1>2, <1>8 DEF DecideWrite, TypeInv, PendingMatchesStatus
  <2>2. /\ row' = row \/ (lands /\ row' = [row EXCEPT ![r0] = rw])
        /\ approved' = approved \/ (lands /\ approved' = [approved EXCEPT ![r0] = Append(@, a)])
        /\ client' = [client EXCEPT ![c] = Away]
        /\ UNCHANGED <<exec, phase, held, preempts, effects, faults>>
    BY <1>8 DEF DecideWrite
  <2>3. lands => a \in Approvals
    BY <1>2, <2>1, RowFields DEF PendingFits
  <2>4. approved' \in [Runs -> Seq(Approvals)]
    <3>1. lands => Append(approved[r0], a) \in Seq(Approvals)
      BY <2>1, <2>3, AppendTo
    <3> HIDE DEF lands, a
    <3>2. QED
      BY <1>1, <2>1, <2>2, <3>1
  <2>5. rw \in Rows
    <3>1. (IF d = "approved" THEN n ELSE 0) \in Nat
      BY <2>1
    <3>2. ASSUME NEW q \in Rows, NEW e \in {"none", "approved", "denied"}, NEW m \in Nat
          PROVE  [q EXCEPT !.status = "queued", !.pendingDecision = e, !.approval = m] \in Rows
      BY Zenon DEF Rows, Active
    <3>3. QED
      BY <2>1, <3>1, <3>2
  <2>6. lands => PendingFits(rw)
    BY <2>1 DEF PendingFits, Rows, Terminal
  <2>7. row' \in [Runs -> Rows] /\ \A q \in Runs : PendingFits(row'[q])
    <3> HIDE DEF lands, rw
    <3>1. QED
      BY <1>1, <2>1, <2>2, <2>5, <2>6 DEF TypeInv, PendingMatchesStatus
  <2>8. client' \in [Clients -> Pages] /\ \A e \in Clients : client'[e].pc # "away" => client'[e].run \in Runs
    BY <1>1, <1>3, <2>2 DEF TypeInv
  <2>9. TypeOK'
    BY <2>2, <2>4, <2>7, <2>8 DEF TypeInv, TypeOK
  <2>10. PendingMatchesStatus'
    BY <2>7, Zenon DEF PendingMatchesStatus, PendingFits
  <2>11. \A v \in Workers, q \in Runs : ExecFits(exec'[v][q])
    BY <2>2, Zenon DEF TypeInv
  <2>12. QED
    BY <2>8, <2>9, <2>10, <2>11, Zenon DEF TypeInv
<1>9. QED
  BY <1>5, <1>6, <1>7, <1>8

\* Shutdown, exit and crash keep the invariant.
LEMMA ProcessTypeInv ==
    ASSUME TypeInv, NEW w \in Workers,
           ReleaseAll(w) \/ Exit(w) \/ Crash(w) \/ \E r \in Runs : ReleaseRow(w, r)
    PROVE  TypeInv'
<1>1. /\ row \in [Runs -> Rows] /\ exec \in [Workers -> [Runs -> Execs]]
      /\ phase \in [Workers -> {"up", "draining", "exited", "crashed"}]
      /\ held \in [Workers -> [Runs -> Nat]] /\ preempts \in [Workers -> [Runs -> Nat]] /\ faults \in Nat
      /\ \A v \in Workers, r \in Runs : ExecFits(exec[v][r])
  BY DEF TypeInv, TypeOK
<1>2. Idle \in Execs /\ ExecFits(Idle)
  BY IdleType DEF Idle, ExecFits
<1>3. ASSUME NEW f \in [Runs -> Execs], \A r \in Runs : ExecFits(f[r]), exec' = [exec EXCEPT ![w] = f],
             phase' \in [Workers -> {"up", "draining", "exited", "crashed"}],
             held' \in [Workers -> [Runs -> Nat]], preempts' \in [Workers -> [Runs -> Nat]],
             faults' \in Nat, UNCHANGED <<row, client, approved, effects>>
      PROVE  TypeInv'
  <2>1. exec' \in [Workers -> [Runs -> Execs]] /\ \A v \in Workers, r \in Runs : ExecFits(exec'[v][r])
    BY <1>1, <1>3
  <2>2. TypeOK'
    BY <1>3, <2>1 DEF TypeInv, TypeOK
  <2>3. QED
    BY <1>3, <2>1, <2>2 DEF TypeInv, PendingMatchesStatus, PendingFits, ExecFits
<1>4. CASE ReleaseAll(w)
  <2> DEFINE f == [r \in Runs |-> IF exec[w][r].pc = "idle" THEN Idle
                                  ELSE [exec[w][r] EXCEPT !.stop = FirstStop(exec[w][r], "fenced")]]
  <2>1. ASSUME NEW r \in Runs PROVE f[r] \in Execs /\ ExecFits(f[r])
    <3> DEFINE x == exec[w][r]
    <3>1. x \in Execs /\ ExecFits(x) /\ FirstStop(x, "fenced") \in StopReasons
      BY <1>1, FirstStopType DEF StopReasons
    <3>2. [x EXCEPT !.stop = FirstStop(x, "fenced")] \in Execs
      BY <3>1, SetStop
    <3>3. ExecFits([x EXCEPT !.stop = FirstStop(x, "fenced")])
      BY <3>1 DEF ExecFits, FirstStop, Execs
    <3>4. QED
      BY <1>2, <3>2, <3>3
  <2>2. f \in [Runs -> Execs] /\ \A r \in Runs : ExecFits(f[r])
    BY <2>1
  <2>3. exec' = [exec EXCEPT ![w] = f]
    BY <1>4 DEF ReleaseAll
  <2>4. [r \in Runs |-> exec[w][r].lease] \in [Runs -> Nat]
    BY <1>1, ExecFields
  <2>5. /\ phase' \in [Workers -> {"up", "draining", "exited", "crashed"}]
        /\ held' \in [Workers -> [Runs -> Nat]] /\ preempts' \in [Workers -> [Runs -> Nat]]
        /\ faults' \in Nat /\ UNCHANGED <<row, client, approved, effects>>
    BY <1>1, <1>4, <2>4 DEF ReleaseAll, Fault
  <2> HIDE DEF f
  <2>6. QED
    BY <1>3, <2>2, <2>3, <2>5
<1>5. CASE Exit(w) \/ Crash(w)
  <2> DEFINE f == [r \in Runs |-> Idle]
  <2>1. f \in [Runs -> Execs] /\ \A r \in Runs : ExecFits(f[r])
    BY <1>2
  <2>2. exec' = [exec EXCEPT ![w] = f]
    BY <1>5 DEF Exit, Crash, Down
  <2>3. /\ phase' \in [Workers -> {"up", "draining", "exited", "crashed"}]
        /\ held' \in [Workers -> [Runs -> Nat]] /\ preempts' \in [Workers -> [Runs -> Nat]]
        /\ faults' \in Nat /\ UNCHANGED <<row, client, approved, effects>>
    <3> DEFINE zero == [r \in Runs |-> 0]
    <3>1. zero \in [Runs -> Nat]
      OBVIOUS
    <3>2. /\ held' = [held EXCEPT ![w] = zero] /\ preempts' = [preempts EXCEPT ![w] = zero]
          /\ UNCHANGED <<row, client, approved, effects>>
      BY <1>5 DEF Exit, Crash, Down
    <3>3. \E how \in {"exited", "crashed"} : phase' = [phase EXCEPT ![w] = how]
      BY <1>5 DEF Exit, Crash, Down
    <3>4. faults' \in Nat
      BY <1>1, <1>5 DEF Exit, Crash, Fault
    <3> HIDE DEF zero
    <3>5. QED
      BY <1>1, <3>1, <3>2, <3>3, <3>4
  <2> HIDE DEF f
  <2>4. QED
    BY <1>3, <2>1, <2>2, <2>3
<1>6. ASSUME NEW r \in Runs, ReleaseRow(w, r)
      PROVE  TypeInv'
  <2> DEFINE z == [ReleaseLease(row[r]) EXCEPT !.status = "queued"]
  <2>1. row[r] \in Rows /\ PendingFits(row[r])
    BY TypeInvAt
  <2>2. z \in Rows
    <3>1. ASSUME NEW q \in Rows PROVE [q EXCEPT !.status = "queued"] \in Rows
      BY Zenon DEF Rows, Active
    <3>2. ReleaseLease(row[r]) \in Rows
      BY <2>1 DEF ReleaseLease, Rows
    <3>3. QED
      BY <3>1, <3>2
  <2>3. row[r].status = "running" => PendingFits(z)
    BY <2>1 DEF PendingFits, ReleaseLease, Terminal, Rows
  <2>4. /\ row' = row \/ (row[r].status = "running" /\ row' = [row EXCEPT ![r] = z])
        /\ held' = [held EXCEPT ![w][r] = 0]
        /\ UNCHANGED <<exec, phase, preempts, client, approved, effects, faults>>
    BY <1>6 DEF ReleaseRow
  <2> HIDE DEF z
  <2>5. row' \in [Runs -> Rows] /\ \A q \in Runs : PendingFits(row'[q])
    BY <1>1, <2>1, <2>2, <2>3, <2>4 DEF TypeInv, PendingMatchesStatus
  <2>6. held' \in [Workers -> [Runs -> Nat]]
    BY <1>1, <2>4, TableUpdate
  <2>7. TypeOK'
    BY <2>4, <2>5, <2>6 DEF TypeInv, TypeOK
  <2>8. QED
    BY <2>4, <2>5, <2>7 DEF TypeInv, PendingMatchesStatus, PendingFits, ExecFits
<1>7. QED
  BY <1>4, <1>5, <1>6

\* The invariant holds initially.
LEMMA InitTypeInv == Init => TypeInv
<1> SUFFICES ASSUME Init PROVE TypeInv
  OBVIOUS
<1>1. NoRow \in Rows /\ PendingFits(NoRow)
  BY Zenon DEF NoRow, Rows, PendingFits, Terminal
<1>2. Idle \in Execs /\ ExecFits(Idle)
  BY IdleType DEF Idle, ExecFits
<1>3. TypeOK
  BY <1>1, <1>2 DEF Init, TypeOK, Away
<1>4. PendingMatchesStatus
  BY <1>1 DEF Init, PendingMatchesStatus
<1>5. QED
  BY <1>2, <1>3, <1>4 DEF Init, TypeInv, Away

\* Every step keeps the invariant.
LEMMA NextTypeInv == TypeInv /\ [Next]_vars => TypeInv'
<1> SUFFICES ASSUME TypeInv, [Next]_vars PROVE TypeInv'
  OBVIOUS
<1>1. CASE Next
  BY <1>1, RowActionsTypeInv, ClientTypeInv, LeaseActionsTypeInv, ExecuteTypeInv, ProcessTypeInv DEF Next
<1>2. CASE UNCHANGED vars
  BY <1>2 DEF vars, TypeInv, TypeOK, PendingMatchesStatus, PendingFits, ExecFits
<1>3. QED
  BY <1>1, <1>2

\* Every row, execution and history keeps its type: in particular every entry
\* of a trace and every write in the world names a call.
THEOREM TypeCorrect == Spec => []TypeOK
<1>1. TypeInv => TypeOK
  BY DEF TypeInv
<1>2. QED
  BY <1>1, InitTypeInv, NextTypeInv, PTL DEF Spec

\* A parked row holds a call, no decision and no lease; a decision waits only
\* on a row that will be or is being executed, and dies with a terminal one.
THEOREM PendingCorrect == Spec => []PendingMatchesStatus
<1>1. TypeInv => PendingMatchesStatus
  BY DEF TypeInv
<1>2. QED
  BY <1>1, InitTypeInv, NextTypeInv, PTL DEF Spec

-----------------------------------------------------------------------------
(* A finished run stays finished *)

\* A step of an execution writes only a row that runs, or leaves its status.
LEMMA ExecuteStatus ==
    ASSUME TypeInv, NEW w \in Workers, NEW r \in Runs, Execute(w, r)
    PROVE  row' = row \/ \E z : /\ row' = [row EXCEPT ![r] = z]
                                /\ row[r].status = "running" \/ z.status = row[r].status
<1>1. ASSUME NEW rw, Finish(w, r, rw)
      PROVE  row' = row \/ \E z : row' = [row EXCEPT ![r] = z] /\ row[r].status = "running"
  BY <1>1, Zenon DEF Finish, Owns
<1>2. CASE \/ ReadRow(w, r) \/ ResumeUndecided(w, r) \/ ResumeDecided(w, r) \/ RedeemChallenge(w, r)
           \/ Redeem(w, r) \/ Top(w, r) \/ ModelReplies(w, r) \/ ModelYields(w, r)
           \/ (\E c \in Calls : NextCall(w, r, c)) \/ NextIteration(w, r) \/ Dispatch(w, r)
           \/ Throws(w, r) \/ EndFenced(w, r) \/ ExecutorThrows(w, r)
  BY <1>2, Zenon DEF ReadRow, ResumeUndecided, ResumeDecided, RedeemChallenge, Redeem, Top,
     ModelReplies, ModelYields, NextCall, NextIteration, Dispatch, Throws, EndFenced, ExecutorThrows
<1>3. CASE \/ Refuse(w, r) \/ Admit(w, r) \/ Consume(w, r) \/ Answer(w, r) \/ Checkpoint(w, r)
           \/ Serve(w, r) \/ Halt(w, r) \/ RecordIntent(w, r) \/ AfterToolCall(w, r)
           \/ EndParked(w, r) \/ EndStopped(w, r) \/ EndYielded(w, r) \/ EndReturned(w, r)
  <2>1. row' = row \/ \E rw : Finish(w, r, rw)
    BY <1>3, Zenon DEF Refuse, Admit, Consume, Answer, Checkpoint, Serve, Halt, RecordIntent,
       AfterToolCall, EndParked, EndStopped, EndYielded, EndReturned, FencedStep
  <2>2. QED
    BY <1>1, <2>1
<1>4. CASE EndCancelled(w, r)
  <2> DEFINE z == [ClearPending(row[r]) EXCEPT !.iteration = Reached(exec[w][r])]
  <2>1. row[r] \in Rows
    BY TypeInvAt
  <2>2. z.status = row[r].status
    BY <2>1 DEF ClearPending, Rows
  <2>3. row' = row \/ row' = [row EXCEPT ![r] = z]
    BY <1>4 DEF EndCancelled
  <2>4. QED
    BY <2>2, <2>3
<1>5. QED
  BY <1>2, <1>3, <1>4 DEF Execute

\* A finished run stays finished: no late write of an execution, a reclaim, a
\* release or a decision brings it back.
THEOREM FinalStays == Spec => TerminalIsFinal
<1>1. ASSUME TypeInv, Next, NEW q \in Runs, row[q].status \in Terminal
      PROVE  row'[q].status = row[q].status
  <2> DEFINE Kept == row'[q].status = row[q].status
  <2>1. row \in [Runs -> Rows] /\ row[q].status \notin Active \cup {"absent"}
    BY <1>1 DEF TypeInv, TypeOK, Active, Terminal
  <2>2. ASSUME NEW r \in Runs, Enqueue(r) \/ Cancel(r) \/ LeaseExpires(r) \/ DeadlinePasses(r) PROVE Kept
    BY <2>1, <2>2 DEF Enqueue, Cancel, LeaseExpires, DeadlinePasses, Active
  <2>3. ASSUME NEW c \in Clients,
               \/ \E r \in Runs : View(c, r)
               \/ \E d \in {"approved", "denied"} : DecideRead(c, d)
               \/ DecideRefused(c) \/ DecideWrite(c)
        PROVE  Kept
    BY <2>1, <2>3 DEF View, DecideRead, DecideRefused, DecideWrite, Active
  <2>4. ASSUME NEW w \in Workers, NEW r \in Runs,
               ReclaimStale(w, r) \/ Claim(w, r) \/ ReleaseRow(w, r)
        PROVE  Kept
    BY <2>1, <2>4 DEF ReclaimStale, Claim, ReleaseRow, Active
  <2>5. ASSUME NEW w \in Workers, NEW r \in Runs, Heartbeat(w, r) PROVE Kept
    <3>1. row' = row \/ (row' = [row EXCEPT ![r] = Beat(row[r])] /\ row[r].status = "running")
      BY <2>5 DEF Heartbeat, Observed, Owns
    <3>2. QED
      BY <2>1, <3>1 DEF Active
  <2>6. ASSUME NEW w \in Workers, NEW r \in Runs, Execute(w, r) PROVE Kept
    BY <1>1, <2>1, <2>6, ExecuteStatus DEF Active
  <2>7. ASSUME NEW w \in Workers, ReleaseAll(w) \/ Exit(w) \/ Crash(w) PROVE Kept
    BY <2>7 DEF ReleaseAll, Exit, Crash, Down
  <2>8. QED
    BY <1>1, <2>2, <2>3, <2>4, <2>5, <2>6, <2>7 DEF Next
<1>2. TypeInv /\ [Next]_vars
      => [\A r \in Runs : row[r].status \in Terminal => row'[r].status = row[r].status]_vars
  BY <1>1
<1>3. QED
  BY <1>2, InitTypeInv, NextTypeInv, PTL DEF Spec, TerminalIsFinal

=============================================================================

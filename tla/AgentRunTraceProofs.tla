------------------------ MODULE AgentRunTraceProofs -------------------------
(***************************************************************************)
(* What the durable trace is worth, for every set of runs, workers and     *)
(* calls: it names every write a run ever made, it holds every answer of   *)
(* the checkpointed conversation, it stops an ungated write from being     *)
(* made twice, and it loses nothing from one write to the next.            *)
(***************************************************************************)
EXTENDS AgentRunProofs

-----------------------------------------------------------------------------
(* Traces *)

\* The trace has an entry for call c of iteration n.
Names(tr, c, n) == \E e \in tr : e.call = c /\ e.iter = n

\* It has one whose outcome is recorded.
Completes(tr, c, n) == \E e \in tr : e.call = c /\ e.iter = n /\ e.text # "absent"

\* An approved call dispatched and lost, that no person was asked about again.
Lost(e) == e.confirmation = "confirmed" /\ e.text = "absent" /\ ~e.unknownOutcome

LostFree(tr) == \A e \in tr : ~Lost(e)

\* Decisions and challenges are on gated calls.
GatedOnly(tr) == \A e \in tr : e.confirmation # "none" \/ e.text = "challenge" => e.call \in Gated

\* Whatever trace s names or completes, trace t does too.
Covers(t, s) ==
    \A e \in s : \E f \in t : /\ f.call = e.call /\ f.iter = e.iter
                              /\ e.text # "absent" => f.text # "absent"

-----------------------------------------------------------------------------
(* The inductive invariant *)

\* The pcs of an execution that has taken up a decided call, and of the loop.
Deciding == {"consume", "leg1", "leg2", "answer"}
Looping == {"top", "checkpoint", "model", "calls", "guard", "dispatch", "after"}

\* A row loses at most one approved call, at its checkpoint, and waits for no
\* decision meanwhile; its conversation is traced.
RowTraced(rw) ==
    /\ \A e \in rw.trace : Lost(e) => /\ rw.pending = None
                                      /\ rw.status \notin Terminal => e.iter = rw.iteration
                                      /\ \A f \in rw.trace : Lost(f) => f = e
    /\ \A a \in rw.messages : Completes(rw.trace, a.call, a.iter)
    /\ GatedOnly(rw.trace)
    /\ rw.pending \in Gated \cup {None}

\* What any execution knows, a zombie's included: the call it may dispatch is
\* in the durable trace tr.
ExecTraced(x, tr) ==
    /\ GatedOnly(x.trace)
    /\ x.decided \in Gated \cup {None} /\ x.park \in Gated \cup {None}
    /\ x.pc = "after" /\ x.text = "challenge" => x.call \in Gated
    /\ x.pc \in {"after", "answer"} => x.text # "absent"
    /\ x.pc \in {"leg1", "leg2"} => Names(tr, x.decided, x.base)
    /\ x.pc = "dispatch" => Names(tr, x.call, x.iter)

\* What the execution that holds the lease knows: its memory is the row's
\* trace, but for the decided call it is about to write; it is not behind the
\* checkpoint; and inside the loop no approved call is lost.
OwnerTraced(x, rw) ==
    /\ x.pc \in {"admit", "resume"} \cup Deciding \cup Looping =>
          /\ rw.iteration <= x.iter
          /\ \A a \in x.messages : Completes(rw.trace, a.call, a.iter)
    /\ x.pc \in {"admit", "resume"} \cup Deciding => x.base = rw.iteration
    /\ x.pc \in {"admit", "resume"} => x.trace = rw.trace /\ (x.decided # None => rw.pending # None)
    /\ x.pc \in Deciding => /\ x.trace = rw.trace \cup {DecidedEntry(x)}
                            /\ \A e \in rw.trace : Lost(e) => e = DecidedEntry(x)
    /\ x.pc \in Looping => x.trace = rw.trace /\ LostFree(rw.trace)
    /\ x.stop = "parked" => Covers(x.trace, rw.trace) /\ LostFree(x.trace)

\* Every write made is named.
EffectsTraced(r) == \A i \in DOMAIN effects[r] : Names(row[r].trace, effects[r][i].call, effects[r][i].iter)

\* Executions x about to make the ungated write c of iteration n.
AboutTo(x, c, n) == x.pc = "dispatch" /\ x.call = c /\ x.iter = n

\* An ungated write about to be made was not made, and nobody else is about to
\* make it.
Fresh(w, r) ==
    LET x == exec[w][r] IN
    x.pc = "dispatch" /\ x.call \in Ungated =>
        /\ \A i \in DOMAIN effects[r] : ~(effects[r][i].call = x.call /\ effects[r][i].iter = x.iter)
        /\ \A v \in Workers \ {w} : ~AboutTo(exec[v][r], x.call, x.iter)

\* The inductive invariant behind the properties of the trace.
TraceInv ==
    /\ \A r \in Runs : RowTraced(row[r]) /\ EffectsTraced(r)
    /\ \A w \in Workers, r \in Runs :
          /\ ExecTraced(exec[w][r], row[r].trace)
          /\ Owns(w, r) => OwnerTraced(exec[w][r], row[r])
          /\ Fresh(w, r)
    /\ UngatedOncePerIteration

-----------------------------------------------------------------------------
(* What the writes of the actions do to a trace *)

\* A trace covers itself, and covering carries names and outcomes over.
LEMMA CoversFacts ==
    ASSUME NEW s, NEW t
    PROVE  /\ Covers(s, s)
           /\ Covers(t, s) => \A c, n : /\ Names(s, c, n) => Names(t, c, n)
                                        /\ Completes(s, c, n) => Completes(t, c, n)
BY DEF Covers, Names, Completes

\* A trace that grows covers what it was.
LEMMA CoversMore ==
    ASSUME NEW s, NEW t, s \subseteq t
    PROVE  Covers(t, s)
BY DEF Covers

\* Completing an entry whose outcome was absent covers the trace before.
LEMMA CompletedCovers ==
    ASSUME NEW s, NEW e, NEW f, e.text = "absent", f.call = e.call, f.iter = e.iter
    PROVE  Covers((s \ {e}) \cup {f}, s)
BY DEF Covers

\* Marking an entry covers the trace, adds no lost call and loses that one.
LEMMA MarkTraced ==
    ASSUME NEW tr \in SUBSET Entries, NEW e \in tr
    PROVE  /\ Covers(Mark(tr, e), tr)
           /\ GatedOnly(tr) => GatedOnly(Mark(tr, e))
           /\ \A f \in Mark(tr, e) : Lost(f) => f \in tr /\ f # e
<1> DEFINE g == [e EXCEPT !.unknownOutcome = TRUE]
<1>1. /\ g.call = e.call /\ g.iter = e.iter /\ g.text = e.text /\ g.confirmation = e.confirmation
      /\ g.unknownOutcome = TRUE
  BY DEF Entries
<1> HIDE DEF g
<1>2. Mark(tr, e) = (tr \ {e}) \cup {g}
  BY DEF Mark, g
<1>3. QED
  BY <1>1, <1>2 DEF Covers, GatedOnly, Lost

\* The fields of the entries the actions write: of the decided call,
LEMMA DecidedFields ==
    ASSUME NEW x
    PROVE  /\ DecidedEntry(x).call = x.decided /\ DecidedEntry(x).iter = x.base
           /\ DecidedEntry(x).text = "absent" /\ DecidedEntry(x).confirmation # "none"
BY DEF DecidedEntry

\* of the decided call answered,
LEMMA CompletedFields ==
    ASSUME NEW x, NEW t
    PROVE  /\ [DecidedEntry(x) EXCEPT !.text = t].call = x.decided
           /\ [DecidedEntry(x) EXCEPT !.text = t].iter = x.base
           /\ [DecidedEntry(x) EXCEPT !.text = t].text = t
BY DEF DecidedEntry

\* and of a call of the loop, before and after its answer.
LEMMA IntentFields ==
    ASSUME NEW x, NEW t
    PROVE  /\ Intent(x).call = x.call /\ Intent(x).iter = x.iter
           /\ Intent(x).text = "absent" /\ Intent(x).confirmation = "none"
           /\ [Intent(x) EXCEPT !.text = t].call = x.call
           /\ [Intent(x) EXCEPT !.text = t].iter = x.iter
           /\ [Intent(x) EXCEPT !.text = t].text = t
           /\ [Intent(x) EXCEPT !.text = t].confirmation = "none"
BY DEF Intent

-----------------------------------------------------------------------------
(* Steps of one execution *)

\* The durable trace of a row that changes from a to b loses nothing, and the
\* checkpoint of a row that goes on does not go back.
Advanced(a, b) ==
    /\ Covers(b.trace, a.trace)
    /\ b.status \notin Terminal => a.iteration <= b.iteration

Advances == \A q \in Runs : Advanced(row[q], row'[q])

\* An execution that knows nothing of the run: at rest, launched, or over.
Bare(x) ==
    /\ x.pc \in {"idle", "launched", "end"} /\ x.stop # "parked"
    /\ x.trace = {} /\ x.decided = None /\ x.park = None

\* A bare execution claims nothing of the trace and dispatches nothing.
LEMMA BareTraced ==
    ASSUME NEW x, Bare(x), NEW tr, NEW rw
    PROVE  ExecTraced(x, tr) /\ OwnerTraced(x, rw) /\ x.pc # "dispatch"
BY DEF Bare, ExecTraced, OwnerTraced, GatedOnly, Deciding, Looping

\* The end of the loop is bare, unless it parks.
LEMMA OverBare ==
    ASSUME NEW x, NEW s, NEW t, NEW n, x.stop # "parked"
    PROVE  /\ s # "parked" => Bare(Over(x, s, t, n)) /\ Bare(StoppedBy(x, s))
           /\ Over(x, s, t, n).lease = x.lease /\ StoppedBy(x, s).lease = x.lease
           /\ Bare(Returns(x, t, n)) /\ Returns(x, t, n).lease = x.lease
           /\ Bare(Idle)
<1>1. ASSUME NEW a, NEW b, NEW c
      PROVE  /\ a # "parked" => Bare(Over(x, a, b, c))
             /\ Over(x, a, b, c).lease = x.lease
  <2>1. CASE a = "fenced"
    BY <2>1 DEF Over, Idle, Bare
  <2>2. CASE a = "parked"
    BY <2>2 DEF Over, Idle, Bare
  <2>3. CASE a \notin {"fenced", "parked"}
    BY <2>3 DEF Over, Idle, Bare
  <2>4. QED
    BY <2>1, <2>2, <2>3
<1>2. QED
  BY <1>1 DEF StoppedBy, Returns, FirstStop, Bare, Idle

\* An ungated write that the execution y is newly about to make is not in the
\* trace.
NewDispatch(x, y, tr) ==
    y.pc = "dispatch" /\ y.call \in Ungated =>
        AboutTo(x, y.call, y.iter) \/ ~Names(tr, y.call, y.iter)

\* A step of execution w of run r that makes no write in the world keeps the
\* invariant, given what it does to its row and to its own state.
LEMMA StepTraced ==
    ASSUME TypeInv, TraceInv, NEW w \in Workers, NEW r \in Runs, NEW rw, NEW y,
           UNCHANGED effects,
           row' = [row EXCEPT ![r] = rw], exec' = [exec EXCEPT ![w][r] = y],
           rw = row[r] \/ (rw.status = "running" => rw.claimedBy = w),
           Advanced(row[r], rw), RowTraced(rw), ExecTraced(y, rw.trace),
           rw.status = "running" /\ rw.claimedBy = w /\ rw.claimedAt = y.lease => OwnerTraced(y, rw),
           NewDispatch(exec[w][r], y, row[r].trace)
    PROVE  TraceInv' /\ Advances
<1>1. row \in [Runs -> Rows] /\ exec \in [Workers -> [Runs -> Execs]]
  BY DEF TypeInv, TypeOK
<1>2. row'[r] = rw /\ \A q \in Runs \ {r} : row'[q] = row[q]
  BY <1>1
<1>3. exec'[w][r] = y /\ \A v \in Workers, q \in Runs : v # w \/ q # r => exec'[v][q] = exec[v][q]
  BY <1>1
<1>4. ASSUME NEW q \in Runs PROVE Advanced(row[q], row'[q])
  BY <1>1, <1>2, CoversFacts, RowFields DEF Advanced
<1>5. ASSUME NEW q \in Runs, NEW c, NEW n, Names(row[q].trace, c, n) PROVE Names(row'[q].trace, c, n)
  BY <1>4, <1>5, CoversFacts DEF Advanced
<1>6. ASSUME NEW q \in Runs PROVE RowTraced(row[q])' /\ EffectsTraced(q)'
  BY <1>2, <1>5 DEF TraceInv, EffectsTraced
<1>7. ASSUME NEW v \in Workers, NEW q \in Runs PROVE ExecTraced(exec'[v][q], row'[q].trace)
  <2>1. CASE v = w /\ q = r
    BY <1>2, <1>3, <2>1
  <2>2. CASE v # w \/ q # r
    BY <1>3, <1>5, <2>2 DEF TraceInv, ExecTraced
  <2>3. QED
    BY <2>1, <2>2
<1>8. ASSUME NEW v \in Workers, NEW q \in Runs, Owns(v, q)' PROVE OwnerTraced(exec'[v][q], row'[q])
  <2>1. CASE v = w /\ q = r
    BY <1>2, <1>3, <1>8, <2>1 DEF Owns
  <2>2. CASE q # r
    BY <1>2, <1>3, <1>8, <2>2 DEF TraceInv, Owns
  <2>3. CASE v # w /\ q = r
    BY <1>2, <1>3, <1>8, <2>3 DEF TraceInv, Owns
  <2>4. QED
    BY <2>1, <2>2, <2>3
<1>9. ASSUME NEW v \in Workers, NEW q \in Runs PROVE Fresh(v, q)'
  <2>1. CASE q # r
    BY <1>3, <2>1 DEF TraceInv, Fresh
  <2>2. CASE v = w /\ q = r
    BY <1>3, <2>2 DEF TraceInv, Fresh, NewDispatch, AboutTo, EffectsTraced, ExecTraced
  <2>3. CASE v # w /\ q = r
    BY <1>3, <2>3 DEF TraceInv, Fresh, NewDispatch, AboutTo, EffectsTraced, ExecTraced
  <2>4. QED
    BY <2>1, <2>2, <2>3
<1>10. UngatedOncePerIteration'
  BY DEF TraceInv, UngatedOncePerIteration
<1>11. QED
  BY <1>4, <1>6, <1>7, <1>8, <1>9, <1>10 DEF TraceInv, Advances

\* A row covers itself.
LEMMA AdvancedSelf ==
    ASSUME NEW rw \in Rows
    PROVE  Advanced(rw, rw)
BY CoversFacts, RowFields DEF Advanced

\* A step of an execution that leaves the row alone.
LEMMA BecomeTraced ==
    ASSUME TypeInv, TraceInv, NEW w \in Workers, NEW r \in Runs, NEW y,
           UNCHANGED <<row, effects>>, Become(w, r, y),
           \/ Bare(y)
           \/ /\ y.lease = exec[w][r].lease
              /\ ExecTraced(y, row[r].trace)
              /\ Owns(w, r) => OwnerTraced(y, row[r])
              /\ NewDispatch(exec[w][r], y, row[r].trace)
    PROVE  TraceInv' /\ Advances
<1>1. row' = [row EXCEPT ![r] = row[r]] /\ row[r] \in Rows
  BY DEF TypeInv, TypeOK
<1>2. RowTraced(row[r]) /\ Advanced(row[r], row[r])
  BY <1>1, AdvancedSelf DEF TraceInv
<1>3. CASE Bare(y)
  <2>1. ExecTraced(y, row[r].trace) /\ OwnerTraced(y, row[r]) /\ NewDispatch(exec[w][r], y, row[r].trace)
    BY <1>3, BareTraced DEF NewDispatch
  <2>2. QED
    BY <1>1, <1>2, <2>1, StepTraced DEF Become
<1>4. CASE ~Bare(y)
  BY <1>1, <1>2, <1>4, StepTraced DEF Become, Owns
<1>5. QED
  BY <1>3, <1>4

\* A fenced write: what it does under the lease; without it, the execution is
\* over and knows nothing.
LEMMA FencedTraced ==
    ASSUME TypeInv, TraceInv, NEW w \in Workers, NEW r \in Runs, NEW rw, NEW y,
           UNCHANGED effects, FencedStep(w, r, rw, y), exec[w][r].stop # "parked",
           Owns(w, r) => /\ Advanced(row[r], rw) /\ RowTraced(rw)
                         /\ rw.claimedBy = row[r].claimedBy
                         /\ ExecTraced(y, rw.trace) /\ OwnerTraced(y, rw)
                         /\ NewDispatch(exec[w][r], y, row[r].trace)
    PROVE  TraceInv' /\ Advances
<1>1. CASE Owns(w, r)
  BY <1>1, StepTraced DEF FencedStep, Finish, Become, Owns
<1>2. CASE ~Owns(w, r)
  <2>1. Bare(StoppedBy(exec[w][r], "fenced"))
    BY OverBare
  <2>2. QED
    BY <1>2, <2>1, BecomeTraced DEF FencedStep, Finish
<1>3. QED
  BY <1>1, <1>2

\* The row changes in what the trace says nothing about.
SameTrace(a, b) ==
    /\ b.trace = a.trace /\ b.messages = a.messages
    /\ b.pending = a.pending \/ b.pending = None
    /\ b.status \notin Terminal => a.status \notin Terminal /\ b.iteration = a.iteration

\* A row write that keeps the trace fields keeps what the invariant says of the row.
LEMMA SameTraced ==
    ASSUME NEW a \in Rows, NEW b, SameTrace(a, b), RowTraced(a)
    PROVE  RowTraced(b) /\ Advanced(a, b)
BY CoversFacts, RowFields DEF SameTrace, RowTraced, Advanced

\* The last write of an execution.
LEMMA FinishTraced ==
    ASSUME TypeInv, TraceInv, NEW w \in Workers, NEW r \in Runs, NEW rw,
           UNCHANGED effects, Finish(w, r, rw), Become(w, r, Idle),
           Owns(w, r) => RowTraced(rw) /\ Advanced(row[r], rw) /\ rw.status # "running"
    PROVE  TraceInv' /\ Advances
<1>1. Bare(Idle)
  BY DEF Bare, Idle
<1>2. CASE Owns(w, r)
  <2>1. ExecTraced(Idle, rw.trace) /\ NewDispatch(exec[w][r], Idle, row[r].trace)
    BY <1>1, BareTraced DEF NewDispatch
  <2>2. QED
    BY <1>2, <2>1, StepTraced DEF Finish, Become
<1>3. CASE ~Owns(w, r)
  BY <1>1, <1>3, BecomeTraced DEF Finish
<1>4. QED
  BY <1>2, <1>3

\* The execution moves on without touching what the trace says.
MovesOn(x, y) ==
    /\ y.lease = x.lease /\ y.base = x.base /\ y.trace = x.trace /\ y.messages = x.messages
    /\ y.decided = x.decided /\ y.decision = x.decision /\ y.park = x.park
    /\ y.stop = "parked" => x.stop = "parked"
    /\ \/ y.pc = x.pc /\ y.iter = x.iter /\ y.text = x.text /\ y.call = x.call
       \/ x.pc = "admit" /\ y.pc = "resume" /\ y.iter = x.iter
       \/ x.pc = "leg1" /\ y.pc = "leg2" /\ y.iter = x.iter
       \/ x.pc \in {"leg1", "leg2"} /\ y.pc = "answer" /\ y.iter = x.iter /\ y.text # "absent"
       \/ x.pc \in Looping /\ y.pc \in Looping \ {"dispatch", "after"} /\ y.iter >= x.iter

\* An execution that only moves on within its loop keeps what it knows of the trace.
LEMMA MovesOnTraced ==
    ASSUME NEW x \in Execs, NEW y, MovesOn(x, y), y.iter \in Nat, NEW rw \in Rows
    PROVE  /\ ExecTraced(x, rw.trace) => ExecTraced(y, rw.trace)
           /\ OwnerTraced(x, rw) => OwnerTraced(y, rw)
           /\ NewDispatch(x, y, rw.trace)
<1>1. x.iter \in Nat /\ rw.iteration \in Nat
  BY ExecFields, RowFields
<1>2. DecidedEntry(y) = DecidedEntry(x)
  BY DEF MovesOn, DecidedEntry
<1>3. ExecTraced(x, rw.trace) => ExecTraced(y, rw.trace)
  BY DEF MovesOn, ExecTraced, Looping
<1>4. ASSUME OwnerTraced(x, rw) PROVE OwnerTraced(y, rw)
  <2>1. x.pc \in {"admit", "resume"} \cup Deciding \cup Looping =>
          rw.iteration <= y.iter \/ y.pc \notin {"admit", "resume"} \cup Deciding \cup Looping
    BY <1>1, <1>4 DEF MovesOn, OwnerTraced, Deciding, Looping
  <2>2. QED
    BY <1>2, <1>4, <2>1 DEF MovesOn, OwnerTraced, Deciding, Looping
<1>5. NewDispatch(x, y, rw.trace)
  BY DEF MovesOn, NewDispatch, AboutTo, Looping
<1>6. QED
  BY <1>3, <1>4, <1>5

\* A step that only moves on.
LEMMA MoveTraced ==
    ASSUME TypeInv, TraceInv, NEW w \in Workers, NEW r \in Runs, NEW y,
           UNCHANGED <<row, effects>>, Become(w, r, y), MovesOn(exec[w][r], y), y.iter \in Nat
    PROVE  TraceInv' /\ Advances
<1>1. exec[w][r] \in Execs /\ row[r] \in Rows
  BY TypeInvAt
<1>2. ExecTraced(exec[w][r], row[r].trace) /\ (Owns(w, r) => OwnerTraced(exec[w][r], row[r]))
  BY DEF TraceInv
<1>3. QED
  BY <1>1, <1>2, MovesOnTraced, BecomeTraced DEF MovesOn

\* The terminal writes, and the yield, say nothing about the trace.
LEMMA EndedSame ==
    ASSUME NEW rw \in Rows, NEW s \in Terminal, NEW n
    PROVE  /\ SameTrace(rw, Ended(rw, s)) /\ Ended(rw, s).status = s
           /\ SameTrace(rw, [Ended(rw, s) EXCEPT !.iteration = n])
           /\ [Ended(rw, s) EXCEPT !.iteration = n].status = s
BY DEF SameTrace, Ended, ClearPending, Rows

\* A terminal write ends the run and keeps the invariant.
LEMMA EndedTraced ==
    ASSUME TypeInv, TraceInv, NEW w \in Workers, NEW r \in Runs, NEW rw, UNCHANGED effects,
           Finish(w, r, rw), Become(w, r, Idle),
           Owns(w, r) => SameTrace(row[r], rw) /\ rw.status # "running"
    PROVE  TraceInv' /\ Advances
<1>1. row[r] \in Rows /\ RowTraced(row[r])
  BY TypeInvAt DEF TraceInv
<1>2. QED
  BY <1>1, SameTraced, FinishTraced

\* Admission: the row is read under the lease, or the execution leaves.
LEMMA AdmissionTraced ==
    ASSUME TypeInv, TraceInv, NEW w \in Workers, NEW r \in Runs,
           ReadRow(w, r) \/ Refuse(w, r) \/ Admit(w, r)
    PROVE  TraceInv' /\ Advances
<1> DEFINE x == exec[w][r]
           rw == row[r]
<1>1. /\ x \in Execs /\ ExecFits(x) /\ rw \in Rows /\ RowTraced(rw) /\ ExecTraced(x, rw.trace)
      /\ "failed" \in Terminal /\ "failed" # "running" /\ rw.iteration \in Nat /\ x.iter \in Nat
  BY TypeInvAt, RowFields, ExecFields DEF TraceInv, Terminal
<1>2. UNCHANGED effects /\ Bare(Idle)
  BY DEF ReadRow, Refuse, Admit, Bare, Idle
<1>3. CASE ReadRow(w, r)
  <2> DEFINE isDecided == rw.pending # None /\ rw.pendingDecision # "none"
             y == [x EXCEPT !.pc = "admit", !.base = rw.iteration, !.iter = rw.iteration,
                            !.trace = rw.trace, !.messages = rw.messages,
                            !.decided = IF isDecided THEN rw.pending ELSE None,
                            !.decision = IF isDecided THEN rw.pendingDecision ELSE "none",
                            !.approval = IF isDecided THEN rw.approval ELSE 0]
  <2>1. /\ x.pc = "launched" /\ UNCHANGED row
        /\ Become(w, r, IF Owns(w, r) THEN y ELSE Idle)
    BY <1>3, Zenon DEF ReadRow
  <2>2. /\ y.pc = "admit" /\ y.lease = x.lease /\ y.base = rw.iteration /\ y.iter = rw.iteration
        /\ y.trace = rw.trace /\ y.messages = rw.messages /\ y.park = x.park /\ y.stop = x.stop
        /\ y.decided = None \/ (y.decided = rw.pending /\ rw.pending # None)
    BY <1>1 DEF Execs
  <2> HIDE DEF y
  <2>3. ExecTraced(y, rw.trace) /\ NewDispatch(x, y, rw.trace)
    BY <1>1, <2>2 DEF ExecTraced, RowTraced, NewDispatch
  <2>4. OwnerTraced(y, rw)
    BY <1>1, <2>1, <2>2 DEF OwnerTraced, RowTraced, ExecFits, Deciding, Looping
  <2>5. QED
    BY <1>2, <2>1, <2>2, <2>3, <2>4, BecomeTraced
<1>4. CASE Refuse(w, r)
  BY <1>1, <1>2, <1>4, EndedSame, EndedTraced DEF Refuse
<1>5. CASE Admit(w, r)
  <2>1. CASE x.base >= MaxIter
    BY <1>1, <1>2, <1>5, <2>1, EndedSame, EndedTraced DEF Admit
  <2>2. CASE ~(x.base >= MaxIter)
    <3> DEFINE y == [x EXCEPT !.pc = "resume"]
    <3>1. MovesOn(x, y) /\ y.iter \in Nat
      BY <1>1, <1>5 DEF Admit, MovesOn, Execs
    <3>2. UNCHANGED row /\ (Become(w, r, y) \/ Become(w, r, Idle))
      BY <1>5, <2>2 DEF Admit
    <3> HIDE DEF y
    <3>3. QED
      BY <1>2, <3>1, <3>2, MoveTraced, BecomeTraced
  <2>3. QED
    BY <2>1, <2>2
<1>6. QED
  BY <1>3, <1>4, <1>5

\* What the fenced writes of the loop change in the row.
LEMMA TraceWrites ==
    ASSUME NEW rw \in Rows, NEW tr
    PROVE  LET z == [Beat(rw) EXCEPT !.trace = tr]
           IN  /\ z.trace = tr /\ z.messages = rw.messages /\ z.iteration = rw.iteration
               /\ z.pending = rw.pending /\ z.status = rw.status /\ z.claimedBy = rw.claimedBy
BY DEF Beat, Rows

\* What the checkpoint changes.
LEMMA CheckpointWrites ==
    ASSUME NEW rw \in Rows, NEW ms, NEW n
    PROVE  LET z == [Beat(rw) EXCEPT !.iteration = n, !.messages = ms]
           IN  /\ z.trace = rw.trace /\ z.messages = ms /\ z.iteration = n
               /\ z.pending = rw.pending /\ z.status = rw.status /\ z.claimedBy = rw.claimedBy
BY DEF Beat, Rows

\* What consuming the approval changes.
LEMMA ConsumeWrites ==
    ASSUME NEW rw \in Rows, NEW tr
    PROVE  LET z == [Beat(ClearPending(rw)) EXCEPT !.trace = tr]
           IN  /\ z.trace = tr /\ z.messages = rw.messages /\ z.iteration = rw.iteration
               /\ z.pending = None /\ z.status = rw.status /\ z.claimedBy = rw.claimedBy
BY DEF Beat, ClearPending, Rows

\* What the answer of the decided call changes.
LEMMA AnswerWrites ==
    ASSUME NEW rw \in Rows, NEW tr, NEW ms, NEW n
    PROVE  LET z == [Beat(ClearPending(rw)) EXCEPT !.trace = tr, !.messages = ms, !.iteration = n]
           IN  /\ z.trace = tr /\ z.messages = ms /\ z.iteration = n
               /\ z.pending = None /\ z.status = rw.status /\ z.claimedBy = rw.claimedBy
BY DEF Beat, ClearPending, Rows

\* Resuming without a decision: the loop is entered only when no approved call
\* is lost, and the one lost call is marked and put to the person again.
LEMMA ResumeUndecidedTraced ==
    ASSUME TypeInv, TraceInv, NEW w \in Workers, NEW r \in Runs, ResumeUndecided(w, r)
    PROVE  TraceInv' /\ Advances
<1> DEFINE x == exec[w][r]
           rw == row[r]
<1>1. /\ x \in Execs /\ ExecFits(x) /\ rw \in Rows /\ RowTraced(rw) /\ ExecTraced(x, rw.trace)
      /\ x.trace \in SUBSET Entries
      /\ x.pc = "resume" /\ x.stop # "parked"
      /\ UNCHANGED <<row, effects>>
  BY TypeInvAt, ExecFields DEF TraceInv, ResumeUndecided, ExecFits
<1>2. Owns(w, r) => OwnerTraced(x, rw) /\ rw.status \notin Terminal
  BY DEF TraceInv, Owns, Terminal
<1>3. CASE LostApproved(x) = {} /\ Become(w, r, [x EXCEPT !.pc = "top"])
  <2> DEFINE y == [x EXCEPT !.pc = "top"]
  <2>1. /\ y.pc = "top" /\ y.lease = x.lease /\ y.iter = x.iter /\ y.trace = x.trace
        /\ y.messages = x.messages /\ y.decided = x.decided /\ y.park = x.park /\ y.stop = x.stop
    BY <1>1 DEF Execs
  <2> HIDE DEF y
  <2>2. ExecTraced(y, rw.trace) /\ NewDispatch(x, y, rw.trace)
    BY <1>1, <2>1 DEF ExecTraced, NewDispatch
  <2>3. ASSUME Owns(w, r) PROVE OwnerTraced(y, rw)
    <3>1. LostFree(rw.trace)
      BY <1>1, <1>2, <1>3, <2>3 DEF OwnerTraced, RowTraced, LostApproved, LostFree, Lost
    <3>2. QED
      BY <1>1, <1>2, <2>1, <2>3, <3>1 DEF OwnerTraced, Deciding, Looping
  <2>4. QED
    BY <1>1, <1>3, <2>1, <2>2, <2>3, BecomeTraced DEF y
<1>4. ASSUME NEW e \in LostApproved(x),
             Become(w, r, StoppedBy([x EXCEPT !.trace = Mark(x.trace, e), !.park = e.call], "parked"))
      PROVE  TraceInv' /\ Advances
  <2> DEFINE z == [x EXCEPT !.trace = Mark(x.trace, e), !.park = e.call]
             y == StoppedBy(z, "parked")
  <2>1. e \in x.trace /\ Lost(e) /\ e.confirmation # "none"
    BY DEF LostApproved, Lost
  <2>2. z.trace = Mark(x.trace, e) /\ z.park = e.call /\ z.lease = x.lease /\ z.stop = x.stop
    BY <1>1 DEF Execs
  <2>3. CASE x.stop # "none"
    <3>1. Bare(y)
      <4>1. y = Over(z, x.stop, "none", 0)
        BY <2>2, <2>3 DEF StoppedBy, FirstStop
      <4>2. z.stop # "parked" /\ x.stop # "parked"
        BY <1>1, <2>2
      <4> HIDE DEF z, y
      <4>3. QED
        BY <4>1, <4>2, OverBare
    <3>2. QED
      BY <1>1, <1>4, <3>1, BecomeTraced
  <2>4. CASE x.stop = "none"
    <3> HIDE DEF z
    <3>1. /\ y.pc = "end" /\ y.stop = "parked" /\ y.lease = x.lease /\ y.trace = Mark(x.trace, e)
          /\ y.park = e.call /\ y.decided = None /\ y.messages = {}
      BY <2>2, <2>4 DEF StoppedBy, FirstStop, Over, Idle
    <3>2. e.call \in Gated
      BY <1>1, <2>1 DEF ExecTraced, GatedOnly
    <3>3. /\ Covers(Mark(x.trace, e), x.trace) /\ GatedOnly(Mark(x.trace, e))
          /\ \A f \in Mark(x.trace, e) : Lost(f) => f \in x.trace /\ f # e
      BY <1>1, <2>1, MarkTraced DEF ExecTraced
    <3> HIDE DEF y
    <3>4. ExecTraced(y, rw.trace) /\ NewDispatch(x, y, rw.trace)
      BY <3>1, <3>2, <3>3 DEF ExecTraced, NewDispatch
    <3>5. ASSUME Owns(w, r) PROVE OwnerTraced(y, rw)
      <4>1. x.trace = rw.trace
        BY <1>1, <1>2, <3>5 DEF OwnerTraced
      <4>2. LostFree(y.trace)
        BY <1>1, <2>1, <3>1, <3>3, <4>1 DEF RowTraced, LostFree
      <4>3. QED
        BY <3>1, <3>3, <4>1, <4>2 DEF OwnerTraced, Deciding, Looping
    <3>6. QED
      BY <1>1, <1>4, <3>1, <3>4, <3>5, BecomeTraced DEF y, z
  <2>5. QED
    BY <2>3, <2>4
<1>5. QED
  BY <1>3, <1>4 DEF ResumeUndecided

\* Taking up a decision pushes the decided call on the trace in memory.
LEMMA ResumeDecidedTraced ==
    ASSUME TypeInv, TraceInv, NEW w \in Workers, NEW r \in Runs, ResumeDecided(w, r)
    PROVE  TraceInv' /\ Advances
<1> DEFINE x == exec[w][r]
           rw == row[r]
           p == [x EXCEPT !.trace = @ \cup {DecidedEntry(x)}]
           y == [p EXCEPT !.text = "error", !.pc = "answer"]
           z == [p EXCEPT !.pc = "consume"]
<1>1. /\ x \in Execs /\ ExecFits(x) /\ rw \in Rows /\ RowTraced(rw) /\ ExecTraced(x, rw.trace)
      /\ x.pc = "resume" /\ x.stop # "parked" /\ x.decided # None
      /\ UNCHANGED <<row, effects>>
  BY TypeInvAt DEF TraceInv, ResumeDecided, ExecFits
<1>2. Owns(w, r) => OwnerTraced(x, rw)
  BY DEF TraceInv
<1>3. \/ Observed(w, r) # "none" /\ Become(w, r, StoppedBy(x, Observed(w, r)))
      \/ Become(w, r, y)
      \/ Become(w, r, z)
  BY Zenon DEF ResumeDecided
<1>4. /\ y.pc = "answer" /\ y.text = "error" /\ y.lease = x.lease /\ y.iter = x.iter /\ y.base = x.base
      /\ y.trace = x.trace \cup {DecidedEntry(x)} /\ y.messages = x.messages /\ y.decided = x.decided
      /\ y.decision = x.decision /\ y.park = x.park /\ y.stop = x.stop
      /\ z.pc = "consume" /\ z.lease = x.lease /\ z.iter = x.iter /\ z.base = x.base
      /\ z.trace = x.trace \cup {DecidedEntry(x)} /\ z.messages = x.messages /\ z.decided = x.decided
      /\ z.decision = x.decision /\ z.park = x.park /\ z.stop = x.stop
  BY <1>1 DEF Execs
<1> HIDE DEF y, z
<1>5. DecidedEntry(y) = DecidedEntry(x) /\ DecidedEntry(z) = DecidedEntry(x)
  BY <1>4 DEF DecidedEntry
<1>6. GatedOnly(x.trace \cup {DecidedEntry(x)})
  BY <1>1, DecidedFields DEF ExecTraced, GatedOnly
<1>7. /\ ExecTraced(y, rw.trace) /\ NewDispatch(x, y, rw.trace)
      /\ ExecTraced(z, rw.trace) /\ NewDispatch(x, z, rw.trace)
  BY <1>1, <1>4, <1>6 DEF ExecTraced, NewDispatch
<1>8. Owns(w, r) => OwnerTraced(y, rw) /\ OwnerTraced(z, rw)
  BY <1>1, <1>2, <1>4, <1>5 DEF OwnerTraced, RowTraced, Deciding, Looping
<1>9. Observed(w, r) # "none" => Bare(StoppedBy(x, Observed(w, r)))
  BY <1>1, OverBare, ObservedType
<1>10. QED
  BY <1>1, <1>3, <1>4, <1>7, <1>8, <1>9, BecomeTraced

\* The decided call is written and the approval taken off the row.
LEMMA ConsumeTraced ==
    ASSUME TypeInv, TraceInv, NEW w \in Workers, NEW r \in Runs, Consume(w, r)
    PROVE  TraceInv' /\ Advances
<1> DEFINE x == exec[w][r]
           rw == row[r]
           y == [x EXCEPT !.pc = "leg1"]
           z == [Beat(ClearPending(rw)) EXCEPT !.trace = x.trace]
<1>1. /\ x \in Execs /\ ExecFits(x) /\ rw \in Rows /\ RowTraced(rw) /\ ExecTraced(x, rw.trace)
      /\ x.pc = "consume" /\ x.stop # "parked" /\ UNCHANGED effects /\ rw.iteration \in Nat
      /\ FencedStep(w, r, z, y)
  BY TypeInvAt, RowFields DEF TraceInv, Consume, ExecFits
<1>2. /\ z.trace = x.trace /\ z.messages = rw.messages /\ z.iteration = rw.iteration
      /\ z.pending = None /\ z.status = rw.status /\ z.claimedBy = rw.claimedBy
  BY <1>1, ConsumeWrites
<1>3. /\ y.pc = "leg1" /\ y.iter = x.iter /\ y.base = x.base
      /\ y.trace = x.trace /\ y.messages = x.messages /\ y.decided = x.decided
      /\ y.decision = x.decision /\ y.park = x.park /\ y.stop = x.stop
  BY <1>1 DEF Execs
<1> HIDE DEF y, z
<1>4. ASSUME Owns(w, r)
      PROVE  /\ Advanced(rw, z) /\ RowTraced(z) /\ ExecTraced(y, z.trace) /\ OwnerTraced(y, z)
             /\ NewDispatch(x, y, rw.trace)
  <2>1. OwnerTraced(x, rw) /\ DecidedEntry(y) = DecidedEntry(x)
    BY <1>3, <1>4 DEF TraceInv, DecidedEntry
  <2>2. /\ x.trace = rw.trace \cup {DecidedEntry(x)} /\ x.base = rw.iteration
        /\ rw.iteration <= x.iter
        /\ \A a \in x.messages : Completes(rw.trace, a.call, a.iter)
        /\ \A e \in x.trace : Lost(e) => e = DecidedEntry(x)
    BY <1>1, <2>1 DEF OwnerTraced, Deciding
  <2>3. Covers(x.trace, rw.trace)
    BY <2>2, CoversMore
  <2>4. \A c, n : Completes(rw.trace, c, n) => Completes(x.trace, c, n)
    BY <2>3, CoversFacts
  <2>5. RowTraced(z)
    BY <1>1, <1>2, <2>2, <2>4, DecidedFields DEF RowTraced, ExecTraced
  <2>6. Names(x.trace, x.decided, x.base)
    BY <2>2, DecidedFields DEF Names
  <2>7. ExecTraced(y, z.trace) /\ NewDispatch(x, y, rw.trace)
    BY <1>1, <1>2, <1>3, <2>6 DEF ExecTraced, NewDispatch
  <2>8. OwnerTraced(y, z)
    BY <1>1, <1>2, <1>3, <2>1, <2>2, <2>4 DEF OwnerTraced, Deciding, Looping
  <2>9. QED
    BY <1>1, <1>2, <2>3, <2>5, <2>7, <2>8 DEF Advanced
<1>5. QED
  BY <1>1, <1>2, <1>4, FencedTraced

\* The first leg only moves on.
LEMMA RedeemChallengeTraced ==
    ASSUME TypeInv, TraceInv, NEW w \in Workers, NEW r \in Runs, RedeemChallenge(w, r)
    PROVE  TraceInv' /\ Advances
<1> DEFINE x == exec[w][r]
           y == [x EXCEPT !.pc = "leg2"]
           z == [x EXCEPT !.pc = "answer", !.text = "error"]
<1>1. x \in Execs /\ x.iter \in Nat
  BY TypeInvAt, ExecFields
<1>2. UNCHANGED <<row, effects>> /\ x.pc = "leg1" /\ (Become(w, r, y) \/ Become(w, r, z))
  BY DEF RedeemChallenge
<1>3. MovesOn(x, y) /\ MovesOn(x, z) /\ y.iter \in Nat /\ z.iter \in Nat
  BY <1>1, <1>2 DEF MovesOn, Execs
<1> HIDE DEF y, z
<1>4. QED
  BY <1>2, <1>3, MoveTraced

\* The decided call is answered: its entry completed, the checkpoint advanced.
LEMMA AnswerTraced ==
    ASSUME TypeInv, TraceInv, NEW w \in Workers, NEW r \in Runs, Answer(w, r)
    PROVE  TraceInv' /\ Advances
<1> DEFINE x == exec[w][r]
           rw == row[r]
           e == DecidedEntry(x)
           f == [e EXCEPT !.text = x.text]
           a == [call |-> x.decided, iter |-> x.base]
           y == [x EXCEPT !.trace = (@ \ {e}) \cup {f}, !.messages = @ \cup {a},
                          !.base = @ + 1, !.iter = x.base + 1]
           t == [Answered(y) EXCEPT !.pc = "top"]
           z == IF x.text = "ok" /\ x.decided \in Proposals THEN StoppedBy(y, "proposed")
                ELSE IF y.base >= MaxIter THEN Returns(y, "limit", y.base)
                ELSE t
           rz == [Beat(ClearPending(rw)) EXCEPT !.trace = y.trace, !.messages = y.messages, !.iteration = y.base]
<1>1. /\ x \in Execs /\ ExecFits(x) /\ rw \in Rows /\ RowTraced(rw) /\ ExecTraced(x, rw.trace)
      /\ rw.iteration \in Nat /\ x.base \in Nat
  BY TypeInvAt, RowFields, ExecFields DEF TraceInv
<1>2. x.pc = "answer" /\ UNCHANGED effects /\ FencedStep(w, r, rz, z)
  BY Zenon DEF Answer
<1>3. x.stop # "parked" /\ x.decided # None /\ x.text # "absent" /\ x.decided \in Gated
  BY <1>1, <1>2 DEF ExecFits, ExecTraced
<1>4. /\ e.call = x.decided /\ e.iter = x.base /\ e.text = "absent"
      /\ f.call = x.decided /\ f.iter = x.base /\ f.text = x.text
  BY DecidedFields, CompletedFields
<1> HIDE DEF e, f
<1>5. /\ y.trace = (x.trace \ {e}) \cup {f} /\ y.messages = x.messages \cup {a}
      /\ y.base = x.base + 1 /\ y.iter = x.base + 1 /\ y.stop = x.stop /\ y.park = x.park
      /\ y.lease = x.lease
  BY <1>1 DEF Execs
<1>6. /\ t.pc = "top" /\ t.trace = y.trace /\ t.messages = y.messages /\ t.iter = y.iter
      /\ t.stop = y.stop /\ t.park = y.park /\ t.decided = None
  BY <1>1 DEF Answered, Execs
<1> HIDE DEF y
<1>7. /\ rz.trace = y.trace /\ rz.messages = y.messages /\ rz.iteration = y.base
      /\ rz.pending = None /\ rz.status = rw.status /\ rz.claimedBy = rw.claimedBy
  BY <1>1, AnswerWrites
<1> HIDE DEF rz, t
<1>8. z = t \/ Bare(z)
  BY <1>3, <1>5, OverBare
<1> HIDE DEF z
<1>9. ASSUME Owns(w, r)
      PROVE  /\ Advanced(rw, rz) /\ RowTraced(rz) /\ ExecTraced(z, rz.trace) /\ OwnerTraced(z, rz)
             /\ NewDispatch(x, z, rw.trace)
  <2>1. OwnerTraced(x, rw)
    BY <1>9 DEF TraceInv
  <2>2. /\ x.trace = rw.trace \cup {e} /\ x.base = rw.iteration
        /\ \A b \in x.messages : Completes(rw.trace, b.call, b.iter)
        /\ \A g \in x.trace : Lost(g) => g = e
    BY <1>2, <2>1 DEF OwnerTraced, Deciding, e
  <2>3. Covers(y.trace, x.trace)
    BY <1>4, <1>5, CompletedCovers
  <2>4. Covers(y.trace, rw.trace)
    BY <2>2, <2>3 DEF Covers
  <2>5. Completes(y.trace, x.decided, x.base)
    BY <1>3, <1>4, <1>5 DEF Completes
  <2>6. \A b \in rw.messages \cup y.messages : Completes(y.trace, b.call, b.iter)
    BY <1>1, <1>5, <2>2, <2>4, <2>5, CoversFacts DEF RowTraced
  <2>7. LostFree(y.trace) /\ GatedOnly(y.trace)
    BY <1>1, <1>3, <1>4, <1>5, <2>2 DEF LostFree, Lost, ExecTraced, GatedOnly
  <2>8. rw.iteration <= rz.iteration /\ rz.iteration <= t.iter
    BY <1>1, <1>5, <1>6, <1>7, <2>2
  <2>9. RowTraced(rz) /\ Advanced(rw, rz)
    <3>1. Advanced(rw, rz)
      BY <1>7, <2>8, <2>4 DEF Advanced
    <3>2. RowTraced(rz)
      BY <1>7, <2>6, <2>7 DEF RowTraced, LostFree
    <3>3. QED
      BY <3>1, <3>2
  <2>10. ExecTraced(t, rz.trace) /\ OwnerTraced(t, rz) /\ t.pc # "dispatch"
    <3>1. t.stop # "parked" /\ t.park \in Gated \cup {None} /\ t.trace = rz.trace
      BY <1>1, <1>3, <1>5, <1>6, <1>7 DEF ExecTraced
    <3>2. ExecTraced(t, rz.trace)
      BY <1>6, <2>7, <3>1 DEF ExecTraced
    <3>3. OwnerTraced(t, rz)
      BY <1>6, <1>7, <2>8, <2>6, <2>7, <3>1 DEF OwnerTraced, Deciding, Looping
    <3>4. QED
      BY <1>6, <3>2, <3>3
  <2>11. ExecTraced(z, rz.trace) /\ OwnerTraced(z, rz) /\ z.pc # "dispatch"
    BY <1>8, <2>10, BareTraced
  <2>12. QED
    BY <2>9, <2>11 DEF NewDispatch
<1>10. QED
  BY <1>2, <1>3, <1>7, <1>9, FencedTraced

\* The steps of the loop that leave the trace alone.
LEMMA LoopMovesTraced ==
    ASSUME TypeInv, TraceInv, NEW w \in Workers, NEW r \in Runs,
           \/ Top(w, r) \/ ModelReplies(w, r) \/ ModelYields(w, r)
           \/ (\E c \in Calls : NextCall(w, r, c)) \/ NextIteration(w, r) \/ Throws(w, r)
    PROVE  TraceInv' /\ Advances
<1> DEFINE x == exec[w][r]
<1>1. x \in Execs /\ ExecFits(x) /\ x.iter \in Nat /\ x.iter + 1 \in Nat
  BY TypeInvAt, ExecFields
<1>2. UNCHANGED <<row, effects>>
  BY DEF Top, ModelReplies, ModelYields, NextCall, NextIteration, Throws
<1>3. x.stop # "parked"
  BY <1>1 DEF ExecFits, Top, ModelReplies, ModelYields, NextCall, NextIteration, Throws, Driving
<1>4. \A t, n : Bare(Returns(x, t, n))
  BY <1>3, OverBare
<1>5. Observed(w, r) # "none" => Bare(StoppedBy(x, Observed(w, r)))
  BY <1>3, OverBare, ObservedType
<1>6. ASSUME NEW y, Become(w, r, y), Bare(y) \/ (MovesOn(x, y) /\ y.iter \in Nat)
      PROVE  TraceInv' /\ Advances
  BY <1>2, <1>6, BecomeTraced, MoveTraced
<1>7. CASE Top(w, r)
  <2> DEFINE y == [x EXCEPT !.pc = "checkpoint", !.progressed = @ \/ x.iter > x.base]
  <2>1. MovesOn(x, y) /\ y.iter \in Nat
    BY <1>1, <1>7 DEF Top, MovesOn, Looping, Execs
  <2>2. \/ Become(w, r, Returns(x, "aborted", x.iter))
        \/ Observed(w, r) # "none" /\ Become(w, r, StoppedBy(x, Observed(w, r)))
        \/ Become(w, r, y)
    BY <1>7, Zenon DEF Top
  <2> HIDE DEF y
  <2>3. QED
    BY <1>4, <1>5, <1>6, <2>1, <2>2
<1>8. CASE ModelReplies(w, r)
  <2> DEFINE y == [x EXCEPT !.pc = "calls"]
  <2>1. MovesOn(x, y) /\ y.iter \in Nat
    BY <1>1, <1>8 DEF ModelReplies, MovesOn, Looping, Execs
  <2>2. (\E t, n : Become(w, r, Returns(x, t, n))) \/ Become(w, r, y)
    BY <1>8, Zenon DEF ModelReplies
  <2> HIDE DEF y
  <2>3. QED
    BY <1>4, <1>6, <2>1, <2>2
<1>9. CASE ModelYields(w, r)
  BY <1>4, <1>6, <1>9 DEF ModelYields
<1>10. ASSUME NEW c \in Calls, NextCall(w, r, c)
       PROVE  TraceInv' /\ Advances
  <2> DEFINE y == [x EXCEPT !.pc = "guard", !.call = c]
  <2>1. x.pc = "calls"
    BY <1>10 DEF NextCall
  <2>2. MovesOn(x, y) /\ y.iter \in Nat
    BY <1>1, <2>1 DEF MovesOn, Looping, Execs
  <2>3. \/ Become(w, r, Returns(x, "aborted", x.iter + 1))
        \/ Observed(w, r) # "none" /\ Become(w, r, StoppedBy(x, Observed(w, r)))
        \/ Become(w, r, y)
    BY <1>10, Zenon DEF NextCall
  <2> HIDE DEF y
  <2>4. QED
    BY <1>4, <1>5, <1>6, <2>2, <2>3
<1>11. CASE NextIteration(w, r)
  <2> DEFINE y == [x EXCEPT !.pc = "top", !.iter = @ + 1]
  <2>1. MovesOn(x, y) /\ y.iter \in Nat
    BY <1>1, <1>11 DEF NextIteration, MovesOn, Looping, Execs
  <2>2. Become(w, r, Returns(x, "limit", MaxIter)) \/ Become(w, r, y)
    BY <1>11, Zenon DEF NextIteration
  <2> HIDE DEF y
  <2>3. QED
    BY <1>4, <1>6, <2>1, <2>2
<1>12. CASE Throws(w, r)
  BY <1>4, <1>6, <1>12 DEF Throws
<1>13. QED
  BY <1>7, <1>8, <1>9, <1>10, <1>11, <1>12

\* The checkpoint writes a position the row is not ahead of, and a
\* conversation its trace holds.
LEMMA CheckpointTraced ==
    ASSUME TypeInv, TraceInv, NEW w \in Workers, NEW r \in Runs, Checkpoint(w, r)
    PROVE  TraceInv' /\ Advances
<1> DEFINE x == exec[w][r]
           rw == row[r]
           y == [x EXCEPT !.pc = "model"]
           z == [Beat(rw) EXCEPT !.iteration = x.iter, !.messages = x.messages]
<1>1. /\ x \in Execs /\ rw \in Rows /\ RowTraced(rw) /\ ExecTraced(x, rw.trace)
      /\ x.pc = "checkpoint" /\ x.stop # "parked" /\ x.iter \in Nat
      /\ UNCHANGED effects /\ FencedStep(w, r, z, y)
  BY TypeInvAt, ExecFields DEF TraceInv, Checkpoint, ExecFits
<1>2. /\ z.trace = rw.trace /\ z.messages = x.messages /\ z.iteration = x.iter
      /\ z.pending = rw.pending /\ z.status = rw.status /\ z.claimedBy = rw.claimedBy
  BY <1>1, CheckpointWrites
<1>3. /\ y.pc = "model" /\ y.iter = x.iter /\ y.trace = x.trace /\ y.messages = x.messages
      /\ y.decided = x.decided /\ y.park = x.park /\ y.stop = x.stop
  BY <1>1 DEF Execs
<1> HIDE DEF y, z
<1>4. ASSUME Owns(w, r)
      PROVE  /\ Advanced(rw, z) /\ RowTraced(z) /\ ExecTraced(y, z.trace) /\ OwnerTraced(y, z)
             /\ NewDispatch(x, y, rw.trace)
  <2>1. /\ rw.iteration <= x.iter /\ x.trace = rw.trace /\ LostFree(rw.trace)
        /\ \A a \in x.messages : Completes(rw.trace, a.call, a.iter)
    BY <1>1, <1>4 DEF TraceInv, OwnerTraced, Looping
  <2>2. Advanced(rw, z)
    BY <1>2, <2>1, CoversFacts DEF Advanced
  <2>3. RowTraced(z)
    BY <1>1, <1>2, <2>1 DEF RowTraced, LostFree
  <2>4. ExecTraced(y, z.trace) /\ NewDispatch(x, y, rw.trace)
    BY <1>1, <1>2, <1>3 DEF ExecTraced, NewDispatch
  <2>5. OwnerTraced(y, z)
    BY <1>1, <1>2, <1>3, <2>1 DEF OwnerTraced, Deciding, Looping
  <2>6. QED
    BY <2>2, <2>3, <2>4, <2>5
<1>5. QED
  BY <1>1, <1>2, <1>4, FencedTraced

\* A fenced write of the loop's trace: it covers the trace before, loses no
\* approved call, and holds the answers of the conversation.
LEMMA LoopWriteTraced ==
    ASSUME TypeInv, TraceInv, NEW w \in Workers, NEW r \in Runs, NEW tr, NEW y,
           UNCHANGED effects, FencedStep(w, r, [Beat(row[r]) EXCEPT !.trace = tr], y),
           exec[w][r].pc \in Looping,
           GatedOnly(tr), Covers(tr, exec[w][r].trace),
           \A e \in tr : Lost(e) => e \in exec[w][r].trace,
           Bare(y) \/ /\ y.pc \in Looping \ {"after"} /\ y.stop # "parked"
                      /\ y.trace = tr /\ y.iter = exec[w][r].iter
                      /\ y.decided \in Gated \cup {None} /\ y.park \in Gated \cup {None}
                      /\ \A a \in y.messages \ exec[w][r].messages : Completes(tr, a.call, a.iter)
                      /\ y.pc = "dispatch" => /\ Names(tr, y.call, y.iter)
                                              /\ y.call \in Ungated => ~Names(exec[w][r].trace, y.call, y.iter)
                   \/ /\ y.pc = "end" /\ y.stop = "parked" /\ y.trace = tr
                      /\ y.decided = None /\ y.park \in Gated
    PROVE  TraceInv' /\ Advances
<1> DEFINE x == exec[w][r]
           rw == row[r]
           z == [Beat(rw) EXCEPT !.trace = tr]
<1>1. /\ x \in Execs /\ rw \in Rows /\ RowTraced(rw) /\ ExecTraced(x, rw.trace)
      /\ x.stop # "parked" /\ rw.iteration \in Nat
  BY TypeInvAt, RowFields DEF TraceInv, ExecFits, Looping
<1>2. /\ z.trace = tr /\ z.messages = rw.messages /\ z.iteration = rw.iteration
      /\ z.pending = rw.pending /\ z.status = rw.status /\ z.claimedBy = rw.claimedBy
  BY <1>1, TraceWrites
<1>3. FencedStep(w, r, z, y)
  OBVIOUS
<1> HIDE DEF z
<1>4. ASSUME Owns(w, r)
      PROVE  /\ Advanced(rw, z) /\ RowTraced(z) /\ ExecTraced(y, z.trace) /\ OwnerTraced(y, z)
             /\ NewDispatch(x, y, rw.trace)
  <2>1. /\ rw.iteration <= x.iter /\ x.trace = rw.trace /\ LostFree(rw.trace)
        /\ \A a \in x.messages : Completes(rw.trace, a.call, a.iter)
    BY <1>4 DEF TraceInv, OwnerTraced
  <2>2. LostFree(tr) /\ Covers(tr, rw.trace)
    BY <2>1 DEF LostFree
  <2>3. \A a \in rw.messages \cup x.messages : Completes(tr, a.call, a.iter)
    BY <1>1, <2>1, <2>2, CoversFacts DEF RowTraced
  <2>4. Advanced(rw, z)
    BY <1>1, <1>2, <2>2 DEF Advanced
  <2>5. RowTraced(z)
    BY <1>1, <1>2, <2>2, <2>3 DEF RowTraced, LostFree
  <2>6. CASE Bare(y)
    BY <2>4, <2>5, <2>6, BareTraced DEF NewDispatch
  <2>7. CASE y.pc \in Looping \ {"after"} /\ ~Bare(y)
    <3>1. /\ y.stop # "parked"
          /\ y.trace = tr /\ y.iter = x.iter
          /\ y.decided \in Gated \cup {None} /\ y.park \in Gated \cup {None}
          /\ \A a \in y.messages : Completes(tr, a.call, a.iter)
          /\ y.pc = "dispatch" => Names(tr, y.call, y.iter)
      BY <2>3, <2>7 DEF Looping
    <3>2. ExecTraced(y, z.trace)
      BY <1>2, <2>7, <3>1 DEF ExecTraced, Looping
    <3>3. OwnerTraced(y, z)
      BY <1>2, <2>1, <2>2, <2>7, <3>1 DEF OwnerTraced, Deciding, Looping
    <3>4. NewDispatch(x, y, rw.trace)
      BY <2>1, <2>7 DEF NewDispatch, Looping
    <3>5. QED
      BY <2>4, <2>5, <3>2, <3>3, <3>4
  <2>8. CASE y.pc \notin Looping \ {"after"} /\ ~Bare(y)
    <3>1. y.pc = "end" /\ y.stop = "parked" /\ y.trace = tr /\ y.decided = None /\ y.park \in Gated
      BY <2>8
    <3>2. ExecTraced(y, z.trace) /\ NewDispatch(x, y, rw.trace)
      BY <3>1 DEF ExecTraced, NewDispatch
    <3>3. OwnerTraced(y, z)
      BY <1>2, <2>2, <3>1, CoversFacts DEF OwnerTraced, Deciding, Looping
    <3>4. QED
      BY <2>4, <2>5, <3>2, <3>3
  <2>9. QED
    BY <2>6, <2>7, <2>8
<1>5. QED
  BY <1>1, <1>2, <1>3, <1>4, FencedTraced

\* A call served from the trace.
LEMMA ServeTraced ==
    ASSUME TypeInv, TraceInv, NEW w \in Workers, NEW r \in Runs, Serve(w, r)
    PROVE  TraceInv' /\ Advances
<1> DEFINE x == exec[w][r]
           y(t) == [Answered(x) EXCEPT !.trace = @ \cup {[Intent(x) EXCEPT !.text = t]},
                                       !.messages = @ \cup {AnswerTo(x)}, !.pc = "calls"]
<1>1. x \in Execs /\ ExecFits(x) /\ ExecTraced(x, row[r].trace) /\ x.pc = "guard" /\ UNCHANGED effects
  BY TypeInvAt DEF TraceInv, Serve
<1>2. PICK t \in {"ok", "error"} : FencedStep(w, r, [Beat(row[r]) EXCEPT !.trace = y(t).trace], y(t))
  BY Zenon DEF Serve, ReplayHits
<1> DEFINE e == [Intent(x) EXCEPT !.text = t]
<1> HIDE DEF x
<1>3. e.call = x.call /\ e.iter = x.iter /\ e.text = t /\ e.confirmation = "none"
  BY IntentFields
<1> USE DEF x
<1> HIDE DEF e
<1>4. /\ y(t).pc = "calls" /\ y(t).trace = x.trace \cup {e} /\ y(t).messages = x.messages \cup {AnswerTo(x)}
      /\ y(t).iter = x.iter /\ y(t).stop = x.stop /\ y(t).park = x.park /\ y(t).decided = None
  BY <1>1 DEF Answered, Execs, e
<1> HIDE DEF y
<1>5. GatedOnly(y(t).trace) /\ Covers(y(t).trace, x.trace) /\ \A f \in y(t).trace : Lost(f) => f \in x.trace
  BY <1>1, <1>3, <1>4, CoversMore DEF GatedOnly, ExecTraced, Lost
<1>6. \A a \in y(t).messages \ x.messages : Completes(y(t).trace, a.call, a.iter)
  BY <1>3, <1>4 DEF AnswerTo, Completes
<1>7. y(t).stop # "parked" /\ y(t).park \in Gated \cup {None}
  BY <1>1, <1>4 DEF ExecFits, ExecTraced
<1>8. QED
  BY <1>1, <1>2, <1>4, <1>5, <1>6, <1>7, LoopWriteTraced DEF Looping

\* A lost ungated write: marked, and the run stops.
LEMMA HaltTraced ==
    ASSUME TypeInv, TraceInv, NEW w \in Workers, NEW r \in Runs, Halt(w, r)
    PROVE  TraceInv' /\ Advances
<1> DEFINE x == exec[w][r]
<1>1. /\ x \in Execs /\ ExecFits(x) /\ ExecTraced(x, row[r].trace) /\ x.pc = "guard" /\ UNCHANGED effects
      /\ x.trace \in SUBSET Entries
  BY TypeInvAt, ExecFields DEF TraceInv, Halt
<1>2. PICK e \in LostCalls(x) :
           FencedStep(w, r, [Beat(row[r]) EXCEPT !.trace = Mark(x.trace, e)], StoppedBy(x, "unknown_outcome"))
  BY DEF Halt
<1>3. /\ Covers(Mark(x.trace, e), x.trace) /\ GatedOnly(Mark(x.trace, e))
      /\ \A f \in Mark(x.trace, e) : Lost(f) => f \in x.trace
  BY <1>1, MarkTraced DEF LostCalls, ExecTraced
<1>4. Bare(StoppedBy(x, "unknown_outcome"))
  BY <1>1, OverBare DEF ExecFits
<1>5. QED
  BY <1>1, <1>2, <1>3, <1>4, LoopWriteTraced DEF Looping

\* An intent is recorded; that of an ungated write only when the trace names
\* no such call of this iteration.
LEMMA RecordIntentTraced ==
    ASSUME TypeInv, TraceInv, NEW w \in Workers, NEW r \in Runs, RecordIntent(w, r)
    PROVE  TraceInv' /\ Advances
<1> DEFINE x == exec[w][r]
           reask == {e \in LostCalls(x) : e.confirmation = "confirmed"}
           marked(e) == IF e \in reask THEN [e EXCEPT !.unknownOutcome = TRUE] ELSE e
           tr == {marked(e) : e \in x.trace} \cup {Intent(x)}
           y == [x EXCEPT !.trace = tr, !.pc = "dispatch"]
<1>1. /\ x \in Execs /\ ExecFits(x) /\ ExecTraced(x, row[r].trace) /\ x.pc = "guard" /\ UNCHANGED effects
      /\ x.trace \in SUBSET Entries
  BY TypeInvAt, ExecFields DEF TraceInv, RecordIntent
<1>2. FencedStep(w, r, [Beat(row[r]) EXCEPT !.trace = y.trace], y)
  BY Zenon DEF RecordIntent
<1>3. ASSUME NEW e \in x.trace
      PROVE  /\ marked(e).call = e.call /\ marked(e).iter = e.iter /\ marked(e).text = e.text
             /\ marked(e).confirmation = e.confirmation
             /\ Lost(marked(e)) => marked(e) = e
  <2>1. LET g == [e EXCEPT !.unknownOutcome = TRUE]
        IN  /\ g.call = e.call /\ g.iter = e.iter /\ g.text = e.text
            /\ g.confirmation = e.confirmation /\ g.unknownOutcome = TRUE
    BY <1>1 DEF Entries
  <2>2. QED
    BY <2>1 DEF Lost
<1> HIDE DEF marked
<1>4. /\ y.pc = "dispatch" /\ y.trace = tr /\ y.messages = x.messages /\ y.iter = x.iter /\ y.call = x.call
      /\ y.stop = x.stop /\ y.park = x.park /\ y.decided = x.decided
  BY <1>1 DEF Execs
<1>5. Intent(x).call = x.call /\ Intent(x).iter = x.iter /\ Intent(x).confirmation = "none" /\ Intent(x).text = "absent"
  BY IntentFields
<1>6. GatedOnly(tr) /\ Covers(tr, x.trace) /\ \A f \in tr : Lost(f) => f \in x.trace
  <2>1. GatedOnly(tr)
    BY <1>1, <1>3, <1>5 DEF GatedOnly, ExecTraced
  <2>2. Covers(tr, x.trace)
    BY <1>3 DEF Covers
  <2>3. \A f \in tr : Lost(f) => f \in x.trace
    BY <1>3, <1>5 DEF Lost
  <2>4. QED
    BY <2>1, <2>2, <2>3
<1>7. Names(tr, x.call, x.iter)
  BY <1>5 DEF Names
<1>8. ASSUME x.call \in Ungated, Names(x.trace, x.call, x.iter) PROVE FALSE
  <2>1. PICK e \in x.trace : e.call = x.call /\ e.iter = x.iter
    BY <1>8 DEF Names
  <2>2. e \in Entries /\ x.call \notin Gated /\ x.call \notin Repeatable
    BY <1>1, <1>8, <2>1, CallsAssumption
  <2>3. e.confirmation = "none" /\ e.text # "challenge"
    BY <1>1, <2>1, <2>2 DEF ExecTraced, GatedOnly
  <2>4. e.text # "absent"
    BY <2>1, <2>2, <2>3 DEF RecordIntent, LostCalls, RedispatchSafe
  <2>5. e.text \in {"ok", "error"}
    BY <2>2, <2>3, <2>4 DEF Entries
  <2>6. QED
    BY <2>1, <2>5 DEF RecordIntent, ReplayHits
<1>9. y.stop # "parked" /\ y.park \in Gated \cup {None} /\ y.decided \in Gated \cup {None}
  BY <1>1, <1>4 DEF ExecFits, ExecTraced
<1> HIDE DEF tr, y
<1>10. QED
  BY <1>1, <1>2, <1>4, <1>6, <1>7, <1>8, <1>9, LoopWriteTraced DEF Looping

\* A call's outcome is recorded; a challenge parks the run.
LEMMA AfterToolCallTraced ==
    ASSUME TypeInv, TraceInv, NEW w \in Workers, NEW r \in Runs, AfterToolCall(w, r)
    PROVE  TraceInv' /\ Advances
<1> DEFINE x == exec[w][r]
           i == Intent(x)
           e == [i EXCEPT !.text = x.text]
           tr == (x.trace \ {i}) \cup {e}
           y == [x EXCEPT !.trace = tr, !.messages = @ \cup {AnswerTo(x)}]
           p == [y EXCEPT !.park = x.call]
           o == Over(p, FirstStop(x, "parked"), "aborted", x.iter + 1)
           t == [Answered(y) EXCEPT !.pc = "calls"]
           z == IF x.text = "challenge" THEN o ELSE t
<1>1. x \in Execs /\ ExecFits(x) /\ ExecTraced(x, row[r].trace)
  BY TypeInvAt DEF TraceInv
<1>2. x.pc = "after" /\ UNCHANGED effects /\ FencedStep(w, r, [Beat(row[r]) EXCEPT !.trace = y.trace], z)
  BY Zenon DEF AfterToolCall
<1>3. /\ i.call = x.call /\ i.iter = x.iter /\ i.text = "absent" /\ i.confirmation = "none"
      /\ e.call = x.call /\ e.iter = x.iter /\ e.text = x.text /\ e.confirmation = "none"
  BY IntentFields
<1>4. x.stop # "parked" /\ x.text # "absent" /\ (x.text = "challenge" => x.call \in Gated)
  BY <1>1, <1>2 DEF ExecFits, ExecTraced
<1> HIDE DEF i, e
<1>5. GatedOnly(tr) /\ Covers(tr, x.trace) /\ \A f \in tr : Lost(f) => f \in x.trace
  <2>1. Covers(tr, x.trace)
    BY <1>3, CompletedCovers
  <2>2. QED
    BY <1>1, <1>3, <1>4, <2>1 DEF GatedOnly, ExecTraced, Lost
<1>6. Completes(tr, x.call, x.iter)
  BY <1>3, <1>4 DEF Completes
<1> HIDE DEF tr
<1>7. /\ y.trace = tr /\ y.messages = x.messages \cup {AnswerTo(x)}
      /\ p.trace = tr /\ p.park = x.call /\ p.stop = x.stop
  BY <1>1 DEF Execs
<1>8. /\ t.pc = "calls" /\ t.trace = tr /\ t.messages = x.messages \cup {AnswerTo(x)} /\ t.iter = x.iter
      /\ t.stop = x.stop /\ t.park = x.park /\ t.decided = None
  BY <1>1 DEF Answered, Execs
<1>9. Bare(o) \/ (o.pc = "end" /\ o.stop = "parked" /\ o.trace = tr /\ o.park = x.call /\ o.decided = None)
  <2> HIDE DEF p
  <2>1. CASE x.stop = "none"
    BY <1>7, <2>1 DEF Over, FirstStop, Idle
  <2>2. CASE x.stop # "none"
    BY <1>4, <1>7, <2>2, OverBare DEF FirstStop
  <2>3. QED
    BY <2>1, <2>2
<1> HIDE DEF y, o, t
<1>10. \A a \in t.messages \ x.messages : Completes(tr, a.call, a.iter)
  BY <1>6, <1>8 DEF AnswerTo
<1>11. t.park \in Gated \cup {None} /\ t.stop # "parked"
  BY <1>1, <1>4, <1>8 DEF ExecTraced
<1>12. CASE x.text = "challenge"
  <2>1. z = o
    BY <1>12
  <2> HIDE DEF z
  <2>2. QED
    BY <1>2, <1>4, <1>5, <1>7, <1>9, <1>12, <2>1, LoopWriteTraced DEF Looping
<1>13. CASE x.text # "challenge"
  <2>1. z = t
    BY <1>13
  <2> HIDE DEF z
  <2>2. QED
    BY <1>2, <1>5, <1>7, <1>8, <1>10, <1>11, <2>1, LoopWriteTraced DEF Looping
<1>14. QED
  BY <1>12, <1>13

-----------------------------------------------------------------------------
(* The writes in the world *)

\* What a write appends to the history.
LEMMA HappensTraced ==
    ASSUME TypeInv, NEW r \in Runs, NEW c \in Calls, NEW n \in Nat, NEW a \in Nat, Happens(r, c, n, a)
    PROVE  LET k == Len(effects[r]) + 1 IN
           /\ \A q \in Runs \ {r} : effects'[q] = effects[q]
           /\ DOMAIN effects'[r] = DOMAIN effects[r] \cup {k}
           /\ k \notin DOMAIN effects[r]
           /\ \A i \in DOMAIN effects[r] : effects'[r][i] = effects[r][i]
           /\ effects'[r][k].call = c /\ effects'[r][k].iter = n
<1> DEFINE E == [call : Calls, iter : Nat, approval : Nat]
           f == [call |-> c, iter |-> n, approval |-> a]
<1>1. f \in E
  OBVIOUS
<1>2. effects \in [Runs -> Seq(E)]
  BY DEF TypeInv, TypeOK
<1>3. effects' = [effects EXCEPT ![r] = Append(@, f)]
  BY DEF Happens
<1> HIDE DEF E, f
<1>4. effects[r] \in Seq(E)
  BY <1>2
<1>5. effects'[r] = Append(effects[r], f) /\ \A q \in Runs \ {r} : effects'[q] = effects[q]
  BY <1>2, <1>3
<1>6. Len(effects[r]) \in Nat
  BY <1>4
<1>7. /\ DOMAIN effects[r] = 1..Len(effects[r])
      /\ DOMAIN effects'[r] = 1..(Len(effects[r]) + 1)
      /\ \A i \in 1..Len(effects[r]) : effects'[r][i] = effects[r][i]
      /\ effects'[r][Len(effects[r]) + 1] = f
  BY <1>1, <1>4, <1>5, AppendTo
<1>8. QED
  BY <1>5, <1>6, <1>7 DEF f

\* A write the trace names, made by an execution that is done with it, keeps
\* the invariant; an ungated one must be fresh.
LEMMA EffectTraced ==
    ASSUME TypeInv, TraceInv, NEW w \in Workers, NEW r \in Runs, NEW c \in Calls, NEW n \in Nat, NEW a \in Nat,
           NEW y,
           UNCHANGED row, Happens(r, c, n, a), Become(w, r, y),
           Names(row[r].trace, c, n), y.lease = exec[w][r].lease,
           ExecTraced(y, row[r].trace), Owns(w, r) => OwnerTraced(y, row[r]), y.pc # "dispatch",
           c \in Gated \/ AboutTo(exec[w][r], c, n)
    PROVE  TraceInv' /\ Advances
<1> DEFINE k == Len(effects[r]) + 1
<1>1. /\ \A q \in Runs \ {r} : effects'[q] = effects[q]
      /\ DOMAIN effects'[r] = DOMAIN effects[r] \cup {k} /\ k \notin DOMAIN effects[r]
      /\ \A i \in DOMAIN effects[r] : effects'[r][i] = effects[r][i]
      /\ effects'[r][k].call = c /\ effects'[r][k].iter = n
  BY HappensTraced
<1> HIDE DEF k
<1>2. row \in [Runs -> Rows] /\ exec \in [Workers -> [Runs -> Execs]]
  BY DEF TypeInv, TypeOK
<1>3. exec'[w][r] = y /\ \A v \in Workers, q \in Runs : v # w \/ q # r => exec'[v][q] = exec[v][q]
  BY <1>2 DEF Become
<1>4. Advances
  BY <1>2, AdvancedSelf DEF Advances
<1>5. ASSUME NEW q \in Runs PROVE RowTraced(row[q])' /\ EffectsTraced(q)'
  BY <1>1 DEF TraceInv, EffectsTraced
<1>6. ASSUME NEW v \in Workers, NEW q \in Runs
      PROVE  ExecTraced(exec[v][q], row[q].trace)' /\ (Owns(v, q) => OwnerTraced(exec[v][q], row[q]))'
  BY <1>3 DEF TraceInv, Owns
<1>7. c \in Ungated => Fresh(w, r) /\ AboutTo(exec[w][r], c, n)
  BY CallsAssumption DEF TraceInv
<1>8. ASSUME NEW v \in Workers, NEW q \in Runs PROVE Fresh(v, q)'
  <2>1. CASE q # r
    BY <1>1, <1>3, <2>1 DEF TraceInv, Fresh
  <2>2. CASE q = r /\ v = w
    BY <1>3, <2>2 DEF Fresh
  <2>3. CASE q = r /\ v # w
    <3>1. exec'[v][r] = exec[v][r] /\ Fresh(v, r)
      BY <1>3, <2>3 DEF TraceInv
    <3>2. ASSUME c \in Ungated PROVE ~AboutTo(exec[v][r], c, n)
      BY <1>7, <2>3, <3>2 DEF Fresh, AboutTo
    <3>3. QED
      BY <1>1, <1>3, <2>3, <3>1, <3>2 DEF Fresh, AboutTo
  <2>4. QED
    BY <2>1, <2>2, <2>3
<1>9. UngatedOncePerIteration'
  <2> SUFFICES ASSUME NEW q \in Runs, NEW i \in DOMAIN effects'[q], NEW j \in DOMAIN effects'[q], i # j,
                      effects'[q][i].call \in Ungated
               PROVE  \/ effects'[q][i].call # effects'[q][j].call
                      \/ effects'[q][i].iter # effects'[q][j].iter
    BY DEF UngatedOncePerIteration
  <2>1. CASE q # r
    BY <1>1, <2>1 DEF TraceInv, UngatedOncePerIteration
  <2>2. CASE q = r /\ i # k /\ j # k
    BY <1>1, <2>2 DEF TraceInv, UngatedOncePerIteration
  <2>3. CASE q = r /\ (i = k \/ j = k)
    BY <1>1, <1>7, <2>3 DEF Fresh, AboutTo
  <2>4. QED
    BY <2>1, <2>2, <2>3
<1>10. QED
  BY <1>4, <1>5, <1>6, <1>8, <1>9 DEF TraceInv

\* The approved call, named since it was consumed, runs.
LEMMA RedeemTraced ==
    ASSUME TypeInv, TraceInv, NEW w \in Workers, NEW r \in Runs, Redeem(w, r)
    PROVE  TraceInv' /\ Advances
<1> DEFINE x == exec[w][r]
           y(t) == [x EXCEPT !.pc = "answer", !.text = t]
<1>1. /\ x \in Execs /\ ExecFits(x) /\ row[r] \in Rows /\ ExecTraced(x, row[r].trace)
      /\ Owns(w, r) => OwnerTraced(x, row[r])
      /\ x.iter \in Nat /\ x.base \in Nat /\ x.approval \in Nat
  BY TypeInvAt, ExecFields DEF TraceInv
<1>2. UNCHANGED row /\ x.pc \in {"leg1", "leg2"}
  BY DEF Redeem
<1>3. PICK t \in {"ok", "error"} :
         Become(w, r, y(t)) /\ (UNCHANGED effects \/ Happens(r, x.decided, x.base, x.approval))
  BY DEF Redeem
<1>4. MovesOn(x, y(t)) /\ y(t).iter \in Nat /\ y(t).pc = "answer" /\ y(t).lease = x.lease
  BY <1>1, <1>2 DEF MovesOn, Execs
<1> HIDE DEF y
<1>5. CASE UNCHANGED effects
  BY <1>2, <1>3, <1>4, <1>5, MoveTraced
<1>6. CASE Happens(r, x.decided, x.base, x.approval)
  <2>1. ExecTraced(y(t), row[r].trace) /\ (Owns(w, r) => OwnerTraced(y(t), row[r]))
    BY <1>1, <1>4, MovesOnTraced
  <2>2. x.decided \in Gated /\ x.decided \in Calls /\ Names(row[r].trace, x.decided, x.base)
    BY <1>1, <1>2 DEF ExecFits, ExecTraced, Calls
  <2>3. QED
    BY <1>1, <1>2, <1>3, <1>4, <1>6, <2>1, <2>2, EffectTraced
<1>7. QED
  BY <1>3, <1>5, <1>6

\* A dispatched call runs once, or is challenged.
LEMMA DispatchTraced ==
    ASSUME TypeInv, TraceInv, NEW w \in Workers, NEW r \in Runs, Dispatch(w, r)
    PROVE  TraceInv' /\ Advances
<1> DEFINE x == exec[w][r]
           y(t) == [x EXCEPT !.text = t, !.pc = "after"]
<1>1. /\ x \in Execs /\ ExecFits(x) /\ row[r] \in Rows /\ ExecTraced(x, row[r].trace)
      /\ Owns(w, r) => OwnerTraced(x, row[r])
      /\ x.iter \in Nat /\ x.call \in Calls \cup {None}
  BY TypeInvAt, ExecFields DEF TraceInv
<1>2. UNCHANGED row /\ x.pc = "dispatch" /\ x.call \in Calls
  BY <1>1 DEF Dispatch, ExecFits
<1>3. PICK t \in {"ok", "error", "challenge"} :
         /\ Become(w, r, y(t))
         /\ t = "challenge" => x.call \in Gated
         /\ UNCHANGED effects \/ Happens(r, x.call, x.iter, 0)
  BY Zenon DEF Dispatch
<1>4. /\ y(t).pc = "after" /\ y(t).text = t /\ y(t).lease = x.lease /\ y(t).iter = x.iter /\ y(t).call = x.call
      /\ y(t).trace = x.trace /\ y(t).messages = x.messages /\ y(t).decided = x.decided /\ y(t).park = x.park
      /\ y(t).stop = x.stop
  BY <1>1 DEF Execs
<1> HIDE DEF y
<1>5. ExecTraced(y(t), row[r].trace) /\ NewDispatch(x, y(t), row[r].trace) /\ y(t).pc # "dispatch"
  BY <1>1, <1>3, <1>4 DEF ExecTraced, NewDispatch
<1>6. Owns(w, r) => OwnerTraced(y(t), row[r])
  BY <1>1, <1>2, <1>4 DEF OwnerTraced, Deciding, Looping
<1>7. CASE UNCHANGED effects
  BY <1>2, <1>3, <1>4, <1>5, <1>6, <1>7, BecomeTraced
<1>8. CASE Happens(r, x.call, x.iter, 0)
  <2>1. Names(row[r].trace, x.call, x.iter) /\ AboutTo(x, x.call, x.iter) /\ 0 \in Nat
    BY <1>1, <1>2 DEF ExecTraced, AboutTo
  <2>2. QED
    BY <1>1, <1>2, <1>3, <1>4, <1>5, <1>6, <1>8, <2>1, EffectTraced
<1>9. QED
  BY <1>3, <1>7, <1>8

-----------------------------------------------------------------------------
(* The ends of an execution, the requests, the clock and the processes *)

\* The ends of execute: a terminal write, a yield, a park or nothing.
LEMMA EndTraced ==
    ASSUME TypeInv, TraceInv, NEW w \in Workers, NEW r \in Runs,
           \/ EndFenced(w, r) \/ EndCancelled(w, r) \/ EndParked(w, r) \/ EndStopped(w, r)
           \/ EndYielded(w, r) \/ EndReturned(w, r) \/ ExecutorThrows(w, r)
    PROVE  TraceInv' /\ Advances
<1> DEFINE x == exec[w][r]
           rw == row[r]
<1>1. /\ x \in Execs /\ ExecFits(x) /\ rw \in Rows /\ RowTraced(rw) /\ ExecTraced(x, rw.trace)
      /\ rw.iteration \in Nat /\ Bare(Idle)
  BY TypeInvAt, RowFields DEF TraceInv, Bare, Idle
<1>2. UNCHANGED effects /\ Become(w, r, Idle)
  BY DEF EndFenced, EndCancelled, EndParked, EndStopped, EndYielded, EndReturned, ExecutorThrows, Leaves
<1>3. CASE EndFenced(w, r) \/ ExecutorThrows(w, r)
  BY <1>1, <1>2, <1>3, BecomeTraced DEF EndFenced, ExecutorThrows
<1>4. CASE EndCancelled(w, r)
  <2> DEFINE z == [ClearPending(rw) EXCEPT !.iteration = Reached(x)]
  <2>1. row' = row \/ (rw.status = "cancelled" /\ row' = [row EXCEPT ![r] = z])
    BY <1>4 DEF EndCancelled
  <2>2. rw.status = "cancelled" => SameTrace(rw, z) /\ z.status = "cancelled"
    BY <1>1 DEF SameTrace, ClearPending, Terminal, Rows
  <2> HIDE DEF z
  <2>3. ASSUME rw.status = "cancelled", row' = [row EXCEPT ![r] = z] PROVE TraceInv' /\ Advances
    <3>1. RowTraced(z) /\ Advanced(rw, z) /\ z.status # "running"
      BY <1>1, <2>2, <2>3, SameTraced
    <3>2. ExecTraced(Idle, z.trace) /\ NewDispatch(x, Idle, rw.trace)
      BY <1>1, BareTraced DEF NewDispatch
    <3>3. QED
      BY <1>2, <2>3, <3>1, <3>2, StepTraced DEF Become
  <2>4. QED
    BY <1>1, <1>2, <2>1, <2>3, BecomeTraced
<1>5. CASE EndParked(w, r)
  <2> DEFINE z == [ReleaseLease(rw) EXCEPT
                     !.status = "awaiting_confirmation", !.trace = x.trace,
                     !.pending = x.park, !.pendingDecision = "none", !.approval = 0]
  <2>1. /\ z.trace = x.trace /\ z.messages = rw.messages /\ z.iteration = rw.iteration
        /\ z.pending = x.park /\ z.status = "awaiting_confirmation"
    BY <1>1 DEF ReleaseLease, Rows
  <2>2. x.stop = "parked" /\ Finish(w, r, z)
    BY <1>5 DEF EndParked
  <2> HIDE DEF z
  <2>3. ASSUME Owns(w, r) PROVE RowTraced(z) /\ Advanced(rw, z) /\ z.status # "running"
    <3>1. Covers(x.trace, rw.trace) /\ LostFree(x.trace)
      BY <2>2, <2>3 DEF TraceInv, OwnerTraced
    <3>2. \A a \in rw.messages : Completes(x.trace, a.call, a.iter)
      BY <1>1, <3>1, CoversFacts DEF RowTraced
    <3>3. QED
      BY <1>1, <2>1, <3>1, <3>2 DEF RowTraced, Advanced, LostFree, ExecTraced
  <2>4. QED
    BY <1>2, <2>2, <2>3, FinishTraced
<1>6. CASE EndStopped(w, r)
  <2> DEFINE st == IF x.stop = "proposed" THEN "succeeded" ELSE "failed"
  <2>1. st \in Terminal /\ st # "running"
    BY DEF Terminal
  <2> DEFINE z == [Ended(rw, st) EXCEPT !.iteration = Reached(x)]
  <2>2. Finish(w, r, z)
    BY <1>6 DEF EndStopped
  <2> HIDE DEF st
  <2>3. SameTrace(rw, z) /\ z.status # "running"
    BY <1>1, <2>1, EndedSame
  <2> HIDE DEF z
  <2>4. QED
    BY <1>2, <2>2, <2>3, EndedTraced
<1>7. CASE EndYielded(w, r)
  <2> DEFINE z == [ReleaseLease(rw) EXCEPT !.status = "queued", !.yields = @ + 1]
  <2>1. Owns(w, r) => SameTrace(rw, z) /\ z.status # "running"
    BY <1>1 DEF SameTrace, ReleaseLease, Terminal, Rows, Owns
  <2>2. QED
    BY <1>2, <1>7, <2>1, EndedTraced DEF EndYielded
<1>8. CASE EndReturned(w, r)
  <2> DEFINE st == IF x.result = "done" THEN "succeeded" ELSE "failed"
             n == IF x.result = "threw" THEN Ended(rw, st).iteration ELSE Reached(x)
  <2>1. st \in Terminal /\ st # "running"
    BY DEF Terminal
  <2> DEFINE z == [Ended(rw, st) EXCEPT !.iteration = n]
  <2>2. Finish(w, r, z)
    BY <1>8, Zenon DEF EndReturned
  <2> HIDE DEF st, n
  <2>3. SameTrace(rw, z) /\ z.status # "running"
    BY <1>1, <2>1, EndedSame
  <2> HIDE DEF z
  <2>4. QED
    BY <1>2, <2>2, <2>3, EndedTraced
<1>9. QED
  BY <1>3, <1>4, <1>5, <1>6, <1>7, <1>8

\* Every step of an execution keeps the invariant.
LEMMA ExecuteTraced ==
    ASSUME TypeInv, TraceInv, NEW w \in Workers, NEW r \in Runs, Execute(w, r)
    PROVE  TraceInv' /\ Advances
BY AdmissionTraced, ResumeUndecidedTraced, ResumeDecidedTraced, ConsumeTraced, RedeemChallengeTraced,
   RedeemTraced, AnswerTraced, LoopMovesTraced, CheckpointTraced, ServeTraced, HaltTraced,
   RecordIntentTraced, DispatchTraced, AfterToolCallTraced, EndTraced DEF Execute

\* A write of the row alone that says nothing about the trace, and gives the
\* lease to nobody.
LEMMA RowWriteTraced ==
    ASSUME TypeInv, TraceInv, NEW r \in Runs, NEW z, UNCHANGED <<exec, effects>>,
           row' = [row EXCEPT ![r] = z], SameTrace(row[r], z),
           \/ z.status # "running"
           \/ /\ z.status = row[r].status /\ z.claimedBy = row[r].claimedBy
              /\ z.claimedAt = row[r].claimedAt /\ z.pending = row[r].pending
    PROVE  TraceInv' /\ Advances
<1>1. row \in [Runs -> Rows] /\ row[r] \in Rows /\ RowTraced(row[r])
  BY DEF TypeInv, TypeOK, TraceInv
<1>2. row'[r] = z /\ \A q \in Runs \ {r} : row'[q] = row[q]
  BY <1>1
<1>3. RowTraced(z) /\ Advanced(row[r], z) /\ z.trace = row[r].trace
  BY <1>1, SameTraced DEF SameTrace
<1>4. \A q \in Runs : row'[q].trace = row[q].trace
  BY <1>2, <1>3
<1>5. Advances
  BY <1>1, <1>2, <1>3, AdvancedSelf DEF Advances
<1>6. ASSUME NEW v \in Workers, NEW q \in Runs, Owns(v, q)' PROVE OwnerTraced(exec[v][q], row'[q])
  <2>1. CASE q # r
    BY <1>2, <1>6, <2>1 DEF TraceInv, Owns
  <2>2. CASE q = r
    <3>1. /\ Owns(v, r) /\ OwnerTraced(exec[v][r], row[r])
          /\ z.pending = row[r].pending /\ z.status = "running"
      BY <1>2, <1>6, <2>2 DEF TraceInv, Owns
    <3>2. z.iteration = row[r].iteration
      BY <3>1 DEF SameTrace, Terminal
    <3>3. QED
      BY <1>2, <1>3, <2>2, <3>1, <3>2 DEF OwnerTraced
  <2>3. QED
    BY <2>1, <2>2
<1>7. ASSUME NEW q \in Runs PROVE RowTraced(row[q])' /\ EffectsTraced(q)'
  BY <1>2, <1>3, <1>4 DEF TraceInv, EffectsTraced
<1>8. ASSUME NEW v \in Workers, NEW q \in Runs PROVE ExecTraced(exec[v][q], row[q].trace)' /\ Fresh(v, q)'
  BY <1>4 DEF TraceInv, Fresh
<1>9. UngatedOncePerIteration'
  BY DEF TraceInv, UngatedOncePerIteration
<1>10. QED
  BY <1>5, <1>6, <1>7, <1>8, <1>9 DEF TraceInv

\* The requests, the clock, the reclaim and the hand-back.
LEMMA RowActionsTraced ==
    ASSUME TypeInv, TraceInv, NEW r \in Runs,
           \/ Enqueue(r) \/ Cancel(r) \/ LeaseExpires(r) \/ DeadlinePasses(r)
           \/ \E w \in Workers : ReclaimStale(w, r) \/ ReleaseRow(w, r)
    PROVE  TraceInv' /\ Advances
<1> DEFINE rw == row[r]
<1>1. /\ rw \in Rows /\ row \in [Runs -> Rows]
      /\ {"failed", "cancelled"} \subseteq Terminal
  BY DEF TypeInv, TypeOK, Terminal
<1>2. UNCHANGED <<exec, effects>>
  BY DEF Enqueue, Cancel, LeaseExpires, DeadlinePasses, ReclaimStale, ReleaseRow, Rest
<1>3. CASE Enqueue(r)
  <2> DEFINE z == [rw EXCEPT !.status = "queued"]
  <2>1. SameTrace(rw, z) /\ z.status # "running" /\ row' = [row EXCEPT ![r] = z]
    BY <1>1, <1>3 DEF Enqueue, SameTrace, Terminal, Rows
  <2> HIDE DEF z
  <2>2. QED
    BY <1>2, <2>1, RowWriteTraced
<1>4. CASE Cancel(r)
  <2> DEFINE z == Ended(rw, "cancelled")
  <2>1. SameTrace(rw, z) /\ z.status # "running" /\ row' = [row EXCEPT ![r] = z]
    BY <1>1, <1>4, EndedSame DEF Cancel
  <2> HIDE DEF z
  <2>2. QED
    BY <1>2, <2>1, RowWriteTraced
<1>5. CASE LeaseExpires(r)
  <2> DEFINE z == [rw EXCEPT !.stale = TRUE]
  <2>1. row' = [row EXCEPT ![r] = z]
    BY <1>1, <1>5 DEF LeaseExpires
  <2>2. /\ SameTrace(rw, z) /\ z.status = rw.status /\ z.claimedBy = rw.claimedBy
        /\ z.claimedAt = rw.claimedAt /\ z.pending = rw.pending
    BY <1>1 DEF SameTrace, Rows
  <2> HIDE DEF z
  <2>3. QED
    BY <1>2, <2>1, <2>2, RowWriteTraced
<1>6. CASE DeadlinePasses(r)
  <2> DEFINE z == [rw EXCEPT !.overdue = TRUE]
  <2>1. row' = [row EXCEPT ![r] = z]
    BY <1>1, <1>6 DEF DeadlinePasses
  <2>2. /\ SameTrace(rw, z) /\ z.status = rw.status /\ z.claimedBy = rw.claimedBy
        /\ z.claimedAt = rw.claimedAt /\ z.pending = rw.pending
    BY <1>1 DEF SameTrace, Rows
  <2> HIDE DEF z
  <2>3. QED
    BY <1>2, <2>1, <2>2, RowWriteTraced
<1>7. ASSUME rw.status = "running"
      PROVE  LET z == [ReleaseLease(rw) EXCEPT !.status = "queued"]
                 a == [ReleaseLease(rw) EXCEPT !.status = "queued", !.attempts = rw.attempts + 1]
             IN  SameTrace(rw, z) /\ z.status # "running" /\ SameTrace(rw, a) /\ a.status # "running"
  BY <1>1, <1>7 DEF SameTrace, ReleaseLease, Terminal, Rows
<1>8. ASSUME NEW w \in Workers, ReclaimStale(w, r) PROVE TraceInv' /\ Advances
  <2> DEFINE z == IF rw.attempts >= MaxAttempts THEN Ended(rw, "failed")
                  ELSE [ReleaseLease(rw) EXCEPT !.status = "queued", !.attempts = rw.attempts + 1]
  <2>1. row' = [row EXCEPT ![r] = z] /\ rw.status = "running"
    BY <1>8 DEF ReclaimStale
  <2>2. SameTrace(rw, z) /\ z.status # "running"
    BY <1>1, <1>7, <2>1, EndedSame
  <2> HIDE DEF z
  <2>3. QED
    BY <1>2, <2>1, <2>2, RowWriteTraced
<1>9. ASSUME NEW w \in Workers, ReleaseRow(w, r) PROVE TraceInv' /\ Advances
  <2> DEFINE z == [ReleaseLease(rw) EXCEPT !.status = "queued"]
  <2>1. row' = [row EXCEPT ![r] = rw] \/ (rw.status = "running" /\ row' = [row EXCEPT ![r] = z])
    BY <1>1, <1>9 DEF ReleaseRow
  <2>2. rw.status = "running" => SameTrace(rw, z) /\ z.status # "running"
    BY <1>7
  <2>3. SameTrace(rw, rw)
    BY DEF SameTrace
  <2> HIDE DEF z
  <2>4. QED
    BY <1>2, <2>1, <2>2, <2>3, RowWriteTraced
<1>10. QED
  BY <1>3, <1>4, <1>5, <1>6, <1>8, <1>9

\* A decision leaves the trace alone.
LEMMA DecideTraced ==
    ASSUME TypeInv, TraceInv, NEW c \in Clients, DecideWrite(c)
    PROVE  TraceInv' /\ Advances
<1> DEFINE r == client[c].run
           d == client[c].decision
           n == IF d = "approved" THEN Len(approved[r]) + 1 ELSE 0
           z == [row[r] EXCEPT !.status = "queued", !.pendingDecision = d, !.approval = n]
<1>1. r \in Runs /\ row[r] \in Rows /\ row \in [Runs -> Rows]
  BY DEF TypeInv, TypeOK, DecideWrite
<1>2. /\ UNCHANGED <<exec, effects>>
      /\ \/ row' = [row EXCEPT ![r] = row[r]]
         \/ row[r].status = "awaiting_confirmation" /\ row' = [row EXCEPT ![r] = z]
  BY <1>1 DEF DecideWrite
<1>3. SameTrace(row[r], row[r])
  BY DEF SameTrace
<1>4. row[r].status = "awaiting_confirmation" => SameTrace(row[r], z) /\ z.status # "running"
  BY <1>1 DEF SameTrace, Terminal, Rows
<1> HIDE DEF z, r
<1>5. QED
  BY <1>1, <1>2, <1>3, <1>4, RowWriteTraced

\* Executions told to stop, or forgotten, keep the invariant.
LEMMA StopTraced ==
    ASSUME TypeInv, TraceInv, UNCHANGED <<row, effects>>,
           \A v \in Workers, q \in Runs :
               Bare(exec'[v][q]) \/ (MovesOn(exec[v][q], exec'[v][q]) /\ exec'[v][q].iter \in Nat
                                      /\ exec'[v][q].pc = exec[v][q].pc /\ exec'[v][q].call = exec[v][q].call
                                      /\ exec'[v][q].iter = exec[v][q].iter)
    PROVE  TraceInv' /\ Advances
<1>1. row \in [Runs -> Rows] /\ exec \in [Workers -> [Runs -> Execs]]
  BY DEF TypeInv, TypeOK
<1>2. Advances
  BY <1>1, AdvancedSelf DEF Advances
<1>3. ASSUME NEW q \in Runs PROVE RowTraced(row[q])' /\ EffectsTraced(q)'
  BY DEF TraceInv, EffectsTraced
<1>4. ASSUME NEW v \in Workers, NEW q \in Runs
      PROVE  ExecTraced(exec'[v][q], row[q].trace) /\ (Owns(v, q)' => OwnerTraced(exec'[v][q], row[q]))
  <2>1. CASE Bare(exec'[v][q])
    BY <2>1, BareTraced
  <2>2. CASE ~Bare(exec'[v][q])
    <3>1. exec[v][q] \in Execs /\ row[q] \in Rows /\ MovesOn(exec[v][q], exec'[v][q]) /\ exec'[v][q].iter \in Nat
      BY <1>1, <2>2
    <3>2. Owns(v, q)' => Owns(v, q)
      BY <3>1 DEF Owns, MovesOn
    <3>3. ExecTraced(exec[v][q], row[q].trace) /\ (Owns(v, q) => OwnerTraced(exec[v][q], row[q]))
      BY DEF TraceInv
    <3>4. QED
      BY <3>1, <3>2, <3>3, MovesOnTraced
  <2>3. QED
    BY <2>1, <2>2
<1>5. \A v \in Workers, q \in Runs : exec'[v][q].pc = "dispatch" =>
          exec[v][q].pc = "dispatch" /\ exec'[v][q].call = exec[v][q].call /\ exec'[v][q].iter = exec[v][q].iter
  BY DEF Bare
<1>6. ASSUME NEW v \in Workers, NEW q \in Runs PROVE Fresh(v, q)'
  BY <1>5 DEF TraceInv, Fresh, AboutTo
<1>7. UngatedOncePerIteration'
  BY DEF TraceInv, UngatedOncePerIteration
<1>8. QED
  BY <1>2, <1>3, <1>4, <1>6, <1>7 DEF TraceInv

\* Claims, heartbeats, shutdowns and crashes.
LEMMA ProcessTraced ==
    ASSUME TypeInv, TraceInv, NEW w \in Workers,
           \/ \E r \in Runs : Claim(w, r) \/ Heartbeat(w, r)
           \/ ReleaseAll(w) \/ Exit(w) \/ Crash(w)
    PROVE  TraceInv' /\ Advances
<1>1. row \in [Runs -> Rows] /\ exec \in [Workers -> [Runs -> Execs]] /\ Bare(Idle)
  BY DEF TypeInv, TypeOK, Bare, Idle
<1>2. UNCHANGED effects
  BY DEF Claim, Heartbeat, ReleaseAll, Exit, Crash, Down, Rest
<1>3. ASSUME NEW v \in Workers, NEW q \in Runs, NEW s, s # "parked" \/ s = exec[v][q].stop
      PROVE  LET y == [exec[v][q] EXCEPT !.stop = s]
             IN  /\ MovesOn(exec[v][q], y) /\ y.iter \in Nat /\ y.pc = exec[v][q].pc
                 /\ y.call = exec[v][q].call /\ y.iter = exec[v][q].iter
  <2>1. exec[v][q] \in Execs /\ exec[v][q].iter \in Nat
    BY <1>1, ExecFields
  <2>2. QED
    BY <1>3, <2>1 DEF MovesOn, Execs
<1>4. ASSUME NEW r \in Runs, Claim(w, r) PROVE TraceInv' /\ Advances
  <2> DEFINE y == [Idle EXCEPT !.pc = "launched", !.lease = row[r].claims + 1]
             z == [row[r] EXCEPT !.status = "running", !.claimedBy = w, !.claims = row[r].claims + 1,
                                 !.claimedAt = row[r].claims + 1, !.stale = FALSE, !.started = TRUE]
  <2>1. row[r] \in Rows /\ RowTraced(row[r]) /\ row[r].status = "queued"
    BY <1>1, <1>4 DEF TraceInv, Claim
  <2>2. row' = [row EXCEPT ![r] = z] /\ exec' = [exec EXCEPT ![w][r] = y]
    BY <1>1, <1>4 DEF Claim, Become
  <2>3. SameTrace(row[r], z) /\ z.claimedBy = w
    BY <2>1 DEF SameTrace, Terminal, Rows
  <2>4. Bare(y)
    BY DEF Bare, Idle
  <2> HIDE DEF y, z
  <2>5. RowTraced(z) /\ Advanced(row[r], z)
    BY <2>1, <2>3, SameTraced
  <2>6. ExecTraced(y, z.trace) /\ OwnerTraced(y, z) /\ NewDispatch(exec[w][r], y, row[r].trace)
    BY <2>4, BareTraced DEF NewDispatch
  <2>7. QED
    BY <1>2, <2>2, <2>3, <2>5, <2>6, StepTraced
<1>5. ASSUME NEW r \in Runs, Heartbeat(w, r) PROVE TraceInv' /\ Advances
  <2>1. CASE Observed(w, r) = "none"
    <3> DEFINE z == Beat(row[r])
    <3>1. /\ SameTrace(row[r], z) /\ z.status = row[r].status /\ z.claimedBy = row[r].claimedBy
          /\ z.claimedAt = row[r].claimedAt /\ z.pending = row[r].pending
      BY <1>1 DEF SameTrace, Beat, Rows
    <3>2. row' = [row EXCEPT ![r] = z] /\ exec' = exec
      BY <1>5, <2>1 DEF Heartbeat
    <3> HIDE DEF z
    <3>3. QED
      BY <1>2, <3>1, <3>2, RowWriteTraced
  <2>2. CASE Observed(w, r) # "none"
    <3>1. PICK s : /\ Become(w, r, [exec[w][r] EXCEPT !.stop = FirstStop(exec[w][r], s)])
                   /\ s # "parked" /\ row' = row
      BY <1>5, <2>2, ObservedType DEF Heartbeat
    <3>2. FirstStop(exec[w][r], s) # "parked" \/ FirstStop(exec[w][r], s) = exec[w][r].stop
      BY <3>1 DEF FirstStop
    <3>3. QED
      BY <1>2, <1>3, <3>1, <3>2, MoveTraced
  <2>3. QED
    BY <2>1, <2>2
<1>6. CASE ReleaseAll(w)
  <2>1. row' = row
    BY <1>6 DEF ReleaseAll
  <2>2. ASSUME NEW v \in Workers, NEW q \in Runs
        PROVE  \/ exec'[v][q] = Idle
               \/ exec'[v][q] = exec[v][q]
               \/ exec'[v][q] = [exec[v][q] EXCEPT !.stop = FirstStop(exec[v][q], "fenced")]
    BY <1>1, <1>6 DEF ReleaseAll
  <2>3. \A v \in Workers, q \in Runs :
            FirstStop(exec[v][q], "fenced") # "parked" \/ FirstStop(exec[v][q], "fenced") = exec[v][q].stop
    BY DEF FirstStop
  <2>4. ASSUME NEW v \in Workers, NEW q \in Runs PROVE MovesOn(exec[v][q], exec[v][q]) /\ exec[v][q].iter \in Nat
    BY <1>1, ExecFields DEF MovesOn
  <2>5. ASSUME NEW v \in Workers, NEW q \in Runs
        PROVE  Bare(exec'[v][q]) \/ (MovesOn(exec[v][q], exec'[v][q]) /\ exec'[v][q].iter \in Nat
                                       /\ exec'[v][q].pc = exec[v][q].pc /\ exec'[v][q].call = exec[v][q].call
                                       /\ exec'[v][q].iter = exec[v][q].iter)
    <3> DEFINE s == FirstStop(exec[v][q], "fenced")
    <3>1. s # "parked" \/ s = exec[v][q].stop
      BY <2>3
    <3> HIDE DEF s
    <3>2. LET y == [exec[v][q] EXCEPT !.stop = s]
          IN  /\ MovesOn(exec[v][q], y) /\ y.iter \in Nat /\ y.pc = exec[v][q].pc
              /\ y.call = exec[v][q].call /\ y.iter = exec[v][q].iter
      BY <1>3, <3>1
    <3>3. \/ exec'[v][q] = Idle
          \/ exec'[v][q] = exec[v][q]
          \/ exec'[v][q] = [exec[v][q] EXCEPT !.stop = s]
      BY <2>2 DEF s
    <3>4. QED
      BY <1>1, <2>4, <3>2, <3>3
  <2>6. QED
    BY <1>2, <2>1, <2>5, StopTraced
<1>7. CASE Exit(w) \/ Crash(w)
  <2>1. row' = row
    BY <1>7 DEF Exit, Crash, Down
  <2>2. ASSUME NEW v \in Workers, NEW q \in Runs PROVE exec'[v][q] = Idle \/ exec'[v][q] = exec[v][q]
    BY <1>1, <1>7 DEF Exit, Crash, Down
  <2>3. ASSUME NEW v \in Workers, NEW q \in Runs PROVE MovesOn(exec[v][q], exec[v][q]) /\ exec[v][q].iter \in Nat
    BY <1>1, ExecFields DEF MovesOn
  <2>4. QED
    BY <1>1, <1>2, <2>1, <2>2, <2>3, StopTraced
<1>8. QED
  BY <1>4, <1>5, <1>6, <1>7

-----------------------------------------------------------------------------
(* The theorems *)

\* Nothing is traced initially, and nothing was written.
LEMMA InitTraceInv == Init => TraceInv
BY DEF Init, TraceInv, RowTraced, EffectsTraced, ExecTraced, OwnerTraced, Fresh, UngatedOncePerIteration,
       GatedOnly, Deciding, Looping, NoRow, Idle, Owns

\* Every step keeps the invariant, and loses nothing of a row's trace.
LEMMA NextTraceInv == TypeInv /\ TraceInv /\ [Next]_vars => TraceInv' /\ Advances
<1> SUFFICES ASSUME TypeInv, TraceInv, [Next]_vars PROVE TraceInv' /\ Advances
  OBVIOUS
<1>1. ASSUME UNCHANGED <<row, exec, effects>> PROVE TraceInv' /\ Advances
  <2>1. ASSUME NEW v \in Workers, NEW q \in Runs PROVE MovesOn(exec[v][q], exec[v][q]) /\ exec[v][q].iter \in Nat
    BY ExecFields DEF MovesOn, TypeInv, TypeOK
  <2>2. QED
    BY <1>1, <2>1, StopTraced
<1>2. ASSUME NEW c \in Clients,
             \/ \E r \in Runs : View(c, r)
             \/ \E d \in {"approved", "denied"} : DecideRead(c, d)
             \/ DecideRefused(c)
      PROVE  TraceInv' /\ Advances
  BY <1>1, <1>2 DEF View, DecideRead, DecideRefused
<1>3. CASE Next
  BY <1>2, <1>3, RowActionsTraced, ProcessTraced, ExecuteTraced, DecideTraced DEF Next
<1>4. CASE UNCHANGED vars
  BY <1>1, <1>4 DEF vars
<1>5. QED
  BY <1>3, <1>4

\* The invariant holds in every reachable state.
THEOREM TraceAccounted == Spec => [](TypeInv /\ TraceInv)
<1>1. Init => TypeInv /\ TraceInv
  BY InitTypeInv, InitTraceInv
<1>2. (TypeInv /\ TraceInv) /\ [Next]_vars => (TypeInv /\ TraceInv)'
  BY NextTypeInv, NextTraceInv
<1>3. QED
  BY <1>1, <1>2, PTL DEF Spec

\* The durable trace names every write the run ever made, a zombie's included
\* (beforeToolCall and resumeDecidedCall persist the intent first).
THEOREM EffectsAreTraced == Spec => []TraceHoldsEveryEffect
<1>1. TypeInv /\ TraceInv => TraceHoldsEveryEffect
  BY DEF TraceInv, EffectsTraced, Names, TraceHoldsEveryEffect
<1>2. QED
  BY <1>1, TraceAccounted, PTL

\* An ungated write is never repeated for the same call of the same iteration
\* (the replay guard of beforeToolCall), by however many executions.
THEOREM UngatedOnce == Spec => []UngatedOncePerIteration
<1>1. TypeInv /\ TraceInv => UngatedOncePerIteration
  BY DEF TraceInv
<1>2. QED
  BY <1>1, TraceAccounted, PTL

\* The checkpointed conversation holds no answer of a dispatched call that the
\* durable trace does not hold (onIteration writes the one, beforeToolCall and
\* afterToolCall the other).
THEOREM ConversationTraced == Spec => []ConversationIsTraced
<1>1. TypeInv /\ TraceInv => ConversationIsTraced
  BY DEF TraceInv, RowTraced, Completes, ConversationIsTraced
<1>2. QED
  BY <1>1, TraceAccounted, PTL

\* A dispatched approved call whose outcome was lost sits at the checkpoint's
\* iteration, where resumeDecidedCall looks for it.
THEOREM LostApprovalFound == Spec => []LostApprovalIsAtCheckpoint
<1>1. TypeInv /\ TraceInv => LostApprovalIsAtCheckpoint
  BY DEF TraceInv, RowTraced, Lost, LostApprovalIsAtCheckpoint, Active, Terminal
<1>2. QED
  BY <1>1, TraceAccounted, PTL

\* The checkpoint of a live run only moves forward, and its durable trace
\* never loses a call: a write of an older execution never undoes its
\* successor's (the fence on workerId and claimedAt).
THEOREM CheckpointOnlyAdvances == Spec => CheckpointAdvances
<1> DEFINE Step == \A r \in Runs : row'[r].status \notin Terminal =>
                     /\ row'[r].iteration >= row[r].iteration
                     /\ {[call |-> e.call, iter |-> e.iter] : e \in row[r].trace}
                           \subseteq {[call |-> e.call, iter |-> e.iter] : e \in row'[r].trace}
<1>1. TypeInv /\ TraceInv /\ [Next]_vars => [Step]_vars
  <2> SUFFICES ASSUME TypeInv, TypeInv', Advances, NEW r \in Runs, row'[r].status \notin Terminal
               PROVE  /\ row'[r].iteration >= row[r].iteration
                      /\ \A e \in row[r].trace : \E f \in row'[r].trace : f.call = e.call /\ f.iter = e.iter
    BY NextTraceInv, NextTypeInv
  <2>1. row[r].iteration \in Nat /\ row'[r].iteration \in Nat
    BY RowFields DEF TypeInv, TypeOK
  <2>2. QED
    BY <2>1 DEF Advances, Advanced, Covers
<1>2. QED
  BY <1>1, TraceAccounted, PTL DEF Spec, CheckpointAdvances

=============================================================================

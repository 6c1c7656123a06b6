----------------------------- MODULE BrainPass ------------------------------
(***************************************************************************)
(* A brain pass of the orchestrator: its trigger (brain-pass-runner.ts),   *)
(* its lease (brain-lease.service.ts) and the corpus pass that runs under  *)
(* it (brain-corpus.service.ts), all in                                    *)
(* apps/orchestrator/src/services/brain.                                   *)
(*                                                                         *)
(* The passes share nothing but the shutdown latch and its drain, so the   *)
(* model is of one pass.  In each process several callers may ask for it:  *)
(* the interval tick, the boot run, operators.  A caller's attempt and the *)
(* run it starts are one thread, slot[w][c], and SQL statements its atomic *)
(* steps; a tick that comes while its last run works is another caller.    *)
(***************************************************************************)
EXTENDS Naturals

CONSTANTS
    Workers,        \* process incarnations: a restart is another worker
    Callers,        \* who triggers the pass in a process
    Manual,         \* the callers that are operators ("check now")
    Stalling,       \* processes that may stall past BRAIN_LEASE_MS and wake up
    None,           \* SQL null
    Docs,           \* how many documents there are, in the cursor's order
    UnitsPerRun,    \* CORPUS_UNITS_PER_RUN
    MaxFaults       \* bound of the model: crashes, shutdowns and rejected awaits

ASSUME PassAssumption ==
    /\ Manual \subseteq Callers
    /\ Stalling \subseteq Workers
    /\ None \notin Workers
    /\ None \notin Callers
    /\ Docs \in Nat
    /\ UnitsPerRun \in Nat
    /\ MaxFaults \in Nat

VARIABLES
    row,        \* the BrainPass row
    slot,       \* slot[w][c]: the attempt or run of caller c in process w
    inFlight,   \* inFlight[w]: the caller whose run the map holds for the pass
    phase,      \* phase[w]: "up", "draining", "drained" or "down"
    digested,   \* history: the documents read, or found to hold nothing to read
    failed,     \* history: the documents a run gave up on
    faults      \* how many faults have happened

vars == <<row, slot, inFlight, phase, digested, failed, faults>>

-----------------------------------------------------------------------------
(* Data *)

\* Between triggered and run: the attempt; "claim", "won" and "handback" are
\* in `pending`.
PCs == {"idle", "asked", "admitted", "claim", "won", "handback",
        "run", "next", "unit", "cursor", "summary", "release", "forget"}

\* The pass function is executing, and the interval beats.
Running == {"run", "next", "unit", "cursor", "summary"}

\* The attempt or run relies on the claim it won.
Holding == Running \cup {"won", "handback", "release"}

Pending == {"claim", "won", "handback"}

Rows == [runState : {"idle", "running"}, claimedBy : Workers \cup {None},
         by : Callers \cup {None},   \* history: whose claim it is
         stale : BOOLEAN,            \* heartbeatAt < now - BRAIN_LEASE_MS
         enabled : BOOLEAN,
         recent : BOOLEAN,           \* now - lastRunAt < manualMinIntervalMs
         cursor : 0..Docs]

Slots == [pc : PCs, aborted : BOOLEAN,
          at : 0..Docs,              \* the last document this run is past
          upto : 0..Docs]            \* the last document it has listed

Rest == [pc |-> "idle", aborted |-> FALSE, at |-> 0, upto |-> 0]

Init ==
    /\ row = [runState |-> "idle", claimedBy |-> None, by |-> None, stale |-> FALSE,
              enabled |-> TRUE, recent |-> FALSE, cursor |-> 0]
    /\ slot = [w \in Workers |-> [c \in Callers |-> Rest]]
    /\ inFlight = [w \in Workers |-> None]
    /\ phase = [w \in Workers |-> "up"]
    /\ digested = {}
    /\ failed = {}
    /\ faults = 0

Alive(w) == phase[w] # "down"

\* shuttingDown
ShuttingDown(w) == phase[w] # "up"

Goto(w, c, pc) == slot' = [slot EXCEPT ![w][c].pc = pc]

Fault == faults < MaxFaults /\ faults' = faults + 1

World == <<digested, failed>>

-----------------------------------------------------------------------------
(* The trigger *)

\* trigger: the tick, the boot timer or an operator asks, and the
\* precondition passes.  A refusal leaves no trace.
Trigger(w, c) ==
    /\ Alive(w)
    /\ slot[w][c].pc = "idle"
    /\ Goto(w, c, IF c \in Manual THEN "asked" ELSE "admitted")
    /\ UNCHANGED <<row, inFlight, phase, World, faults>>

\* An operator's trigger reads lastRunAt: too soon, or go on.
RateLimit(w, c) ==
    /\ slot[w][c].pc = "asked"
    /\ Goto(w, c, IF row.recent THEN "idle" ELSE "admitted")
    /\ UNCHANGED <<row, inFlight, phase, World, faults>>

\* Faulty variant: the latch is looked at only once the claim is won.
AttemptAnyway(w, c) ==
    /\ slot[w][c].pc = "admitted"
    /\ Goto(w, c, "claim")
    /\ UNCHANGED <<row, inFlight, phase, World, faults>>

\* runWithLease up to its first await: the attempt becomes visible to the
\* shutdown, unless the latch is set already.
Attempt(w, c) ==
    /\ slot[w][c].pc = "admitted"
    /\ Goto(w, c, IF ShuttingDown(w) THEN "idle" ELSE "claim")
    /\ UNCHANGED <<row, inFlight, phase, World, faults>>

-----------------------------------------------------------------------------
(* The lease *)

\* Faulty variant: a running row is taken over whether or not it is stale.
ClaimableAnyway == row.enabled

\* Faulty variant: a claim nobody beats any more is never taken over.
ClaimableIdle == row.enabled /\ row.runState = "idle"

\* The predicate of claimPass.
Claimable == row.enabled /\ (row.runState = "idle" \/ row.stale)

\* The data of claimPass.
Claimed(w, c) ==
    [row EXCEPT !.runState = "running", !.claimedBy = w, !.by = c, !.stale = FALSE, !.recent = TRUE]

\* claimPass: one conditional update; a loser goes away.
ClaimPass(w, c) ==
    /\ slot[w][c].pc = "claim"
    /\ row' = IF Claimable THEN Claimed(w, c) ELSE row
    /\ Goto(w, c, IF Claimable THEN "won" ELSE "idle")
    /\ UNCHANGED <<inFlight, phase, World, faults>>

\* claimPass rejects, before or after the database took the update.
ClaimThrows(w, c) ==
    /\ slot[w][c].pc = "claim"
    /\ row' \in {row} \cup (IF Claimable THEN {Claimed(w, c)} ELSE {})
    /\ Goto(w, c, "idle")
    /\ Fault
    /\ UNCHANGED <<inFlight, phase, World>>

\* The claim is won: the run is started and registered, or handed back when
\* the latch was set meanwhile.
StartRun(w, c) ==
    /\ slot[w][c].pc = "won"
    /\ IF ShuttingDown(w)
       THEN Goto(w, c, "handback") /\ UNCHANGED inFlight
       ELSE Goto(w, c, "run") /\ inFlight' = [inFlight EXCEPT ![w] = c]
    /\ UNCHANGED <<row, phase, World, faults>>

\* The fence of beatPass and releasePass: the worker id alone.
Held(w) == row.runState = "running" /\ row.claimedBy = w

\* The interval's beatPass: the lease is prolonged, or the run is aborted.
BeatPass(w, c) ==
    /\ slot[w][c].pc \in Running
    /\ row' = IF Held(w) THEN [row EXCEPT !.stale = FALSE] ELSE row
    /\ slot' = [slot EXCEPT ![w][c].aborted = @ \/ ~Held(w)]
    /\ UNCHANGED <<inFlight, phase, World, faults>>

\* Faulty variant: the release is not fenced.
ReleasedAnyway(w) ==
    [row EXCEPT !.runState = "idle", !.claimedBy = None, !.by = None, !.stale = FALSE]

\* The row after releasePass.
Released(w) ==
    IF Held(w)
    THEN [row EXCEPT !.runState = "idle", !.claimedBy = None, !.by = None, !.stale = FALSE]
    ELSE row

\* A claim won too late is handed back; a rejected release is swallowed.
HandBack(w, c) ==
    /\ slot[w][c].pc = "handback"
    /\ \/ row' = Released(w) /\ UNCHANGED faults
       \/ UNCHANGED row /\ Fault
    /\ slot' = [slot EXCEPT ![w][c] = Rest]
    /\ UNCHANGED <<inFlight, phase, World>>

\* The finally of a run: releasePass, whatever became of the claim.
ReleasePass(w, c) ==
    /\ slot[w][c].pc = "release"
    /\ \/ row' = Released(w) /\ UNCHANGED faults
       \/ UNCHANGED row /\ Fault
    /\ slot' = [slot EXCEPT ![w][c] = [Rest EXCEPT !.pc = "forget"]]
    /\ UNCHANGED <<inFlight, phase, World>>

\* inFlight.delete(passKey), once the release has been answered.
ForgetRun(w, c) ==
    /\ slot[w][c].pc = "forget"
    /\ Goto(w, c, "idle")
    /\ inFlight' = [inFlight EXCEPT ![w] = None]
    /\ UNCHANGED <<row, phase, World, faults>>

\* BRAIN_LEASE_MS pass without a beat: nobody holds the claim, or its holder
\* is a process that stalls.
LeaseExpires ==
    /\ row.runState = "running"
    /\ ~row.stale
    /\ \/ row.claimedBy \in Stalling
       \/ \A w \in Workers, c \in Callers : w = row.claimedBy => slot[w][c].pc \notin Holding
    /\ row' = [row EXCEPT !.stale = TRUE]
    /\ UNCHANGED <<slot, inFlight, phase, World, faults>>

\* manualMinIntervalMs pass since lastRunAt.
IntervalPasses ==
    /\ row.recent
    /\ row' = [row EXCEPT !.recent = FALSE]
    /\ UNCHANGED <<slot, inFlight, phase, World, faults>>

\* Someone switches the pass on or off in the database.
SwitchPass ==
    /\ row' = [row EXCEPT !.enabled = ~@]
    /\ UNCHANGED <<slot, inFlight, phase, World, faults>>

-----------------------------------------------------------------------------
(* runCorpusPass *)

\* The pass row is read and the changed documents are listed; a pass switched
\* off meanwhile returns.
ReadCursor(w, c) ==
    /\ slot[w][c].pc = "run"
    /\ slot' = [slot EXCEPT ![w][c] =
          IF row.enabled
          THEN [@ EXCEPT !.pc = "next", !.at = row.cursor,
                         !.upto = IF row.cursor + UnitsPerRun <= Docs
                                  THEN row.cursor + UnitsPerRun ELSE Docs]
          ELSE [@ EXCEPT !.pc = "release"]]
    /\ UNCHANGED <<row, inFlight, phase, World, faults>>

\* Between two units: the list is done, the signal is aborted, or on.  After
\* the loop an aborted run writes no summary.
NextUnit(w, c) ==
    LET x == slot[w][c] IN
    /\ x.pc = "next"
    /\ Goto(w, c, IF x.aborted THEN "release"
                  ELSE IF x.at >= x.upto THEN "summary" ELSE "unit")
    /\ UNCHANGED <<row, inFlight, phase, World, faults>>

\* Faulty variant: the cursor is moved first and the document read after.
DigestLater(w, c) ==
    LET x == slot[w][c] IN
    /\ x.pc = "unit"
    /\ row' = [row EXCEPT !.cursor = x.at + 1]
    /\ Goto(w, c, "cursor")
    /\ UNCHANGED <<inFlight, phase, World, faults>>

\* One unit: the document's digests are written, or something in it fails
\* and it will be the last of the run.
Digest(w, c) ==
    LET x == slot[w][c] IN
    /\ x.pc = "unit"
    /\ \/ /\ digested' = digested \cup {x.at + 1}
          /\ Goto(w, c, "cursor")
          /\ UNCHANGED failed
       \/ /\ failed' = failed \cup {x.at + 1}
          /\ slot' = [slot EXCEPT ![w][c].pc = "cursor", ![w][c].upto = x.at + 1]
          /\ UNCHANGED digested
    /\ UNCHANGED <<row, inFlight, phase, faults>>

\* Faulty variant: the cursor skips one document more.
WriteCursorTwice(w, c) ==
    LET x == slot[w][c] IN
    /\ x.pc = "cursor"
    /\ row' = [row EXCEPT !.cursor = x.at + 2]
    /\ slot' = [slot EXCEPT ![w][c].pc = "next", ![w][c].at = x.at + 1]
    /\ UNCHANGED <<inFlight, phase, World, faults>>

\* The cursor moves past the unit, on the pass key alone: not fenced.
WriteCursor(w, c) ==
    LET x == slot[w][c] IN
    /\ x.pc = "cursor"
    /\ row' = [row EXCEPT !.cursor = x.at + 1]
    /\ slot' = [slot EXCEPT ![w][c].pc = "next", ![w][c].at = x.at + 1]
    /\ UNCHANGED <<inFlight, phase, World, faults>>

\* The run's summary sets lastRunAt back to the run's own start, which may
\* lie further back than the last claim.
Summary(w, c) ==
    /\ slot[w][c].pc = "summary"
    /\ \E b \in {row.recent, FALSE} : row' = [row EXCEPT !.recent = b]
    /\ Goto(w, c, "release")
    /\ UNCHANGED <<inFlight, phase, World, faults>>

\* A rejected await of the pass ends the run.
RunThrows(w, c) ==
    /\ slot[w][c].pc \in Running
    /\ Goto(w, c, "release")
    /\ Fault
    /\ UNCHANGED <<row, inFlight, phase, World>>

-----------------------------------------------------------------------------
(* Processes *)

\* releaseAllPasses latches.
ReleaseAllPasses(w) ==
    /\ phase[w] = "up"
    /\ phase' = [phase EXCEPT ![w] = "draining"]
    /\ Fault
    /\ UNCHANGED <<row, slot, inFlight, World>>

\* Its loop ends: nothing pending, nothing in flight.
Drained(w) ==
    /\ phase[w] = "draining"
    /\ \A c \in Callers : slot[w][c].pc \notin Pending
    /\ inFlight[w] = None
    /\ phase' = [phase EXCEPT ![w] = "drained"]
    /\ UNCHANGED <<row, slot, inFlight, World, faults>>

Dies(w) ==
    /\ phase' = [phase EXCEPT ![w] = "down"]
    /\ slot' = [slot EXCEPT ![w] = [c \in Callers |-> Rest]]
    /\ inFlight' = [inFlight EXCEPT ![w] = None]
    /\ UNCHANGED <<row, World>>

\* The rest of the shutdown is done and the process exits.
Exit(w) ==
    /\ phase[w] = "drained"
    /\ Dies(w)
    /\ UNCHANGED faults

Crash(w) ==
    /\ Alive(w)
    /\ Dies(w)
    /\ Fault

-----------------------------------------------------------------------------
(* The specification *)

Thread(w, c) ==
    \/ RateLimit(w, c) \/ Attempt(w, c) \/ ClaimPass(w, c) \/ StartRun(w, c)
    \/ HandBack(w, c) \/ ReadCursor(w, c) \/ NextUnit(w, c) \/ Digest(w, c)
    \/ WriteCursor(w, c) \/ Summary(w, c) \/ ReleasePass(w, c) \/ ForgetRun(w, c)

Next ==
    \/ \E w \in Workers, c \in Callers :
          \/ Trigger(w, c) \/ Thread(w, c)
          \/ BeatPass(w, c) \/ ClaimThrows(w, c) \/ RunThrows(w, c)
    \/ LeaseExpires \/ IntervalPasses \/ SwitchPass
    \/ \E w \in Workers : ReleaseAllPasses(w) \/ Drained(w) \/ Exit(w) \/ Crash(w)

Spec == Init /\ [][Next]_vars

\* Promises settle, intervals fire, a lease nobody beats runs out, and the
\* interval tick asks again and again.
Fairness ==
    /\ \A w \in Workers, c \in Callers :
          /\ WF_vars(Thread(w, c))
          /\ WF_vars(BeatPass(w, c))
    /\ \A w \in Workers, c \in Callers \ Manual : WF_vars(Trigger(w, c))
    /\ \A w \in Workers : WF_vars(Drained(w)) /\ WF_vars(Exit(w))
    /\ WF_vars(LeaseExpires)

LiveSpec == Spec /\ Fairness

-----------------------------------------------------------------------------
(* Properties *)

\* TypeOK: every variable has its type; the cursor names a document
\* (BrainPass columns, and the list runCorpusPass takes from the cursor).
TypeOK ==
    /\ row \in Rows
    /\ slot \in [Workers -> [Callers -> Slots]]
    /\ inFlight \in [Workers -> Callers \cup {None}]
    /\ phase \in [Workers -> {"up", "draining", "drained", "down"}]
    /\ digested \in SUBSET (1..Docs)
    /\ failed \in SUBSET (1..Docs)
    /\ faults \in 0..MaxFaults

Steady == Workers \ Stalling

\* HeldWhileRunning: in a process that does not stall, whoever won the pass
\* holds it, by its own claim and unexpired, until it has given it back, also
\* when another caller of the process, a zombie or a shutdown releases the
\* same row (claimPass, beatPass, releasePass: fenced by the worker id alone).
HeldWhileRunning ==
    \A w \in Steady, c \in Callers :
        slot[w][c].pc \in Holding =>
            row.runState = "running" /\ row.claimedBy = w /\ row.by = c /\ ~row.stale

Mutex == INSTANCE PassMutex
    WITH Runs <- Steady \X Callers,
         working <- {r \in Steady \X Callers : slot[r[1]][r[2]].pc \in Running}

\* OneRunPerPass: runWithLease implements the lease's promise: among the
\* processes that do not stall at most one run of the pass is at work, and the
\* next one starts only after it has ended.
OneRunPerPass == Mutex!Spec

\* SkipsNone: whatever crashes, overlaps or is taken over, the cursor never
\* passes a document no run has dealt with (runCorpusPass: "A crash
\* re-digests this one document and skips none").
SkipsNone == \A n \in 1..row.cursor : n \in digested \cup failed

\* CursorAdvances: no run moves the cursor back or over a document (its
\* update is on the pass key alone).  Without stalled processes only.
CursorAdvances == [][row'.cursor \in {row.cursor, row.cursor + 1}]_vars

\* DrainedIsClosed: once releaseAllPasses has returned, no attempt to claim
\* the pass is under way, and none starts (the latch, and the registration
\* in pending before the first await).
DrainedIsClosed ==
    \A w \in Workers, c \in Callers :
        phase[w] = "drained" => slot[w][c].pc \notin Pending

\* ShutdownEnds: the loop of releaseAllPasses terminates, however often the
\* pass is asked for meanwhile.
ShutdownEnds == \A w \in Workers : phase[w] = "draining" ~> phase[w] = "down"

\* PassRecovers: a pass whose process died is taken over or handed back as
\* long as it stays switched on and some process is up (the stale arm of
\* claimPass).
PassRecovers ==
    \A w \in Workers :
        row.claimedBy = w /\ phase[w] = "down" ~>
            \/ row.claimedBy # w
            \/ ~row.enabled
            \/ \A v \in Workers : ShuttingDown(v)

\* ReleasesOwnClaimOnly: a run on its way out releases no claim but its own.
ReleasesOwnClaimOnly ==
    [][\A w \in Workers, c \in Callers :
          slot[w][c].pc \in {"release", "handback"} /\ slot'[w][c] # slot[w][c]
          /\ Alive(w)' /\ row' # row => row.by = c]_vars

=============================================================================

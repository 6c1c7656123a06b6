------------------------- MODULE UpdateAgentProofs --------------------------
(***************************************************************************)
(* Proofs about UpdateAgent, for every value of its constants: types, one  *)
(* run per row, only applied releases run, and an update in flight has a   *)
(* backup that can undo it.                                                *)
(***************************************************************************)
EXTENDS UpdateAgent, TLAPS

-----------------------------------------------------------------------------
(* The inductive invariant *)

\* The swap of the row has begun.
Applied == {"applying", "committed", "rolled_back", "failed"}

\* The row is being verified by the runner there.
VerifyPCs == {"fetch", "snapshot", "pull", "stage", "reconcile", "refuse", "migrate"}

\* The row is being applied by the runner there.
SwapPCs == {"recreate", "gate", "swap", "restore", "unswap", "regate"}

\* The runner there has taken the backup, and nothing is swapped yet.
BackedPCs == {"pull", "stage", "reconcile", "refuse", "migrate"}

\* Only the resume hook is ever there.
BootPCs == ResumePCs \cup {"resume", "starting"}

\* The runner has a row.
RowPCs == ApplyPCs \cup ResumePCs \cup {"claim", "starting"}

\* What the place of a runner says of its row.
RunnerOK(t) ==
    /\ pc[t] \in RowPCs => work[t] \in Ids /\ status[work[t]] # "none"
    /\ pc[t] \in ApplyPCs => claim[work[t]] = t
    /\ pc[t] \in BootPCs => t = Boot
    /\ pc[t] = "select" => t # Window
    /\ pc[t] = "claim" /\ seen[t] = "verifying" => status[work[t]] # "pending"
    /\ pc[t] \in {"dispatch", "floor"} /\ seen[t] = "verifying" =>
            status[work[t]] = "verifying"
    /\ pc[t] \in VerifyPCs => status[work[t]] = "verifying"
    /\ pc[t] \in SwapPCs \cup ResumePCs => status[work[t]] = "applying"
    /\ pc[t] = "starting" => status[work[t]] = "committed"
    /\ pc[t] \in BackedPCs => saved[work[t]] # None /\ savedConfigs[work[t]] # None

\* Nobody runs before the resume hook has cleared the claims, and nobody applies
\* the row it settles.
BootOK ==
    /\ pc[Boot] = "resume" => \A t \in Runners \ {Boot} : pc[t] = "idle"
    /\ pc[Boot] \in ResumePCs =>
            \A t \in Runners : pc[t] \in ApplyPCs => work[t] # work[Boot]

\* A swap that has begun, and its supervisor, have a backup.
RowOK(i) ==
    /\ status[i] \in Applied => saved[i] # None /\ savedConfigs[i] # None
    /\ helper[i] # "none" => status[i] \in Applied

Control == (\A t \in Runners : RunnerOK(t)) /\ BootOK /\ \A i \in Ids : RowOK(i)

Inv == TypeOK /\ Control

\* A row tells of the swap to the release.
Ran(r) == \E i \in Ids : release[i] = r /\ status[i] \in Applied

\* What runs, and what a backup would bring back, was applied.
Traced ==
    /\ \A s \in Services : image[s] \in Releases => Ran(image[s])
    /\ \A i \in Ids : saved[i] # None =>
            \A s \in Services : saved[i][s] \in Releases => Ran(saved[i][s])

\* A row has a release.
RowsReleased == \A i \in Rows : release[i] \in Releases

\* A backup holds the release it is the way back from only when another row of
\* that release was applied.
Apart(i) == \A s \in Services : saved[i][s] = release[i] => Twin(i)

WayBack ==
    /\ \A i \in Ids : status[i] \in Applied => Apart(i)
    /\ \A t \in Runners : pc[t] \in BackedPCs => Apart(work[t])

USE UpdateAssumption DEF Ids, Images, Statuses, Applicable, Verdicts, Outcomes, Runners, PCs,
    ApplyPCs, ResumePCs, BackedPCs, BootPCs, VerifyPCs, SwapPCs, Applied, RowPCs, Services,
    rowVars, boxVars, helperVars, settings, bounds

-----------------------------------------------------------------------------
(* What the helpers do to the types *)

LEMMA GotoType ==
    ASSUME TypeOK, NEW t \in Runners, NEW n \in PCs, Goto(t, n)
    PROVE  pc' \in [Runners -> PCs]
  BY DEF TypeOK, Goto

LEMMA AdvanceType ==
    ASSUME TypeOK, NEW t \in Runners, NEW i \in Ids, NEW to \in Statuses,
           NEW v \in Outcomes, NEW n \in PCs, Advance(t, i, to, v, n)
    PROVE  /\ status' \in [Ids -> Statuses \cup {"none"}]
           /\ outcome' \in [Ids -> Outcomes]
           /\ pc' \in [Runners -> PCs]
  <1>1. Thrown(t) \in PCs
    BY DEF Thrown
  <1>2. pc' \in [Runners -> PCs]
    BY <1>1, GotoType DEF Advance
  <1>3. status' \in [Ids -> Statuses \cup {"none"}]
    BY DEF TypeOK, Advance
  <1>4. outcome' \in [Ids -> Outcomes]
    BY DEF TypeOK, Advance
  <1>5. QED
    BY <1>2, <1>3, <1>4

LEMMA KeepType ==
    ASSUME TypeOK, NEW t \in Runners, NEW i \in Ids, NEW to \in Statuses,
           NEW n \in PCs, Advance(t, i, to, outcome[i], n)
    PROVE  /\ status' \in [Ids -> Statuses \cup {"none"}]
           /\ outcome' \in [Ids -> Outcomes]
           /\ pc' \in [Runners -> PCs]
  <1>1. Thrown(t) \in PCs
    BY DEF Thrown
  <1>2. pc' \in [Runners -> PCs]
    BY <1>1, GotoType DEF Advance
  <1>3. status' \in [Ids -> Statuses \cup {"none"}]
    BY DEF TypeOK, Advance
  <1>4. outcome' \in [Ids -> Outcomes]
    BY DEF TypeOK, Advance
  <1>5. QED
    BY <1>2, <1>3, <1>4

LEMMA RestartType ==
    ASSUME Restart
    PROVE  /\ pc' \in [Runners -> PCs]
           /\ work' \in [Runners -> Ids \cup {0}]
           /\ seen' \in [Runners -> Statuses \cup {"none"}]
           /\ inFlight' \in BOOLEAN
           /\ found' \in [Pollers -> Images]
  <1>1. inFlight' \in BOOLEAN
    BY Zenon DEF Restart
  <1>2. pc' \in [Runners -> PCs]
    BY DEF Restart
  <1>3. QED
    BY <1>1, <1>2 DEF Restart

LEMMA WorkType ==
    ASSUME Inv, NEW t \in Runners, pc[t] \in RowPCs
    PROVE  work[t] \in Ids
  BY DEF Inv, TypeOK, Control, RunnerOK

LEMMA ChecksType ==
    ASSUME Inv, NEW t \in Runners, NEW at \in ApplyPCs, NEW n \in PCs, Checks(t, at, n)
    PROVE  TypeOK'
  <1>1. work[t] \in Ids
    BY WorkType DEF Checks
  <1>2. "rejected" \in Statuses /\ "release" \in PCs
    OBVIOUS
  <1>3. CASE Goto(t, n) /\ UNCHANGED <<status, outcome>>
    BY <1>3, GotoType DEF Checks, Inv, TypeOK
  <1>4. CASE Advance(t, work[t], "rejected", outcome[work[t]], "release")
    BY <1>1, <1>2, <1>4, KeepType DEF Checks, Inv, TypeOK
  <1>5. QED
    BY <1>3, <1>4 DEF Checks

LEMMA VerdictType ==
    ASSUME Inv, NEW t \in Runners, NEW n \in PCs, pc[t] \in RowPCs, Verdict(t, work[t], n)
    PROVE  TypeOK'
  <1>1. work[t] \in Ids
    BY WorkType
  <1>2. /\ {"rolled_back", "failed"} \subseteq Statuses
        /\ {"rolled_back", "rollback_failed"} \subseteq Outcomes
    OBVIOUS
  <1>3. /\ status' \in [Ids -> Statuses \cup {"none"}]
        /\ outcome' \in [Ids -> Outcomes]
        /\ pc' \in [Runners -> PCs]
    BY <1>1, <1>2, AdvanceType DEF Verdict, Inv
  <1>4. QED
    BY <1>3 DEF Verdict, Inv, TypeOK
-----------------------------------------------------------------------------
(* Types *)

LEMMA TypeClaim ==
    ASSUME Inv, NEW t \in Runners, Claim(t)
    PROVE  TypeOK'
  <1>1. work[t] \in Ids
    BY WorkType DEF Claim
  <1>2. {"dispatch", "floor", "idle"} \subseteq PCs
    OBVIOUS
  <1>3. pc' \in [Runners -> PCs]
    BY <1>2, GotoType DEF Claim, Inv
  <1>4. claim' \in [Ids -> Runners \cup {None}]
    <2>1. claim' = [claim EXCEPT ![work[t]] = t] \/ claim' = claim
      BY DEF Claim
    <2>2. QED
      BY <1>1, <2>1 DEF Inv, TypeOK
  <1>5. inFlight' \in BOOLEAN
    BY DEF Claim, Inv, TypeOK
  <1>6. QED
    BY <1>3, <1>4, <1>5 DEF Claim, Inv, TypeOK

LEMMA TypeRelease ==
    ASSUME Inv, NEW t \in Runners, Release(t)
    PROVE  TypeOK'
  <1>1. pc' \in [Runners -> PCs]
    BY GotoType DEF Release, Inv
  <1>2. claim' \in [Ids -> Runners \cup {None}]
    <2>1. work[t] \in Ids
      BY WorkType DEF Release
    <2>2. CASE claim' = [claim EXCEPT ![work[t]] = IF @ = t THEN None ELSE @]
      BY <2>1, <2>2 DEF Inv, TypeOK
    <2>3. CASE UNCHANGED claim
      BY <2>3 DEF Inv, TypeOK
    <2>4. QED
      BY <2>2, <2>3 DEF Release
  <1>3. inFlight' \in BOOLEAN
    BY Zenon DEF Release
  <1>4. faults' \in 0..MaxFaults /\ crashes' \in 0..MaxCrashes
    BY DEF Release, Fault, Inv, TypeOK
  <1>5. QED
    BY <1>1, <1>2, <1>3, <1>4 DEF Release, Inv, TypeOK

LEMMA TypeFloor ==
    ASSUME Inv, NEW t \in Runners, Floor(t)
    PROVE  TypeOK'
  <1>1. work[t] \in Ids
    BY WorkType DEF Floor
  <1>2. {"superseded", "verifying"} \subseteq Statuses /\ {"release", "fetch"} \subseteq PCs
    OBVIOUS
  <1>3. /\ status' \in [Ids -> Statuses \cup {"none"}]
        /\ outcome' \in [Ids -> Outcomes]
        /\ pc' \in [Runners -> PCs]
    <2>1. CASE Advance(t, work[t], "superseded", outcome[work[t]], "release")
      BY <1>1, <1>2, <2>1, KeepType DEF Inv
    <2>2. CASE Advance(t, work[t], "verifying", outcome[work[t]], "fetch")
      BY <1>1, <1>2, <2>2, KeepType DEF Inv
    <2>3. CASE Goto(t, "release") /\ UNCHANGED <<status, outcome>>
      BY <1>2, <2>3, GotoType DEF Inv, TypeOK
    <2>4. CASE Goto(t, "fetch") /\ UNCHANGED <<status, outcome>>
      BY <1>2, <2>4, GotoType DEF Inv, TypeOK
    <2>5. QED
      BY <2>1, <2>2, <2>3, <2>4 DEF Floor
  <1>4. QED
    BY <1>3 DEF Floor, Inv, TypeOK

LEMMA TypeFetch ==
    ASSUME Inv, NEW t \in Runners, Fetch(t)
    PROVE  TypeOK'
  BY ChecksType DEF Fetch

LEMMA TypePull ==
    ASSUME Inv, NEW t \in Runners, Pull(t)
    PROVE  TypeOK'
  BY ChecksType DEF Pull

LEMMA TypeRefuse ==
    ASSUME Inv, NEW t \in Runners, Refuse(t)
    PROVE  TypeOK'
  <1>1. work[t] \in Ids
    BY WorkType DEF Refuse
  <1>2. "rejected" \in Statuses /\ "release" \in PCs
    OBVIOUS
  <1>3. /\ status' \in [Ids -> Statuses \cup {"none"}]
        /\ outcome' \in [Ids -> Outcomes]
        /\ pc' \in [Runners -> PCs]
    BY <1>1, <1>2, KeepType DEF Refuse, Inv
  <1>4. configs' \in Images
    BY <1>1 DEF Refuse, Inv, TypeOK, Control, RunnerOK
  <1>5. QED
    BY <1>3, <1>4 DEF Refuse, Inv, TypeOK

LEMMA TypeMigrate ==
    ASSUME Inv, NEW t \in Runners, Migrate(t)
    PROVE  TypeOK'
  <1>1. work[t] \in Ids
    BY WorkType DEF Migrate
  <1>2. "applying" \in Statuses /\ "recreate" \in PCs
    OBVIOUS
  <1>3. /\ status' \in [Ids -> Statuses \cup {"none"}]
        /\ outcome' \in [Ids -> Outcomes]
        /\ pc' \in [Runners -> PCs]
    BY <1>1, <1>2, KeepType DEF Migrate, Inv
  <1>4. QED
    BY <1>3 DEF Migrate, Inv, TypeOK

LEMMA TypeRegate ==
    ASSUME Inv, NEW t \in Runners, Regate(t)
    PROVE  TypeOK'
  BY VerdictType DEF Regate

LEMMA TypeFinal ==
    ASSUME Inv, Final
    PROVE  TypeOK'
  <1>1. work[Boot] \in Ids /\ Boot \in Runners
    BY WorkType DEF Final
  <1>2. /\ "committed" \in Statuses /\ "starting_services" \in Outcomes
        /\ {"starting", "undoConfigs"} \subseteq PCs
    OBVIOUS
  <1>3. /\ status' \in [Ids -> Statuses \cup {"none"}]
        /\ outcome' \in [Ids -> Outcomes]
        /\ pc' \in [Runners -> PCs]
    <2>1. CASE Advance(Boot, work[Boot], "committed", "starting_services", "starting")
      BY <1>1, <1>2, <2>1, AdvanceType DEF Inv
    <2>2. CASE Goto(Boot, "undoConfigs") /\ UNCHANGED <<status, outcome, installed>>
      BY <1>1, <1>2, <2>2, GotoType DEF Inv, TypeOK
    <2>3. QED
      BY <2>1, <2>2 DEF Final
  <1>4. installed' \in Ids \cup {0}
    BY <1>1 DEF Final, Inv, TypeOK
  <1>5. QED
    BY <1>3, <1>4 DEF Final, Inv, TypeOK

LEMMA TypeBootVerdict ==
    ASSUME Inv, BootVerdict
    PROVE  TypeOK'
  <1>1. Boot \in Runners
    OBVIOUS
  <1>2. QED
    BY <1>1, VerdictType DEF BootVerdict

LEMMA TypeHelperSwap ==
    ASSUME Inv, NEW i \in Ids, HelperSwap(i)
    PROVE  TypeOK'
  <1>1. saved[i] \in [Services -> Images \cup {None}]
    <2>1. helper[i] # "none"
      BY DEF HelperSwap
    <2>2. saved[i] # None
      BY <2>1 DEF Inv, Control, RowOK
    <2>3. QED
      BY <2>2 DEF Inv, TypeOK
  <1>2. image' \in [Services -> Images \cup {None}]
    BY <1>1 DEF HelperSwap, Inv, TypeOK
  <1>3. helper' \in [Ids -> {"none", "swap", "watch", "undo", "walk"}]
    BY DEF HelperSwap, Inv, TypeOK
  <1>4. faults' \in 0..MaxFaults /\ crashes' \in 0..MaxCrashes
    BY DEF HelperSwap, Fault, Inv, TypeOK
  <1>5. /\ pc' \in [Runners -> PCs] /\ work' \in [Runners -> Ids \cup {0}]
        /\ seen' \in [Runners -> Statuses \cup {"none"}]
        /\ inFlight' \in BOOLEAN /\ found' \in [Pollers -> Images]
    BY RestartType DEF HelperSwap, Inv, TypeOK
  <1>6. QED
    BY <1>2, <1>3, <1>4, <1>5 DEF HelperSwap, Inv, TypeOK

LEMMA TypeHelperWalk ==
    ASSUME Inv, NEW i \in Ids, HelperWalk(i)
    PROVE  TypeOK'
  <1>1. saved[i] \in [Services -> Images \cup {None}]
    <2>1. helper[i] # "none"
      BY DEF HelperWalk
    <2>2. saved[i] # None
      BY <2>1 DEF Inv, Control, RowOK
    <2>3. QED
      BY <2>2 DEF Inv, TypeOK
  <1>2. image' \in [Services -> Images \cup {None}]
    BY <1>1 DEF HelperWalk, OnPrevious, Inv, TypeOK
  <1>3. helper' \in [Ids -> {"none", "swap", "watch", "undo", "walk"}]
    BY DEF HelperWalk, Inv, TypeOK
  <1>4. faults' \in 0..MaxFaults /\ crashes' \in 0..MaxCrashes
    BY DEF HelperWalk, Fault, Inv, TypeOK
  <1>5. /\ pc' \in [Runners -> PCs] /\ work' \in [Runners -> Ids \cup {0}]
        /\ seen' \in [Runners -> Statuses \cup {"none"}]
        /\ inFlight' \in BOOLEAN /\ found' \in [Pollers -> Images]
    BY RestartType DEF HelperWalk, Inv, TypeOK
  <1>6. QED
    BY <1>2, <1>3, <1>4, <1>5 DEF HelperWalk, Inv, TypeOK

LEMMA TypePollCheck ==
    ASSUME Inv, NEW p \in Pollers, NEW r \in Releases, PollCheck(p, r)
    PROVE  TypeOK'
  <1>1. found' \in [Pollers -> Images]
    BY DEF PollCheck, Inv, TypeOK
  <1>2. QED
    BY <1>1 DEF PollCheck, Inv, TypeOK

LEMMA TypePollCreate ==
    ASSUME Inv, NEW p \in Pollers, NEW i \in Ids, PollCreate(p, i)
    PROVE  TypeOK'
  <1>1. status' \in [Ids -> Statuses \cup {"none"}]
    BY DEF PollCreate, Inv, TypeOK
  <1>2. release' \in [Ids -> Images]
    BY DEF PollCreate, Inv, TypeOK
  <1>3. found' \in [Pollers -> Images]
    BY DEF PollCreate, Inv, TypeOK
  <1>4. QED
    BY <1>1, <1>2, <1>3 DEF PollCreate, Inv, TypeOK

LEMMA TypeWindowTick ==
    ASSUME Inv, NEW i \in Ids, WindowTick(i)
    PROVE  TypeOK'
  <1>1. pc' \in [Runners -> PCs]
    BY DEF WindowTick, Goto, Picks, Inv, TypeOK
  <1>2. work' \in [Runners -> Ids \cup {0}]
    BY DEF WindowTick, Picks, Inv, TypeOK
  <1>3. seen' \in [Runners -> Statuses \cup {"none"}]
    BY DEF WindowTick, Picks, Inv, TypeOK
  <1>4. QED
    BY <1>1, <1>2, <1>3 DEF WindowTick, Picks, Inv, TypeOK

LEMMA TypeApplyNow ==
    ASSUME Inv, NEW o \in Operators, ApplyNow(o)
    PROVE  TypeOK'
  <1>1. pc' \in [Runners -> PCs]
    BY DEF ApplyNow, Goto, Inv, TypeOK
  <1>2. QED
    BY <1>1 DEF ApplyNow, Inv, TypeOK

LEMMA TypeSelect ==
    ASSUME Inv, NEW t \in Runners, Select(t)
    PROVE  TypeOK'
  <1>1. pc' \in [Runners -> PCs]
    BY DEF Select, Goto, Picks, Inv, TypeOK
  <1>2. work' \in [Runners -> Ids \cup {0}]
    BY DEF Select, Picks, Inv, TypeOK
  <1>3. seen' \in [Runners -> Statuses \cup {"none"}]
    BY DEF Select, Picks, Inv, TypeOK
  <1>4. QED
    BY <1>1, <1>2, <1>3 DEF Select, Picks, Inv, TypeOK

LEMMA TypeDispatch ==
    ASSUME Inv, NEW t \in Runners, Dispatch(t)
    PROVE  TypeOK'
  <1>1. pc' \in [Runners -> PCs]
    <2>1. \E n \in {"floor", "release"} : Goto(t, n)
      BY DEF Dispatch
    <2>2. QED
      BY <2>1, GotoType DEF Inv
  <1>2. seen' \in [Runners -> Statuses \cup {"none"}]
    BY DEF Dispatch, Inv, TypeOK
  <1>3. QED
    BY <1>1, <1>2 DEF Dispatch, Inv, TypeOK

LEMMA TypeSnapshot ==
    ASSUME Inv, NEW t \in Runners, Snapshot(t)
    PROVE  TypeOK'
  <1>1. pc' \in [Runners -> PCs]
    BY DEF Snapshot, Goto, Inv, TypeOK
  <1>2. saved' \in [Ids -> [Services -> Images \cup {None}] \cup {None}]
    BY DEF Snapshot, Inv, TypeOK, Control, RunnerOK, RowOK
  <1>3. savedConfigs' \in [Ids -> Images \cup {None}]
    BY DEF Snapshot, Inv, TypeOK
  <1>4. QED
    BY <1>1, <1>2, <1>3 DEF Snapshot, Inv, TypeOK

LEMMA TypeStage ==
    ASSUME Inv, NEW t \in Runners, Stage(t)
    PROVE  TypeOK'
  <1>1. pc' \in [Runners -> PCs]
    BY DEF Stage, Goto, Inv, TypeOK
  <1>2. configs' \in Images
    BY DEF Stage, Inv, TypeOK, Control, RunnerOK, RowOK
  <1>3. QED
    BY <1>1, <1>2 DEF Stage, Inv, TypeOK

LEMMA TypeReconcile ==
    ASSUME Inv, NEW t \in Runners, Reconcile(t)
    PROVE  TypeOK'
  <1>1. pc' \in [Runners -> PCs]
    BY DEF Reconcile, Goto, Inv, TypeOK
  <1>2. QED
    BY <1>1 DEF Reconcile, Inv, TypeOK

LEMMA TypeRecreate ==
    ASSUME Inv, NEW t \in Runners, Recreate(t)
    PROVE  TypeOK'
  <1>1. pc' \in [Runners -> PCs]
    BY DEF Recreate, Goto, Thrown, Recreates, Inv, TypeOK
  <1>2. image' \in [Services -> Images \cup {None}]
    BY DEF Recreate, Recreates, OnRelease, Inv, TypeOK, Control, RunnerOK, RowOK
  <1>3. faults' \in 0..MaxFaults
    BY DEF Recreate, Fault, Recreates, Inv, TypeOK
  <1>4. crashes' \in 0..MaxCrashes
    BY DEF Recreate, Fault, Recreates, Inv, TypeOK
  <1>5. QED
    BY <1>1, <1>2, <1>3, <1>4 DEF Recreate, Recreates, Fault, Inv, TypeOK

LEMMA TypeGate ==
    ASSUME Inv, NEW t \in Runners, Gate(t)
    PROVE  TypeOK'
  <1>1. pc' \in [Runners -> PCs]
    BY DEF Gate, Goto, Inv, TypeOK
  <1>2. QED
    BY <1>1 DEF Gate, Inv, TypeOK

LEMMA TypeSwap ==
    ASSUME Inv, NEW t \in Runners, Swap(t)
    PROVE  TypeOK'
  <1>1. pc' \in [Runners -> PCs]
    BY DEF Swap, Goto, Inv, TypeOK
  <1>2. helper' \in [Ids -> {"none", "swap", "watch", "undo", "walk"}]
    BY DEF Swap, Launch, Inv, TypeOK
  <1>3. aim' \in [Ids -> {"release", "previous"}]
    BY DEF Swap, Launch, Inv, TypeOK
  <1>4. QED
    BY <1>1, <1>2, <1>3 DEF Swap, Launch, Inv, TypeOK

LEMMA TypeRestore ==
    ASSUME Inv, NEW t \in Runners, Restore(t)
    PROVE  TypeOK'
  <1>1. pc' \in [Runners -> PCs]
    BY DEF Restore, Goto, Inv, TypeOK
  <1>2. configs' \in Images
    BY DEF Restore, Inv, TypeOK, Control, RunnerOK, RowOK
  <1>3. QED
    BY <1>1, <1>2 DEF Restore, Inv, TypeOK

LEMMA TypeUnswap ==
    ASSUME Inv, NEW t \in Runners, Unswap(t)
    PROVE  TypeOK'
  <1>1. pc' \in [Runners -> PCs]
    BY DEF Unswap, Goto, Thrown, Recreates, Inv, TypeOK
  <1>2. image' \in [Services -> Images \cup {None}]
    BY DEF Unswap, Recreates, OnPrevious, Swapped, Inv, TypeOK, Control, RunnerOK, RowOK
  <1>3. faults' \in 0..MaxFaults
    BY DEF Unswap, Fault, Recreates, Inv, TypeOK
  <1>4. crashes' \in 0..MaxCrashes
    BY DEF Unswap, Fault, Recreates, Inv, TypeOK
  <1>5. QED
    BY <1>1, <1>2, <1>3, <1>4 DEF Unswap, Recreates, Fault, Inv, TypeOK

LEMMA TypeThrow ==
    ASSUME Inv, NEW t \in Runners, Throw(t)
    PROVE  TypeOK'
  <1>1. pc' \in [Runners -> PCs]
    BY DEF Throw, Goto, Thrown, Inv, TypeOK
  <1>2. inFlight' \in BOOLEAN
    BY DEF Throw, Inv, TypeOK
  <1>3. faults' \in 0..MaxFaults
    BY DEF Throw, Fault, Inv, TypeOK
  <1>4. crashes' \in 0..MaxCrashes
    BY DEF Throw, Fault, Inv, TypeOK
  <1>5. QED
    BY <1>1, <1>2, <1>3, <1>4 DEF Throw, Fault, Inv, TypeOK

LEMMA TypeResumeApplying ==
    ASSUME Inv, NEW i \in Ids, ResumeApplying(i)
    PROVE  TypeOK'
  <1>1. pc' \in [Runners -> PCs]
    BY DEF ResumeApplying, Goto, Inv, TypeOK
  <1>2. work' \in [Runners -> Ids \cup {0}]
    BY DEF ResumeApplying, Inv, TypeOK
  <1>3. claim' \in [Ids -> Runners \cup {None}]
    BY DEF ResumeApplying, ClearClaims, Inv, TypeOK
  <1>4. QED
    BY <1>1, <1>2, <1>3 DEF ResumeApplying, ClearClaims, Inv, TypeOK

LEMMA TypeResumeVerifying ==
    ASSUME Inv, ResumeVerifying
    PROVE  TypeOK'
  <1>1. pc' \in [Runners -> PCs]
    BY DEF ResumeVerifying, Goto, Inv, TypeOK
  <1>2. claim' \in [Ids -> Runners \cup {None}]
    BY DEF ResumeVerifying, ClearClaims, Inv, TypeOK
  <1>3. QED
    BY <1>1, <1>2 DEF ResumeVerifying, ClearClaims, Inv, TypeOK

LEMMA TypeUndoSelf ==
    ASSUME Inv, UndoSelf
    PROVE  TypeOK'
  <1>1. pc' \in [Runners -> PCs]
    BY DEF UndoSelf, Goto, Inv, TypeOK
  <1>2. helper' \in [Ids -> {"none", "swap", "watch", "undo", "walk"}]
    BY DEF UndoSelf, Launch, Inv, TypeOK
  <1>3. aim' \in [Ids -> {"release", "previous"}]
    BY DEF UndoSelf, Launch, Inv, TypeOK
  <1>4. QED
    BY <1>1, <1>2, <1>3 DEF UndoSelf, Launch, Inv, TypeOK

LEMMA TypeStartServices ==
    ASSUME Inv, StartServices
    PROVE  TypeOK'
  <1>1. pc' \in [Runners -> PCs]
    BY DEF StartServices, Goto, Inv, TypeOK
  <1>2. image' \in [Services -> Images \cup {None}]
    BY DEF StartServices, OnRelease, Inv, TypeOK, Control, RunnerOK, RowOK
  <1>3. outcome' \in [Ids -> Outcomes]
    BY DEF StartServices, Inv, TypeOK, Control, RunnerOK, RowOK
  <1>4. installed' \in Ids \cup {0}
    BY DEF StartServices, Inv, TypeOK, Control, RunnerOK, RowOK
  <1>5. QED
    BY <1>1, <1>2, <1>3, <1>4 DEF StartServices, Inv, TypeOK

LEMMA TypeHelperWatch ==
    ASSUME Inv, NEW i \in Ids, HelperWatch(i)
    PROVE  TypeOK'
  <1>1. helper' \in [Ids -> {"none", "swap", "watch", "undo", "walk"}]
    BY DEF HelperWatch, Inv, TypeOK
  <1>2. QED
    BY <1>1 DEF HelperWatch, Inv, TypeOK

LEMMA TypeHelperUndo ==
    ASSUME Inv, NEW i \in Ids, HelperUndo(i)
    PROVE  TypeOK'
  <1>1. configs' \in Images
    BY DEF HelperUndo, Inv, TypeOK, Control, RunnerOK, RowOK
  <1>2. helper' \in [Ids -> {"none", "swap", "watch", "undo", "walk"}]
    BY DEF HelperUndo, Inv, TypeOK
  <1>3. faults' \in 0..MaxFaults
    BY DEF HelperUndo, Fault, Inv, TypeOK
  <1>4. crashes' \in 0..MaxCrashes
    BY DEF HelperUndo, Fault, Inv, TypeOK
  <1>5. QED
    BY <1>1, <1>2, <1>3, <1>4 DEF HelperUndo, Fault, Inv, TypeOK

LEMMA TypeSkip ==
    ASSUME Inv, NEW i \in Ids, Skip(i)
    PROVE  TypeOK'
  <1>1. status' \in [Ids -> Statuses \cup {"none"}]
    BY DEF Skip, Inv, TypeOK
  <1>2. QED
    BY <1>1 DEF Skip, Inv, TypeOK

LEMMA TypeSetChannel ==
    ASSUME Inv, NEW c \in Channels, SetChannel(c)
    PROVE  TypeOK'
  <1>1. channel' \in Channels
    BY DEF SetChannel, Inv, TypeOK
  <1>2. QED
    BY <1>1 DEF SetChannel, Inv, TypeOK

LEMMA TypeFinishSetup ==
    ASSUME Inv, FinishSetup
    PROVE  TypeOK'
  <1>1. ready' \in BOOLEAN
    BY DEF FinishSetup, Inv, TypeOK
  <1>2. QED
    BY <1>1 DEF FinishSetup, Inv, TypeOK

LEMMA TypeCrash ==
    ASSUME Inv, Crash
    PROVE  TypeOK'
  <1>1. pc' \in [Runners -> PCs]
    BY DEF Crash, Restart, Inv, TypeOK
  <1>2. work' \in [Runners -> Ids \cup {0}]
    BY DEF Crash, Restart, Inv, TypeOK
  <1>3. seen' \in [Runners -> Statuses \cup {"none"}]
    BY DEF Crash, Restart, Inv, TypeOK
  <1>4. inFlight' \in BOOLEAN
    BY DEF Crash, Restart, Inv, TypeOK
  <1>5. found' \in [Pollers -> Images]
    BY DEF Crash, Restart, Inv, TypeOK
  <1>6. helper' \in [Ids -> {"none", "swap", "watch", "undo", "walk"}]
    BY DEF Crash, Inv, TypeOK
  <1>7. crashes' \in 0..MaxCrashes
    BY DEF Crash, Inv, TypeOK
  <1>8. QED
    BY <1>1, <1>2, <1>3, <1>4, <1>5, <1>6, <1>7 DEF Crash, Restart, Inv, TypeOK

-----------------------------------------------------------------------------
(* Control *)

LEMMA PicksControl ==
    ASSUME Inv, TypeOK', NEW t \in Runners, NEW i \in Ids, Picks(t, i),
           pc[t] \in {"idle", "select"},
           pc[Boot] = "resume" => t = Boot,
           UNCHANGED <<status, claim, saved, savedConfigs, helper>>
    PROVE  Control'
  <1>1. /\ status[i] \in Applicable
        /\ pc' = [pc EXCEPT ![t] = "claim"]
        /\ work' = [work EXCEPT ![t] = i]
        /\ seen' = [seen EXCEPT ![t] = status[i]]
    BY DEF Picks, Goto, IsNewest, WithStatus
  <1>2. ASSUME NEW u \in Runners PROVE RunnerOK(u)'
    <2>1. CASE u = t
      BY <1>1, <2>1 DEF Inv, TypeOK, RunnerOK
    <2>2. CASE u # t
      BY <1>1, <2>2 DEF Inv, TypeOK, Control, RunnerOK
    <2>3. QED
      BY <2>1, <2>2
  <1>3. BootOK'
    BY <1>1 DEF Inv, TypeOK, Control, BootOK
  <1>4. ASSUME NEW j \in Ids PROVE RowOK(j)'
    BY <1>4 DEF Inv, Control, RowOK
  <1>5. QED
    BY <1>2, <1>3, <1>4 DEF Control

LEMMA ControlWindowTick ==
    ASSUME Inv, TypeOK', NEW i \in Ids, WindowTick(i)
    PROVE  Control'
  BY PicksControl DEF WindowTick

LEMMA ControlApplyNow ==
    ASSUME Inv, TypeOK', NEW o \in Operators, Listening, ApplyNow(o)
    PROVE  Control'
  <1>1. /\ o \in Runners /\ o # Window /\ o # Boot /\ pc[Boot] # "resume"
        /\ pc' = [pc EXCEPT ![o] = "select"]
        /\ UNCHANGED <<status, claim, saved, savedConfigs, helper, work, seen>>
    BY DEF Listening, ApplyNow, Goto
  <1>2. ASSUME NEW u \in Runners PROVE RunnerOK(u)'
    <2>1. CASE u = o
      BY <1>1, <2>1 DEF Inv, TypeOK, RunnerOK
    <2>2. CASE u # o
      BY <1>1, <2>2 DEF Inv, TypeOK, Control, RunnerOK
    <2>3. QED
      BY <2>1, <2>2
  <1>3. BootOK'
    BY <1>1 DEF Inv, TypeOK, Control, BootOK
  <1>4. ASSUME NEW j \in Ids PROVE RowOK(j)'
    BY <1>1, <1>4 DEF Inv, Control, RowOK
  <1>5. QED
    BY <1>2, <1>3, <1>4 DEF Control

LEMMA ControlSelect ==
    ASSUME Inv, TypeOK', NEW t \in Runners, Select(t)
    PROVE  Control'
  <1>1. pc[t] = "select" /\ pc[Boot] # "resume"
    BY DEF Select, Inv, Control, BootOK
  <1>2. CASE \E i \in Ids : Picks(t, i)
    BY <1>1, <1>2, PicksControl DEF Select
  <1>3. CASE Goto(t, "idle") /\ UNCHANGED <<work, seen>>
    <2>1. ASSUME NEW u \in Runners PROVE RunnerOK(u)'
      BY <1>3, <2>1 DEF Select, Goto, Inv, TypeOK, Control, RunnerOK
    <2>2. BootOK'
      BY <1>1, <1>3 DEF Select, Goto, Inv, TypeOK, Control, BootOK
    <2>3. ASSUME NEW j \in Ids PROVE RowOK(j)'
      BY <2>3 DEF Select, Inv, Control, RowOK
    <2>4. QED
      BY <2>1, <2>2, <2>3 DEF Control
  <1>4. QED
    BY <1>2, <1>3 DEF Select

LEMMA ControlPollCreate ==
    ASSUME Inv, TypeOK', NEW p \in Pollers, NEW i \in Ids, PollCreate(p, i)
    PROVE  Control'
  <1>1. ASSUME NEW j \in Ids
        PROVE  \/ status'[j] = status[j]
               \/ status[j] = "none" /\ status'[j] = "pending"
               \/ status[j] = "pending" /\ status'[j] = "superseded"
               \/ status[j] = "verifying" /\ claim[j] = None /\ status'[j] = "superseded"
    BY <1>1 DEF PollCreate, Rows
  <1>2. UNCHANGED <<claim, pc, work, seen, saved, savedConfigs, helper>>
    BY DEF PollCreate
  <1>3. ASSUME NEW u \in Runners PROVE RunnerOK(u)'
    <2>1. CASE pc[u] \in ApplyPCs
      <3>1. work[u] \in Ids /\ claim[work[u]] # None /\ status[work[u]] # "none"
        BY <2>1 DEF Inv, Control, RunnerOK
      <3>2. \/ status'[work[u]] = status[work[u]]
            \/ status[work[u]] = "pending" /\ status'[work[u]] = "superseded"
        BY <1>1, <3>1
      <3>3. QED
        BY <1>2, <2>1, <3>1, <3>2 DEF Inv, Control, RunnerOK
    <2>2. CASE pc[u] \in RowPCs \ ApplyPCs
      <3>1. work[u] \in Ids /\ status[work[u]] # "none"
        BY <2>2 DEF Inv, Control, RunnerOK
      <3>2. \/ status'[work[u]] = status[work[u]]
            \/ status[work[u]] \in Applicable /\ status'[work[u]] = "superseded"
        BY <1>1, <3>1
      <3>3. QED
        BY <1>2, <2>2, <3>1, <3>2 DEF Inv, Control, RunnerOK
    <2>3. CASE pc[u] \notin RowPCs
      BY <1>2, <2>3 DEF Inv, TypeOK, Control, RunnerOK
    <2>4. QED
      BY <2>1, <2>2, <2>3
  <1>4. BootOK'
    BY <1>2 DEF Inv, Control, BootOK
  <1>5. ASSUME NEW j \in Ids PROVE RowOK(j)'
    BY <1>1, <1>2, <1>5 DEF Inv, Control, RowOK
  <1>6. QED
    BY <1>3, <1>4, <1>5 DEF Control

LEMMA ControlFloor ==
    ASSUME Inv, TypeOK', NEW t \in Runners, Floor(t)
    PROVE  Control'
  <1>1. /\ pc[t] = "floor" /\ work[t] \in Ids /\ claim[work[t]] = t
        /\ status[work[t]] # "none"
        /\ seen[t] = "verifying" => status[work[t]] = "verifying"
        /\ UNCHANGED <<claim, saved, savedConfigs, helper, work, seen>>
    BY DEF Floor, Inv, Control, RunnerOK
  <1>2. /\ \A u \in Runners : u # t => pc'[u] = pc[u]
        /\ \A j \in Ids : j # work[t] => status'[j] = status[j]
        /\ \/ pc'[t] = "release" /\ status'[work[t]] = status[work[t]]
           \/ /\ pc'[t] = "release" /\ status'[work[t]] = "superseded"
              /\ status[work[t]] \in Applicable
           \/ /\ pc'[t] = "fetch" /\ status'[work[t]] = "verifying"
              /\ status[work[t]] \in Applicable
    <2>1. CASE Advance(t, work[t], "superseded", outcome[work[t]], "release")
      BY <1>1, <2>1 DEF Advance, Goto, Thrown, AllowedTransitions, Inv, TypeOK
    <2>2. CASE Advance(t, work[t], "verifying", outcome[work[t]], "fetch")
      BY <1>1, <2>2 DEF Advance, Goto, Thrown, AllowedTransitions, Inv, TypeOK
    <2>3. CASE Goto(t, "release") /\ UNCHANGED <<status, outcome>>
      BY <1>1, <2>3 DEF Goto, Inv, TypeOK
    <2>4. CASE seen[t] = "verifying" /\ Goto(t, "fetch") /\ UNCHANGED <<status, outcome>>
      BY <1>1, <2>4 DEF Goto, Inv, TypeOK
    <2>5. QED
      BY <2>1, <2>2, <2>3, <2>4 DEF Floor
  <1>3. ASSUME NEW u \in Runners PROVE RunnerOK(u)'
    <2>1. CASE u = t
      BY <1>1, <1>2, <2>1 DEF RunnerOK
    <2>2. CASE u # t
      <3>1. CASE pc[u] \in RowPCs /\ work[u] = work[t]
        BY <1>1, <1>2, <2>2, <3>1 DEF Inv, TypeOK, Control, RunnerOK, BootOK
      <3>2. CASE pc[u] \notin RowPCs \/ work[u] # work[t]
        BY <1>1, <1>2, <2>2, <3>2 DEF Inv, TypeOK, Control, RunnerOK
      <3>3. QED
        BY <3>1, <3>2
    <2>3. QED
      BY <2>1, <2>2
  <1>4. BootOK'
    BY <1>1, <1>2 DEF Inv, TypeOK, Control, BootOK
  <1>5. ASSUME NEW j \in Ids PROVE RowOK(j)'
    BY <1>1, <1>2, <1>5 DEF Inv, Control, RowOK
  <1>6. QED
    BY <1>3, <1>4, <1>5 DEF Control

LEMMA ControlSkip ==
    ASSUME Inv, TypeOK', NEW i \in Ids, Skip(i)
    PROVE  Control'
  <1>1. /\ status[i] = "pending"
        /\ status' = [status EXCEPT ![i] = "superseded"]
        /\ UNCHANGED <<claim, saved, savedConfigs, helper, pc, work, seen>>
    BY DEF Skip, IsNewest, WithStatus
  <1>2. ASSUME NEW u \in Runners PROVE RunnerOK(u)'
    BY <1>1, <1>2 DEF Inv, TypeOK, Control, RunnerOK
  <1>3. BootOK'
    BY <1>1 DEF Inv, Control, BootOK
  <1>4. ASSUME NEW j \in Ids PROVE RowOK(j)'
    BY <1>1, <1>4 DEF Inv, TypeOK, Control, RowOK
  <1>5. QED
    BY <1>2, <1>3, <1>4 DEF Control

LEMMA ControlPollCheck ==
    ASSUME Inv, TypeOK', NEW p \in Pollers, NEW r \in Releases, PollCheck(p, r)
    PROVE  Control'
  <1>1. ASSUME NEW u \in Runners PROVE RunnerOK(u)'
    BY <1>1 DEF PollCheck,
        Inv, TypeOK, Control, RunnerOK, BootOK, RowOK
  <1>2. BootOK'
    BY DEF PollCheck,
        Inv, TypeOK, Control, RunnerOK, BootOK, RowOK
  <1>3. ASSUME NEW j \in Ids PROVE RowOK(j)'
    BY <1>3 DEF PollCheck,
        Inv, TypeOK, Control, RunnerOK, RowOK
  <1>4. QED
    BY <1>1, <1>2, <1>3 DEF Control

LEMMA ControlClaim ==
    ASSUME Inv, TypeOK', NEW t \in Runners, Claim(t)
    PROVE  Control'
  <1>1. ASSUME NEW u \in Runners PROVE RunnerOK(u)'
    BY <1>1 DEF Claim, Goto,
        Inv, TypeOK, Control, RunnerOK, BootOK, RowOK
  <1>2. BootOK'
    BY DEF Claim, Goto,
        Inv, TypeOK, Control, RunnerOK, BootOK, RowOK
  <1>3. ASSUME NEW j \in Ids PROVE RowOK(j)'
    BY <1>3 DEF Claim, Goto,
        Inv, TypeOK, Control, RunnerOK, RowOK
  <1>4. QED
    BY <1>1, <1>2, <1>3 DEF Control

LEMMA ControlDispatch ==
    ASSUME Inv, TypeOK', NEW t \in Runners, Dispatch(t)
    PROVE  Control'
  <1>1. ASSUME NEW u \in Runners PROVE RunnerOK(u)'
    BY <1>1 DEF Dispatch, Goto,
        Inv, TypeOK, Control, RunnerOK, BootOK, RowOK
  <1>2. BootOK'
    BY DEF Dispatch, Goto,
        Inv, TypeOK, Control, RunnerOK, BootOK, RowOK
  <1>3. ASSUME NEW j \in Ids PROVE RowOK(j)'
    BY <1>3 DEF Dispatch, Goto,
        Inv, TypeOK, Control, RunnerOK, RowOK
  <1>4. QED
    BY <1>1, <1>2, <1>3 DEF Control

LEMMA ControlRelease ==
    ASSUME Inv, TypeOK', NEW t \in Runners, Release(t)
    PROVE  Control'
  <1>1. ASSUME NEW u \in Runners PROVE RunnerOK(u)'
    BY <1>1 DEF Release, Goto,
        Inv, TypeOK, Control, RunnerOK, BootOK, RowOK
  <1>2. BootOK'
    BY DEF Release, Goto,
        Inv, TypeOK, Control, RunnerOK, BootOK, RowOK
  <1>3. ASSUME NEW j \in Ids PROVE RowOK(j)'
    BY <1>3 DEF Release, Goto,
        Inv, TypeOK, Control, RunnerOK, RowOK
  <1>4. QED
    BY <1>1, <1>2, <1>3 DEF Control

LEMMA ControlFetch ==
    ASSUME Inv, TypeOK', NEW t \in Runners, Fetch(t)
    PROVE  Control'
  <1>1. ASSUME NEW u \in Runners PROVE RunnerOK(u)'
    BY <1>1 DEF Fetch, Checks, Advance, Goto, Thrown, AllowedTransitions,
        Inv, TypeOK, Control, RunnerOK, BootOK, RowOK
  <1>2. BootOK'
    BY DEF Fetch, Checks, Advance, Goto, Thrown, AllowedTransitions,
        Inv, TypeOK, Control, RunnerOK, BootOK, RowOK
  <1>3. ASSUME NEW j \in Ids PROVE RowOK(j)'
    BY <1>3 DEF Fetch, Checks, Advance, Goto, Thrown, AllowedTransitions,
        Inv, TypeOK, Control, RunnerOK, RowOK
  <1>4. QED
    BY <1>1, <1>2, <1>3 DEF Control

LEMMA ControlSnapshot ==
    ASSUME Inv, TypeOK', NEW t \in Runners, Snapshot(t)
    PROVE  Control'
  <1>1. ASSUME NEW u \in Runners PROVE RunnerOK(u)'
    BY <1>1 DEF Snapshot, Goto,
        Inv, TypeOK, Control, RunnerOK, BootOK, RowOK
  <1>2. BootOK'
    BY DEF Snapshot, Goto,
        Inv, TypeOK, Control, RunnerOK, BootOK, RowOK
  <1>3. ASSUME NEW j \in Ids PROVE RowOK(j)'
    BY <1>3 DEF Snapshot, Goto,
        Inv, TypeOK, Control, RunnerOK, RowOK
  <1>4. QED
    BY <1>1, <1>2, <1>3 DEF Control

LEMMA ControlPull ==
    ASSUME Inv, TypeOK', NEW t \in Runners, Pull(t)
    PROVE  Control'
  <1>1. ASSUME NEW u \in Runners PROVE RunnerOK(u)'
    BY <1>1 DEF Pull, Checks, Advance, Goto, Thrown, AllowedTransitions,
        Inv, TypeOK, Control, RunnerOK, BootOK, RowOK
  <1>2. BootOK'
    BY DEF Pull, Checks, Advance, Goto, Thrown, AllowedTransitions,
        Inv, TypeOK, Control, RunnerOK, BootOK, RowOK
  <1>3. ASSUME NEW j \in Ids PROVE RowOK(j)'
    BY <1>3 DEF Pull, Checks, Advance, Goto, Thrown, AllowedTransitions,
        Inv, TypeOK, Control, RunnerOK, RowOK
  <1>4. QED
    BY <1>1, <1>2, <1>3 DEF Control

LEMMA ControlStage ==
    ASSUME Inv, TypeOK', NEW t \in Runners, Stage(t)
    PROVE  Control'
  <1>1. ASSUME NEW u \in Runners PROVE RunnerOK(u)'
    BY <1>1 DEF Stage, Goto,
        Inv, TypeOK, Control, RunnerOK, BootOK, RowOK
  <1>2. BootOK'
    BY DEF Stage, Goto,
        Inv, TypeOK, Control, RunnerOK, BootOK, RowOK
  <1>3. ASSUME NEW j \in Ids PROVE RowOK(j)'
    BY <1>3 DEF Stage, Goto,
        Inv, TypeOK, Control, RunnerOK, RowOK
  <1>4. QED
    BY <1>1, <1>2, <1>3 DEF Control

LEMMA ControlReconcile ==
    ASSUME Inv, TypeOK', NEW t \in Runners, Reconcile(t)
    PROVE  Control'
  <1>1. ASSUME NEW u \in Runners PROVE RunnerOK(u)'
    BY <1>1 DEF Reconcile, Goto,
        Inv, TypeOK, Control, RunnerOK, BootOK, RowOK
  <1>2. BootOK'
    BY DEF Reconcile, Goto,
        Inv, TypeOK, Control, RunnerOK, BootOK, RowOK
  <1>3. ASSUME NEW j \in Ids PROVE RowOK(j)'
    BY <1>3 DEF Reconcile, Goto,
        Inv, TypeOK, Control, RunnerOK, RowOK
  <1>4. QED
    BY <1>1, <1>2, <1>3 DEF Control

LEMMA ControlRefuse ==
    ASSUME Inv, TypeOK', NEW t \in Runners, Refuse(t)
    PROVE  Control'
  <1>1. ASSUME NEW u \in Runners PROVE RunnerOK(u)'
    BY <1>1 DEF Refuse, Advance, Goto, Thrown, AllowedTransitions,
        Inv, TypeOK, Control, RunnerOK, BootOK, RowOK
  <1>2. BootOK'
    BY DEF Refuse, Advance, Goto, Thrown, AllowedTransitions,
        Inv, TypeOK, Control, RunnerOK, BootOK, RowOK
  <1>3. ASSUME NEW j \in Ids PROVE RowOK(j)'
    <2>1. CASE j = work[t]
      BY <2>1 DEF Refuse, Advance, Goto, Thrown, AllowedTransitions,
          Inv, TypeOK, Control, RunnerOK, RowOK
    <2>2. CASE j # work[t]
      BY <2>2 DEF Refuse, Advance, Goto, Thrown, AllowedTransitions,
          Inv, TypeOK, Control, RowOK
    <2>3. QED
      BY <2>1, <2>2
  <1>4. QED
    BY <1>1, <1>2, <1>3 DEF Control

LEMMA ControlMigrate ==
    ASSUME Inv, TypeOK', NEW t \in Runners, Migrate(t)
    PROVE  Control'
  <1>1. ASSUME NEW u \in Runners PROVE RunnerOK(u)'
    BY <1>1 DEF Migrate, Advance, Goto, Thrown, AllowedTransitions,
        Inv, TypeOK, Control, RunnerOK, BootOK, RowOK
  <1>2. BootOK'
    BY DEF Migrate, Advance, Goto, Thrown, AllowedTransitions,
        Inv, TypeOK, Control, RunnerOK, BootOK, RowOK
  <1>3. ASSUME NEW j \in Ids PROVE RowOK(j)'
    <2>1. CASE j = work[t]
      BY <2>1 DEF Migrate, Advance, Goto, Thrown, AllowedTransitions,
          Inv, TypeOK, Control, RunnerOK, RowOK
    <2>2. CASE j # work[t]
      BY <2>2 DEF Migrate, Advance, Goto, Thrown, AllowedTransitions,
          Inv, TypeOK, Control, RowOK
    <2>3. QED
      BY <2>1, <2>2
  <1>4. QED
    BY <1>1, <1>2, <1>3 DEF Control

LEMMA ControlRecreate ==
    ASSUME Inv, TypeOK', NEW t \in Runners, Recreate(t)
    PROVE  Control'
  <1>1. ASSUME NEW u \in Runners PROVE RunnerOK(u)'
    BY <1>1 DEF Recreate, Recreates, Goto, Thrown,
        Inv, TypeOK, Control, RunnerOK, BootOK, RowOK
  <1>2. BootOK'
    BY DEF Recreate, Recreates, Goto, Thrown,
        Inv, TypeOK, Control, RunnerOK, BootOK, RowOK
  <1>3. ASSUME NEW j \in Ids PROVE RowOK(j)'
    BY <1>3 DEF Recreate, Recreates, Goto, Thrown,
        Inv, TypeOK, Control, RunnerOK, RowOK
  <1>4. QED
    BY <1>1, <1>2, <1>3 DEF Control

LEMMA ControlGate ==
    ASSUME Inv, TypeOK', NEW t \in Runners, Gate(t)
    PROVE  Control'
  <1>1. ASSUME NEW u \in Runners PROVE RunnerOK(u)'
    BY <1>1 DEF Gate, Goto,
        Inv, TypeOK, Control, RunnerOK, BootOK, RowOK
  <1>2. BootOK'
    BY DEF Gate, Goto,
        Inv, TypeOK, Control, RunnerOK, BootOK, RowOK
  <1>3. ASSUME NEW j \in Ids PROVE RowOK(j)'
    BY <1>3 DEF Gate, Goto,
        Inv, TypeOK, Control, RunnerOK, RowOK
  <1>4. QED
    BY <1>1, <1>2, <1>3 DEF Control

LEMMA ControlSwap ==
    ASSUME Inv, TypeOK', NEW t \in Runners, Swap(t)
    PROVE  Control'
  <1>1. ASSUME NEW u \in Runners PROVE RunnerOK(u)'
    BY <1>1 DEF Swap, Goto, Launch,
        Inv, TypeOK, Control, RunnerOK, BootOK, RowOK
  <1>2. BootOK'
    BY DEF Swap, Goto, Launch,
        Inv, TypeOK, Control, RunnerOK, BootOK, RowOK
  <1>3. ASSUME NEW j \in Ids PROVE RowOK(j)'
    BY <1>3 DEF Swap, Goto, Launch,
        Inv, TypeOK, Control, RunnerOK, RowOK
  <1>4. QED
    BY <1>1, <1>2, <1>3 DEF Control

LEMMA ControlRestore ==
    ASSUME Inv, TypeOK', NEW t \in Runners, Restore(t)
    PROVE  Control'
  <1>1. ASSUME NEW u \in Runners PROVE RunnerOK(u)'
    BY <1>1 DEF Restore, Goto,
        Inv, TypeOK, Control, RunnerOK, BootOK, RowOK
  <1>2. BootOK'
    BY DEF Restore, Goto,
        Inv, TypeOK, Control, RunnerOK, BootOK, RowOK
  <1>3. ASSUME NEW j \in Ids PROVE RowOK(j)'
    BY <1>3 DEF Restore, Goto,
        Inv, TypeOK, Control, RunnerOK, RowOK
  <1>4. QED
    BY <1>1, <1>2, <1>3 DEF Control

LEMMA ControlUnswap ==
    ASSUME Inv, TypeOK', NEW t \in Runners, Unswap(t)
    PROVE  Control'
  <1>1. ASSUME NEW u \in Runners PROVE RunnerOK(u)'
    BY <1>1 DEF Unswap, Recreates, Goto, Thrown,
        Inv, TypeOK, Control, RunnerOK, BootOK, RowOK
  <1>2. BootOK'
    BY DEF Unswap, Recreates, Goto, Thrown,
        Inv, TypeOK, Control, RunnerOK, BootOK, RowOK
  <1>3. ASSUME NEW j \in Ids PROVE RowOK(j)'
    BY <1>3 DEF Unswap, Recreates, Goto, Thrown,
        Inv, TypeOK, Control, RunnerOK, RowOK
  <1>4. QED
    BY <1>1, <1>2, <1>3 DEF Control

LEMMA ControlRegate ==
    ASSUME Inv, TypeOK', NEW t \in Runners, Regate(t)
    PROVE  Control'
  <1>1. ASSUME NEW u \in Runners PROVE RunnerOK(u)'
    BY <1>1 DEF Regate, Verdict, Advance, Goto, Thrown, AllowedTransitions,
        Inv, TypeOK, Control, RunnerOK, BootOK, RowOK
  <1>2. BootOK'
    BY DEF Regate, Verdict, Advance, Goto, Thrown, AllowedTransitions,
        Inv, TypeOK, Control, RunnerOK, BootOK, RowOK
  <1>3. ASSUME NEW j \in Ids PROVE RowOK(j)'
    <2>1. CASE j = work[t]
      BY <2>1 DEF Regate, Verdict, Advance, Goto, Thrown, AllowedTransitions,
          Inv, TypeOK, Control, RunnerOK, RowOK
    <2>2. CASE j # work[t]
      BY <2>2 DEF Regate, Verdict, Advance, Goto, Thrown, AllowedTransitions,
          Inv, TypeOK, Control, RowOK
    <2>3. QED
      BY <2>1, <2>2
  <1>4. QED
    BY <1>1, <1>2, <1>3 DEF Control

LEMMA ControlThrow ==
    ASSUME Inv, TypeOK', NEW t \in Runners, Throw(t)
    PROVE  Control'
  <1>1. ASSUME NEW u \in Runners PROVE RunnerOK(u)'
    BY <1>1 DEF Throw, Goto, Thrown,
        Inv, TypeOK, Control, RunnerOK, BootOK, RowOK
  <1>2. BootOK'
    BY DEF Throw, Goto, Thrown,
        Inv, TypeOK, Control, RunnerOK, BootOK, RowOK
  <1>3. ASSUME NEW j \in Ids PROVE RowOK(j)'
    BY <1>3 DEF Throw, Goto, Thrown,
        Inv, TypeOK, Control, RunnerOK, RowOK
  <1>4. QED
    BY <1>1, <1>2, <1>3 DEF Control

LEMMA ControlResumeApplying ==
    ASSUME Inv, TypeOK', NEW i \in Ids, ResumeApplying(i)
    PROVE  Control'
  <1>1. ASSUME NEW u \in Runners PROVE RunnerOK(u)'
    BY <1>1 DEF ResumeApplying, Goto, ClearClaims, IsNewest, WithStatus, Rows,
        Inv, TypeOK, Control, RunnerOK, BootOK, RowOK
  <1>2. BootOK'
    BY DEF ResumeApplying, Goto, ClearClaims, IsNewest, WithStatus, Rows,
        Inv, TypeOK, Control, RunnerOK, BootOK, RowOK
  <1>3. ASSUME NEW j \in Ids PROVE RowOK(j)'
    BY <1>3 DEF ResumeApplying, Goto, ClearClaims, IsNewest, WithStatus, Rows,
        Inv, TypeOK, Control, RunnerOK, RowOK
  <1>4. QED
    BY <1>1, <1>2, <1>3 DEF Control

LEMMA ControlResumeVerifying ==
    ASSUME Inv, TypeOK', ResumeVerifying
    PROVE  Control'
  <1>1. ASSUME NEW u \in Runners PROVE RunnerOK(u)'
    BY <1>1 DEF ResumeVerifying, Goto, ClearClaims,
        Inv, TypeOK, Control, RunnerOK, BootOK, RowOK
  <1>2. BootOK'
    BY DEF ResumeVerifying, Goto, ClearClaims,
        Inv, TypeOK, Control, RunnerOK, BootOK, RowOK
  <1>3. ASSUME NEW j \in Ids PROVE RowOK(j)'
    BY <1>3 DEF ResumeVerifying, Goto, ClearClaims,
        Inv, TypeOK, Control, RunnerOK, RowOK
  <1>4. QED
    BY <1>1, <1>2, <1>3 DEF Control

LEMMA ControlFinal ==
    ASSUME Inv, TypeOK', Final
    PROVE  Control'
  <1>1. ASSUME NEW u \in Runners PROVE RunnerOK(u)'
    BY <1>1 DEF Final, Advance, Goto, Thrown, AllowedTransitions,
        Inv, TypeOK, Control, RunnerOK, BootOK, RowOK
  <1>2. BootOK'
    BY DEF Final, Advance, Goto, Thrown, AllowedTransitions,
        Inv, TypeOK, Control, RunnerOK, BootOK, RowOK
  <1>3. ASSUME NEW j \in Ids PROVE RowOK(j)'
    <2>1. CASE j = work[Boot]
      BY <2>1 DEF Final, Advance, Goto, Thrown, AllowedTransitions,
          Inv, TypeOK, Control, RunnerOK, RowOK
    <2>2. CASE j # work[Boot]
      BY <2>2 DEF Final, Advance, Goto, Thrown, AllowedTransitions,
          Inv, TypeOK, Control, RowOK
    <2>3. QED
      BY <2>1, <2>2
  <1>4. QED
    BY <1>1, <1>2, <1>3 DEF Control

LEMMA ControlBootVerdict ==
    ASSUME Inv, TypeOK', BootVerdict
    PROVE  Control'
  <1>1. ASSUME NEW u \in Runners PROVE RunnerOK(u)'
    BY <1>1 DEF BootVerdict, Verdict, Advance, Goto, Thrown, AllowedTransitions,
        Inv, TypeOK, Control, RunnerOK, BootOK, RowOK
  <1>2. BootOK'
    BY DEF BootVerdict, Verdict, Advance, Goto, Thrown, AllowedTransitions,
        Inv, TypeOK, Control, RunnerOK, BootOK, RowOK
  <1>3. ASSUME NEW j \in Ids PROVE RowOK(j)'
    <2>1. CASE j = work[Boot]
      BY <2>1 DEF BootVerdict, Verdict, Advance, Goto, Thrown, AllowedTransitions,
          Inv, TypeOK, Control, RunnerOK, RowOK
    <2>2. CASE j # work[Boot]
      BY <2>2 DEF BootVerdict, Verdict, Advance, Goto, Thrown, AllowedTransitions,
          Inv, TypeOK, Control, RowOK
    <2>3. QED
      BY <2>1, <2>2
  <1>4. QED
    BY <1>1, <1>2, <1>3 DEF Control

LEMMA ControlUndoSelf ==
    ASSUME Inv, TypeOK', UndoSelf
    PROVE  Control'
  <1>1. ASSUME NEW u \in Runners PROVE RunnerOK(u)'
    BY <1>1 DEF UndoSelf, Goto, Launch,
        Inv, TypeOK, Control, RunnerOK, BootOK, RowOK
  <1>2. BootOK'
    BY DEF UndoSelf, Goto, Launch,
        Inv, TypeOK, Control, RunnerOK, BootOK, RowOK
  <1>3. ASSUME NEW j \in Ids PROVE RowOK(j)'
    BY <1>3 DEF UndoSelf, Goto, Launch,
        Inv, TypeOK, Control, RunnerOK, RowOK
  <1>4. QED
    BY <1>1, <1>2, <1>3 DEF Control

LEMMA ControlStartServices ==
    ASSUME Inv, TypeOK', StartServices
    PROVE  Control'
  <1>1. ASSUME NEW u \in Runners PROVE RunnerOK(u)'
    BY <1>1 DEF StartServices, Goto,
        Inv, TypeOK, Control, RunnerOK, BootOK, RowOK
  <1>2. BootOK'
    BY DEF StartServices, Goto,
        Inv, TypeOK, Control, RunnerOK, BootOK, RowOK
  <1>3. ASSUME NEW j \in Ids PROVE RowOK(j)'
    BY <1>3 DEF StartServices, Goto,
        Inv, TypeOK, Control, RunnerOK, RowOK
  <1>4. QED
    BY <1>1, <1>2, <1>3 DEF Control

LEMMA ControlHelperSwap ==
    ASSUME Inv, TypeOK', NEW i \in Ids, HelperSwap(i)
    PROVE  Control'
  <1>1. ASSUME NEW u \in Runners PROVE RunnerOK(u)'
    BY <1>1 DEF HelperSwap, Restart,
        Inv, TypeOK, Control, RunnerOK, BootOK, RowOK
  <1>2. BootOK'
    BY DEF HelperSwap, Restart,
        Inv, TypeOK, Control, RunnerOK, BootOK, RowOK
  <1>3. ASSUME NEW j \in Ids PROVE RowOK(j)'
    BY <1>3 DEF HelperSwap, Restart,
        Inv, TypeOK, Control, RunnerOK, RowOK
  <1>4. QED
    BY <1>1, <1>2, <1>3 DEF Control

LEMMA ControlHelperWatch ==
    ASSUME Inv, TypeOK', NEW i \in Ids, HelperWatch(i)
    PROVE  Control'
  <1>1. ASSUME NEW u \in Runners PROVE RunnerOK(u)'
    BY <1>1 DEF HelperWatch,
        Inv, TypeOK, Control, RunnerOK, BootOK, RowOK
  <1>2. BootOK'
    BY DEF HelperWatch,
        Inv, TypeOK, Control, RunnerOK, BootOK, RowOK
  <1>3. ASSUME NEW j \in Ids PROVE RowOK(j)'
    BY <1>3 DEF HelperWatch,
        Inv, TypeOK, Control, RunnerOK, RowOK
  <1>4. QED
    BY <1>1, <1>2, <1>3 DEF Control

LEMMA ControlHelperUndo ==
    ASSUME Inv, TypeOK', NEW i \in Ids, HelperUndo(i)
    PROVE  Control'
  <1>1. ASSUME NEW u \in Runners PROVE RunnerOK(u)'
    BY <1>1 DEF HelperUndo,
        Inv, TypeOK, Control, RunnerOK, BootOK, RowOK
  <1>2. BootOK'
    BY DEF HelperUndo,
        Inv, TypeOK, Control, RunnerOK, BootOK, RowOK
  <1>3. ASSUME NEW j \in Ids PROVE RowOK(j)'
    BY <1>3 DEF HelperUndo,
        Inv, TypeOK, Control, RunnerOK, RowOK
  <1>4. QED
    BY <1>1, <1>2, <1>3 DEF Control

LEMMA ControlHelperWalk ==
    ASSUME Inv, TypeOK', NEW i \in Ids, HelperWalk(i)
    PROVE  Control'
  <1>1. ASSUME NEW u \in Runners PROVE RunnerOK(u)'
    BY <1>1 DEF HelperWalk, Restart,
        Inv, TypeOK, Control, RunnerOK, BootOK, RowOK
  <1>2. BootOK'
    BY DEF HelperWalk, Restart,
        Inv, TypeOK, Control, RunnerOK, BootOK, RowOK
  <1>3. ASSUME NEW j \in Ids PROVE RowOK(j)'
    BY <1>3 DEF HelperWalk, Restart,
        Inv, TypeOK, Control, RunnerOK, RowOK
  <1>4. QED
    BY <1>1, <1>2, <1>3 DEF Control

LEMMA ControlSetChannel ==
    ASSUME Inv, TypeOK', NEW c \in Channels, SetChannel(c)
    PROVE  Control'
  <1>1. ASSUME NEW u \in Runners PROVE RunnerOK(u)'
    BY <1>1 DEF SetChannel,
        Inv, TypeOK, Control, RunnerOK, BootOK, RowOK
  <1>2. BootOK'
    BY DEF SetChannel,
        Inv, TypeOK, Control, RunnerOK, BootOK, RowOK
  <1>3. ASSUME NEW j \in Ids PROVE RowOK(j)'
    BY <1>3 DEF SetChannel,
        Inv, TypeOK, Control, RunnerOK, RowOK
  <1>4. QED
    BY <1>1, <1>2, <1>3 DEF Control

LEMMA ControlFinishSetup ==
    ASSUME Inv, TypeOK', FinishSetup
    PROVE  Control'
  <1>1. ASSUME NEW u \in Runners PROVE RunnerOK(u)'
    BY <1>1 DEF FinishSetup,
        Inv, TypeOK, Control, RunnerOK, BootOK, RowOK
  <1>2. BootOK'
    BY DEF FinishSetup,
        Inv, TypeOK, Control, RunnerOK, BootOK, RowOK
  <1>3. ASSUME NEW j \in Ids PROVE RowOK(j)'
    BY <1>3 DEF FinishSetup,
        Inv, TypeOK, Control, RunnerOK, RowOK
  <1>4. QED
    BY <1>1, <1>2, <1>3 DEF Control

LEMMA ControlCrash ==
    ASSUME Inv, TypeOK', Crash
    PROVE  Control'
  <1>1. ASSUME NEW u \in Runners PROVE RunnerOK(u)'
    BY <1>1 DEF Crash, Restart,
        Inv, TypeOK, Control, RunnerOK, BootOK, RowOK
  <1>2. BootOK'
    BY DEF Crash, Restart,
        Inv, TypeOK, Control, RunnerOK, BootOK, RowOK
  <1>3. ASSUME NEW j \in Ids PROVE RowOK(j)'
    BY <1>3 DEF Crash, Restart,
        Inv, TypeOK, Control, RunnerOK, RowOK
  <1>4. QED
    BY <1>1, <1>2, <1>3 DEF Control

-----------------------------------------------------------------------------
(* What runs was applied, and can be undone *)

\* What every step but a poll's and the backup's leaves alone.
Frame ==
    /\ \A i \in Ids :
        /\ status[i] \in Applied => status'[i] \in Applied
        /\ status'[i] \in Applied =>
            status[i] \in Applied \/ \E t \in Runners : pc[t] \in BackedPCs /\ work[t] = i
        /\ status'[i] = "none" <=> status[i] = "none"
    /\ release' = release
    /\ saved' = saved
    /\ \A t \in Runners : pc'[t] \in BackedPCs => pc[t] \in BackedPCs /\ work'[t] = work[t]
    /\ \A p \in Pollers : found'[p] \in {found[p], 0}
    /\ \A s \in Services :
        \/ image'[s] = image[s]
        \/ \E i \in Ids : status[i] \in Applied /\ image'[s] = saved[i][s]
        \/ \E i \in Ids : status[i] \in Applied /\ image'[s] = release[i]

LEMMA FrameWindowTick ==
    ASSUME Inv, TypeOK', NEW i \in Ids, WindowTick(i)
    PROVE  Frame
  BY DEF WindowTick, Picks, Goto,
      Inv, TypeOK, Control, RunnerOK, RowOK, Frame

LEMMA FrameApplyNow ==
    ASSUME Inv, TypeOK', NEW o \in Operators, ApplyNow(o)
    PROVE  Frame
  BY DEF ApplyNow, Goto,
      Inv, TypeOK, Control, RunnerOK, RowOK, Frame

LEMMA FrameSelect ==
    ASSUME Inv, TypeOK', NEW t \in Runners, Select(t)
    PROVE  Frame
  BY DEF Select, Picks, Goto,
      Inv, TypeOK, Control, RunnerOK, RowOK, Frame

LEMMA FrameClaim ==
    ASSUME Inv, TypeOK', NEW t \in Runners, Claim(t)
    PROVE  Frame
  BY DEF Claim, Goto,
      Inv, TypeOK, Control, RunnerOK, RowOK, Frame

LEMMA FrameDispatch ==
    ASSUME Inv, TypeOK', NEW t \in Runners, Dispatch(t)
    PROVE  Frame
  BY DEF Dispatch, Goto,
      Inv, TypeOK, Control, RunnerOK, RowOK, Frame

LEMMA FrameRelease ==
    ASSUME Inv, TypeOK', NEW t \in Runners, Release(t)
    PROVE  Frame
  BY DEF Release, Goto,
      Inv, TypeOK, Control, RunnerOK, RowOK, Frame

LEMMA FrameFloor ==
    ASSUME Inv, TypeOK', NEW t \in Runners, Floor(t)
    PROVE  Frame
  BY DEF Floor, Advance, Goto, Thrown, AllowedTransitions,
      Inv, TypeOK, Control, RunnerOK, RowOK, Frame

LEMMA FrameFetch ==
    ASSUME Inv, TypeOK', NEW t \in Runners, Fetch(t)
    PROVE  Frame
  BY DEF Fetch, Checks, Advance, Goto, Thrown, AllowedTransitions,
      Inv, TypeOK, Control, RunnerOK, RowOK, Frame

LEMMA FramePull ==
    ASSUME Inv, TypeOK', NEW t \in Runners, Pull(t)
    PROVE  Frame
  BY DEF Pull, Checks, Advance, Goto, Thrown, AllowedTransitions,
      Inv, TypeOK, Control, RunnerOK, RowOK, Frame

LEMMA FrameStage ==
    ASSUME Inv, TypeOK', NEW t \in Runners, Stage(t)
    PROVE  Frame
  BY DEF Stage, Goto,
      Inv, TypeOK, Control, RunnerOK, RowOK, Frame

LEMMA FrameReconcile ==
    ASSUME Inv, TypeOK', NEW t \in Runners, Reconcile(t)
    PROVE  Frame
  BY DEF Reconcile, Goto,
      Inv, TypeOK, Control, RunnerOK, RowOK, Frame

LEMMA FrameRefuse ==
    ASSUME Inv, TypeOK', NEW t \in Runners, Refuse(t)
    PROVE  Frame
  BY DEF Refuse, Advance, Goto, Thrown, AllowedTransitions,
      Inv, TypeOK, Control, RunnerOK, RowOK, Frame

LEMMA FrameMigrate ==
    ASSUME Inv, TypeOK', NEW t \in Runners, Migrate(t)
    PROVE  Frame
  BY DEF Migrate, Advance, Goto, Thrown, AllowedTransitions,
      Inv, TypeOK, Control, RunnerOK, RowOK, Frame

LEMMA FrameRecreate ==
    ASSUME Inv, TypeOK', NEW t \in Runners, Recreate(t)
    PROVE  Frame
  BY DEF Recreate, Recreates, Goto, Thrown, OnRelease,
      Inv, TypeOK, Control, RunnerOK, RowOK, Frame

LEMMA FrameGate ==
    ASSUME Inv, TypeOK', NEW t \in Runners, Gate(t)
    PROVE  Frame
  BY DEF Gate, Goto,
      Inv, TypeOK, Control, RunnerOK, RowOK, Frame

LEMMA FrameSwap ==
    ASSUME Inv, TypeOK', NEW t \in Runners, Swap(t)
    PROVE  Frame
  BY DEF Swap, Goto, Launch,
      Inv, TypeOK, Control, RunnerOK, RowOK, Frame

LEMMA FrameRestore ==
    ASSUME Inv, TypeOK', NEW t \in Runners, Restore(t)
    PROVE  Frame
  BY DEF Restore, Goto,
      Inv, TypeOK, Control, RunnerOK, RowOK, Frame

LEMMA FrameThrow ==
    ASSUME Inv, TypeOK', NEW t \in Runners, Throw(t)
    PROVE  Frame
  BY DEF Throw, Goto, Thrown,
      Inv, TypeOK, Control, RunnerOK, RowOK, Frame

LEMMA FrameResumeApplying ==
    ASSUME Inv, TypeOK', NEW i \in Ids, ResumeApplying(i)
    PROVE  Frame
  BY DEF ResumeApplying, Goto, ClearClaims, IsNewest, WithStatus, Rows,
      Inv, TypeOK, Control, RunnerOK, RowOK, Frame

LEMMA FrameResumeVerifying ==
    ASSUME Inv, TypeOK', ResumeVerifying
    PROVE  Frame
  BY DEF ResumeVerifying, Goto, ClearClaims,
      Inv, TypeOK, Control, RunnerOK, RowOK, Frame

LEMMA FrameFinal ==
    ASSUME Inv, TypeOK', Final
    PROVE  Frame
  BY DEF Final, Advance, Goto, Thrown, AllowedTransitions,
      Inv, TypeOK, Control, RunnerOK, RowOK, Frame

LEMMA FrameBootVerdict ==
    ASSUME Inv, TypeOK', BootVerdict
    PROVE  Frame
  BY DEF BootVerdict, Verdict, Advance, Goto, Thrown, AllowedTransitions,
      Inv, TypeOK, Control, RunnerOK, RowOK, Frame

LEMMA FrameUndoSelf ==
    ASSUME Inv, TypeOK', UndoSelf
    PROVE  Frame
  BY DEF UndoSelf, Goto, Launch,
      Inv, TypeOK, Control, RunnerOK, RowOK, Frame

LEMMA FrameStartServices ==
    ASSUME Inv, TypeOK', StartServices
    PROVE  Frame
  BY DEF StartServices, Goto, OnRelease,
      Inv, TypeOK, Control, RunnerOK, RowOK, Frame

LEMMA FrameHelperSwap ==
    ASSUME Inv, TypeOK', NEW i \in Ids, HelperSwap(i)
    PROVE  Frame
  <1>1. status[i] \in Applied
    BY DEF HelperSwap, Inv, Control, RowOK
  <1>2. UNCHANGED <<status, release, saved>>
    BY DEF HelperSwap
  <1>3. ASSUME NEW s \in Services
        PROVE  image'[s] = image[s] \/ image'[s] = saved[i][s] \/ image'[s] = release[i]
    BY DEF HelperSwap, Inv, TypeOK
  <1>4. /\ \A t \in Runners : pc'[t] \in BackedPCs => pc[t] \in BackedPCs /\ work'[t] = work[t]
        /\ \A p \in Pollers : found'[p] \in {found[p], 0}
    <2>1. CASE Restart
      BY <2>1 DEF Restart
    <2>2. CASE UNCHANGED <<pc, work, found>>
      BY <2>2
    <2>3. QED
      BY <2>1, <2>2 DEF HelperSwap
  <1>5. QED
    BY <1>1, <1>2, <1>3, <1>4 DEF Frame

LEMMA FrameHelperWatch ==
    ASSUME Inv, TypeOK', NEW i \in Ids, HelperWatch(i)
    PROVE  Frame
  BY DEF HelperWatch,
      Inv, TypeOK, Control, RunnerOK, RowOK, Frame

LEMMA FrameHelperUndo ==
    ASSUME Inv, TypeOK', NEW i \in Ids, HelperUndo(i)
    PROVE  Frame
  BY DEF HelperUndo,
      Inv, TypeOK, Control, RunnerOK, RowOK, Frame

LEMMA FrameSkip ==
    ASSUME Inv, TypeOK', NEW i \in Ids, Skip(i)
    PROVE  Frame
  BY DEF Skip, IsNewest, WithStatus, Rows,
      Inv, TypeOK, Control, RunnerOK, RowOK, Frame

LEMMA FrameSetChannel ==
    ASSUME Inv, TypeOK', NEW c \in Channels, SetChannel(c)
    PROVE  Frame
  BY DEF SetChannel,
      Inv, TypeOK, Control, RunnerOK, RowOK, Frame

LEMMA FrameFinishSetup ==
    ASSUME Inv, TypeOK', FinishSetup
    PROVE  Frame
  BY DEF FinishSetup,
      Inv, TypeOK, Control, RunnerOK, RowOK, Frame

LEMMA FrameCrash ==
    ASSUME Inv, TypeOK', Crash
    PROVE  Frame
  BY DEF Crash, Restart,
      Inv, TypeOK, Control, RunnerOK, RowOK, Frame

LEMMA FrameUnswap ==
    ASSUME Inv, TypeOK', NEW t \in Runners, Unswap(t)
    PROVE  Frame
  <1>1. work[t] \in Ids /\ status[work[t]] \in Applied
    BY DEF Unswap, Inv, Control, RunnerOK
  <1>2. PICK done : image' = OnPrevious(work[t], done)
    BY DEF Unswap, Recreates
  <1>3. ASSUME NEW s \in Services
        PROVE  image'[s] = image[s] \/ image'[s] = saved[work[t]][s]
    BY <1>2, <1>3 DEF OnPrevious
  <1>4. \E n \in {"regate", "undoSelf", "release", "idle"} : pc' = [pc EXCEPT ![t] = n]
    BY DEF Unswap, Recreates, Goto, Thrown
  <1>5. UNCHANGED <<status, release, saved, work, found>>
    BY DEF Unswap
  <1>6. \A u \in Runners : pc'[u] \in BackedPCs => pc[u] \in BackedPCs
    BY <1>4 DEF Inv, TypeOK
  <1>7. QED
    BY <1>1, <1>3, <1>5, <1>6 DEF Frame

LEMMA FrameRegate ==
    ASSUME Inv, TypeOK', NEW t \in Runners, Regate(t)
    PROVE  Frame
  <1>1. work[t] \in Ids /\ status[work[t]] = "applying" /\ pc[t] = "regate"
    BY DEF Regate, Inv, Control, RunnerOK
  <1>2. /\ UNCHANGED <<release, saved, work, found, image>>
        /\ \E to \in {"rolled_back", "failed"} : status' = [status EXCEPT ![work[t]] = to]
        /\ pc' = [pc EXCEPT ![t] = "release"]
    BY <1>1 DEF Regate, Verdict, Advance, AllowedTransitions, Goto
  <1>3. ASSUME NEW i \in Ids
        PROVE  /\ status[i] \in Applied <=> status'[i] \in Applied
               /\ status[i] = "none" <=> status'[i] = "none"
    BY <1>1, <1>2, <1>3 DEF Inv, TypeOK
  <1>4. \A u \in Runners : pc'[u] \in BackedPCs => pc[u] \in BackedPCs
    BY <1>2 DEF Inv, TypeOK
  <1>5. QED
    BY <1>2, <1>3, <1>4 DEF Frame

LEMMA FrameHelperWalk ==
    ASSUME Inv, TypeOK', NEW i \in Ids, HelperWalk(i)
    PROVE  Frame
  <1>1. status[i] \in Applied
    BY DEF HelperWalk, Inv, Control, RowOK
  <1>2. PICK done \in SUBSET Swapped(i) :
            /\ image' = OnPrevious(i, done)
            /\ IF Self \in done THEN Restart ELSE UNCHANGED <<pc, work, seen, inFlight, found>>
    BY DEF HelperWalk
  <1>3. ASSUME NEW s \in Services
        PROVE  image'[s] = image[s] \/ image'[s] = saved[i][s]
    BY <1>2, <1>3 DEF OnPrevious
  <1>4. /\ \A t \in Runners : pc'[t] \in BackedPCs => pc[t] \in BackedPCs /\ work'[t] = work[t]
        /\ \A p \in Pollers : found'[p] \in {found[p], 0}
    <2>1. CASE Restart
      BY <2>1 DEF Restart
    <2>2. CASE UNCHANGED <<pc, work, seen, inFlight, found>>
      BY <2>2
    <2>3. QED
      BY <1>2, <2>1, <2>2
  <1>5. UNCHANGED <<status, release, saved>>
    BY DEF HelperWalk
  <1>6. QED
    BY <1>1, <1>3, <1>4, <1>5 DEF Frame

LEMMA FrameStutter ==
    ASSUME UNCHANGED vars
    PROVE  Frame
  BY DEF vars, Frame

-----------------------------------------------------------------------------
(* The other three steps, and the two facts *)

LEMMA FrameTraced ==
    ASSUME Inv, Inv', Traced, Frame
    PROVE  Traced'
  <1>1. ASSUME NEW r, Ran(r) PROVE Ran(r)'
    BY <1>1 DEF Ran, Frame
  <1>2. ASSUME NEW i \in Ids, status[i] \in Applied
        PROVE  Ran(release[i])'
    <2>1. Ran(release[i])
      BY <1>2 DEF Ran
    <2>2. QED
      BY <1>2 DEF Ran, Frame
  <1>3. ASSUME NEW s \in Services, image'[s] \in Releases PROVE Ran(image[s])'
    <2>1. CASE image'[s] = image[s]
      <3>1. Ran(image[s])
        BY <1>3, <2>1 DEF Traced
      <3>2. QED
        BY <2>1, <3>1 DEF Ran, Frame
    <2>2. CASE \E i \in Ids : status[i] \in Applied /\ image'[s] = saved[i][s]
      <3>1. PICK i \in Ids : status[i] \in Applied /\ image'[s] = saved[i][s]
        BY <2>2
      <3>2. saved[i] # None
        BY <3>1 DEF Inv, Control, RowOK
      <3>3. Ran(saved[i][s])
        BY <1>3, <3>1, <3>2 DEF Traced
      <3>4. QED
        BY <3>1, <3>3 DEF Ran, Frame
    <2>3. CASE \E i \in Ids : status[i] \in Applied /\ image'[s] = release[i]
      BY <2>3 DEF Ran, Frame
    <2>4. QED
      BY <2>1, <2>2, <2>3 DEF Frame
  <1>4. ASSUME NEW i \in Ids, saved'[i] # None, NEW s \in Services,
               saved'[i][s] \in Releases
        PROVE  Ran(saved[i][s])'
    <2>1. saved'[i] = saved[i]
      BY DEF Frame
    <2>2. Ran(saved[i][s])
      BY <1>4, <2>1 DEF Traced
    <2>3. QED
      BY <2>1, <2>2 DEF Ran, Frame
  <1>5. QED
    BY <1>3, <1>4 DEF Traced

LEMMA TracedPollCheck ==
    ASSUME Traced, NEW p \in Pollers, NEW r \in Releases, PollCheck(p, r)
    PROVE  Traced'
  BY DEF Traced, Ran, PollCheck

LEMMA TracedPollCreate ==
    ASSUME Inv, Traced, NEW p \in Pollers, NEW i \in Ids, PollCreate(p, i)
    PROVE  Traced'
  <1>1. ASSUME NEW j \in Ids, status[j] \in Applied
        PROVE  status'[j] = status[j] /\ release'[j] = release[j]
    BY <1>1 DEF PollCreate, Rows, Inv, TypeOK
  <1>2. ASSUME NEW r, Ran(r) PROVE \E j \in Ids : release'[j] = r /\ status'[j] \in Applied
    BY <1>1, <1>2 DEF Ran
  <1>3. image' = image /\ saved' = saved
    BY DEF PollCreate
  <1>4. ASSUME NEW s \in Services, image'[s] \in Releases PROVE Ran(image[s])'
    BY <1>2, <1>3, <1>4 DEF Traced, Ran
  <1>5. ASSUME NEW j \in Ids, saved'[j] # None, NEW s \in Services, saved'[j][s] \in Releases
        PROVE  Ran(saved[j][s])'
    <2>1. Ran(saved[j][s])
      BY <1>3, <1>5 DEF Traced
    <2>2. PICK k \in Ids : release'[k] = saved[j][s] /\ status'[k] \in Applied
      BY <1>2, <2>1
    <2>3. QED
      BY <1>3, <2>2 DEF Ran
  <1>6. QED
    BY <1>4, <1>5 DEF Traced

LEMMA TracedSnapshot ==
    ASSUME Inv, Traced, NEW t \in Runners, Snapshot(t)
    PROVE  Traced'
  <1>1. /\ UNCHANGED <<status, release, image>>
        /\ saved' = [saved EXCEPT ![work[t]] = image]
    BY DEF Snapshot
  <1>2. ASSUME NEW i \in Ids, saved'[i] # None, NEW s \in Services, saved'[i][s] \in Releases
        PROVE  Ran(saved'[i][s])
    <2>1. CASE saved'[i] = saved[i]
      BY <1>2, <2>1 DEF Traced
    <2>2. CASE saved'[i] = image
      BY <1>2, <2>2 DEF Traced
    <2>3. QED
      BY <1>1, <2>1, <2>2 DEF Inv, TypeOK
  <1>3. QED
    BY <1>1, <1>2 DEF Traced, Ran

LEMMA FrameWayBack ==
    ASSUME Inv, Inv', RowsReleased, WayBack, Frame
    PROVE  RowsReleased' /\ WayBack'
  <1>1. release' = release /\ saved' = saved
    BY DEF Frame
  <1>2. ASSUME NEW i \in Ids, Apart(i) PROVE Apart(i)'
    <2>1. Twin(i) => Twin(i)'
      BY <1>1 DEF Frame, Twin
    <2>2. QED
      BY <1>1, <1>2, <2>1 DEF Apart
  <1>3. ASSUME NEW i \in Ids, status'[i] \in Applied PROVE Apart(i)'
    BY <1>2, <1>3 DEF Frame, WayBack
  <1>4. ASSUME NEW t \in Runners, pc'[t] \in BackedPCs PROVE Apart(work[t])'
    <2>1. work'[t] = work[t] /\ work[t] \in Ids /\ Apart(work[t])
      BY <1>4 DEF Frame, WayBack, Inv, Control, RunnerOK
    <2>2. PICK i \in Ids : work[t] = i /\ work'[t] = i /\ Apart(i)'
      BY <1>2, <2>1
    <2>3. QED
      BY <2>2 DEF Apart, Twin
  <1>5. Rows' = Rows
    BY DEF Frame, Rows
  <1>6. RowsReleased'
    BY <1>1, <1>5 DEF RowsReleased
  <1>7. QED
    BY <1>3, <1>4, <1>6 DEF WayBack

LEMMA WayBackPollCheck ==
    ASSUME RowsReleased, WayBack,
           NEW p \in Pollers, NEW r \in Releases, PollCheck(p, r)
    PROVE  RowsReleased' /\ WayBack'
  BY DEF PollCheck, RowsReleased, Rows, WayBack, Apart, Twin

\* A new row may be of a release that has one: it was not applied yet.
LEMMA WayBackPollCreate ==
    ASSUME Inv, RowsReleased, WayBack,
           NEW p \in Pollers, NEW i \in Ids, PollCreate(p, i)
    PROVE  RowsReleased' /\ WayBack'
  <1>1. /\ UNCHANGED <<saved, pc, work>>
        /\ found[p] # 0 /\ status[i] = "none"
        /\ release' = [release EXCEPT ![i] = found[p]]
    BY DEF PollCreate, Rows
  <1>2. found[p] \in Releases
    BY <1>1 DEF Inv, TypeOK
  <1>3. ASSUME NEW j \in Ids, j # i
        PROVE  /\ release'[j] = release[j]
               /\ status'[j] # "none" => status[j] # "none"
               /\ status'[j] \in Applied <=> status[j] \in Applied
    BY <1>1, <1>3 DEF PollCreate, Inv, TypeOK
  <1>4. release'[i] = found[p] /\ status'[i] = "pending"
    BY <1>1 DEF PollCreate, Inv, TypeOK
  <1>5. RowsReleased'
    BY <1>2, <1>3, <1>4 DEF Rows, RowsReleased
  <1>6. ASSUME NEW j \in Ids, j # i, Apart(j) PROVE Apart(j)'
    <2>1. Twin(j) => Twin(j)'
      BY <1>1, <1>3, <1>6 DEF Twin
    <2>2. QED
      BY <1>1, <1>3, <1>6, <2>1 DEF Apart
  <1>7. ASSUME NEW j \in Ids, status'[j] \in Applied PROVE Apart(j)'
    BY <1>3, <1>4, <1>6, <1>7 DEF WayBack
  <1>8. ASSUME NEW t \in Runners, pc'[t] \in BackedPCs PROVE Apart(work[t])'
    <2>1. work[t] \in Ids /\ work[t] # i /\ Apart(work[t])
      BY <1>1, <1>8 DEF WayBack, Inv, Control, RunnerOK
    <2>2. PICK j \in Ids : work[t] = j /\ work'[t] = j /\ Apart(j)'
      BY <1>1, <1>6, <2>1
    <2>3. QED
      BY <2>2 DEF Apart, Twin
  <1>9. QED
    BY <1>5, <1>7, <1>8 DEF WayBack

\* The backup is taken of what runs.  When that is the release itself, a row tells
\* of its swap, and it is another one: this one is being verified.
LEMMA WayBackSnapshot ==
    ASSUME Inv, Traced, RowsReleased, WayBack, NEW t \in Runners, Snapshot(t)
    PROVE  RowsReleased' /\ WayBack'
  <1>1. /\ UNCHANGED <<status, release, image, work, claim>>
        /\ saved' = [saved EXCEPT ![work[t]] = image]
        /\ pc' = [pc EXCEPT ![t] = "pull"]
    BY DEF Snapshot, Goto
  <1>2. work[t] \in Ids /\ status[work[t]] = "verifying" /\ claim[work[t]] = t
    BY DEF Snapshot, Inv, Control, RunnerOK
  <1>3. ASSUME NEW s \in Services, image[s] = release[work[t]] PROVE Twin(work[t])
    <2>1. work[t] \in Rows /\ release[work[t]] \in Releases
      BY <1>2 DEF Rows, RowsReleased
    <2>2. PICK i \in Ids : release[i] = release[work[t]] /\ status[i] \in Applied
      BY <2>1, <1>3 DEF Traced, Ran
    <2>3. i # work[t]
      BY <1>2, <2>2
    <2>4. QED
      BY <2>2, <2>3 DEF Twin
  <1>4. ASSUME NEW i \in Ids PROVE Twin(i)' <=> Twin(i)
    BY <1>1 DEF Twin
  <1>5. ASSUME NEW i \in Ids, i # work[t], Apart(i) PROVE Apart(i)'
    BY <1>1, <1>4, <1>5 DEF Apart, Inv, TypeOK
  <1>6. ASSUME NEW i \in Ids, status'[i] \in Applied PROVE Apart(i)'
    BY <1>1, <1>2, <1>5, <1>6 DEF WayBack
  <1>7. ASSUME NEW i \in Ids, i = work[t] PROVE Apart(i)'
    BY <1>1, <1>3, <1>4, <1>7 DEF Apart, Inv, TypeOK
  <1>8. ASSUME NEW u \in Runners, pc'[u] \in BackedPCs PROVE Apart(work[u])'
    <2>1. PICK i \in Ids : work[u] = i /\ work'[u] = i /\ Apart(i)'
      <3>1. CASE u = t
        BY <1>1, <1>2, <1>7, <3>1
      <3>2. CASE u # t
        <4>1. pc[u] \in BackedPCs
          BY <1>1, <1>8, <3>2 DEF Inv, TypeOK
        <4>2. work[u] \in Ids /\ work[u] # work[t] /\ Apart(work[u])
          BY <1>2, <3>2, <4>1 DEF WayBack, Inv, Control, RunnerOK
        <4>3. QED
          BY <1>1, <1>5, <4>2
      <3>3. QED
        BY <3>1, <3>2
    <2>2. QED
      BY <2>1 DEF Apart, Twin
  <1>9. RowsReleased'
    BY <1>1 DEF RowsReleased, Rows
  <1>10. QED
    BY <1>6, <1>8, <1>9 DEF WayBack

-----------------------------------------------------------------------------
(* The theorems *)

LEMMA InitInv ==
    ASSUME Init
    PROVE  Inv /\ Traced /\ RowsReleased /\ WayBack
  <1>1. TypeOK
    <2>1. inFlight \in BOOLEAN /\ ready \in BOOLEAN
      BY Zenon DEF Init
    <2>2. pc \in [Runners -> PCs]
      BY DEF Init
    <2>3. QED
      BY <2>1, <2>2 DEF Init, TypeOK
  <1>2. Control
    BY DEF Init, Control, RunnerOK, BootOK, RowOK
  <1>3. Traced
    BY DEF Init, Traced
  <1>4. RowsReleased /\ WayBack
    BY DEF Init, RowsReleased, WayBack, Rows
  <1>5. QED
    BY <1>1, <1>2, <1>3, <1>4 DEF Inv

\* The shape of a step.
LEMMA Steps ==
    ASSUME Next
    PROVE  \/ \E p \in Pollers : \E r \in Releases : PollCheck(p, r)
           \/ \E p \in Pollers : \E i \in Ids : PollCreate(p, i)
           \/ \E i \in Ids : \/ WindowTick(i) \/ HelperSwap(i) \/ HelperWatch(i)
                             \/ HelperUndo(i) \/ HelperWalk(i) \/ Skip(i) \/ ResumeApplying(i)
           \/ \E o \in Operators : Listening /\ ApplyNow(o)
           \/ \E t \in Runners :
                \/ Select(t) \/ Claim(t) \/ Dispatch(t) \/ Release(t) \/ Floor(t) \/ Fetch(t)
                \/ Pull(t) \/ Stage(t) \/ Reconcile(t) \/ Refuse(t) \/ Migrate(t)
                \/ Recreate(t) \/ Gate(t) \/ Swap(t) \/ Restore(t) \/ Unswap(t)
                \/ Regate(t) \/ Throw(t)
           \/ \E t \in Runners : Snapshot(t)
           \/ ResumeVerifying \/ Final \/ BootVerdict
           \/ UndoSelf \/ StartServices
           \/ \E c \in Channels : SetChannel(c)
           \/ FinishSetup
           \/ Crash
  BY DEF Next, Runs, Resumes, Supervises

LEMMA NextType ==
    ASSUME Inv, Next
    PROVE  TypeOK'
  BY Steps, Zenon,
      TypePollCheck, TypePollCreate, TypeWindowTick, TypeApplyNow, TypeSelect,
      TypeClaim, TypeDispatch, TypeRelease, TypeFloor, TypeFetch, TypeSnapshot, TypePull,
      TypeStage, TypeReconcile, TypeRefuse, TypeMigrate, TypeRecreate, TypeGate,
      TypeSwap, TypeRestore, TypeUnswap, TypeRegate, TypeThrow, TypeResumeApplying,
      TypeResumeVerifying, TypeFinal, TypeBootVerdict, TypeUndoSelf, TypeStartServices,
      TypeHelperSwap, TypeHelperWatch, TypeHelperUndo, TypeHelperWalk, TypeSkip,
      TypeSetChannel, TypeFinishSetup, TypeCrash

LEMMA NextControl ==
    ASSUME Inv, TypeOK', Next
    PROVE  Control'
  BY Steps, Zenon,
      ControlPollCheck, ControlPollCreate, ControlWindowTick, ControlApplyNow,
      ControlSelect, ControlClaim, ControlDispatch, ControlRelease, ControlFloor,
      ControlFetch, ControlSnapshot, ControlPull, ControlStage, ControlReconcile,
      ControlRefuse, ControlMigrate, ControlRecreate, ControlGate, ControlSwap,
      ControlRestore, ControlUnswap, ControlRegate, ControlThrow, ControlResumeApplying,
      ControlResumeVerifying, ControlFinal, ControlBootVerdict, ControlUndoSelf,
      ControlStartServices, ControlHelperSwap, ControlHelperWatch, ControlHelperUndo,
      ControlHelperWalk, ControlSkip, ControlSetChannel, ControlFinishSetup,
      ControlCrash

LEMMA NextInv ==
    ASSUME Inv, [Next]_vars
    PROVE  Inv'
  <1>1. CASE Next
    BY <1>1, NextType, NextControl DEF Inv
  <1>2. CASE UNCHANGED vars
    <2>1. TypeOK'
      BY <1>2 DEF vars, Inv, TypeOK
    <2>2. Control'
      BY <1>2 DEF vars, Inv, Control, RunnerOK, BootOK, RowOK
    <2>3. QED
      BY <2>1, <2>2 DEF Inv
  <1>3. QED
    BY <1>1, <1>2

\* Every step but a poll's and the backup's has the frame.
LEMMA NextFrame ==
    ASSUME Inv, TypeOK', [Next]_vars
    PROVE  \/ Frame
           \/ \E p \in Pollers : \E r \in Releases : PollCheck(p, r)
           \/ \E p \in Pollers : \E i \in Ids : PollCreate(p, i)
           \/ \E t \in Runners : Snapshot(t)
  BY Steps, Zenon, FrameStutter,
      FrameWindowTick, FrameApplyNow, FrameSelect, FrameClaim, FrameDispatch,
      FrameRelease, FrameFloor, FrameFetch, FramePull, FrameStage, FrameReconcile,
      FrameRefuse, FrameMigrate, FrameRecreate, FrameGate, FrameSwap, FrameRestore,
      FrameUnswap, FrameRegate, FrameThrow, FrameResumeApplying, FrameResumeVerifying,
      FrameFinal, FrameBootVerdict, FrameUndoSelf, FrameStartServices, FrameHelperSwap,
      FrameHelperWatch, FrameHelperUndo, FrameHelperWalk, FrameSkip, FrameSetChannel,
      FrameFinishSetup, FrameCrash

LEMMA NextTraced ==
    ASSUME Inv, Inv', Traced, [Next]_vars
    PROVE  Traced'
  <1>1. TypeOK'
    BY DEF Inv
  <1>2. QED
    BY <1>1, NextFrame, FrameTraced, TracedPollCheck, TracedPollCreate, TracedSnapshot

LEMMA NextWayBack ==
    ASSUME Inv, Inv', Traced, RowsReleased, WayBack, [Next]_vars
    PROVE  RowsReleased' /\ WayBack'
  <1>1. TypeOK'
    BY DEF Inv
  <1>2. QED
    BY <1>1, NextFrame, FrameWayBack, WayBackPollCheck, WayBackPollCreate, WayBackSnapshot

\* The inductive invariant: the types, and what the place of every runner says of
\* its row and its claim.
THEOREM Invariant == Spec => []Inv
  <1>1. Init => Inv
    BY InitInv
  <1>2. Inv /\ [Next]_vars => Inv'
    BY NextInv
  <1>3. QED
    BY <1>1, <1>2, PTL DEF Spec

\* Every variable keeps the values the code gives it, for any number of rows,
\* services, requests and restarts.
THEOREM TypeCorrect == Spec => []TypeOK
  <1>1. Inv => TypeOK
    BY DEF Inv
  <1>2. QED
    BY <1>1, Invariant, PTL

\* The claim does its work: no two of the window, the operators' requests and the
\* resume hook are ever at work on one row, whatever throws, crashes or restarts.
THEOREM OneRun == Spec => []OneRunPerRow
  <1>1. Inv => OneRunPerRow
    <2>1. SUFFICES ASSUME Inv, NEW t \in Runners, NEW u \in Runners,
                          pc[t] \in ApplyPCs \cup ResumePCs,
                          pc[u] \in ApplyPCs \cup ResumePCs, work[t] = work[u]
                   PROVE  t = u
      BY DEF OneRunPerRow
    <2>2. CASE pc[t] \in ApplyPCs /\ pc[u] \in ApplyPCs
      BY <2>1, <2>2 DEF Inv, Control, RunnerOK
    <2>3. CASE pc[t] \in ResumePCs \/ pc[u] \in ResumePCs
      BY <2>1, <2>3 DEF Inv, Control, RunnerOK, BootOK
    <2>4. QED
      BY <2>1, <2>2, <2>3
  <1>2. QED
    BY <1>1, Invariant, PTL

\* No service ever runs a release whose row does not tell of its swap: a release
\* that was skipped, superseded or rejected never runs, nor is it rolled back to.
THEOREM OnlyApplied == Spec => []OnlyAppliedRuns
  <1>1. Init => Traced
    BY InitInv
  <1>2. Inv /\ Inv' /\ Traced /\ [Next]_vars => Traced'
    BY NextTraced
  <1>3. Traced => OnlyAppliedRuns
    BY DEF Traced, Ran, OnlyAppliedRuns, Rows
  <1>4. QED
    BY <1>1, <1>2, <1>3, Invariant, PTL DEF Spec

\* The backup of an update that is being applied is there, and never holds the
\* release it is the way back from, however often the verification is re-run after
\* a throw or a restart, and however checks for updates overlap: the one exception
\* is a release they recorded twice, once its other row was applied.
THEOREM RollsBack == Spec => []CanRollBack
  <1>1. Init => Traced /\ RowsReleased /\ WayBack
    BY InitInv
  <1>2. Inv /\ Inv' /\ Traced /\ [Next]_vars => Traced'
    BY NextTraced
  <1>3. Inv /\ Inv' /\ Traced /\ RowsReleased /\ WayBack /\ [Next]_vars
            => RowsReleased' /\ WayBack'
    BY NextWayBack
  <1>4. Inv /\ WayBack => CanRollBack
    BY DEF Inv, Control, RowOK, WayBack, Apart, CanRollBack
  <1>5. QED
    BY <1>1, <1>2, <1>3, <1>4, Invariant, PTL DEF Spec

=============================================================================

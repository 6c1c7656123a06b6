---------------------------- MODULE UpdateAgent -----------------------------
(***************************************************************************)
(* Over-the-air updates of a box: the poller that records releases, the    *)
(* apply pipeline with its claim, health gates and rollback, the resume at *)
(* boot, the operator's routes and the detached supervisor that swaps the  *)
(* orchestrator itself (apps/orchestrator/src/services/update-agent,       *)
(* routes/updates.ts and docker/ota/apply-update.sh).                      *)
(*                                                                         *)
(* A DeviceUpdate row is a number: rows are never deleted and a larger one *)
(* was created later.  A release is the number of its builtAt, and stands  *)
(* for its git commit, its image digests and its configs.  Every await of  *)
(* the pipeline is a step of its thread; a health gate may go either way.  *)
(*                                                                         *)
(* Left out: the trust chain (a release is verified or is not found), what *)
(* migrations and the .env reconcile write, client installers, the purge   *)
(* of old backups, and a window tick with autoApply off (it does nothing). *)
(***************************************************************************)
EXTENDS Integers, FiniteSets

CONSTANTS
    Self,           \* the orchestrator's own service
    Sidecars,       \* every other service of a release
    Running,        \* the sidecars that run on the box at first
    Releases,       \* the releases that may be published, by builtAt
    ChannelOf,      \* the channel of each release
    Boot,           \* the thread of resumeInterruptedApply
    Window,         \* the thread of the apply window
    Operators,      \* requests to apply-now
    Pollers,        \* who checks for updates: the cron, check-now
    None,           \* no image, no backup, no claim
    QuietWindow,    \* assumed: the window never opens beside a supervisor
    MaxRows,        \* bound of the model: rows ever created
    MaxFaults,      \* bound: thrown errors, refused recreates
    MaxCrashes      \* bound: restarts of the process or of the box

Services == Sidecars \cup {Self}

Runners == {Boot, Window} \cup Operators

Channels == {ChannelOf[r] : r \in Releases}

ASSUME UpdateAssumption ==
    /\ Self \notin Sidecars
    /\ Running \subseteq Sidecars
    /\ Releases \subseteq Nat \ {0}
    /\ Boot # Window /\ {Boot, Window} \cap Operators = {}
    /\ None \notin Nat /\ None \notin Runners
    /\ None \notin [Services -> Releases \cup {0, None}]
    /\ QuietWindow \in BOOLEAN
    /\ MaxRows \in Nat /\ MaxFaults \in Nat /\ MaxCrashes \in Nat

VARIABLES
    (* the DeviceUpdate table *)
    status,         \* status[i], "none" before the row exists
    release,        \* release[i]
    outcome,        \* outcome[i]
    claim,          \* claim[i]: the runner whose applyClaimId it is
    installed,      \* the newest committed row, 0 when there is none
    (* the box *)
    image,          \* image[s]: the release a service runs, 0 as delivered
    configs,        \* the release whose configs are on disk
    saved,          \* saved[i]: the digests in the backup of row i
    savedConfigs,   \* savedConfigs[i]: the configs in that backup
    helper,         \* helper[i]: where the supervisor launched for row i is
    aim,            \* aim[i]: the target it was launched with
    (* settings *)
    channel,        \* the channel the box follows
    ready,          \* the setup wizard is done
    (* the orchestrator process *)
    pc,             \* pc[t]: where a runner is
    work,           \* work[t]: the row it works on
    seen,           \* seen[t]: the status it read that row with
    inFlight,       \* applyNowInFlight
    found,          \* found[p]: the release a poll is about to record
    (* bounds *)
    faults, crashes

rowVars == <<release, installed>>
boxVars == <<image, configs, saved, savedConfigs>>
helperVars == <<helper, aim>>
settings == <<channel, ready>>
bounds == <<faults, crashes>>
vars == <<status, outcome, claim, rowVars, boxVars, helperVars, settings,
          pc, work, seen, inFlight, found, bounds>>

-----------------------------------------------------------------------------
(* Data *)

Ids == 1..MaxRows

Images == Releases \cup {0}

Applicable == {"pending", "verifying"}

Verdicts == {"superseded", "committed", "rolled_back", "failed", "rejected"}

Statuses == Applicable \cup Verdicts \cup {"applying"}

Outcomes == {"not_applied", "starting_services", "committed",
             "services_start_failed", "rolled_back", "rollback_failed"}

\* DEVICE_UPDATE_ALLOWED_TRANSITIONS.
AllowedTransitions ==
    [s \in Statuses |->
        CASE s = "pending"   -> {"superseded", "verifying"}
          [] s = "verifying" -> {"applying", "rejected", "superseded"}
          [] s = "applying"  -> {"committed", "rolled_back", "failed"}
          [] OTHER           -> {}]

\* The runner holds the claim of its row and works on it.
ApplyPCs == {"dispatch", "floor", "fetch", "snapshot", "pull", "stage", "reconcile",
             "refuse", "migrate", "recreate", "gate", "swap", "restore", "unswap",
             "regate", "release"}

\* resumeInterruptedApply settles an `applying` row, without a claim.
ResumePCs == {"final", "verdict", "undoConfigs", "undoSidecars", "undoSelf"}

PCs == ApplyPCs \cup ResumePCs \cup {"idle", "resume", "select", "claim", "starting"}

Rows == {i \in Ids : status[i] # "none"}

IsNewest(i, S) == i \in S /\ \A j \in S : j <= i

WithStatus(S) == {i \in Rows : status[i] \in S}

Init ==
    /\ status = [i \in Ids |-> "none"]
    /\ release = [i \in Ids |-> 0]
    /\ outcome = [i \in Ids |-> "not_applied"]
    /\ claim = [i \in Ids |-> None]
    /\ installed = 0
    /\ image = [s \in Services |-> IF s \in Running \cup {Self} THEN 0 ELSE None]
    /\ configs = 0
    /\ saved = [i \in Ids |-> None]
    /\ savedConfigs = [i \in Ids |-> None]
    /\ helper = [i \in Ids |-> "none"]
    /\ aim = [i \in Ids |-> "release"]
    /\ channel \in Channels
    /\ ready \in BOOLEAN
    /\ pc = [t \in Runners |-> IF t = Boot THEN "resume" ELSE "idle"]
    /\ work = [t \in Runners |-> 0]
    /\ seen = [t \in Runners |-> "none"]
    /\ inFlight = FALSE
    /\ found = [p \in Pollers |-> 0]
    /\ faults = 0
    /\ crashes = 0

-----------------------------------------------------------------------------
(* Helpers *)

Goto(t, next) == pc' = [pc EXCEPT ![t] = next]

\* Where a throw takes the runner: the finally of its run, or the catch of the
\* resume hook.
Thrown(t) == IF pc[t] \in ApplyPCs THEN "release" ELSE "idle"

\* transitionDeviceUpdate, in a step that goes on to `next` when it is allowed;
\* a refused transition throws.
Advance(t, i, to, verdict, next) ==
    IF to \in AllowedTransitions[status[i]]
    THEN /\ status' = [status EXCEPT ![i] = to]
         /\ outcome' = [outcome EXCEPT ![i] = verdict]
         /\ Goto(t, next)
    ELSE UNCHANGED <<status, outcome>> /\ Goto(t, Thrown(t))

Fault == faults < MaxFaults /\ faults' = faults + 1 /\ UNCHANGED crashes

\* The process is gone and another one boots.
Restart ==
    /\ pc' = [t \in Runners |-> IF t = Boot THEN "resume" ELSE "idle"]
    /\ work' = [t \in Runners |-> 0]
    /\ seen' = [t \in Runners |-> "none"]
    /\ inFlight' = FALSE
    /\ found' = [p \in Pollers |-> 0]

\* The services of the update's backup that ran when it was taken.
Swapped(i) == {s \in Services : saved[i][s] # None}

Deployed == {s \in Services : image[s] # None}

\* recreate-services: it tries every service, and says which ones failed.
OnRelease(i, done) == [s \in Services |-> IF s \in done THEN release[i] ELSE image[s]]

\* The backup pins no image for a service that was started after it was taken.
OnPrevious(i, done) ==
    [s \in Services |-> IF s \in done \cap Swapped(i) THEN saved[i][s] ELSE image[s]]

-----------------------------------------------------------------------------
(* The poller *)

\* runCheck up to its transaction: the release is of the box's channel, not
\* tracked yet and newer than the installed one.
PollCheck(p, r) ==
    /\ found[p] = 0
    /\ ChannelOf[r] = channel
    /\ \A i \in Rows : release[i] # r
    /\ installed # 0 => r > release[installed]
    /\ Cardinality(Rows) + Cardinality({q \in Pollers : found[q] # 0}) < MaxRows
    /\ found' = [found EXCEPT ![p] = r]
    /\ UNCHANGED <<status, outcome, claim, rowVars, boxVars, helperVars, settings,
                   pc, work, seen, inFlight, bounds>>

\* Its transaction: what waits is superseded, but a claimed row that is being
\* verified, and the release gets its row.
PollCreate(p, i) ==
    /\ found[p] # 0
    /\ i \notin Rows /\ \A j \in Ids : j < i => j \in Rows
    /\ status' = [j \in Ids |->
            IF j = i THEN "pending"
            ELSE IF status[j] = "pending" \/ (status[j] = "verifying" /\ claim[j] = None)
            THEN "superseded" ELSE status[j]]
    /\ release' = [release EXCEPT ![i] = found[p]]
    /\ found' = [found EXCEPT ![p] = 0]
    /\ UNCHANGED <<outcome, claim, installed, boxVars, helperVars, settings,
                   pc, work, seen, inFlight, bounds>>

-----------------------------------------------------------------------------
(* Selecting and claiming a row *)

\* The newest row that is pending or parked.
Picks(t, i) ==
    /\ IsNewest(i, WithStatus(Applicable))
    /\ work' = [work EXCEPT ![t] = i]
    /\ seen' = [seen EXCEPT ![t] = status[i]]
    /\ Goto(t, "claim")

\* applyWindowTick, which awaits the resume hook.
WindowTick(i) ==
    /\ pc[Window] = "idle"
    /\ pc[Boot] \in {"idle", "starting"}
    /\ Picks(Window, i)
    /\ UNCHANGED <<status, outcome, claim, rowVars, boxVars, helperVars, settings,
                   inFlight, found, bounds>>

\* POST /updates/apply-now: nothing may be applying, or on its way from a request.
ApplyNow(o) ==
    /\ pc[o] = "idle"
    /\ WithStatus({"applying"}) = {}
    /\ ~inFlight
    /\ Goto(o, "select")
    /\ UNCHANGED <<status, outcome, claim, rowVars, boxVars, helperVars, settings,
                   work, seen, inFlight, found, bounds>>

\* Then the request selects its row, as the resume hook does to re-run an apply
\* that was interrupted before any swap.
Select(t) ==
    /\ pc[t] = "select"
    /\ \/ \E i \in Ids : Picks(t, i)
       \/ WithStatus(Applicable) = {} /\ Goto(t, "idle") /\ UNCHANGED <<work, seen>>
    /\ UNCHANGED <<status, outcome, claim, rowVars, boxVars, helperVars, settings,
                   inFlight, found, bounds>>

\* Faulty variant: the claim looks at the status alone.
ClaimTwice(t) ==
    /\ pc[t] = "claim"
    /\ IF status[work[t]] \in Applicable
       THEN /\ claim' = [claim EXCEPT ![work[t]] = t]
            /\ inFlight' = (inFlight \/ t \in Operators)
            /\ Goto(t, IF t \in Operators THEN "dispatch" ELSE "floor")
       ELSE Goto(t, "idle") /\ UNCHANGED <<claim, inFlight>>
    /\ UNCHANGED <<status, outcome, rowVars, boxVars, helperVars, settings,
                   work, seen, found, bounds>>

\* claimDeviceUpdateForApply.
Claim(t) ==
    /\ pc[t] = "claim"
    /\ IF status[work[t]] \in Applicable /\ claim[work[t]] = None
       THEN /\ claim' = [claim EXCEPT ![work[t]] = t]
            /\ inFlight' = (inFlight \/ t \in Operators)
            /\ Goto(t, IF t \in Operators THEN "dispatch" ELSE "floor")
       ELSE Goto(t, "idle") /\ UNCHANGED <<claim, inFlight>>
    /\ UNCHANGED <<status, outcome, rowVars, boxVars, helperVars, settings,
                   work, seen, found, bounds>>

\* The dispatched apply reads the row again: it may have been skipped.
Dispatch(o) ==
    /\ pc[o] = "dispatch"
    /\ IF status[work[o]] \in Applicable /\ claim[work[o]] = o
       THEN Goto(o, "floor") /\ seen' = [seen EXCEPT ![o] = status[work[o]]]
       ELSE Goto(o, "release") /\ UNCHANGED seen
    /\ UNCHANGED <<status, outcome, claim, rowVars, boxVars, helperVars, settings,
                   work, inFlight, found, bounds>>

\* releaseDeviceUpdateClaim, the finally of every run; it may fail.
Release(t) ==
    /\ pc[t] = "release"
    /\ Goto(t, "idle")
    /\ inFlight' = (inFlight /\ t \notin Operators)
    /\ \/ claim' = [claim EXCEPT ![work[t]] = IF @ = t THEN None ELSE @]
          /\ UNCHANGED bounds
       \/ Fault /\ UNCHANGED claim
    /\ UNCHANGED <<status, outcome, rowVars, boxVars, helperVars, settings, work, seen, found>>

-----------------------------------------------------------------------------
(* applyClaimedRow, before the swap *)

\* Faulty variant: no floor.
StaleChannel(i) == ChannelOf[release[i]] # channel

\* The row is not this box's next release any more.
Stale(i) ==
    \/ ChannelOf[release[i]] # channel
    \/ installed # 0 /\ release[i] <= release[installed]

\* The stale check, the setup gate, pending -> verifying.
Floor(t) ==
    LET i == work[t] IN
    /\ pc[t] = "floor"
    /\ \/ Stale(i) /\ Advance(t, i, "superseded", outcome[i], "release")
       \/ ~Stale(i) /\ ~ready /\ Goto(t, "release") /\ UNCHANGED <<status, outcome>>
       \/ ~Stale(i) /\ ready /\ seen[t] = "verifying" /\ Goto(t, "fetch")
          /\ UNCHANGED <<status, outcome>>
       \/ ~Stale(i) /\ ready /\ seen[t] # "verifying" /\ Advance(t, i, "verifying", outcome[i], "fetch")
    /\ UNCHANGED <<claim, rowVars, boxVars, helperVars, settings,
                   work, seen, inFlight, found, bounds>>

\* A step of the checks: it lets the release through or rejects it (manifest,
\* configs checksum, image signature).
Checks(t, at, next) ==
    /\ pc[t] = at
    /\ \/ Goto(t, next) /\ UNCHANGED <<status, outcome>>
       \/ Advance(t, work[t], "rejected", outcome[work[t]], "release")
    /\ UNCHANGED <<claim, rowVars, boxVars, helperVars, settings,
                   work, seen, inFlight, found, bounds>>

Fetch(t) == Checks(t, "fetch", "snapshot")

\* Faulty variant: the digests recorded are the manifest's.
SnapshotOfRelease(t) ==
    /\ pc[t] = "snapshot"
    /\ saved' = [saved EXCEPT ![work[t]] = OnRelease(work[t], Running)]
    /\ savedConfigs' = [savedConfigs EXCEPT ![work[t]] = configs]
    /\ Goto(t, "pull")
    /\ UNCHANGED <<status, outcome, claim, rowVars, image, configs, helperVars, settings,
                   work, seen, inFlight, found, bounds>>

\* Faulty variant: the configs are not backed up.
SnapshotOfRefs(t) ==
    /\ pc[t] = "snapshot"
    /\ saved' = [saved EXCEPT ![work[t]] = image]
    /\ Goto(t, "pull")
    /\ UNCHANGED <<status, outcome, claim, rowVars, image, configs, savedConfigs, helperVars,
                   settings, work, seen, inFlight, found, bounds>>

\* Step 1: the digests and configs to roll back to.
Snapshot(t) ==
    /\ pc[t] = "snapshot"
    /\ saved' = [saved EXCEPT ![work[t]] = image]
    /\ savedConfigs' = [savedConfigs EXCEPT ![work[t]] = configs]
    /\ Goto(t, "pull")
    /\ UNCHANGED <<status, outcome, claim, rowVars, image, configs, helperVars, settings,
                   work, seen, inFlight, found, bounds>>

\* Step 2.
Pull(t) == Checks(t, "pull", "stage")

\* Step 3.
Stage(t) ==
    /\ pc[t] = "stage"
    /\ configs' = release[work[t]]
    /\ Goto(t, "reconcile")
    /\ UNCHANGED <<status, outcome, claim, rowVars, image, saved, savedConfigs, helperVars, settings,
                   work, seen, inFlight, found, bounds>>

\* Step 3b: the release may be refused here.
Reconcile(t) ==
    /\ pc[t] = "reconcile"
    /\ Goto(t, "migrate") \/ Goto(t, "refuse")
    /\ UNCHANGED <<status, outcome, claim, rowVars, boxVars, helperVars, settings,
                   work, seen, inFlight, found, bounds>>

Refuse(t) ==
    /\ pc[t] = "refuse"
    /\ configs' = savedConfigs[work[t]]
    /\ Advance(t, work[t], "rejected", outcome[work[t]], "release")
    /\ UNCHANGED <<claim, rowVars, image, saved, savedConfigs, helperVars, settings,
                   work, seen, inFlight, found, bounds>>

\* Faulty variant: the swap starts before the status says so.
MigrateSilently(t) ==
    /\ pc[t] = "migrate"
    /\ Goto(t, "recreate")
    /\ UNCHANGED <<status, outcome, claim, rowVars, boxVars, helperVars, settings,
                   work, seen, inFlight, found, bounds>>

\* Step 4, and verifying -> applying.
Migrate(t) ==
    /\ pc[t] = "migrate"
    /\ Advance(t, work[t], "applying", outcome[work[t]], "recreate")
    /\ UNCHANGED <<claim, rowVars, boxVars, helperVars, settings,
                   work, seen, inFlight, found, bounds>>

-----------------------------------------------------------------------------
(* applyClaimedRow, the swap and the inline rollback *)

\* Recreate `all` services on the images `to` gives; a failed one throws.
Recreates(t, all, to(_), next) ==
    \E done \in SUBSET all :
        /\ image' = to(done)
        /\ \/ done = all /\ Goto(t, next) /\ UNCHANGED bounds
           \/ done # all /\ Fault /\ Goto(t, Thrown(t))

\* Step 5.
Recreate(t) ==
    /\ pc[t] = "recreate"
    /\ Recreates(t, Swapped(work[t]) \ {Self},
                 LAMBDA done : OnRelease(work[t], done), "gate")
    /\ UNCHANGED <<status, outcome, claim, rowVars, configs, saved, savedConfigs, helperVars, settings,
                   work, seen, inFlight, found>>

\* Step 6.
Gate(t) ==
    /\ pc[t] = "gate"
    /\ Goto(t, "swap") \/ Goto(t, "restore")
    /\ UNCHANGED <<status, outcome, claim, rowVars, boxVars, helperVars, settings,
                   work, seen, inFlight, found, bounds>>

\* recreateSelfDetached: it removes the supervisor an earlier try left.
Launch(i, target) ==
    /\ helper' = [helper EXCEPT ![i] = "swap"]
    /\ aim' = [aim EXCEPT ![i] = target]

\* Step 7: the row stays `applying`, the next boot writes the verdict.
Swap(t) ==
    /\ pc[t] = "swap"
    /\ Launch(work[t], "release")
    /\ Goto(t, "release")
    /\ UNCHANGED <<status, outcome, claim, rowVars, boxVars, settings,
                   work, seen, inFlight, found, bounds>>

\* Step 8, inline or from the resume hook.
Restore(t) ==
    /\ pc[t] \in {"restore", "undoConfigs"}
    /\ configs' = savedConfigs[work[t]]
    /\ Goto(t, IF pc[t] = "restore" THEN "unswap" ELSE "undoSidecars")
    /\ UNCHANGED <<status, outcome, claim, rowVars, image, saved, savedConfigs, helperVars, settings,
                   work, seen, inFlight, found, bounds>>

Unswap(t) ==
    /\ pc[t] \in {"unswap", "undoSidecars"}
    /\ Recreates(t, (IF pc[t] = "unswap" THEN Swapped(work[t]) ELSE Deployed) \ {Self},
                 LAMBDA done : OnPrevious(work[t], done),
                 IF pc[t] = "unswap" THEN "regate" ELSE "undoSelf")
    /\ UNCHANGED <<status, outcome, claim, rowVars, configs, saved, savedConfigs, helperVars, settings,
                   work, seen, inFlight, found>>

\* The gate over the previous digests and the verdict it gives, inline (steps 8
\* and 9) or from the resume hook of the previous orchestrator.
Verdict(t, i, next) ==
    /\ \/ Advance(t, i, "rolled_back", "rolled_back", next)
       \/ Advance(t, i, "failed", "rollback_failed", next)
    /\ UNCHANGED <<claim, rowVars, boxVars, helperVars, settings,
                   work, seen, inFlight, found, bounds>>

Regate(t) == pc[t] = "regate" /\ Verdict(t, work[t], "release")

\* A step throws, or answers "retry later": the row keeps its status.  The re-read
\* of a dispatched apply throws outside its try, and the claim stays until the
\* next boot.  A request that ends so resets the in-flight flag, its own or not.
Throw(t) ==
    /\ pc[t] \in PCs \ {"idle", "starting", "gate", "release"}
    /\ Goto(t, Thrown(t)) \/ (pc[t] = "dispatch" /\ Goto(t, "idle"))
    /\ inFlight' = (inFlight /\ ~(t \in Operators /\ pc'[t] = "idle"))
    /\ Fault
    /\ UNCHANGED <<status, outcome, claim, rowVars, boxVars, helperVars, settings,
                   work, seen, found>>

-----------------------------------------------------------------------------
(* resumeInterruptedApply *)

\* Faulty variant: the claims of the last process stay.
KeepClaims == UNCHANGED claim

\* Every claim belongs to a process that is gone.
ClearClaims == claim' = [i \in Ids |-> None]

\* An `applying` row: the image this process runs says which side of the swap
\* it is on.
ResumeApplying(i) ==
    /\ pc[Boot] = "resume"
    /\ IsNewest(i, WithStatus({"applying"}))
    /\ ClearClaims
    /\ work' = [work EXCEPT ![Boot] = i]
    /\ Goto(Boot, IF image[Self] = release[i] THEN "final" ELSE "verdict")
    /\ UNCHANGED <<status, outcome, rowVars, boxVars, helperVars, settings,
                   seen, inFlight, found, bounds>>

\* No `applying` row: a `verifying` one is re-run from the top.
ResumeVerifying ==
    /\ pc[Boot] = "resume"
    /\ WithStatus({"applying"}) = {}
    /\ ClearClaims
    /\ Goto(Boot, IF WithStatus({"verifying"}) # {} THEN "select" ELSE "idle")
    /\ UNCHANGED <<status, outcome, rowVars, boxVars, helperVars, settings,
                   work, seen, inFlight, found, bounds>>

\* The new orchestrator gates every service: committed, or the full rollback.
Final ==
    LET i == work[Boot] IN
    /\ pc[Boot] = "final"
    /\ \/ /\ Advance(Boot, i, "committed", "starting_services", "starting")
          /\ installed' = IF status'[i] = "committed" THEN i ELSE installed
       \/ Goto(Boot, "undoConfigs") /\ UNCHANGED <<status, outcome, installed>>
    /\ UNCHANGED <<claim, release, boxVars, helperVars, settings,
                   work, seen, inFlight, found, bounds>>

\* The previous orchestrator writes the verdict.
BootVerdict == pc[Boot] = "verdict" /\ Verdict(Boot, work[Boot], "idle")

UndoSelf ==
    /\ pc[Boot] = "undoSelf"
    /\ Launch(work[Boot], "previous")
    /\ Goto(Boot, "idle")
    /\ UNCHANGED <<status, outcome, claim, rowVars, boxVars, settings,
                   work, seen, inFlight, found, bounds>>

\* startNewlyEnabledServices: what the release enables here and never ran.
StartServices ==
    LET i == work[Boot] IN
    /\ pc[Boot] = "starting"
    /\ \E grown \in SUBSET {s \in Services : image[s] = None} : image' = OnRelease(i, grown)
    /\ \E o \in {"committed", "services_start_failed"} : outcome' = [outcome EXCEPT ![i] = o]
    /\ installed' = i
    /\ Goto(Boot, "idle")
    /\ UNCHANGED <<status, claim, release, configs, saved, savedConfigs, helperVars, settings,
                   work, seen, inFlight, found, bounds>>

-----------------------------------------------------------------------------
(* self-swap-supervise, in its own container *)

\* It recreates the orchestrator, which ends the process that launched it.
HelperSwap(i) ==
    /\ helper[i] = "swap"
    /\ \/ /\ image' = [image EXCEPT ![Self] =
                          IF aim[i] = "release" THEN release[i] ELSE saved[i][Self]]
          /\ helper' = [helper EXCEPT ![i] = "watch"]
          /\ Restart
          /\ UNCHANGED bounds
       \/ /\ Fault
          /\ helper' = [helper EXCEPT ![i] = "undo"]
          /\ UNCHANGED <<image, pc, work, seen, inFlight, found>>
    /\ UNCHANGED <<status, outcome, claim, rowVars, configs, saved, savedConfigs, aim, settings>>

\* The container got healthy, or did not in time.
HelperWatch(i) ==
    /\ helper[i] = "watch"
    /\ \E next \in {"none", "undo"} : helper' = [helper EXCEPT ![i] = next]
    /\ UNCHANGED <<status, outcome, claim, rowVars, boxVars, aim, settings,
                   pc, work, seen, inFlight, found, bounds>>

\* A failed restore of the configs does not stop the rollback.
HelperUndo(i) ==
    /\ helper[i] = "undo"
    /\ \/ aim[i] = "release" /\ configs' = savedConfigs[i] /\ UNCHANGED bounds
       \/ aim[i] = "release" /\ Fault /\ UNCHANGED configs
       \/ aim[i] = "previous" /\ UNCHANGED <<configs, bounds>>
    /\ helper' = [helper EXCEPT ![i] = "walk"]
    /\ UNCHANGED <<status, outcome, claim, rowVars, image, saved, savedConfigs, aim, settings,
                   pc, work, seen, inFlight, found>>

\* recreate-services --target previous, the orchestrator last.
HelperWalk(i) ==
    /\ helper[i] = "walk"
    /\ helper' = [helper EXCEPT ![i] = "none"]
    /\ \E done \in SUBSET Swapped(i) :
        /\ image' = OnPrevious(i, done)
        /\ IF Self \in done THEN Restart ELSE UNCHANGED <<pc, work, seen, inFlight, found>>
        /\ IF done = Swapped(i) THEN UNCHANGED bounds ELSE Fault
    /\ UNCHANGED <<status, outcome, claim, rowVars, configs, saved, savedConfigs, aim, settings>>

-----------------------------------------------------------------------------
(* The operator, the process and the box *)

\* POST /updates/skip.
Skip(i) ==
    /\ IsNewest(i, WithStatus({"pending"}))
    /\ status' = [status EXCEPT ![i] = "superseded"]
    /\ UNCHANGED <<outcome, claim, rowVars, boxVars, helperVars, settings,
                   pc, work, seen, inFlight, found, bounds>>

SetChannel(c) ==
    /\ channel' = c
    /\ UNCHANGED <<status, outcome, claim, rowVars, boxVars, helperVars, ready,
                   pc, work, seen, inFlight, found, bounds>>

FinishSetup ==
    /\ ~ready
    /\ ready' = TRUE
    /\ UNCHANGED <<status, outcome, claim, rowVars, boxVars, helperVars, channel,
                   pc, work, seen, inFlight, found, bounds>>

\* The process dies, or the box with every container on it.
Crash ==
    /\ crashes < MaxCrashes
    /\ crashes' = crashes + 1
    /\ Restart
    /\ UNCHANGED helper \/ helper' = [i \in Ids |-> "none"]
    /\ UNCHANGED <<status, outcome, claim, rowVars, boxVars, aim, settings, faults>>

-----------------------------------------------------------------------------
(* Specification *)

Runs(t) ==
    \/ Select(t) \/ Claim(t) \/ Dispatch(t) \/ Release(t)
    \/ Floor(t) \/ Fetch(t) \/ Snapshot(t) \/ Pull(t) \/ Stage(t)
    \/ Reconcile(t) \/ Refuse(t) \/ Migrate(t)
    \/ Recreate(t) \/ Gate(t) \/ Swap(t) \/ Restore(t) \/ Unswap(t) \/ Regate(t)

Resumes ==
    \/ \E i \in Ids : ResumeApplying(i)
    \/ ResumeVerifying \/ Final \/ BootVerdict \/ UndoSelf \/ StartServices

Supervises(i) == HelperSwap(i) \/ HelperWatch(i) \/ HelperUndo(i) \/ HelperWalk(i)

\* Two assumptions on timing, which the code makes without a guard.  The hook is
\* started before the server listens and begins by clearing the claims: that is
\* over when the first request is served.
Listening == pc[Boot] # "resume"

\* A supervisor ends within minutes, and the window is a daily cron.
Quiet == QuietWindow => \A j \in Ids : helper[j] = "none"

Next ==
    \/ \E p \in Pollers : \E r \in Releases : PollCheck(p, r)
    \/ \E p \in Pollers : \E i \in Ids : PollCreate(p, i)
    \/ \E i \in Ids : Quiet /\ WindowTick(i)
    \/ \E i \in Ids : Supervises(i) \/ Skip(i)
    \/ \E o \in Operators : Listening /\ ApplyNow(o)
    \/ \E t \in Runners : Runs(t) \/ Throw(t)
    \/ Resumes
    \/ \E c \in Channels : SetChannel(c)
    \/ FinishSetup
    \/ Crash

Spec == Init /\ [][Next]_vars

LiveSpec ==
    /\ Spec
    /\ \A t \in Runners : WF_vars(Runs(t))
    /\ WF_vars(Resumes)
    /\ \A i \in Ids : WF_vars(Supervises(i)) /\ WF_vars(Quiet /\ WindowTick(i))
    /\ WF_vars(FinishSetup)

-----------------------------------------------------------------------------
(* Properties *)

\* Every variable keeps the values the code gives it.
TypeOK ==
    /\ status \in [Ids -> Statuses \cup {"none"}]
    /\ release \in [Ids -> Images]
    /\ outcome \in [Ids -> Outcomes]
    /\ claim \in [Ids -> Runners \cup {None}]
    /\ installed \in Ids \cup {0}
    /\ image \in [Services -> Images \cup {None}]
    /\ configs \in Images
    /\ saved \in [Ids -> [Services -> Images \cup {None}] \cup {None}]
    /\ savedConfigs \in [Ids -> Images \cup {None}]
    /\ helper \in [Ids -> {"none", "swap", "watch", "undo", "walk"}]
    /\ aim \in [Ids -> {"release", "previous"}]
    /\ channel \in Channels
    /\ ready \in BOOLEAN
    /\ pc \in [Runners -> PCs]
    /\ work \in [Runners -> Ids \cup {0}]
    /\ seen \in [Runners -> Statuses \cup {"none"}]
    /\ inFlight \in BOOLEAN
    /\ found \in [Pollers -> Images]
    /\ faults \in 0..MaxFaults
    /\ crashes \in 0..MaxCrashes

\* The claim's purpose (WARP-3193): the window, an operator's request and the
\* resume hook never work on one row together, across restarts that clear the
\* claims and rows that go back to being resumable.
OneRunPerRow ==
    \A t, u \in Runners :
        /\ pc[t] \in ApplyPCs \cup ResumePCs
        /\ pc[u] \in ApplyPCs \cup ResumePCs
        /\ work[t] = work[u]
        => t = u

\* Another row of the same release was applied: checks for updates that overlap
\* may record a release twice.
Twin(i) ==
    \E j \in Ids \ {i} : /\ release[j] = release[i]
                         /\ status[j] \in {"applying", "committed", "rolled_back", "failed"}

\* While a row is `applying` its backup can undo it: it is there, and none of the
\* digests it holds is one of the release itself, whatever was re-run before,
\* unless the release has another row that was applied.
CanRollBack ==
    \A i \in Ids : status[i] = "applying" =>
        /\ saved[i] # None
        /\ \A s \in Services : saved[i][s] = release[i] => Twin(i)

\* No service ever runs a release that was skipped, superseded or rejected, or
\* whose swap the row does not tell of: the status is written before the swap,
\* and a rollback brings back only what ran.
OnlyAppliedRuns ==
    \A s \in Services : image[s] \in Releases =>
        \E i \in Rows : /\ release[i] = image[s]
                        /\ status[i] \in {"applying", "committed", "rolled_back", "failed"}

\* Never go backwards (WARP-3430): the release the box calls installed is never
\* followed by an older one.
NeverBackwards ==
    [][installed # 0 => release[installed'] >= release[installed]]_vars

\* Every release that was recorded gets a verdict, whatever step of the apply,
\* of the swap or of the rollback the process or the box dies in.
RowsSettle ==
    \A i \in Ids : status[i] # "none" ~> status[i] \in Verdicts

\* apply.ts: `rolled_back` says that the previous digests are restored.
RolledBackIsRestored ==
    [][\A i \in Ids : status[i] = "applying" /\ status'[i] = "rolled_back" =>
         \A s \in Swapped(i) : image[s] = saved[i][s]]_vars

\* apply.ts: at the commit all services are healthy on the release digests.
CommittedIsRelease ==
    [][\A i \in Ids : status[i] = "applying" /\ status'[i] = "committed" =>
         \A s \in Swapped(i) : image[s] = release[i]]_vars

=============================================================================

# Droplet onboard services: a TLA+ verification project

Droplet is an appliance: one box that runs a language model, an orchestrator, a
dashboard and some twenty small services beside Postgres, Redis, Mosquitto,
Nextcloud and Ollama. The orchestrator (`apps/orchestrator`, Express over
Prisma) holds the logic that is hard to get right: work that outlives a request
and a process, that writes in the world on a person's behalf, and that must
survive redeploys, crashes and two processes that both believe they own it.
This project models that part, checks it with TLC and proves its most important
properties with TLAPS.

## Inventory

| Part | State it keeps | Operations | What is hard |
|---|---|---|---|
| durable agent runs (`agent-run-worker.service.ts`, `routes/agent-runs.ts`) | `AgentRun` row: status, lease, checkpoint (iteration, messages, trace), parked call and decision; in memory: executions, abort signals, captured leases, preemption counters | enqueue, cancel, decide, reclaim, claim, heartbeat, execute, releaseAll | zombies, crashes between dispatch and record, decisions from stale pages, cancellation and deadline racing an ending |
| agent loop (`llm-agent.service.ts`) | the conversation of one turn | model call, tool dispatch, checkpoint hooks, approvals port | what is done before and after each await |
| brain passes (`brain/brain-lease.service.ts`, `brain-pass-runner.ts`) | `BrainPass` rows and the set of pending passes | claimPass, beatPass, releasePass, runWithLease, releaseAllPasses | a claim that commits during shutdown, a stale pass taken twice by one process |
| cron runtime (`cron-runtime.service.ts`) | running flags, advisory locks | schedule, guarded run, stop | a tick that outlives stop() |
| run schedules, run results (`agent-run-schedule-ticker.service.ts`, `agent-run-result.service.ts`) | schedule rows; delivery status and attempts | tick, deliver | double fire, double post |
| update agent (`update-agent/`, `routes/updates.ts`, `docker/ota/apply-update.sh`) | `DeviceUpdate` rows with status, outcome and claim; on the box: image digests, configs, backups, the supervisor container | poll, apply-now, apply window, resume at boot, skip, self swap, roll back | a restart in the middle of an apply, three runners of one row, a supervisor that races the verdict |
| outbox (`pm/pm-outbox.ts`) | `PmActivity` rows, one cursor per consumer; failure counts in memory | sweep, handle, advance, dead-letter, nudge | rows that commit late, poison rows, a lost lock |
| webhook delivery (`pm/webhook-delivery.service.ts`, `webhook-fanout.ts`, `pm-webhook.service.ts`) | `PmWebhook` status and failure count; `PmWebhookDelivery` rows with attempts and `nextAttemptAt` | fan out, claim, attempt, settle, turn off, test, redeliver, prune | double sends, late attempts, several failures at the limit |
| filing, ERP sync (`filing/`, `erp-sync/`) | plans and undo journals; cursors and watermarks | apply, undo; pull, reconcile | one step of several failing; a watermark past unread rows |
| activity log, chat approvals | hash chain; in-memory challenges | append; register, claim | concurrent appends; a token used twice |
| web dashboard, tool catalog, edge services, router and container files | - | - | not concurrent state machines, or behind HTTP |

The parts meet in the run: a route or a schedule enqueues it, the cron runtime
ticks the worker, the worker drives the agent loop through a checkpoint port
and an approvals port, the loop dispatches tools through the MCP interceptor,
which challenges Tier-2 calls; a person answers on the dashboard; a finished run
is delivered into its chat. Postgres is the only thing two processes share:
every SQL statement is atomic, and nothing else is.

What makes each part correct, in a line:

- durable runs: a gated write happens once, on an approval of that very call;
  an ungated write is not repeated by a resume; the durable trace names every
  write; an old execution never overwrites a newer one; a finished run stays
  finished; a queued run settles.
- brain passes: one run of a pass at a time; a claim is released by its holder
  only; the cursor skips no document; a shutdown ends and leaves nothing to wait
  out; a dead process's pass is taken over.
- cron runtime: no overlapping runs of one job, one holder of a lock.
- schedules and results: a due slot fires once; a result is posted once.
- update agent: one runner per row; an interrupted apply ends with a verdict and
  can be undone until then; nothing runs that no row tells of; never backwards.
- outbox: every committed event reaches the consumer, oldest first, or is
  dead-lettered.
- webhooks: one attempt per delivery at a time, an outcome that stays, one notice
  per turn-off, every delivery settles.
- filing, ERP: undo restores what apply moved; a watermark never passes an
  unread row.

## Modules

| Module | What it is |
|---|---|
| `AgentRun` | one durable run and everything that touches its row: routes, crons, executions, shutdown, crash |
| `MCAgentRun` | its instances for TLC |
| `AgentRunProofs` | types, pending fields, finality |
| `AgentRunApprovalProofs` | approvals: the inductive account of where each one is |
| `AgentRunTraceProofs` | the durable trace: effects, repeated writes, conversation, lost approvals, checkpoint |
| `PassMutex` | what the lease of a brain pass promises: one run at work |
| `BrainPass` | trigger, lease, drain and corpus run of one pass, which implements `PassMutex` |
| `MCBrainPass` | its instances for TLC |
| `BrainPassProofs` | types, lease, refinement of `PassMutex`, cursor |
| `UpdateAgent` | the poller, the apply pipeline, the resume hook, the operator's routes and the supervisor of the self swap |
| `MCUpdateAgent` | its instances for TLC |
| `UpdateAgentProofs` | types, claim, applied images, backup |
| `UpdateForwardProofs` | when the installed release never goes backwards |
| `InOrderLog` | what the outbox promises one consumer |
| `Outbox` | the activity table, the cursor and the sweeps of one consumer, which implement `InOrderLog` |
| `MCOutbox` | its instances for TLC |
| `OutboxProofs` | types, no row skipped, refinement of `InOrderLog`, single writer |
| `WebhookDelivery` | one webhook, its delivery queue, the workers and the administrator |
| `MCWebhookDelivery` | its instances for TLC |
| `WebhookDeliveryProofs` | types, lease, tests, turn-off, finality |

In every specification Postgres is the only shared state: one SQL statement is
one step, and between two awaits of a process any other step may come. A worker
is a process incarnation; a restarted process is another worker. `PROJECT.json`
maps each definition to its lines.

### AgentRun

`row[r]` is the `AgentRun` row; `exec[w][r]` is what `execute` holds in memory
(its program counter `pc`, the lease it believes in, its copy of trace and
messages, the stop reason its heartbeat observed); `phase`, `held`, `preempts`
are the worker's `shuttingDown`, the leases `releaseAll` captured and
`preemptionsWithoutProgress`; `client` is a person's run page. `approved` and
`effects` are history: the approvals recorded and the writes made in the world.

| Actions | Code |
|---|---|
| `Enqueue`, `Cancel`, `View`, `DecideRead`, `DecideRefused`, `DecideWrite` | `enqueueAgentRun`, `cancelAgentRun`, the run page, `decideAgentRun` read and write apart |
| `LeaseExpires`, `ReclaimStale`, `Claim`, `Heartbeat`, `DeadlinePasses` | the tick: reclaim, conditional claim, `observe` |
| `ReadRow`, `Refuse`, `Admit` | `execute` up to the loop: refused or admitted |
| `ResumeUndecided`, `ResumeDecided`, `Consume`, `RedeemChallenge`, `Redeem`, `Answer` | `resumeDecidedCall`: the approval is spent on the row, the call challenged, redeemed and answered |
| `Top`, `Checkpoint`, `ModelReplies`, `ModelYields`, `NextCall`, `NextIteration` | the agent loop between its hooks |
| `Serve`, `Halt`, `RecordIntent`, `Dispatch`, `AfterToolCall`, `Throws` | the replay guard, the intent, the dispatch, the record |
| `EndFenced`, `EndCancelled`, `EndParked`, `EndStopped`, `EndYielded`, `EndReturned`, `ExecutorThrows` | the endings of `execute`, in the code's order |
| `ReleaseAll`, `ReleaseRow`, `Exit`, `Crash` | shutdown and death |

Time is three Booleans (`stale`, `overdue`, the lease's number). Calls are
members of three sets, because the code tells apart only calls that may be
repeated, ungated writes and gated ones.

### BrainPass

`row` is the `BrainPass` row, `slot[w][c]` the attempt of caller `c` in process
`w` and the run it starts, `inFlight[w]` and the `pending` program counters the
two collections the drain waits for, `phase[w]` the latch. `row.by`, `digested`
and `failed` are history. A process in `Stalling` may stall past
`BRAIN_LEASE_MS` and wake up; in the others a beat comes in time, which is what
the 15:1 ratio of lease and heartbeat is for. This is the one timing assumption
of the model and it is the guard of `LeaseExpires`.

| Actions | Code |
|---|---|
| `Trigger`, `RateLimit` | `createBrainPassTrigger().trigger` |
| `Attempt`, `ClaimPass`, `ClaimThrows`, `StartRun`, `HandBack` | `runWithLease` to the registration of the run |
| `BeatPass`, `ReleasePass`, `ForgetRun`, `LeaseExpires` | the interval, the `finally`, the lease's age |
| `ReadCursor`, `NextUnit`, `Digest`, `WriteCursor`, `Summary`, `RunThrows` | `runCorpusPass` |
| `ReleaseAllPasses`, `Drained`, `Exit`, `Crash` | shutdown |
| `SwitchPass`, `IntervalPasses` | the `enabled` column, changed outside the code; time |

Documents are the positions of the cursor's order and do not change during a
behaviour: a document updated later has a new position at the end. A document
with nothing to read counts as digested; a failed one is passed over and ends
the run, as the code says it should.

### UpdateAgent

`status`, `release`, `outcome`, `claim` are the columns of the `DeviceUpdate`
rows, which are numbers in the order of their creation; a release is the number
of its `builtAt`. `image`, `configs`, `saved`, `savedConfigs` are the box: what
each service runs, what is on disk and what the backup of each row holds.
`helper` is the detached supervisor. `pc`, `work`, `seen` are the three kinds of
runner: the boot's resume hook, the window and the operators' requests.

| Actions | Code |
|---|---|
| `PollCheck`, `PollCreate` | `runCheck`, its reads and its transaction |
| `WindowTick`, `ApplyNow`, `Select`, `Claim`, `Dispatch`, `Release` | the selection, `claimDeviceUpdateForApply`, the re-read, the `finally` |
| `Floor`, `Fetch`, `Snapshot`, `Pull`, `Stage`, `Reconcile`, `Refuse`, `Migrate` | `applyClaimedRow` up to `applying` |
| `Recreate`, `Gate`, `Swap`, `Restore`, `Unswap`, `Regate` | the swap, the gates, the inline rollback |
| `ResumeApplying`, `ResumeVerifying`, `Final`, `BootVerdict`, `UndoSelf`, `StartServices` | `resumeInterruptedApply`, `startNewlyEnabledServices` |
| `HelperSwap`, `HelperWatch`, `HelperUndo`, `HelperWalk` | `self-swap-supervise` |
| `Skip`, `SetChannel`, `FinishSetup`, `Throw`, `Crash` | the operator, a failing step, a restart of the process or of the box |

A health gate may go either way, a recreate may do any part of its services. Two
timing assumptions stand apart from the actions, in `Next`. `Listening`: the
resume hook, which is started before the server listens and not awaited, has
cleared the old claims (its first statement) when the first request is served;
without it a request could claim a row and lose the claim again. `Quiet`: the
window, a daily cron, does not open while a supervisor, which ends within
minutes, is at work. Nothing in the code enforces it, so it is a constant:
`QuietWindow` is `FALSE` in `update_agent_claims`, and no safety theorem of
`UpdateAgentProofs` uses it; `update_agent_live` sets it, and `CalmForward`
states it as a condition.

### Outbox

`row` and `stamp` are the activity table, with the transaction of a row open for
at most `TxTimeout`; `cursor` is the consumer's flag; `pc`, `at`, `from`, `batch`,
`left` a sweep; `tries` and `age` the in-memory failure counts; `start`,
`handled`, `dead` are history.

| Actions | Code |
|---|---|
| `Insert`, `Close`, `Delete`, `Tick` | the writers' transactions, the cascade, time |
| `Start`, `LoseLock` | `withAdvisoryLock` and the overlap guard of the cron runtime |
| `Load`, `Read` | `loadCursor`, `readOutboxBatch` |
| `Handle`, `Fail`, `Advance`, `Throw`, `Crash` | `runOutboxSweep`, `advanceOutboxCursor` |

The settle window works because no writer's transaction lives as long: that
`TxTimeout < Settle` (Prisma's 5 s against 6 s) is the assumption the proofs rest
on, and the clock is one. A row whose transaction is open when the consumer is
first registered may be stamped before the cursor created then: the consumer
starts at "now" and such a row is not owed to it.

### WebhookDelivery

`hook`, `failures` are the webhook, `status`, `source`, `attempts`, `due` the
deliveries, `expired` the ones past their expiry; `pc[w][d]` is the attempt of a
worker, with the copy of the row and the webhook its claim read (`seen`,
`active`). `accepted`, `notices`, `resumes` are history. Delays are the one bit
`due`: what matters is that a lease makes a row not due and that time makes it
due again (`Wake`).

| Actions | Code |
|---|---|
| `FanOutRead`, `FanOutWrite` | `fanOutActivity`, `createDeliveries` |
| `Claim`, `End`, `LoseLock`, `Crash` | `runWebhookDeliveries` under its lock |
| `Begin`, `Dial`, `Send`, `Deliver`, `Reset`, `Fail` | `attemptDelivery` |
| `Count`, `Flip`, `Notify` | `recordWebhookFailure`, statement by statement |
| `Pause`, `Resume`, `Delete`, `Test`, `Redeliver`, `Switch` | `pm-webhook.service.ts`, the egress switch |
| `Wake`, `Expire`, `Prune` | delays, leases, expiry, retention |

The attempts of a batch run five at a time in the code and all at once in the
model, which allows every order the code allows. A lease that ends under its
attempt is counted in `overruns`: the code bounds an attempt well below the
lease, so `OneAttempt` is stated for behaviours without one and `SettledStays`
for all.

## Runs

| Run | States | Shows |
|---|---|---|
| `agent_run_replay` | 1.6 M | `UngatedOncePerIteration`, `TraceHoldsEveryEffect` |
| `agent_run_approval` | 0.7 M | `TypeOK`, `ConversationIsTraced`, `PendingMatchesStatus`, `RunsOnlyWhatWasApproved`, `ApprovalSpentOnce`, `LostApprovalIsAtCheckpoint`, `CheckpointAdvances` |
| `agent_run_live` | 0.2 M | `TerminalIsFinal`, `RunsSettle` |
| `brain_pass_lease` | 0.6 M | `TypeOK`, `DrainedIsClosed`, `CursorAdvances`, `OneRunPerPass` |
| `brain_pass_recovery` | 0.2 M | `HeldWhileRunning`, `SkipsNone`, `ShutdownEnds`, `PassRecovers` |
| `update_agent_claims` | 2.4 M | `TypeOK`, `OneRunPerRow`, `CanRollBack`, `OnlyAppliedRuns` |
| `update_agent_live` | 0.07 M | `CanRollBack`, `OnlyAppliedRuns`, `NeverBackwards`, `RowsSettle` |
| `outbox_order` | 0.7 M | `TypeOK`, `NoneSkipped`, `InOrder` |
| `outbox_live` | 0.6 M | `CursorForward`, `AllDelivered` |
| `webhook_queue` | 3.1 M | `TypeOK`, `TestIsOnce`, `OneAttempt`, `OneNotice`, `LimitTurnsOff` |
| `webhook_live` | 0.3 M | `SettledStays`, `EachSettles` |

Bounds. For a run, two workers and one row are the smallest instance with a
zombie and its successor, and the code has no state that relates two runs but the
concurrency limit. Two iterations are needed for a checkpoint to be behind
another (`approval`); where the hazard lies inside one iteration (`replay`) there
is one. `MaxAttempts = 1` lets a run be reclaimed once and fail the second time.
A worker that loses its lease may take no further step, so the runs with
`MaxFaults = 0` contain the behaviours in which it died; `agent_run_live` adds
shutdowns, rejected awaits and the memory a crash loses.

For a pass, two processes with a tick and an operator each are the smallest
instance in which a claim can be contested within and between processes;
`brain_pass_recovery` has one caller per process, one of which may stall, and
liveness.

For updates, two releases and two rows are needed for one to be stale;
`update_agent_claims` has the window, an operator and the hook, two checks for
updates that overlap (the cron's and check-now), one thrown error or refused
recreate, and the restarts a supervisor causes; crashes are left to
`update_agent_live`, which asks the same of the backup and of the images with two
sidecars, one of them not running, two channels and a crash in any step, one
poller, no operator and no thrown error (see below).

For the outbox, two rows and two replicas: rows of one timestamp, a batch that is
full (`BatchSize = 1`, `outbox_live`) and one that is not (`outbox_order`), a
restart and a lost lock. The clock stops at 3, past the settle window of every
row that may be inserted.

For webhooks, two workers and two deliveries that can reach the limit
(`DisableAfter = 2`) together, with one operation of the administrator and one
fault; `webhook_live` has one delivery and one lease that ends too early.

Deadlock is checked for `BrainPass` and `Outbox`, which never stop; an agent run,
an update and a webhook without work may.

Symmetry permutes workers, replicas or deliveries where no property or constant
singles one out and the run checks no liveness.

Fairness. In `AgentRun`: awaits settle (`Execute`), the loop's response holds
finitely many calls (`NextIteration`, strong, because a call may come first each
time), the tick claims a queued run it is offered again and again (strong: chat
and full concurrency may interrupt), an unheld lease goes stale and is
reclaimed. Not assumed: that anyone decides, that a worker with a lease is not
interrupted. In `BrainPass`: awaits settle, intervals beat and tick, the drain
loop and the exit proceed, a lease nobody beats runs out. Operators are not
assumed to come. In `UpdateAgent`: awaits settle, the supervisor proceeds, the
window comes round, the setup wizard is finished; not that anyone publishes or
asks. In `Outbox`: the clock runs, transactions end, the interval sweeps; the
handler may fail every time. In `WebhookDelivery`: the interval claims, attempts
settle, delays and the expiry pass; the receiver may fail every time.

### Where the code and its words part

One run ends in a counterexample to a sentence of the repository:

- `agent_run_shown`: a decision sent from a page that shows an earlier parked
  call lands on the call parked now.

Others are stated as definitions that no run lists; adding one to a cfg as an
INVARIANT or PROPERTY shows the counterexample.

- `ConversationIsComplete` (`AgentRun`): an iteration answers A and parks on B;
  the resume checkpoints B's answer and advances the iteration, and A's answer is
  in no conversation.
- `GracefulExitLeavesNothing` (`AgentRun`): a tick under way claims after
  `releaseAll` took its snapshot; the process exits with the row `running`.
- `ReleasesOwnClaimOnly` (`BrainPass`): the lease's fence is the worker id, which
  two runs of one process share; after the lease ran out under a run, the next
  tick of the same process takes the row, the old run is never aborted, and its
  release frees the new run's claim. `HeldWhileRunning` and `OneRunPerPass` are
  therefore stated of processes that do not stall.
- `RolledBackIsRestored` (`UpdateAgent`): the box restarts between the recreate
  of the sidecars and the launch of the supervisor; the old orchestrator boots,
  finds the services healthy and writes `rolled_back` ("previous digests restored
  and healthy", `apply.ts:1485`) while sidecars run the release.
- `CommittedIsRelease` (`UpdateAgent`): after a rollback cut short the new
  orchestrator boots again and commits over sidecars on the previous digests; the
  gates check health and not the digest.
- `RowsSettle` with `MaxFaults = 1`: a throw of the resume hook leaves its row
  `applying`. `index.ts:1436` lets "the next window retry", which looks at
  `pending` and `verifying` rows only; the next boot settles it.
- `NeverBackwards` with an operator: the stale check is at the head of the apply,
  and a second run of another row may commit behind it. With `MaxFaults = 1` and
  no operator: a throw of the resume hook leaves row 1 `applying` on its own
  image, the window applies row 2 over it, the hook commits row 2, its supervisor
  rolls back to the image of row 1, and the next boot commits row 1. The window
  looks at `pending` and `verifying` rows and not for an `applying` one; what the
  order needs is stated and proved as `OneAtATime` (see `UpdateForwardProofs`).
- `NeverBackwards` with `QuietWindow = FALSE`: the window opens beside a
  supervisor that is still to swap, and applies the newer row; when the older
  row's supervisor swaps last, the box boots into it and commits it last.
- `RowsSettle` with two pollers: two checks that overlap give a release two rows.
  A crash during the swap gives the first a verdict while its supervisor goes on;
  the second is then applied over the release it names and saves the release
  itself as its way back; when the final gate fails, the rollback swaps the
  release for the release, the next boot finds itself on the target again, and so
  on for as long as the gate fails. `CanRollBack` excepts such a row (`Twin`) and no other.
- `TestIsOnce` speaks of behaviours without faults: the row of a test whose
  process died is taken by a later sweep and retried, although
  `pm-webhook.service.ts:355` says "never queued for retry".

Smaller disagreements met while modelling, which the modules reproduce and no
run is spent on: the second leg of an approved call is dispatched after the
heartbeat has observed a cancellation (`Redeem` has no guard on the stop
reason); a cancelled run's recorded iteration falls back when a hook threw;
`inFlight.delete(passKey)` of a released run removes the entry of the run that
has claimed since, and the drain does not wait for that one (`ForgetRun`); the
manual interval is read before the claim, so a short run in between is not seen
(`RateLimit`); check-now does not take the poller's lock, so a release can get
two rows (`PollCheck`, `PollCreate` with two pollers); a parked `verifying` row
that is re-run saves the staged configs over the first pre-image (`Snapshot`); a
supervisor whose deadline passes rolls back what the new orchestrator has
committed (`HelperWatch`); a crash while new services start leaves the outcome at
`starting_services`; a delivery claimed before its webhook was paused, deleted or
given another secret is still sent, with the old one (`Takes`), where
`pm-webhook.service.ts:296` says "Effective at once, for queued retries too".

## Proofs

All theorems hold for any sets of runs, workers, clients, callers and calls and
any bounds, under the named assumptions of `AgentRun` (`BoundsAssumption`: the
numbers are numbers; `CallsAssumption`: the three classes of calls are disjoint
and null is nobody) and of the other modules (`PassAssumption`, `UpdateAssumption`, `OutboxAssumption`,
`WebhookAssumption`, likewise; `OutboxAssumption` has `TxTimeout < Settle`).

`AgentRunProofs`. `TypeOK` is not inductive: a checkpoint copies what the
execution holds, so what each program counter may rely on has to come along.
`TypeInv` adds that (`ExecFits`), the pending fields (`PendingMatchesStatus`)
and what a client's page has checked. From it: `TypeCorrect`, `PendingCorrect`,
and `FinalStays`, the action property that no step of any actor changes the
status of a finished run.

`AgentRunApprovalProofs`. `ApprovalInv` says where an approval can be at any
moment: on the row, for the call the row holds and unspent (`RowApproval`,
`RowUnspent`); in executions that read it, of which the lease's holder finds it
still on the row (`ExecApproval`, `LeaseApproval`); with the one execution that
consumed it and is redeeming it (`ExecUnspent`); or in exactly one write
(`EffectApproval`). The consuming update is fenced by the lease, and that is why
a zombie that read the same approval cannot consume it a second time. From it:
`ApprovalsAccounted`, `OnlyApprovedRuns`, `SpentOnce`.

`AgentRunTraceProofs`. The properties of the trace speak of the row and of the
world, and hold because of what executions remember in between; none is
inductive. `TraceInv` says it, for three kinds of reader. Any execution, one that
lost its lease included, may dispatch only what the durable trace names
(`ExecTraced`): the fenced write of the intent came before, and no write drops an
entry. The lease's holder has the row's trace in memory, but for the decided call
it is about to write, and is not behind the checkpoint (`OwnerTraced`), so its
next whole-trace write loses nothing. The row has at most one approved call whose
outcome is lost, at its checkpoint and with nothing pending, and the loop is
entered only without one (`RowTraced`). For repeated writes `Fresh` looks at the
moment before: an ungated write about to be made was not made, and no other
execution is about to make it; it is not, because its intent would be in the
trace of the one that came later, which is then served or halted by the guard.
From `TraceAccounted`: `EffectsAreTraced`, `UngatedOnce`, `ConversationTraced`,
`LostApprovalFound`, and the action property `CheckpointOnlyAdvances`, for which
the same case split shows of every step that the new trace covers the old one
(`Advanced`). TLC checked `TraceInv` on the instance of `agent_run_approval` and,
in part, on one with gated and ungated calls together.

`BrainPassProofs`. `TypeCorrect` needs that a run does not look past its list
(`SlotFits`). `LeaseHeld`: `HeldWhileRunning` is inductive with the types,
because a claim needs an idle or stale row, neither of which a steady holder
can see, and because the caller recorded in the claim tells two attempts of one
process apart although the fence does not. `LeaseIsMutex` is the refinement:
every step of `BrainPass` is a step of `PassMutex` or a stutter, since two runs
at work are the same run and no step both starts one and stops another.
`NothingSkipped` strengthens `SkipsNone` with what each run, a zombie included,
is past. `CursorOnlyAdvances` adds, for `Stalling = {}`, that the run at work
stands where the cursor stands. `DrainIsClosed` follows from the latch and the
guard of the drain loop together: an attempt becomes pending only before the
latch, and the loop has waited for those.

`UpdateAgentProofs`. `Control` says what the place of each runner tells of its
row: who is inside an apply holds the claim and the status its step relies on,
the hook's row is nobody else's, and before the hook cleared the claims nobody
runs. `OneRun` follows, since two runners in an apply of one row hold one claim.
`OnlyApplied` adds `Traced`: what a backup would bring back was applied as well,
or a rollback could start anything. `RollsBack` adds `WayBack`, the same promise
for runners between the snapshot and the swap: a service that runs the release
has it from an applied row, and that is not the row being verified, so it is a
twin. It holds for any number of pollers, and the property names the exception
that overlapping checks make. The theorems use `Listening` and not `Quiet`.

`UpdateForwardProofs`. The stale check compares a row with the installed one long
before the commit. `Orderly` carries it there: what is verified or applied is
newer than what is installed (`Newer`), because between the check and the commit
nobody else commits (`Solo`). That is so in every behaviour in which updates are
applied one at a time (`OneAtATime`: no two runners are at it, and none claims a
row while another is `applying`), whatever is requested, thrown or restarted:
`OneAtATimeForward`. The code does not guarantee `OneAtATime` in general (see
above). `CalmOneAtATime` proves that it does when nothing throws, nobody calls
apply-now and the window does not open beside a supervisor (`Calm`): every `applying` row is then in the hands of the next boot,
of its runner or of a supervisor that has yet to restart the process
(`Attended`), and the window comes when there is none of them. `CalmForward`
combines the two; it is `NeverBackwards` under the conditions of
`update_agent_live`, for any number of rows, releases, channels, services,
pollers and restarts.

`OutboxProofs`. What makes the settle window safe is `WritersOK`, no transaction
outlives its timeout: a row that is not there yet is stamped after everything a
sweep may read. From it the invariant says that behind every cursor, the stored
one and the one each sweep loaded, nothing is left undone (`Passed`), and that a
batch has no gap before its rows (`NoGap`); it holds for every sweep by itself,
which is why `NoRowSkipped` needs no lock. `ImplementsLog`: a first handling is a
`Consume`, because everything before the row is done, in the batch or gone; a
commit or the first load of the cursor is a `Write`, because nothing done is as
young. `SingleWriter` does need the lock: until one is lost, a sweep at work
holds it and is ahead of the cursor (`Alone`).

`WebhookDeliveryProofs`. `LeaseExcludes` rests on `LeaseOK`, a row in flight is
not due; `TestsAreOnce` on `TestOK`, a test still owed is in its own call's hands;
`TypeCorrect` on `RowsOK`, an owed row has a rung left. `LimitHolds` is inductive
as it stands. `OneNoticePerTurnOff` counts: notices given, attempts about to give
one and the webhook's being on never exceed the times it was turned on; the
guarded update moves a unit from the last to the second. `OutcomesAreFinal` uses
`AnswerOK`: who writes `DELIVERED` had the receiver's answer.

Only model-checked: the liveness properties, which are outside the prover's
reach (`RunsSettle`, `ShutdownEnds`, `PassRecovers`, `RowsSettle`,
`AllDelivered`, `EachSettles`). Every invariant and every action property of a
passing run is stated by a theorem, with the conditions named above where the
code gives it only under conditions.

## Not modelled

Left out of the modelled parts: answers the agent loop writes itself, without a
dispatch (a call it refuses, a repeated or malformed one), which enter the
conversation and no trace, so that `ConversationIsTraced` speaks of dispatched
calls; the loop's second try after a blank reply (`Top`); a gate read that is
rejected once and cached for its whole sweep, which fails several attempts
together where the model fails them one by one (`Throw` of `WebhookDelivery`).

Prompt assembly, tool selection and budgets of the agent loop; notifications,
audit rows, live events and logs; the text of documents and digests; the
detectors, which are deterministic queries re-run as a whole under the same
lease; the trust chain of a release, the `.env` reconcile and the pruning of
backups; a webhook's address, events, scope, payload and secret; the dashboard,
the edge services and the configuration. The repository has more than half a
million lines, most of them request handlers that are one short transaction, user
interface and device glue; the project covers the state machines that outlive a
request, and a small share of the lines. The components of `PROJECT.json` give
the reason for each part.

## Plan

Done: `AgentRun`, `PassMutex` and `BrainPass`, `UpdateAgent`, `InOrderLog` and
`Outbox`, `WebhookDelivery`, each with its proofs. Left, in this order:

1. `RunSchedule`: the schedule ticker, its overlap rule and the delivery of a
   result into its chat (at least once, made idempotent by the turn id), over an
   abstract run that `AgentRun` refines: queued, running, waiting, ended. Worth
   proving: one run per due slot, one post per run.
2. The composition of `Outbox` and `WebhookDelivery`: a delivery for every event
   a webhook subscribed to, from the commit to the receiver.
3. Filing and ERP sync: a journal that can undo what was applied; a watermark
   that passes no unread row.
4. More proofs: what `RunSchedule` and the composition promise.

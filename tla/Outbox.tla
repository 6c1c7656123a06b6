------------------------------- MODULE Outbox -------------------------------
(***************************************************************************)
(* The PmActivity outbox and one consumer of it                            *)
(* (apps/orchestrator/src/services/pm/pm-outbox.ts), swept by the cron     *)
(* runtime under an advisory lock (cron-runtime.service.ts).               *)
(*                                                                         *)
(* Every work-item change writes a row stamped when its INSERT is issued;  *)
(* the row is there once its transaction commits.  A sweep reads the rows  *)
(* after a persisted cursor that have been still for the settle window,    *)
(* hands them to the handler one at a time and moves the cursor behind     *)
(* each.  Row ids are UUIDs: any order among rows of one timestamp.        *)
(*                                                                         *)
(* There is one clock.  Left out: a cursor that does not parse, a row's    *)
(* content, and the nudge, which only starts a sweep early: a sweep may    *)
(* start at any time here.                                                 *)
(***************************************************************************)
EXTENDS Integers, FiniteSets

CONSTANTS
    Rows,           \* the rows that may be written, by id
    Replicas,       \* the processes that registered the consumer
    None,           \* no cursor, no lock holder
    Settle,         \* settleMs
    TxTimeout,      \* the transaction timeout of the writers
    BatchSize,      \* batchSize
    MaxBatches,     \* MAX_BATCHES_PER_SWEEP
    MinFailures,    \* POISON_MIN_FAILURES
    PoisonAfter,    \* poisonAfterMs
    MaxTime,        \* bound of the model: the clock stands still there
    MaxFaults,      \* bound: database errors of a sweep
    MaxCrashes,     \* bound: restarts of a replica
    MaxLosses       \* bound: lost connections that hold the lock

ASSUME OutboxAssumption ==
    /\ Rows \subseteq Nat \ {0} /\ IsFiniteSet(Rows)
    /\ None \notin Nat \X Nat /\ None \notin Replicas
    /\ Settle \in Nat /\ TxTimeout \in Nat /\ TxTimeout < Settle
    /\ BatchSize \in Nat \ {0} /\ MaxBatches \in Nat \ {0}
    /\ MinFailures \in Nat \ {0} /\ PoisonAfter \in Nat
    /\ MaxTime \in Nat
    /\ MaxFaults \in Nat /\ MaxCrashes \in Nat /\ MaxLosses \in Nat

VARIABLES
    now,            \* the clock
    row,            \* row[r]: "new", "open" in its transaction, "there", "gone"
    stamp,          \* stamp[r]: its createdAt
    cursor,         \* the consumer's SystemFlag
    start,          \* where the cursor was created
    lock,           \* the replica whose transaction holds the advisory lock
    pc,             \* pc[p]: where the sweep of a replica is
    at,             \* at[p]: the time it read the current batch at
    from,           \* from[p]: the cursor it loaded
    batch,          \* batch[p]: the rows it read and has not passed
    left,           \* left[p]: the batches it may still read
    tries,          \* tries[p][r]: the failures it remembers, up to MinFailures
    age,            \* age[p][r]: the time since the first, up to PoisonAfter
    handled,        \* the rows a handler returned for
    dead,           \* the rows dead-lettered
    faults, crashes, losses

tableVars == <<row, stamp>>
sweepVars == <<pc, at, from, batch, left>>
memory == <<tries, age>>
results == <<handled, dead>>
bounds == <<faults, crashes, losses>>
vars == <<now, tableVars, cursor, start, lock, sweepVars, memory, results, bounds>>

-----------------------------------------------------------------------------
(* Data *)

\* The total order of (createdAt, id); the empty id is 0.
Before(e, f) == e[1] < f[1] \/ (e[1] = f[1] /\ e[2] < f[2])

Pair(r) == <<stamp[r], r>>

IsFirst(r, S) == r \in S /\ \A q \in S \ {r} : Before(Pair(r), Pair(q))

\* orderBy createdAt, id; take n.
FirstOf(S, n) == {r \in S : Cardinality({q \in S : Before(Pair(q), Pair(r))}) < n}

Init ==
    /\ now = 0
    /\ row = [r \in Rows |-> "new"]
    /\ stamp = [r \in Rows |-> 0]
    /\ cursor = None
    /\ start = None
    /\ lock = None
    /\ pc = [p \in Replicas |-> "idle"]
    /\ at = [p \in Replicas |-> 0]
    /\ from = [p \in Replicas |-> <<0, 0>>]
    /\ batch = [p \in Replicas |-> {}]
    /\ left = [p \in Replicas |-> 0]
    /\ tries = [p \in Replicas |-> [r \in Rows |-> 0]]
    /\ age = [p \in Replicas |-> [r \in Rows |-> 0]]
    /\ handled = {}
    /\ dead = {}
    /\ faults = 0 /\ crashes = 0 /\ losses = 0

-----------------------------------------------------------------------------
(* The clock and the writers *)

\* Time passes.  No transaction outlives its timeout.
Tick ==
    /\ \A r \in Rows : row[r] = "open" => now < stamp[r] + TxTimeout
    /\ now' = IF now < MaxTime THEN now + 1 ELSE now
    /\ age' = [p \in Replicas |-> [r \in Rows |->
            IF tries[p][r] > 0 /\ age[p][r] < PoisonAfter THEN age[p][r] + 1 ELSE age[p][r]]]
    /\ UNCHANGED <<tableVars, cursor, start, lock, sweepVars, tries, results, bounds>>

\* writeActivity: the INSERT is issued.  Bound: while everything can still settle.
Insert(r) ==
    /\ row[r] = "new"
    /\ now + Settle <= MaxTime
    /\ row' = [row EXCEPT ![r] = "open"]
    /\ stamp' = [stamp EXCEPT ![r] = now]
    /\ UNCHANGED <<now, cursor, start, lock, sweepVars, memory, results, bounds>>

\* Its transaction commits, or rolls back and there was no row.
Close(r) ==
    /\ row[r] = "open"
    /\ \E to \in {"there", "new"} : row' = [row EXCEPT ![r] = to]
    /\ UNCHANGED <<now, stamp, cursor, start, lock, sweepVars, memory, results, bounds>>

\* Its work item is deleted, and the row with it.
Delete(r) ==
    /\ row[r] = "there"
    /\ row' = [row EXCEPT ![r] = "gone"]
    /\ UNCHANGED <<now, stamp, cursor, start, lock, sweepVars, memory, results, bounds>>

-----------------------------------------------------------------------------
(* runOutboxSweep, in the lock's transaction *)

\* The next batch is read at this time.
Loads(p) ==
    /\ pc' = [pc EXCEPT ![p] = "load"]
    /\ at' = [at EXCEPT ![p] = now]

\* The run and its transaction end; the lock is its own only while its connection
\* lived.
Ends(p) ==
    /\ pc' = [pc EXCEPT ![p] = "idle"]
    /\ at' = [at EXCEPT ![p] = 0]
    /\ from' = [from EXCEPT ![p] = <<0, 0>>]
    /\ batch' = [batch EXCEPT ![p] = {}]
    /\ left' = [left EXCEPT ![p] = 0]
    /\ lock' = IF lock = p THEN None ELSE lock

\* Faulty variant: the replicas do not look at each other's lock.
StartUnlocked(p) ==
    /\ pc[p] = "idle"
    /\ Loads(p)
    /\ left' = [left EXCEPT ![p] = MaxBatches]
    /\ UNCHANGED <<now, tableVars, cursor, start, lock, from, batch, memory, results, bounds>>

\* A tick, a nudge or the registration: one run per replica, under the lock.
Start(p) ==
    /\ pc[p] = "idle"
    /\ lock = None
    /\ lock' = p
    /\ Loads(p)
    /\ left' = [left EXCEPT ![p] = MaxBatches]
    /\ UNCHANGED <<now, tableVars, cursor, start, from, batch, memory, results, bounds>>

\* Faulty variant: the cursor is not created.
LoadOnly(p) ==
    /\ pc[p] = "load"
    /\ from' = [from EXCEPT ![p] = cursor]
    /\ pc' = [pc EXCEPT ![p] = "read"]
    /\ UNCHANGED <<now, tableVars, cursor, start, lock, at, batch, left, memory, results, bounds>>

\* loadCursor: the first use creates the cursor at the time of the read.
Load(p) ==
    /\ pc[p] = "load"
    /\ \/ /\ cursor = None
          /\ cursor' = <<at[p], 0>>
          /\ start' = cursor'
          /\ UNCHANGED <<pc, from>>
       \/ /\ cursor # None
          /\ from' = [from EXCEPT ![p] = cursor]
          /\ pc' = [pc EXCEPT ![p] = "read"]
          /\ UNCHANGED <<cursor, start>>
    /\ UNCHANGED <<now, tableVars, lock, at, batch, left, memory, results, bounds>>

\* Faulty variant: no settle window.
DueAtOnce(p) ==
    {r \in Rows : /\ row[r] = "there"
                  /\ Before(from[p], Pair(r))
                  /\ stamp[r] <= at[p]}

\* Faulty variant: the cursor is a timestamp.
DueByTime(p) ==
    {r \in Rows : /\ row[r] = "there"
                  /\ from[p][1] < stamp[r]
                  /\ stamp[r] <= at[p] - Settle}

\* The settled rows after the cursor.
Due(p) ==
    {r \in Rows : /\ row[r] = "there"
                  /\ Before(from[p], Pair(r))
                  /\ stamp[r] <= at[p] - Settle}

\* readOutboxBatch, after loadCursor.
Read(p) ==
    LET rows == FirstOf(Due(p), BatchSize) IN
    /\ pc[p] = "read"
    /\ \/ /\ rows = {}
          /\ Ends(p)
       \/ /\ rows # {}
          /\ batch' = [batch EXCEPT ![p] = rows]
          /\ left' = [left EXCEPT ![p] = IF Cardinality(rows) < BatchSize THEN 0 ELSE @ - 1]
          /\ pc' = [pc EXCEPT ![p] = "handle"]
          /\ UNCHANGED <<lock, at, from>>
    /\ UNCHANGED <<now, tableVars, cursor, start, memory, results, bounds>>

\* tracked.delete.
Forget(p, r) ==
    /\ tries' = [tries EXCEPT ![p][r] = 0]
    /\ age' = [age EXCEPT ![p][r] = 0]

\* The handler returns for the row.
Handle(p, r) ==
    /\ pc[p] = "handle"
    /\ IsFirst(r, batch[p])
    /\ handled' = handled \cup {r}
    /\ Forget(p, r)
    /\ pc' = [pc EXCEPT ![p] = "advance"]
    /\ UNCHANGED <<now, tableVars, cursor, start, lock, at, from, batch, left, dead, bounds>>

\* This failure is one of at least MinFailures over at least PoisonAfter.
Poison(p, r) == tries[p][r] + 1 >= MinFailures /\ age[p][r] >= PoisonAfter

\* Faulty variant: the sweep goes on behind the row.
FailAndGoOn(p, r) ==
    /\ pc[p] = "handle"
    /\ IsFirst(r, batch[p])
    /\ tries' = [tries EXCEPT ![p][r] = IF @ < MinFailures THEN @ + 1 ELSE @]
    /\ pc' = [pc EXCEPT ![p] = "advance"]
    /\ UNCHANGED <<now, tableVars, cursor, start, lock, at, from, batch, left, age, results, bounds>>

\* The handler throws: the sweep stops before the row, which is tried again, or
\* the row is dead-lettered.
Fail(p, r) ==
    /\ pc[p] = "handle"
    /\ IsFirst(r, batch[p])
    /\ \/ /\ Poison(p, r)
          /\ dead' = dead \cup {r}
          /\ Forget(p, r)
          /\ pc' = [pc EXCEPT ![p] = "advance"]
          /\ UNCHANGED <<batch, lock, at, from, left>>
       \/ /\ ~Poison(p, r)
          /\ tries' = [tries EXCEPT ![p][r] = IF @ < MinFailures THEN @ + 1 ELSE @]
          /\ Ends(p)
          /\ UNCHANGED <<dead, age>>
    /\ UNCHANGED <<now, tableVars, cursor, start, handled, bounds>>

\* advanceOutboxCursor, which does not look at where the cursor is; then the next
\* row, the next batch, or the end.
Advance(p, r) ==
    /\ pc[p] = "advance"
    /\ IsFirst(r, batch[p])
    /\ cursor' = Pair(r)
    /\ \/ /\ batch[p] # {r}
          /\ batch' = [batch EXCEPT ![p] = @ \ {r}]
          /\ pc' = [pc EXCEPT ![p] = "handle"]
          /\ UNCHANGED <<lock, at, from, left>>
       \/ /\ batch[p] = {r} /\ left[p] > 0
          /\ batch' = [batch EXCEPT ![p] = {}]
          /\ Loads(p)
          /\ UNCHANGED <<lock, from, left>>
       \/ /\ batch[p] = {r} /\ left[p] = 0
          /\ Ends(p)
    /\ UNCHANGED <<now, tableVars, start, memory, results, bounds>>

\* A query of the sweep fails.
Throw(p) ==
    /\ pc[p] \in {"load", "read", "advance"}
    /\ faults < MaxFaults
    /\ faults' = faults + 1
    /\ Ends(p)
    /\ UNCHANGED <<now, tableVars, cursor, start, memory, results, crashes, losses>>

-----------------------------------------------------------------------------
(* Crashes *)

\* The replica restarts: it forgets the failures, Postgres drops its lock.
Crash(p) ==
    /\ crashes < MaxCrashes
    /\ crashes' = crashes + 1
    /\ Ends(p)
    /\ tries' = [tries EXCEPT ![p] = [r \in Rows |-> 0]]
    /\ age' = [age EXCEPT ![p] = [r \in Rows |-> 0]]
    /\ UNCHANGED <<now, tableVars, cursor, start, results, faults, losses>>

\* The connection that holds the lock is lost; the sweep, which queries through
\* the pool, goes on.
LoseLock ==
    /\ lock # None
    /\ losses < MaxLosses
    /\ losses' = losses + 1
    /\ lock' = None
    /\ UNCHANGED <<now, tableVars, cursor, start, sweepVars, memory, results, faults, crashes>>

-----------------------------------------------------------------------------
(* Specification *)

Sweeps(p) ==
    \/ Start(p) \/ Load(p) \/ Read(p)
    \/ \E r \in Rows : Handle(p, r) \/ Fail(p, r) \/ Advance(p, r)

Next ==
    \/ Tick
    \/ \E r \in Rows : Insert(r) \/ Close(r) \/ Delete(r)
    \/ \E p \in Replicas : Sweeps(p) \/ Throw(p) \/ Crash(p)
    \/ LoseLock

Spec == Init /\ [][Next]_vars

LiveSpec ==
    /\ Spec
    /\ WF_vars(Tick)
    /\ \A r \in Rows : WF_vars(Close(r))
    /\ \A p \in Replicas : WF_vars(Sweeps(p))

-----------------------------------------------------------------------------
(* Properties *)

\* Every variable keeps the values the code gives it.
TypeOK ==
    /\ now \in 0..MaxTime
    /\ row \in [Rows -> {"new", "open", "there", "gone"}]
    /\ stamp \in [Rows -> Nat]
    /\ cursor \in (Nat \X Nat) \cup {None}
    /\ start \in (Nat \X Nat) \cup {None}
    /\ lock \in Replicas \cup {None}
    /\ pc \in [Replicas -> {"idle", "load", "read", "handle", "advance"}]
    /\ at \in [Replicas -> Nat]
    /\ from \in [Replicas -> Nat \X Nat]
    /\ batch \in [Replicas -> SUBSET Rows]
    /\ left \in [Replicas -> 0..MaxBatches]
    /\ tries \in [Replicas -> [Rows -> 0..MinFailures]]
    /\ age \in [Replicas -> [Rows -> 0..PoisonAfter]]
    /\ handled \subseteq Rows
    /\ dead \subseteq Rows
    /\ faults \in 0..MaxFaults
    /\ crashes \in 0..MaxCrashes
    /\ losses \in 0..MaxLosses

Done == handled \cup dead

\* The consumer is owed the row: it was written after the consumer's first use.
Owed(r) == row[r] = "there" /\ start # None /\ Before(start, Pair(r))

\* No consumer can miss an event that committed (ADR-069): a row the cursor has
\* passed was handed to the handler, however slowly its transaction committed,
\* and even while two replicas sweep after the lock was lost.
NoneSkipped ==
    \A r \in Rows : Owed(r) /\ ~Before(cursor, Pair(r)) => r \in Done

\* The row belongs to the consumer's log, deleted or not.
Logged(r) == row[r] \in {"there", "gone"} /\ start # None /\ Before(start, Pair(r))

Entries(S) == {Pair(r) : r \in S}

Log == INSTANCE InOrderLog WITH
    log <- Entries({r \in Rows : Logged(r)}),
    gone <- Entries({r \in Rows : Logged(r) /\ row[r] = "gone"}),
    done <- Entries(Done)

\* Order is preserved by refusing to skip ahead: the outbox implements the
\* in-order log, where a retry, a replay after a crash and the second of two
\* sweeps are stuttering steps.
InOrder == Log!Spec

\* The cursor has a single writer (advanceOutboxCursor): until a connection that
\* holds the lock is lost it never moves back, across retries and restarts.
CursorForward ==
    [][losses = 0 /\ cursor # None => cursor' = cursor \/ Before(cursor, cursor')]_vars

\* Every event reaches the consumer or is dead-lettered, unless it is deleted: a
\* row that always fails does not hold back the others for ever.
AllDelivered ==
    \A r \in Rows : Owed(r) ~> (r \in Done \/ row[r] = "gone")

=============================================================================

---------------------------- MODULE OutboxProofs ----------------------------
(***************************************************************************)
(* Proofs about Outbox, for every number of rows and replicas, every batch *)
(* size and every settle window above the transaction timeout.             *)
(***************************************************************************)
EXTENDS Outbox, FiniteSetTheorems, TLAPS

USE OutboxAssumption DEF tableVars, sweepVars, memory, results, bounds

Cursors == Nat \X Nat

-----------------------------------------------------------------------------
(* The order of the rows *)

LEMMA CursorParts ==
    ASSUME NEW c \in Cursors
    PROVE  c[1] \in Nat /\ c[2] \in Nat /\ c = <<c[1], c[2]>>
  BY DEF Cursors

LEMMA BeforeTransitive ==
    ASSUME NEW c \in Cursors, NEW d \in Cursors, NEW e \in Cursors
    PROVE  /\ Before(c, d) /\ Before(d, e) => Before(c, e)
           /\ ~(Before(c, d) /\ Before(d, c))
           /\ ~Before(c, d) /\ Before(c, e) => d = e \/ Before(d, e)
  BY CursorParts DEF Before

LEMMA PairParts ==
    ASSUME TypeOK, NEW r \in Rows
    PROVE  Pair(r) \in Cursors /\ Pair(r)[1] = stamp[r] /\ Pair(r)[2] = r
  BY DEF TypeOK, Pair, Cursors

LEMMA PairsTotal ==
    ASSUME TypeOK, NEW q \in Rows, NEW r \in Rows
    PROVE  /\ q = r \/ Before(Pair(q), Pair(r)) \/ Before(Pair(r), Pair(q))
           /\ Pair(q) = Pair(r) => q = r
  <1>1. q \in Nat /\ r \in Nat /\ stamp[q] \in Nat /\ stamp[r] \in Nat
    BY DEF TypeOK
  <1>2. Pair(q)[1] = stamp[q] /\ Pair(q)[2] = q /\ Pair(r)[1] = stamp[r] /\ Pair(r)[2] = r
    BY PairParts
  <1>3. q = r \/ Before(Pair(q), Pair(r)) \/ Before(Pair(r), Pair(q))
    BY <1>1, <1>2 DEF Before
  <1>4. Pair(q) = Pair(r) => q = r
    BY <1>2
  <1>5. QED
    BY <1>3, <1>4

LEMMA FirstUnique ==
    ASSUME TypeOK, NEW S \in SUBSET Rows, NEW q, NEW r, IsFirst(q, S), IsFirst(r, S)
    PROVE  q = r
  BY PairParts, BeforeTransitive DEF IsFirst

\* A batch has no gaps: what comes before one of its rows is in it.
LEMMA FirstOfClosed ==
    ASSUME TypeOK, NEW S \in SUBSET Rows, NEW n \in Nat,
           NEW r \in FirstOf(S, n), NEW q \in S, Before(Pair(q), Pair(r))
    PROVE  q \in FirstOf(S, n)
  <1> DEFINE P(x) == {y \in S : Before(Pair(y), Pair(x))}
  <1>1. P(q) \subseteq P(r)
    BY PairParts, BeforeTransitive DEF FirstOf
  <1>2. IsFiniteSet(P(r)) /\ IsFiniteSet(P(q))
    BY FS_Subset
  <1>3. Cardinality(P(q)) <= Cardinality(P(r))
    BY <1>1, <1>2, FS_Subset
  <1>4. Cardinality(P(q)) \in Nat /\ Cardinality(P(r)) \in Nat
    BY <1>2, FS_CardinalityType
  <1>5. QED
    BY <1>3, <1>4 DEF FirstOf

-----------------------------------------------------------------------------
(* Types *)

LEMMA EndsType ==
    ASSUME TypeOK, NEW p \in Replicas, Ends(p)
    PROVE  /\ lock' \in Replicas \cup {None}
           /\ pc' \in [Replicas -> {"idle", "load", "read", "handle", "advance"}]
           /\ at' \in [Replicas -> Nat]
           /\ from' \in [Replicas -> Nat \X Nat]
           /\ batch' \in [Replicas -> SUBSET Rows]
           /\ left' \in [Replicas -> 0..MaxBatches]
  <1>1. <<0, 0>> \in Nat \X Nat
    OBVIOUS
  <1>2. QED
    BY <1>1 DEF TypeOK, Ends

LEMMA ForgetType ==
    ASSUME TypeOK, NEW p \in Replicas, NEW r \in Rows, Forget(p, r)
    PROVE  /\ tries' \in [Replicas -> [Rows -> 0..MinFailures]]
           /\ age' \in [Replicas -> [Rows -> 0..PoisonAfter]]
  BY DEF TypeOK, Forget

LEMMA CountType ==
    ASSUME TypeOK, NEW p \in Replicas, NEW r \in Rows,
           tries' = [tries EXCEPT ![p][r] = IF @ < MinFailures THEN @ + 1 ELSE @]
    PROVE  tries' \in [Replicas -> [Rows -> 0..MinFailures]]
  BY DEF TypeOK

LEMMA TypeTick ==
    ASSUME TypeOK, Tick
    PROVE  TypeOK'
  <1>1. age' \in [Replicas -> [Rows -> 0..PoisonAfter]]
    BY DEF TypeOK, Tick
  <1>2. now' \in 0..MaxTime
    BY DEF TypeOK, Tick
  <1>3. QED
    BY <1>1, <1>2 DEF TypeOK, Tick

LEMMA TypeWriters ==
    ASSUME TypeOK, NEW r \in Rows, Insert(r) \/ Close(r) \/ Delete(r)
    PROVE  TypeOK'
  <1>1. /\ row' \in [Rows -> {"new", "open", "there", "gone"}]
        /\ stamp' \in [Rows -> Nat]
    <2>1. CASE Insert(r)
      BY <2>1 DEF TypeOK, Insert
    <2>2. CASE Close(r)
      BY <2>2 DEF TypeOK, Close
    <2>3. CASE Delete(r)
      BY <2>3 DEF TypeOK, Delete
    <2>4. QED
      BY <2>1, <2>2, <2>3
  <1>2. UNCHANGED <<now, cursor, start, lock, sweepVars, memory, results, bounds>>
    BY DEF Insert, Close, Delete
  <1>3. QED
    BY <1>1, <1>2 DEF TypeOK

LEMMA TypeStart ==
    ASSUME TypeOK, NEW p \in Replicas, Start(p)
    PROVE  TypeOK'
  BY DEF TypeOK, Start, Loads

LEMMA TypeLoad ==
    ASSUME TypeOK, NEW p \in Replicas, Load(p)
    PROVE  TypeOK'
  <1>1. CASE cursor = None
    BY <1>1 DEF TypeOK, Load
  <1>2. CASE cursor # None
    <2>1. cursor \in Nat \X Nat
      BY <1>2 DEF TypeOK
    <2>2. from' = [from EXCEPT ![p] = cursor] /\ pc' = [pc EXCEPT ![p] = "read"]
      BY <1>2 DEF Load
    <2>3. UNCHANGED <<now, tableVars, cursor, start, lock, at, batch, left, memory, results, bounds>>
      BY <1>2 DEF Load
    <2>4. QED
      BY <2>1, <2>2, <2>3 DEF TypeOK
  <1>3. QED
    BY <1>1, <1>2

LEMMA TypeRead ==
    ASSUME TypeOK, NEW p \in Replicas, Read(p), left[p] > 0
    PROVE  TypeOK'
  <1>1. FirstOf(Due(p), BatchSize) \in SUBSET Rows
    BY DEF FirstOf, Due
  <1>2. CASE Ends(p)
    BY <1>2, EndsType DEF TypeOK, Read
  <1>3. CASE ~Ends(p)
    <2>1. PICK n \in {0, left[p] - 1} : left' = [left EXCEPT ![p] = n]
      BY <1>3 DEF Read
    <2>2. n \in 0..MaxBatches
      BY DEF TypeOK
    <2>3. left' \in [Replicas -> 0..MaxBatches]
      BY <2>1, <2>2 DEF TypeOK
    <2>4. /\ batch' = [batch EXCEPT ![p] = FirstOf(Due(p), BatchSize)]
          /\ pc' = [pc EXCEPT ![p] = "handle"]
          /\ UNCHANGED <<now, tableVars, cursor, start, lock, at, from, memory, results, bounds>>
      BY <1>3 DEF Read
    <2>5. QED
      BY <1>1, <2>3, <2>4 DEF TypeOK
  <1>4. QED
    BY <1>2, <1>3

LEMMA TypeHandle ==
    ASSUME TypeOK, NEW p \in Replicas, NEW r \in Rows, Handle(p, r)
    PROVE  TypeOK'
  BY ForgetType DEF TypeOK, Handle

LEMMA TypeFail ==
    ASSUME TypeOK, NEW p \in Replicas, NEW r \in Rows, Fail(p, r)
    PROVE  TypeOK'
  <1>1. CASE Poison(p, r)
    BY <1>1, ForgetType DEF TypeOK, Fail
  <1>2. CASE ~Poison(p, r)
    BY <1>2, EndsType, CountType DEF TypeOK, Fail
  <1>3. QED
    BY <1>1, <1>2

LEMMA TypeAdvance ==
    ASSUME TypeOK, NEW p \in Replicas, NEW r \in Rows, Advance(p, r)
    PROVE  TypeOK'
  <1>1. cursor' \in Nat \X Nat
    BY PairParts DEF Advance, Cursors
  <1>2. CASE batch[p] # {r}
    <2>1. /\ batch' = [batch EXCEPT ![p] = @ \ {r}]
          /\ pc' = [pc EXCEPT ![p] = "handle"]
          /\ UNCHANGED <<now, tableVars, start, lock, at, from, left, memory, results, bounds>>
      BY <1>2 DEF Advance
    <2>2. QED
      BY <1>1, <2>1 DEF TypeOK
  <1>3. CASE batch[p] = {r} /\ left[p] > 0
    <2>1. /\ batch' = [batch EXCEPT ![p] = {}]
          /\ pc' = [pc EXCEPT ![p] = "load"]
          /\ at' = [at EXCEPT ![p] = now]
          /\ UNCHANGED <<now, tableVars, start, lock, from, left, memory, results, bounds>>
      BY <1>3 DEF Advance, Loads
    <2>2. QED
      BY <1>1, <2>1 DEF TypeOK
  <1>4. CASE batch[p] = {r} /\ left[p] = 0
    BY <1>1, <1>4, EndsType DEF TypeOK, Advance
  <1>5. QED
    BY <1>2, <1>3, <1>4 DEF TypeOK, Advance

LEMMA TypeThrow ==
    ASSUME TypeOK, NEW p \in Replicas, Throw(p)
    PROVE  TypeOK'
  BY EndsType DEF TypeOK, Throw

LEMMA TypeCrash ==
    ASSUME TypeOK, NEW p \in Replicas, Crash(p)
    PROVE  TypeOK'
  BY EndsType DEF TypeOK, Crash

LEMMA TypeLoseLock ==
    ASSUME TypeOK, LoseLock
    PROVE  TypeOK'
  BY DEF TypeOK, LoseLock

-----------------------------------------------------------------------------
(* The inductive invariant *)

\* The writers' promise: no transaction outlives its timeout.
WritersOK ==
    \A r \in Rows : row[r] = "open" => stamp[r] <= now /\ now <= stamp[r] + TxTimeout

\* A cursor is where it was created, or at a row that has settled.
Settled(c) == c = start \/ (Before(start, c) /\ c[1] + Settle <= now)

\* Nothing behind it is left undone.
Passed(c) == \A r \in Rows : Owed(r) /\ ~Before(c, Pair(r)) => r \in Done

\* The row is owed, or was before it was deleted, and has settled.
Fixed(r) ==
    /\ start # None /\ row[r] \in {"there", "gone"}
    /\ Before(start, Pair(r)) /\ stamp[r] + Settle <= now

\* A batch has no gaps before its rows.
NoGap(p) ==
    \A r \in batch[p] :
        /\ Fixed(r)
        /\ \A q \in Rows : Owed(q) /\ Before(Pair(q), Pair(r)) => q \in Done \cup batch[p]

SweepOK(p) ==
    /\ at[p] <= now
    /\ pc[p] \in {"load", "read"} => left[p] > 0
    /\ pc[p] = "read" => start # None /\ Settled(from[p]) /\ Passed(from[p])
    /\ NoGap(p)
    /\ pc[p] = "advance" => \A r \in Rows : IsFirst(r, batch[p]) => r \in Done

CursorOK ==
    /\ start = None <=> cursor = None
    /\ cursor # None => Settled(cursor) /\ Passed(cursor)

Inv ==
    /\ TypeOK
    /\ WritersOK
    /\ CursorOK
    /\ \A p \in Replicas : SweepOK(p)
    /\ \A r \in Done : Fixed(r)

\* A step of a sweep that leaves the other sweeps alone.
Others(p) ==
    \A q \in Replicas \ {p} :
        pc'[q] = pc[q] /\ at'[q] = at[q] /\ from'[q] = from[q] /\ batch'[q] = batch[q]
            /\ left'[q] = left[q]

LEMMA EndsOthers ==
    ASSUME TypeOK, NEW p \in Replicas, Ends(p)
    PROVE  /\ Others(p)
           /\ pc'[p] = "idle" /\ at'[p] = 0 /\ batch'[p] = {}
  BY DEF TypeOK, Ends, Others

LEMMA OtherSweep ==
    ASSUME Inv, TypeOK', UNCHANGED <<now, row, stamp, start>>, Done \subseteq Done',
           NEW p \in Replicas, Others(p), NEW q \in Replicas, q # p
    PROVE  SweepOK(q)'
  <1>1. pc'[q] = pc[q] /\ at'[q] = at[q] /\ from'[q] = from[q] /\ batch'[q] = batch[q]
            /\ left'[q] = left[q]
    BY DEF Others
  <1>2. SweepOK(q)
    BY DEF Inv
  <1>3. NoGap(q)'
    BY <1>1, <1>2 DEF SweepOK, NoGap, Fixed, Owed, Pair, Before
  <1>4. pc[q] = "read" => start' # None /\ Settled(from[q])' /\ Passed(from[q])'
    BY <1>1, <1>2 DEF SweepOK, Settled, Passed, Owed, Pair, Before
  <1>5. pc[q] = "advance" => (\A r \in Rows : IsFirst(r, batch[q])' => r \in Done')
    BY <1>1, <1>2 DEF SweepOK, IsFirst, Pair, Before
  <1>6. QED
    BY <1>1, <1>2, <1>3, <1>4, <1>5 DEF SweepOK

\* A step of one sweep.
LEMMA SweepStep ==
    ASSUME Inv, TypeOK', UNCHANGED <<now, row, stamp, start>>, Done \subseteq Done',
           \A r \in Done' \ Done : Fixed(r), CursorOK',
           NEW p \in Replicas, Others(p), SweepOK(p)'
    PROVE  Inv'
  <1>1. ASSUME NEW q \in Replicas PROVE SweepOK(q)'
    BY <1>1, OtherSweep
  <1>2. WritersOK'
    BY DEF Inv, WritersOK
  <1>3. ASSUME NEW r \in Done' PROVE Fixed(r)'
    <2>1. Fixed(r)
      BY <1>3 DEF Inv
    <2>2. QED
      BY <2>1 DEF Fixed, Pair, Before
  <1>4. QED
    BY <1>1, <1>2, <1>3 DEF Inv

\* The cursor stays, and Done grows.
LEMMA CursorStays ==
    ASSUME Inv, UNCHANGED <<now, row, stamp, cursor, start>>, Done \subseteq Done'
    PROVE  CursorOK'
  <1>1. CursorOK
    BY DEF Inv
  <1>2. QED
    BY <1>1 DEF CursorOK, Settled, Passed, Owed, Pair, Before

\* A sweep that ends.
LEMMA EndsInv ==
    ASSUME Inv, TypeOK', NEW p \in Replicas, Ends(p),
           UNCHANGED <<now, row, stamp, cursor, start, handled, dead>>
    PROVE  Inv'
  <1>1. Others(p) /\ pc'[p] = "idle" /\ at'[p] = 0 /\ batch'[p] = {}
    BY EndsOthers DEF Inv
  <1>2. now' \in Nat
    BY DEF TypeOK
  <1>3. SweepOK(p)'
    BY <1>1, <1>2 DEF SweepOK, NoGap
  <1>4. Done' = Done
    BY DEF Done
  <1>5. QED
    BY <1>1, <1>3, <1>4, SweepStep, CursorStays

-----------------------------------------------------------------------------
(* The clock and the writers *)

\* What they do to the rows: a row that joins is not settled.
Outside ==
    /\ now <= now'
    /\ UNCHANGED <<cursor, start, handled, dead, pc, at, from, batch, left>>
    /\ \A r \in Rows : row[r] \in {"there", "gone"} =>
            row'[r] \in {"there", "gone"} /\ stamp'[r] = stamp[r]
    /\ \A r \in Rows : /\ row[r] = "gone" => row'[r] = "gone"
                       /\ row'[r] = "gone" => row[r] \in {"there", "gone"}
    /\ \A r \in Rows : row'[r] = "there" =>
            stamp'[r] = stamp[r] /\ (row[r] = "there" \/ (now' = now /\ now < stamp[r] + Settle))

LEMMA OutsideSteps ==
    ASSUME Inv, TypeOK', NEW r \in Rows, Tick \/ Insert(r) \/ Close(r) \/ Delete(r)
    PROVE  Outside /\ WritersOK'
  <1>1. now \in Nat /\ now' \in Nat /\ \A q \in Rows : stamp[q] \in Nat /\ stamp'[q] \in Nat
    BY DEF Inv, TypeOK
  <1>2. CASE Tick
    BY <1>1, <1>2 DEF Tick, Outside, Inv, WritersOK
  <1>3. CASE Insert(r)
    BY <1>1, <1>3 DEF Insert, Outside, Inv, TypeOK, WritersOK
  <1>4. CASE Close(r)
    <2>1. now < stamp[r] + Settle
      BY <1>1, <1>4 DEF Close, Inv, WritersOK
    <2>2. PICK to \in {"there", "new"} : row' = [row EXCEPT ![r] = to]
      BY <1>4 DEF Close
    <2>3. UNCHANGED <<now, stamp, cursor, start, lock, sweepVars, memory, results, bounds>>
      BY <1>4 DEF Close
    <2>4. WritersOK'
      BY <2>2, <2>3 DEF Inv, TypeOK, WritersOK
    <2>5. Outside
      BY <1>1, <1>4, <2>1, <2>2, <2>3 DEF Close, Outside, Inv, TypeOK
    <2>6. QED
      BY <2>4, <2>5
  <1>5. CASE Delete(r)
    BY <1>1, <1>5 DEF Delete, Outside, Inv, TypeOK, WritersOK
  <1>6. QED
    BY <1>2, <1>3, <1>4, <1>5

LEMMA OutsideFixed ==
    ASSUME Inv, TypeOK', Outside, NEW r \in Rows, Fixed(r)
    PROVE  Fixed(r)' /\ Pair(r)' = Pair(r)
  <1>1. now \in Nat /\ now' \in Nat /\ stamp[r] \in Nat
    BY DEF Inv, TypeOK
  <1>2. Pair(r)' = Pair(r)
    BY DEF Outside, Fixed, Pair
  <1>3. QED
    BY <1>1, <1>2 DEF Outside, Fixed

\* A row that joins is behind no settled cursor and no settled row.
LEMMA OutsideOwed ==
    ASSUME Inv, TypeOK', Outside, NEW r \in Rows, Owed(r)'
    PROVE  /\ Pair(r)' = Pair(r)
           /\ Owed(r) \/ \A c \in Cursors : c[1] + Settle <= now => Before(c, Pair(r))
  <1>1. Pair(r)' = Pair(r)
    BY DEF Owed, Outside, Pair
  <1>2. CASE row[r] = "there"
    BY <1>1, <1>2 DEF Owed, Outside
  <1>3. CASE now < stamp[r] + Settle
    <2>1. ASSUME NEW c \in Cursors, c[1] + Settle <= now PROVE Before(c, Pair(r))
      <3>1. c[1] \in Nat /\ stamp[r] \in Nat /\ now \in Nat
        BY CursorParts DEF Inv, TypeOK
      <3>2. Pair(r)[1] = stamp[r]
        BY DEF Pair
      <3>3. QED
        BY <1>3, <2>1, <3>1, <3>2 DEF Before
    <2>2. QED
      BY <1>1, <2>1
  <1>4. QED
    BY <1>1, <1>2, <1>3 DEF Owed, Outside

LEMMA OutsideCursor ==
    ASSUME Inv, TypeOK', Outside, NEW c \in Cursors, start # None, Settled(c), Passed(c)
    PROVE  Settled(c)' /\ Passed(c)'
  <1>1. Settled(c)'
    BY CursorParts DEF Outside, Settled, Inv, TypeOK
  <1>2. ASSUME NEW r \in Rows, Owed(r)', ~Before(c, Pair(r)') PROVE r \in Done'
    <2>1. Pair(r)' = Pair(r) /\ Done' = Done
      BY <1>2, OutsideOwed DEF Outside, Done
    <2>2. CASE Owed(r)
      BY <1>2, <2>1, <2>2 DEF Passed
    <2>3. CASE ~Owed(r)
      <3>1. \A d \in Cursors : d[1] + Settle <= now => Before(d, Pair(r))
        BY <1>2, <2>3, OutsideOwed
      <3>2. c = start
        BY <1>2, <2>1, <3>1 DEF Settled
      <3>3. Before(start, Pair(r))
        BY <1>2, <2>1 DEF Owed, Outside
      <3>4. QED
        BY <1>2, <2>1, <3>2, <3>3
    <2>4. QED
      BY <2>2, <2>3
  <1>3. QED
    BY <1>1, <1>2 DEF Passed, Pair, Before

LEMMA OutsideSweep ==
    ASSUME Inv, TypeOK', Outside, NEW p \in Replicas
    PROVE  SweepOK(p)'
  <1>1. SweepOK(p) /\ Done' = Done /\ batch'[p] = batch[p] /\ batch[p] \subseteq Rows
            /\ pc'[p] = pc[p] /\ from'[p] = from[p] /\ at'[p] = at[p] /\ left'[p] = left[p]
    BY DEF Inv, TypeOK, Outside, Done
  <1>2. at[p] <= now'
    BY <1>1 DEF Inv, TypeOK, Outside, SweepOK
  <1>3. pc[p] = "read" => start' # None /\ Settled(from[p])' /\ Passed(from[p])'
    <2>1. SUFFICES ASSUME pc[p] = "read" PROVE start' # None /\ Settled(from[p])' /\ Passed(from[p])'
      OBVIOUS
    <2>2. from[p] \in Cursors /\ start # None /\ Settled(from[p]) /\ Passed(from[p])
      BY <1>1, <2>1 DEF SweepOK, Inv, TypeOK, Cursors
    <2>3. Settled(from[p])' /\ Passed(from[p])'
      BY <1>1, <2>2, OutsideCursor DEF Settled, Passed
    <2>4. QED
      BY <2>2, <2>3 DEF Outside
  <1>4. ASSUME NEW r \in batch[p] PROVE Fixed(r) /\ Fixed(r)' /\ Pair(r)' = Pair(r)
    BY <1>1, <1>4, OutsideFixed DEF SweepOK, NoGap
  <1>5. ASSUME NEW r \in batch[p], NEW q \in Rows, Owed(q)', Before(Pair(q)', Pair(r)')
        PROVE  q \in Done \cup batch[p]
    <2>1. Pair(q)' = Pair(q) /\ Pair(r)' = Pair(r)
      BY <1>4, <1>5, OutsideOwed
    <2>2. CASE Owed(q)
      BY <1>1, <1>5, <2>1, <2>2 DEF SweepOK, NoGap
    <2>3. CASE ~Owed(q)
      <3>1. Pair(r) \in Cursors /\ Pair(q) \in Cursors /\ Pair(r)[1] + Settle <= now
        BY <1>1, <1>4, <1>5, PairParts DEF Inv, Fixed
      <3>2. Before(Pair(r), Pair(q))
        BY <1>5, <2>3, <3>1, OutsideOwed
      <3>3. QED
        BY <1>5, <2>1, <3>1, <3>2, BeforeTransitive
    <2>4. QED
      BY <2>2, <2>3
  <1>6. NoGap(p)'
    BY <1>1, <1>4, <1>5 DEF NoGap
  <1>7. ASSUME NEW r \in Rows, pc[p] = "advance", IsFirst(r, batch[p])' PROVE r \in Done'
    <2>1. r \in batch[p] /\ \A q \in batch[p] \ {r} : Before(Pair(r)', Pair(q)')
      BY <1>1, <1>7 DEF IsFirst
    <2>2. \A q \in batch[p] \ {r} : Before(Pair(r), Pair(q))
      BY <1>4, <2>1
    <2>3. QED
      BY <1>1, <1>7, <2>1, <2>2 DEF SweepOK, IsFirst
  <1>8. QED
    BY <1>1, <1>2, <1>3, <1>6, <1>7 DEF SweepOK

LEMMA OutsideInv ==
    ASSUME Inv, TypeOK', Outside, WritersOK'
    PROVE  Inv'
  <1>1. CursorOK'
    <2>1. CursorOK /\ cursor' = cursor /\ start' = start
      BY DEF Inv, Outside
    <2>2. CASE cursor = None
      BY <2>1, <2>2 DEF CursorOK
    <2>3. CASE cursor # None
      <3>1. cursor \in Cursors /\ start # None /\ Settled(cursor) /\ Passed(cursor)
        BY <2>1, <2>3 DEF CursorOK, Inv, TypeOK, Cursors
      <3>2. Settled(cursor)' /\ Passed(cursor)'
        BY <2>1, <3>1, OutsideCursor DEF Settled, Passed
      <3>3. QED
        BY <2>1, <2>3, <3>1, <3>2 DEF CursorOK
    <2>4. QED
      BY <2>2, <2>3
  <1>2. ASSUME NEW r \in Done' PROVE Fixed(r)'
    <2>1. r \in Rows /\ Fixed(r)
      BY <1>2 DEF Outside, Done, Inv, TypeOK
    <2>2. QED
      BY <2>1, OutsideFixed
  <1>3. QED
    BY <1>1, <1>2, OutsideSweep DEF Inv

-----------------------------------------------------------------------------
(* The sweeps *)

LEMMA InvStart ==
    ASSUME Inv, TypeOK', NEW p \in Replicas, Start(p)
    PROVE  Inv'
  <1>1. /\ Others(p) /\ pc'[p] = "load" /\ at'[p] = now /\ batch'[p] = batch[p]
        /\ left'[p] = MaxBatches
    BY DEF Start, Loads, Others, Inv, TypeOK
  <1>2. UNCHANGED <<now, row, stamp, cursor, start, handled, dead>>
    BY DEF Start
  <1>3. NoGap(p)'
    BY <1>1, <1>2 DEF Inv, SweepOK, NoGap, Fixed, Owed, Pair, Before, Done
  <1>4. SweepOK(p)'
    BY <1>1, <1>2, <1>3 DEF SweepOK, Inv, TypeOK
  <1>5. QED
    BY <1>1, <1>2, <1>4, SweepStep, CursorStays DEF Done

LEMMA InvLoad ==
    ASSUME Inv, TypeOK', NEW p \in Replicas, Load(p)
    PROVE  Inv'
  <1>1. CASE cursor = None
    <2>1. /\ cursor' = <<at[p], 0>> /\ start' = cursor' /\ start = None
          /\ UNCHANGED <<now, row, stamp, handled, dead, pc, at, from, batch, left>>
      BY <1>1 DEF Load, Inv, CursorOK
    <2>2. Done = {} /\ Done' = {} /\ \A q \in Replicas : batch[q] = {} /\ pc[q] # "read"
      BY <2>1 DEF Inv, Fixed, SweepOK, NoGap, Done
    <2>3. ASSUME NEW q \in Replicas PROVE SweepOK(q)'
      BY <2>1, <2>2, <2>3 DEF Inv, SweepOK, NoGap, IsFirst
    <2>4. start' # None /\ Settled(cursor)' /\ Passed(cursor)'
      BY <2>1 DEF Settled, Passed, Owed, TypeOK, Inv
    <2>5. WritersOK'
      BY <2>1 DEF Inv, WritersOK
    <2>6. QED
      BY <2>1, <2>2, <2>3, <2>4, <2>5 DEF Inv, CursorOK
  <1>2. CASE cursor # None
    <2>1. /\ from' = [from EXCEPT ![p] = cursor] /\ pc' = [pc EXCEPT ![p] = "read"]
          /\ UNCHANGED <<now, row, stamp, cursor, start, handled, dead, at, batch, left>>
          /\ pc[p] = "load"
      BY <1>2 DEF Load
    <2>2. /\ Others(p) /\ pc'[p] = "read" /\ at'[p] = at[p] /\ batch'[p] = batch[p]
          /\ left'[p] = left[p] /\ from'[p] = cursor
      BY <2>1 DEF Others, Inv, TypeOK
    <2>3. NoGap(p)'
      BY <2>1, <2>2 DEF Inv, SweepOK, NoGap, Fixed, Owed, Pair, Before, Done
    <2>4. CursorOK'
      BY <2>1, CursorStays DEF Done
    <2>5. start' # None /\ Settled(from[p])' /\ Passed(from[p])'
      BY <1>2, <2>1, <2>2, <2>4 DEF CursorOK, Settled, Passed
    <2>6. SweepOK(p)'
      BY <2>1, <2>2, <2>3, <2>5 DEF SweepOK, Inv
    <2>7. QED
      BY <2>1, <2>2, <2>4, <2>6, SweepStep DEF Done
  <1>3. QED
    BY <1>1, <1>2

LEMMA InvRead ==
    ASSUME Inv, TypeOK', NEW p \in Replicas, Read(p)
    PROVE  Inv'
  <1> DEFINE rows == FirstOf(Due(p), BatchSize)
  <1>1. CASE Ends(p)
    BY <1>1, EndsInv DEF Read
  <1>2. CASE ~Ends(p)
    <2>1. /\ batch' = [batch EXCEPT ![p] = rows] /\ pc' = [pc EXCEPT ![p] = "handle"]
          /\ UNCHANGED <<now, row, stamp, cursor, start, handled, dead, at, from>>
          /\ \E n : left' = [left EXCEPT ![p] = n]
          /\ pc[p] = "read"
      BY <1>2 DEF Read
    <2>2. /\ Others(p) /\ pc'[p] = "handle" /\ batch'[p] = rows /\ at'[p] = at[p]
      BY <2>1 DEF Others, Inv, TypeOK
    <2>3. /\ start # None /\ Settled(from[p]) /\ Passed(from[p]) /\ at[p] <= now
          /\ at[p] \in Nat /\ now \in Nat /\ from[p] \in Cursors /\ start \in Cursors
      BY <2>1 DEF Inv, SweepOK, TypeOK, Cursors
    <2>4. ASSUME NEW r \in rows PROVE r \in Rows /\ Fixed(r) /\ stamp[r] <= at[p] - Settle
      <3>1. r \in Rows /\ row[r] = "there" /\ Before(from[p], Pair(r)) /\ stamp[r] <= at[p] - Settle
        BY <2>4 DEF FirstOf, Due
      <3>2. Before(start, Pair(r))
        BY <2>3, <3>1, PairParts, BeforeTransitive DEF Settled, Inv
      <3>3. stamp[r] + Settle <= now
        BY <2>3, <3>1 DEF Inv, TypeOK
      <3>4. QED
        BY <2>3, <3>1, <3>2, <3>3 DEF Fixed
    <2>5. ASSUME NEW r \in rows, NEW q \in Rows, Owed(q), Before(Pair(q), Pair(r))
          PROVE  q \in Done \cup rows
      <3>1. CASE ~Before(from[p], Pair(q))
        BY <2>3, <2>5, <3>1 DEF Passed
      <3>2. CASE Before(from[p], Pair(q))
        <4>1. stamp[q] <= stamp[r] /\ stamp[q] \in Nat /\ stamp[r] \in Nat
          <5>1. r \in Rows /\ stamp[q] \in Nat /\ stamp[r] \in Nat
            BY <2>4, <2>5 DEF Inv, TypeOK
          <5>2. Pair(q)[1] = stamp[q] /\ Pair(r)[1] = stamp[r]
            BY DEF Pair
          <5>3. QED
            BY <2>5, <5>1, <5>2 DEF Before
        <4>2. q \in Due(p)
          BY <2>3, <2>4, <2>5, <3>2, <4>1 DEF Due, Owed
        <4>3. QED
          BY <2>5, <4>2, FirstOfClosed DEF Due, Inv
      <3>3. QED
        BY <3>1, <3>2
    <2>6. Done' = Done /\ \A q \in Rows : Owed(q)' = Owed(q) /\ Pair(q)' = Pair(q)
                /\ Fixed(q)' = Fixed(q)
      BY <2>1 DEF Done, Owed, Pair, Fixed, Before
    <2> HIDE DEF rows
    <2>7. NoGap(p)'
      BY <2>2, <2>4, <2>5, <2>6 DEF NoGap
    <2>8. SweepOK(p)'
      BY <2>1, <2>2, <2>3, <2>7 DEF SweepOK
    <2>9. QED
      BY <2>1, <2>2, <2>6, <2>8, SweepStep, CursorStays
  <1>3. QED
    BY <1>1, <1>2

\* The first row of the batch is done, and the sweep goes on to the cursor.
LEMMA DoneInv ==
    ASSUME Inv, TypeOK', NEW p \in Replicas, NEW r \in Rows,
           pc[p] = "handle", IsFirst(r, batch[p]), pc' = [pc EXCEPT ![p] = "advance"],
           Done' = Done \cup {r},
           UNCHANGED <<now, row, stamp, cursor, start, at, from, batch, left>>
    PROVE  Inv'
  <1>1. Others(p) /\ pc'[p] = "advance" /\ batch'[p] = batch[p]
    BY DEF Others, Inv, TypeOK
  <1>2. Fixed(r) /\ at[p] <= now
    BY DEF Inv, SweepOK, NoGap, IsFirst
  <1>3. NoGap(p)'
    <2>1. NoGap(p) /\ batch[p] \subseteq Rows
      BY DEF Inv, SweepOK, TypeOK
    <2>2. \A q \in Rows : Owed(q)' = Owed(q) /\ Pair(q)' = Pair(q) /\ Fixed(q)' = Fixed(q)
      BY DEF Owed, Pair, Fixed, Before
    <2>3. QED
      BY <1>1, <2>1, <2>2 DEF NoGap
  <1>4. ASSUME NEW q \in Rows, IsFirst(q, batch[p])' PROVE q \in Done'
    <2>1. IsFirst(q, batch[p])
      BY <1>1, <1>4 DEF IsFirst, Pair, Before
    <2>2. q = r
      BY <2>1, FirstUnique DEF Inv, TypeOK
    <2>3. QED
      BY <2>2
  <1>5. SweepOK(p)'
    BY <1>1, <1>2, <1>3, <1>4 DEF SweepOK
  <1>6. QED
    BY <1>1, <1>2, <1>5, SweepStep, CursorStays

LEMMA InvHandle ==
    ASSUME Inv, TypeOK', NEW p \in Replicas, NEW r \in Rows, Handle(p, r)
    PROVE  Inv'
  BY DoneInv DEF Handle, Done

LEMMA InvFail ==
    ASSUME Inv, TypeOK', NEW p \in Replicas, NEW r \in Rows, Fail(p, r)
    PROVE  Inv'
  <1>1. CASE Poison(p, r)
    BY <1>1, DoneInv DEF Fail, Done
  <1>2. CASE ~Poison(p, r)
    BY <1>2, EndsInv DEF Fail
  <1>3. QED
    BY <1>1, <1>2

LEMMA InvAdvance ==
    ASSUME Inv, TypeOK', NEW p \in Replicas, NEW r \in Rows, Advance(p, r)
    PROVE  Inv'
  <1>1. /\ pc[p] = "advance" /\ IsFirst(r, batch[p]) /\ cursor' = Pair(r)
        /\ UNCHANGED <<now, row, stamp, start, handled, dead>>
    BY DEF Advance
  <1>2. /\ r \in Done /\ Fixed(r) /\ NoGap(p) /\ at[p] <= now /\ batch[p] \subseteq Rows
    BY <1>1 DEF Inv, SweepOK, TypeOK, NoGap, IsFirst
  <1>3. Done' = Done /\ \A q \in Rows : Owed(q)' = Owed(q) /\ Pair(q)' = Pair(q)
            /\ Fixed(q)' = Fixed(q)
    BY <1>1 DEF Done, Owed, Pair, Fixed, Before
  <1>4. ASSUME NEW q \in Rows, Owed(q), ~Before(Pair(r), Pair(q)) PROVE q \in Done
    BY <1>1, <1>2, <1>4, PairsTotal DEF Inv, NoGap, IsFirst
  <1>5. CursorOK'
    <2>1. start' # None /\ cursor' # None
      BY <1>1, <1>2, PairParts DEF Fixed, Inv, Cursors
    <2>2. Settled(cursor)'
      BY <1>1, <1>2, PairParts DEF Settled, Fixed, Inv
    <2>3. Passed(cursor)'
      BY <1>1, <1>3, <1>4 DEF Passed
    <2>4. QED
      BY <2>1, <2>2, <2>3 DEF CursorOK
  <1>6. /\ Others(p)
        /\ pc'[p] \in {"handle", "load", "idle"}
        /\ pc'[p] = "load" => left'[p] > 0
        /\ batch'[p] = {} \/ batch'[p] = batch[p] \ {r}
        /\ at'[p] \in {at[p], now, 0}
    <2>1. CASE batch[p] # {r}
      BY <2>1 DEF Advance, Others, Inv, TypeOK
    <2>2. CASE batch[p] = {r} /\ left[p] > 0
      BY <2>2 DEF Advance, Loads, Others, Inv, TypeOK
    <2>3. CASE batch[p] = {r} /\ left[p] = 0
      <3>1. Ends(p)
        BY <2>3 DEF Advance
      <3>2. QED
        BY <3>1, EndsOthers DEF Inv
    <2>4. QED
      BY <2>1, <2>2, <2>3 DEF Inv, TypeOK
  <1>7. NoGap(p)'
    <2>1. CASE batch'[p] = {}
      BY <2>1 DEF NoGap
    <2>2. CASE batch'[p] = batch[p] \ {r}
      <3>1. ASSUME NEW b \in batch'[p] PROVE b \in batch[p] /\ b \in Rows /\ Fixed(b)'
        BY <1>2, <1>3, <2>2, <3>1 DEF NoGap
      <3>2. ASSUME NEW b \in batch'[p], NEW q \in Rows, Owed(q)', Before(Pair(q)', Pair(b)')
            PROVE  q \in Done' \cup batch'[p]
        <4>1. Owed(q) /\ Before(Pair(q), Pair(b))
          BY <1>3, <3>1, <3>2
        <4>2. q \in Done \cup batch[p]
          BY <1>2, <3>1, <3>2, <4>1 DEF NoGap
        <4>3. QED
          BY <1>2, <1>3, <2>2, <4>2
      <3>3. QED
        BY <3>1, <3>2 DEF NoGap
    <2>3. QED
      BY <1>6, <2>1, <2>2
  <1>8. at'[p] <= now'
    BY <1>1, <1>2, <1>6 DEF Inv, TypeOK
  <1>9. SweepOK(p)'
    BY <1>6, <1>7, <1>8 DEF SweepOK
  <1>10. QED
    BY <1>1, <1>3, <1>5, <1>6, <1>9, SweepStep

LEMMA InvLoseLock ==
    ASSUME Inv, TypeOK', LoseLock
    PROVE  Inv'
  BY DEF LoseLock, Inv, WritersOK, CursorOK, SweepOK, NoGap, Fixed, Settled, Passed,
         Owed, Done, IsFirst, Pair, Before

-----------------------------------------------------------------------------
(* The theorems *)

LEMMA InitInv ==
    ASSUME Init
    PROVE  Inv
  <1>1. <<0, 0>> \in Nat \X Nat
    OBVIOUS
  <1>2. TypeOK
    BY <1>1 DEF Init, TypeOK
  <1>3. Done = {}
    BY DEF Init, Done
  <1>4. QED
    BY <1>2, <1>3 DEF Init, Inv, WritersOK, CursorOK, SweepOK, NoGap

LEMMA NextType ==
    ASSUME Inv, Next
    PROVE  TypeOK'
  <1>1. TypeOK
    BY DEF Inv
  <1>2. ASSUME NEW p \in Replicas, Read(p) PROVE TypeOK'
    <2>1. left[p] > 0
      BY <1>2 DEF Read, Inv, SweepOK
    <2>2. QED
      BY <1>1, <1>2, <2>1, TypeRead
  <1>3. QED
    BY <1>1, <1>2, TypeTick, TypeWriters, TypeStart, TypeLoad, TypeHandle, TypeFail,
       TypeAdvance, TypeThrow, TypeCrash, TypeLoseLock DEF Next, Sweeps

LEMMA NextInv ==
    ASSUME Inv, [Next]_vars
    PROVE  Inv'
  <1>1. CASE Next
    <2>1. TypeOK'
      BY <1>1, NextType
    <2>2. CASE Tick
      <3>1. Outside /\ WritersOK'
        <4>1. CASE Rows = {}
          BY <2>1, <2>2, <4>1 DEF Tick, Outside, WritersOK, Inv, TypeOK
        <4>2. CASE Rows # {}
          BY <2>1, <2>2, <4>2, OutsideSteps
        <4>3. QED
          BY <4>1, <4>2
      <3>2. QED
        BY <2>1, <3>1, OutsideInv
    <2>3. ASSUME NEW r \in Rows, Insert(r) \/ Close(r) \/ Delete(r) PROVE Inv'
      BY <2>1, <2>3, OutsideSteps, OutsideInv
    <2>4. ASSUME NEW p \in Replicas, Sweeps(p) PROVE Inv'
      BY <2>1, <2>4, InvStart, InvLoad, InvRead, InvHandle, InvFail, InvAdvance DEF Sweeps
    <2>5. ASSUME NEW p \in Replicas, Throw(p) \/ Crash(p) PROVE Inv'
      BY <2>1, <2>5, EndsInv DEF Throw, Crash
    <2>6. CASE LoseLock
      BY <2>1, <2>6, InvLoseLock
    <2>7. QED
      BY <1>1, <2>2, <2>3, <2>4, <2>5, <2>6 DEF Next
  <1>2. CASE UNCHANGED vars
    BY <1>2 DEF vars, Inv, TypeOK, WritersOK, CursorOK, SweepOK, NoGap, Fixed, Settled, Passed,
         Owed, Done, IsFirst, Pair, Before
  <1>3. QED
    BY <1>1, <1>2

\* The inductive invariant: a cursor or a batch never has an undone row behind it,
\* because what could still join is younger than the settle window.
THEOREM Invariant == Spec => []Inv
  <1>1. Init => Inv
    BY InitInv
  <1>2. Inv /\ [Next]_vars => Inv'
    BY NextInv
  <1>3. QED
    BY <1>1, <1>2, PTL DEF Spec

\* Every variable keeps the values the code gives it, for any number of rows,
\* replicas and batches.
THEOREM TypeCorrect == Spec => []TypeOK
  <1>1. Inv => TypeOK
    BY DEF Inv
  <1>2. QED
    BY <1>1, Invariant, PTL

\* No committed row the cursor has passed was missed, for every settle window
\* longer than the writers' transaction timeout and any number of replicas, with
\* or without the lock.
THEOREM NoRowSkipped == Spec => []NoneSkipped
  <1>1. Inv => NoneSkipped
    BY DEF Inv, CursorOK, Passed, NoneSkipped, Owed
  <1>2. QED
    BY <1>1, Invariant, PTL

-----------------------------------------------------------------------------
(* The outbox implements the in-order log *)

LogRows == {r \in Rows : Logged(r)}

GoneRows == {r \in Rows : Logged(r) /\ row[r] = "gone"}

LogView == <<Entries({r \in Rows : Logged(r)}),
             Entries({r \in Rows : Logged(r) /\ row[r] = "gone"}), Entries(Done)>>

\* A step that only adds younger rows, or deletes some.
LEMMA WriteStep ==
    ASSUME TypeOK, TypeOK', Done' = Done,
           LogRows \subseteq LogRows', GoneRows \subseteq GoneRows',
           \A r \in LogRows \cup Done : Pair(r)' = Pair(r),
           \A r \in LogRows' \ LogRows : \A d \in Done : Before(Pair(d), Pair(r)')
    PROVE  Log!Write
  <1>1. Entries(LogRows)' = {Pair(r)' : r \in LogRows'}
    BY DEF Entries
  <1>2. Entries(GoneRows)' = {Pair(r)' : r \in GoneRows'}
    BY DEF Entries
  <1>3. GoneRows \subseteq LogRows /\ GoneRows' \subseteq LogRows'
    BY DEF GoneRows, LogRows, Logged
  <1>4. Entries(LogRows) \subseteq Entries(LogRows)'
    BY <1>1 DEF Entries
  <1>5. Entries(GoneRows) \subseteq Entries(GoneRows)'
    BY <1>2, <1>3 DEF Entries
  <1>6. Entries(GoneRows)' \subseteq Entries(LogRows)'
    BY <1>1, <1>2, <1>3
  <1>7. Entries(Done)' = Entries(Done)
    BY DEF Entries
  <1>8. ASSUME NEW e \in Entries(LogRows)' \ Entries(LogRows), NEW d \in Entries(Done)
        PROVE  Before(d, e)
    <2>1. PICK r \in LogRows' : e = Pair(r)'
      BY <1>1, <1>8
    <2>2. r \notin LogRows
      BY <1>8, <2>1 DEF Entries
    <2>3. PICK x \in Done : d = Pair(x)
      BY <1>8 DEF Entries
    <2>4. QED
      BY <2>1, <2>2, <2>3
  <1>9. QED
    BY <1>4, <1>5, <1>6, <1>7, <1>8 DEF Log!Write, Log!Before, Before, LogRows, GoneRows

LEMMA OutsideWrite ==
    ASSUME Inv, Inv', Outside
    PROVE  Log!Write
  <1>1. TypeOK /\ TypeOK' /\ start' = start /\ Done' = Done
    BY DEF Inv, Outside, Done
  <1>2. ASSUME NEW r \in LogRows \cup Done PROVE r \in Rows /\ Pair(r)' = Pair(r)
    <2>1. r \in Rows /\ row[r] \in {"there", "gone"}
      BY <1>2 DEF LogRows, Logged, Inv, Fixed, Done, TypeOK
    <2>2. QED
      BY <2>1 DEF Outside, Pair
  <1>3. LogRows \subseteq LogRows'
    <2>1. ASSUME NEW r \in LogRows PROVE r \in LogRows'
      <3>1. r \in Rows /\ Logged(r) /\ Pair(r)' = Pair(r)
        BY <1>2, <2>1 DEF LogRows
      <3>2. row'[r] \in {"there", "gone"}
        BY <3>1 DEF Outside, Logged
      <3>3. Logged(r)'
        BY <1>1, <3>1, <3>2 DEF Logged
      <3>4. QED
        BY <3>1, <3>3 DEF LogRows
    <2>2. QED
      BY <2>1
  <1>4. GoneRows \subseteq GoneRows'
    <2>1. ASSUME NEW r \in GoneRows PROVE r \in GoneRows'
      <3>1. r \in LogRows' /\ r \in Rows /\ row[r] = "gone"
        BY <1>3, <2>1 DEF GoneRows, LogRows
      <3>2. Logged(r)'
        BY <3>1 DEF LogRows
      <3>3. row'[r] = "gone"
        BY <3>1 DEF Outside
      <3>4. QED
        BY <3>1, <3>2, <3>3 DEF GoneRows
    <2>2. QED
      BY <2>1
  <1>5. ASSUME NEW r \in LogRows' \ LogRows, NEW d \in Done PROVE Before(Pair(d), Pair(r)')
    <2>1. r \in Rows /\ Logged(r)' /\ ~Logged(r)
      BY <1>5 DEF LogRows
    <2>2. row'[r] = "there"
      BY <1>1, <2>1 DEF Logged, Outside, Pair
    <2>3. Owed(r)' /\ ~Owed(r)
      BY <2>1, <2>2 DEF Logged, Owed
    <2>4. Pair(d) \in Cursors /\ Pair(d)[1] + Settle <= now
      BY <1>1, <1>2, <1>5, PairParts DEF Inv, Fixed
    <2>5. QED
      BY <1>1, <2>1, <2>3, <2>4, OutsideOwed DEF Inv
  <1>6. QED
    BY <1>1, <1>2, <1>3, <1>4, <1>5, WriteStep

\* The first use of the cursor opens the log.
LEMMA LoadWrite ==
    ASSUME Inv, Inv', NEW p \in Replicas, Load(p), cursor = None
    PROVE  Log!Write
  <1>1. TypeOK /\ TypeOK' /\ start = None /\ UNCHANGED <<row, stamp, handled, dead>>
    BY DEF Load, Inv, CursorOK
  <1>2. Done = {} /\ Done' = {}
    BY <1>1 DEF Inv, Fixed, Done
  <1>3. LogRows = {} /\ GoneRows = {}
    BY <1>1 DEF LogRows, GoneRows, Logged
  <1>4. QED
    BY <1>1, <1>2, <1>3, WriteStep

\* A row that is done for the first time is the oldest one left.
LEMMA DoneStep ==
    ASSUME Inv, NEW p \in Replicas, NEW r \in Rows, IsFirst(r, batch[p]),
           Done' = Done \cup {r}, UNCHANGED <<row, stamp, start>>
    PROVE  [Log!Next]_LogView
  <1>1. /\ Entries({q \in Rows : Logged(q)})' = Entries({q \in Rows : Logged(q)})
        /\ Entries({q \in Rows : Logged(q) /\ row[q] = "gone"})' =
                Entries({q \in Rows : Logged(q) /\ row[q] = "gone"})
    BY DEF Entries, Logged, Pair, Before
  <1>2. Entries(Done)' = Entries(Done) \cup {Pair(r)}
    BY DEF Entries, Pair
  <1>3. CASE r \in Done
    <2>1. Entries(Done)' = Entries(Done)
      BY <1>2, <1>3 DEF Entries
    <2>2. QED
      BY <1>1, <2>1 DEF LogView
  <1>4. CASE r \notin Done
    <2>1. Fixed(r) /\ NoGap(p) /\ Done \subseteq Rows /\ batch[p] \subseteq Rows
      BY DEF Inv, SweepOK, NoGap, IsFirst, Done, TypeOK
    <2>2. Pair(r) \in Entries({q \in Rows : Logged(q)}) \ Entries(Done)
      <3>1. Logged(r)
        BY <2>1 DEF Fixed, Logged
      <3>2. Pair(r) \notin Entries(Done)
        BY <1>4, <2>1, PairsTotal DEF Entries, Inv
      <3>3. QED
        BY <3>1, <3>2 DEF Entries
    <2>3. ASSUME NEW f \in Entries({q \in Rows : Logged(q)}), Before(f, Pair(r))
          PROVE  f \in Entries(Done) \cup Entries({q \in Rows : Logged(q) /\ row[q] = "gone"})
      <3>1. PICK q \in Rows : Logged(q) /\ f = Pair(q)
        BY <2>3 DEF Entries
      <3>2. CASE row[q] = "gone"
        BY <3>1, <3>2 DEF Entries
      <3>3. CASE row[q] = "there"
        <4>1. q \in Done \cup batch[p]
          BY <2>1, <2>3, <3>1, <3>3 DEF NoGap, IsFirst, Owed, Logged
        <4>2. ~Before(Pair(r), Pair(q)) /\ q # r
          BY <2>3, <3>1, PairParts, BeforeTransitive DEF Inv
        <4>3. q \in Done
          BY <4>1, <4>2 DEF IsFirst
        <4>4. QED
          BY <3>1, <4>3 DEF Entries
      <3>4. QED
        BY <3>1, <3>2, <3>3 DEF Logged
    <2>4. Log!Consume
      BY <1>1, <1>2, <2>2, <2>3 DEF Log!Consume, Log!Before, Before
    <2>5. QED
      BY <2>4 DEF Log!Next
  <1>5. QED
    BY <1>3, <1>4

LEMMA QuietStep ==
    ASSUME UNCHANGED <<row, stamp, start, handled, dead>>
    PROVE  UNCHANGED LogView
  BY DEF LogView, Entries, Logged, Pair, Before, Done

LEMMA LogStep ==
    ASSUME Inv, Inv', [Next]_vars
    PROVE  [Log!Next]_LogView
  <1>1. CASE Tick
    BY <1>1, QuietStep DEF Tick
  <1>2. ASSUME NEW r \in Rows, Insert(r) \/ Close(r) \/ Delete(r)
        PROVE  [Log!Next]_LogView
    <2>1. TypeOK'
      BY DEF Inv
    <2>2. Log!Write
      BY <1>2, <2>1, OutsideSteps, OutsideWrite
    <2>3. QED
      BY <2>2 DEF Log!Next
  <1>3. ASSUME NEW p \in Replicas, Start(p) \/ Read(p) \/ Throw(p) \/ Crash(p)
        PROVE  [Log!Next]_LogView
    <2>1. UNCHANGED <<row, stamp, start, handled, dead>>
      BY <1>3 DEF Start, Read, Throw, Crash
    <2>2. QED
      BY <2>1, QuietStep
  <1>4. ASSUME NEW p \in Replicas, Load(p) PROVE [Log!Next]_LogView
    <2>1. CASE cursor = None
      BY <1>4, <2>1, LoadWrite DEF Log!Next
    <2>2. CASE cursor # None
      BY <1>4, <2>2, QuietStep DEF Load
    <2>3. QED
      BY <2>1, <2>2
  <1>5. ASSUME NEW p \in Replicas, NEW r \in Rows, Handle(p, r) \/ Fail(p, r)
        PROVE  [Log!Next]_LogView
    <2>1. CASE Handle(p, r)
      BY <2>1, DoneStep DEF Handle, Done
    <2>2. CASE Fail(p, r) /\ Poison(p, r)
      BY <2>2, DoneStep DEF Fail, Done
    <2>3. CASE Fail(p, r) /\ ~Poison(p, r)
      BY <2>3, QuietStep DEF Fail
    <2>4. QED
      BY <1>5, <2>1, <2>2, <2>3
  <1>6. ASSUME NEW p \in Replicas, NEW r \in Rows, Advance(p, r)
        PROVE  [Log!Next]_LogView
    BY <1>6, QuietStep DEF Advance
  <1>7. CASE LoseLock
    BY <1>7, QuietStep DEF LoseLock
  <1>8. CASE UNCHANGED vars
    BY <1>8, QuietStep DEF vars
  <1>9. QED
    BY <1>1, <1>2, <1>3, <1>4, <1>5, <1>6, <1>7, <1>8 DEF Next, Sweeps

\* The outbox implements the in-order log: whatever crashes, fails or runs twice,
\* events reach the consumer for the first time oldest first, and none joins
\* behind one that was consumed.
THEOREM ImplementsLog == Spec => InOrder
  <1>1. Init => Log!Init
    BY DEF Init, Log!Init, Entries, Logged, Done
  <1>2. Inv /\ Inv' /\ [Next]_vars => [Log!Next]_LogView
    BY LogStep
  <1>3. QED
    BY <1>1, <1>2, Invariant, PTL DEF Spec, InOrder, Log!Spec, LogView

-----------------------------------------------------------------------------
(* The cursor has a single writer *)

\* Until a lock is lost, a sweep at work holds it and is ahead of the cursor.
Alone ==
    losses = 0 => \A p \in Replicas :
        /\ pc[p] # "idle" => lock = p
        /\ pc[p] = "read" => from[p] = cursor
        /\ pc[p] \in {"handle", "advance"} =>
                cursor # None /\ \A r \in batch[p] : Before(cursor, Pair(r))

LEMMA AloneOutside ==
    ASSUME Inv, Alone, Outside, UNCHANGED <<lock, losses>>
    PROVE  Alone'
  <1>1. ASSUME NEW p \in Replicas, NEW r \in batch[p] PROVE Pair(r)' = Pair(r)
    BY <1>1 DEF Inv, TypeOK, SweepOK, NoGap, Fixed, Outside, Pair
  <1>2. QED
    BY <1>1 DEF Alone, Outside, Before

LEMMA AloneEnds ==
    ASSUME Inv, Alone, NEW p \in Replicas, Ends(p), UNCHANGED <<stamp, losses>>,
           cursor' = cursor \/ (losses = 0 => pc[p] # "idle")
    PROVE  Alone'
  <1>1. Others(p) /\ pc'[p] = "idle"
    BY EndsOthers DEF Inv
  <1>2. ASSUME losses = 0, NEW q \in Replicas, q # p, pc[q] # "idle"
        PROVE  lock = q /\ lock' = q /\ pc[p] = "idle"
    BY <1>2 DEF Alone, Ends
  <1>3. QED
    BY <1>1, <1>2 DEF Alone, Others, Pair, Before

LEMMA AloneSweeps ==
    ASSUME Inv, Alone, NEW p \in Replicas, Sweeps(p)
    PROVE  Alone'
  <1>1. TypeOK
    BY DEF Inv
  <1>2. CASE Start(p)
    BY <1>1, <1>2 DEF Start, Loads, Alone, TypeOK
  <1>3. CASE Load(p)
    BY <1>1, <1>3 DEF Load, Alone, TypeOK
  <1>4. CASE Read(p)
    <2>1. CASE Ends(p)
      BY <1>4, <2>1, AloneEnds DEF Read
    <2>2. CASE ~Ends(p)
      <3>1. /\ batch' = [batch EXCEPT ![p] = FirstOf(Due(p), BatchSize)]
            /\ pc' = [pc EXCEPT ![p] = "handle"] /\ pc[p] = "read"
            /\ UNCHANGED <<stamp, cursor, lock, from, losses>>
        BY <1>4, <2>2 DEF Read
      <3>2. \A r \in FirstOf(Due(p), BatchSize) : Before(from[p], Pair(r))
        BY DEF FirstOf, Due
      <3>3. cursor # None
        BY <3>1 DEF Inv, SweepOK, CursorOK
      <3>4. QED
        BY <1>1, <3>1, <3>2, <3>3 DEF Alone, TypeOK, Pair, Before
    <2>3. QED
      BY <2>1, <2>2
  <1>5. ASSUME NEW r \in Rows, Handle(p, r) PROVE Alone'
    BY <1>1, <1>5 DEF Handle, Alone, TypeOK, Pair
  <1>6. ASSUME NEW r \in Rows, Fail(p, r) PROVE Alone'
    <2>1. CASE Poison(p, r)
      <3>1. /\ pc' = [pc EXCEPT ![p] = "advance"] /\ pc[p] = "handle"
            /\ UNCHANGED <<stamp, cursor, lock, from, batch, losses>>
        BY <1>6, <2>1 DEF Fail
      <3>2. QED
        BY <1>1, <3>1 DEF Alone, TypeOK, Pair
    <2>2. CASE ~Poison(p, r)
      BY <1>6, <2>2, AloneEnds DEF Fail
    <2>3. QED
      BY <2>1, <2>2
  <1>7. ASSUME NEW r \in Rows, Advance(p, r) PROVE Alone'
    <2>1. /\ pc[p] = "advance" /\ IsFirst(r, batch[p]) /\ cursor' = Pair(r)
          /\ UNCHANGED <<stamp, losses>>
      BY <1>7 DEF Advance
    <2>2. cursor' # None
      BY <1>1, <2>1, PairParts DEF Cursors
    <2>3. CASE batch[p] # {r}
      <3>1. /\ batch' = [batch EXCEPT ![p] = @ \ {r}] /\ pc' = [pc EXCEPT ![p] = "handle"]
            /\ lock' = lock
        BY <1>7, <2>3 DEF Advance
      <3>2. QED
        BY <1>1, <2>1, <2>2, <3>1 DEF Alone, TypeOK, IsFirst, Pair, Before
    <2>4. CASE batch[p] = {r} /\ left[p] > 0
      <3>1. pc' = [pc EXCEPT ![p] = "load"] /\ lock' = lock /\ from' = from
        BY <1>7, <2>4 DEF Advance, Loads
      <3>2. ASSUME losses = 0, NEW q \in Replicas, q # p PROVE pc'[q] = "idle"
        BY <1>1, <2>1, <3>1, <3>2 DEF Alone, TypeOK
      <3>3. pc'[p] = "load" /\ (losses = 0 => lock' = p)
        BY <1>1, <2>1, <3>1 DEF Alone, TypeOK
      <3>4. QED
        BY <2>1, <3>2, <3>3 DEF Alone
    <2>5. CASE batch[p] = {r} /\ left[p] = 0
      BY <1>7, <2>1, <2>5, AloneEnds DEF Advance
    <2>6. QED
      BY <1>1, <2>3, <2>4, <2>5 DEF TypeOK
  <1>8. QED
    BY <1>2, <1>3, <1>4, <1>5, <1>6, <1>7 DEF Sweeps

LEMMA AloneNext ==
    ASSUME Inv, Inv', Alone, [Next]_vars
    PROVE  Alone'
  <1>1. TypeOK'
    BY DEF Inv
  <1>2. CASE Tick
    BY <1>2 DEF Tick, Alone, Pair
  <1>3. ASSUME NEW r \in Rows, Insert(r) \/ Close(r) \/ Delete(r) PROVE Alone'
    <2>1. Outside
      BY <1>1, <1>3, OutsideSteps
    <2>2. QED
      BY <1>3, <2>1, AloneOutside DEF Insert, Close, Delete
  <1>4. ASSUME NEW p \in Replicas, Throw(p) \/ Crash(p) PROVE Alone'
    BY <1>4, AloneEnds DEF Throw, Crash
  <1>5. CASE LoseLock
    <2>1. losses' # 0
      BY <1>5 DEF LoseLock, Inv, TypeOK
    <2>2. QED
      BY <2>1 DEF Alone
  <1>6. CASE UNCHANGED vars
    BY <1>6 DEF vars, Alone, Pair
  <1>7. QED
    BY <1>2, <1>3, <1>4, <1>5, <1>6, AloneSweeps DEF Next

LEMMA ForwardStep ==
    ASSUME Inv, Alone, [Next]_vars, losses = 0, cursor # None
    PROVE  cursor' = cursor \/ Before(cursor, cursor')
  <1>1. ASSUME NEW p \in Replicas, NEW r \in Rows, Advance(p, r)
        PROVE  Before(cursor, cursor')
    BY <1>1 DEF Advance, Alone, IsFirst
  <1>2. CASE ~\E p \in Replicas, r \in Rows : Advance(p, r)
    BY <1>2 DEF Next, Sweeps, vars, Tick, Insert, Close, Delete, Start, Load, Read, Handle,
         Fail, Throw, Crash, LoseLock
  <1>3. QED
    BY <1>1, <1>2

\* Until the connection that holds the lock is lost, the cursor never moves back,
\* for any number of replicas: the lock alone makes it a single writer's.
THEOREM SingleWriter == Spec => CursorForward
  <1>1. Init => Alone
    BY DEF Init, Alone
  <1>2. Inv /\ Inv' /\ Alone /\ [Next]_vars => Alone'
    BY AloneNext
  <1>3. Inv /\ Alone /\ [Next]_vars =>
            [losses = 0 /\ cursor # None => cursor' = cursor \/ Before(cursor, cursor')]_vars
    BY ForwardStep
  <1>4. QED
    BY <1>1, <1>2, <1>3, Invariant, PTL DEF Spec, CursorForward

=============================================================================

--------------------------- MODULE BrainPassProofs --------------------------
(***************************************************************************)
(* The lease and the cursor of a brain pass, for any number of processes,  *)
(* callers, documents and faults.                                          *)
(***************************************************************************)
EXTENDS BrainPass, TLAPS

-----------------------------------------------------------------------------
(* How a step changes the slots *)

\* Only slot[w][c] changes, and becomes x.
Moves(w, c, x) ==
    /\ x \in Slots
    /\ slot' \in [Workers -> [Callers -> Slots]]
    /\ slot'[w][c] = x
    /\ \A v \in Workers, d \in Callers :
          v # w \/ d # c => slot'[v][d] = slot[v][d]

\* Replacing the record of one slot moves that slot only.
LEMMA Replaced ==
    ASSUME TypeOK, NEW w \in Workers, NEW c \in Callers, NEW x \in Slots,
           slot' = [slot EXCEPT ![w][c] = x]
    PROVE  Moves(w, c, x)
<1> DEFINE T == Slots
<1>1. x \in T /\ slot \in [Workers -> [Callers -> T]]
  BY DEF TypeOK
<1> HIDE DEF T
<1>2. slot' \in [Workers -> [Callers -> T]]
  BY <1>1
<1>3. slot'[w][c] = x
  BY <1>1
<1>4. \A v \in Workers, d \in Callers : v # w \/ d # c => slot'[v][d] = slot[v][d]
  BY <1>1
<1> QED BY <1>2, <1>3, <1>4 DEF Moves, T

\* Goto changes the program counter of one slot.
LEMMA Went ==
    ASSUME TypeOK, NEW w \in Workers, NEW c \in Callers, NEW p \in PCs, Goto(w, c, p)
    PROVE  /\ Moves(w, c, [slot[w][c] EXCEPT !.pc = p])
           /\ slot[w][c] \in Slots
<1>1. slot[w][c] \in Slots
  BY DEF TypeOK
<1>2. ASSUME NEW y \in Slots PROVE [y EXCEPT !.pc = p] \in Slots
  BY DEF Slots
<1>3. slot' = [slot EXCEPT ![w][c] = [slot[w][c] EXCEPT !.pc = p]]
  BY DEF Goto, TypeOK
<1> HIDE DEF Goto
<1> QED BY <1>1, <1>2, <1>3, Replaced

-----------------------------------------------------------------------------
(* How a step changes the row *)

\* A claim keeps the row's type.
LEMMA ClaimedType ==
    ASSUME row \in Rows, NEW w \in Workers, NEW c \in Callers
    PROVE  Claimed(w, c) \in Rows
<1> DEFINE a == [row EXCEPT !.runState = "running"]
           b == [a EXCEPT !.claimedBy = w]
           d == [b EXCEPT !.by = c]
           e == [d EXCEPT !.stale = FALSE]
<1>1. a \in Rows
  BY Zenon DEF Rows
<1>2. b \in Rows
  BY <1>1, Zenon DEF Rows
<1>3. d \in Rows
  BY <1>2, Zenon DEF Rows
<1>4. e \in Rows
  BY <1>3, Zenon DEF Rows
<1>5. [e EXCEPT !.recent = TRUE] \in Rows
  BY <1>4, Zenon DEF Rows
<1> QED BY <1>5 DEF Claimed

\* A release keeps the row's type.
LEMMA ReleasedType ==
    ASSUME row \in Rows, NEW w \in Workers
    PROVE  Released(w) \in Rows
<1> DEFINE a == [row EXCEPT !.runState = "idle"]
           b == [a EXCEPT !.claimedBy = None]
           d == [b EXCEPT !.by = None]
           e == [d EXCEPT !.stale = FALSE]
<1>1. a \in Rows
  BY Zenon DEF Rows
<1>2. b \in Rows
  BY <1>1, Zenon DEF Rows
<1>3. d \in Rows
  BY <1>2, Zenon DEF Rows
<1>4. e \in Rows
  BY <1>3, Zenon DEF Rows
<1> QED BY <1>4 DEF Released

\* So do a beat, an expiry, the interval and the switch.
LEMMA FieldType ==
    ASSUME row \in Rows, NEW b \in BOOLEAN
    PROVE  /\ [row EXCEPT !.stale = b] \in Rows
           /\ [row EXCEPT !.recent = b] \in Rows
           /\ [row EXCEPT !.enabled = b] \in Rows
BY Zenon DEF Rows

\* So does a move of the cursor.
LEMMA CursorType ==
    ASSUME row \in Rows, NEW n \in 0..Docs
    PROVE  [row EXCEPT !.cursor = n] \in Rows
BY Zenon DEF Rows

\* The record of a slot at rest, and of one that has only to forget its run.
LEMMA RestType == Rest \in Slots /\ [Rest EXCEPT !.pc = "forget"] \in Slots
<1>1. Rest \in Slots
  BY PassAssumption DEF Rest, Slots, PCs
<1>2. \A y \in Slots, p \in PCs : [y EXCEPT !.pc = p] \in Slots
  BY Zenon DEF Slots
<1>3. "forget" \in PCs
  BY DEF PCs
<1> QED BY <1>1, <1>2, <1>3, Zenon

-----------------------------------------------------------------------------
(* Types *)

\* A run never looks past the list it has taken.
SlotFits ==
    \A w \in Workers, c \in Callers :
        /\ slot[w][c].at <= slot[w][c].upto
        /\ slot[w][c].pc \in {"unit", "cursor"} => slot[w][c].at < slot[w][c].upto

TypeInv == TypeOK /\ SlotFits

\* What a step that moves one slot has to show of it.
LEMMA FitsMoved ==
    ASSUME SlotFits, NEW w \in Workers, NEW c \in Callers, NEW x, Moves(w, c, x),
           x.at <= x.upto, x.pc \in {"unit", "cursor"} => x.at < x.upto
    PROVE  SlotFits'
<1> SUFFICES ASSUME NEW v \in Workers, NEW d \in Callers
             PROVE  /\ slot'[v][d].at <= slot'[v][d].upto
                    /\ slot'[v][d].pc \in {"unit", "cursor"}
                          => slot'[v][d].at < slot'[v][d].upto
  BY DEF SlotFits
<1>1. CASE v = w /\ d = c
  BY <1>1 DEF Moves
<1>2. CASE v # w \/ d # c
  <2>1. slot'[v][d] = slot[v][d]
    BY <1>2 DEF Moves
  <2> QED BY <2>1 DEF SlotFits
<1> QED BY <1>1, <1>2

\* A step that only changes a program counter to one that is not inside a
\* unit, or to "unit" with a document left.
LEMMA FitsWent ==
    ASSUME TypeInv, NEW w \in Workers, NEW c \in Callers, NEW p \in PCs, Goto(w, c, p),
           p \in {"unit", "cursor"} => slot[w][c].at < slot[w][c].upto
    PROVE  SlotFits' /\ slot' \in [Workers -> [Callers -> Slots]]
<1> DEFINE x == [slot[w][c] EXCEPT !.pc = p]
<1>1. Moves(w, c, x) /\ slot[w][c] \in Slots
  BY Went DEF TypeInv
<1>2. x.pc = p /\ x.at = slot[w][c].at /\ x.upto = slot[w][c].upto
  BY <1>1 DEF Slots
<1>3. x.at <= x.upto
  BY <1>2 DEF TypeInv, SlotFits
<1>4. x.pc \in {"unit", "cursor"} => x.at < x.upto
  BY <1>2
<1>5. slot' \in [Workers -> [Callers -> Slots]]
  BY <1>1 DEF Moves
<1> HIDE DEF x
<1> QED BY <1>1, <1>3, <1>4, <1>5, FitsMoved DEF TypeInv

\* The invariant holds in the first state.
LEMMA TypeInit == Init => TypeInv
<1> SUFFICES ASSUME Init PROVE TypeInv
  OBVIOUS
<1> USE PassAssumption
<1>1. row \in Rows
  BY DEF Init, Rows
<1>2. Rest \in Slots
  BY RestType
<1>3. slot \in [Workers -> [Callers -> Slots]]
  BY <1>2 DEF Init
<1>4. SlotFits
  BY DEF Init, Rest, SlotFits
<1> QED BY <1>1, <1>3, <1>4 DEF Init, TypeInv, TypeOK

\* A step of the trigger, the attempt or the lease keeps it.
LEMMA TypeLease ==
    ASSUME TypeInv, NEW w \in Workers, NEW c \in Callers,
           \/ Trigger(w, c) \/ RateLimit(w, c) \/ Attempt(w, c) \/ ClaimPass(w, c)
           \/ ClaimThrows(w, c) \/ StartRun(w, c) \/ BeatPass(w, c) \/ HandBack(w, c)
           \/ ReleasePass(w, c) \/ ForgetRun(w, c)
    PROVE  TypeInv'
<1> USE PassAssumption
<1>0. row \in Rows /\ Claimed(w, c) \in Rows /\ Released(w) \in Rows
  BY ClaimedType, ReleasedType DEF TypeInv, TypeOK
<1>r. Rest \in Slots /\ [Rest EXCEPT !.pc = "forget"] \in Slots
  BY RestType
<1>p. \A p \in PCs \ {"unit", "cursor"} :
         Goto(w, c, p) => SlotFits' /\ slot' \in [Workers -> [Callers -> Slots]]
  BY FitsWent
<1>f. Fault => faults' \in 0..MaxFaults
  BY DEF Fault, TypeInv, TypeOK
<1>1. CASE Trigger(w, c)
  BY <1>1, <1>p DEF Trigger, World, PCs, TypeInv, TypeOK
<1>2. CASE RateLimit(w, c)
  BY <1>2, <1>p DEF RateLimit, World, PCs, TypeInv, TypeOK
<1>3. CASE Attempt(w, c)
  BY <1>3, <1>p DEF Attempt, World, PCs, TypeInv, TypeOK
<1>4. CASE ClaimPass(w, c)
  BY <1>4, <1>p, <1>0 DEF ClaimPass, World, PCs, TypeInv, TypeOK
<1>5. CASE ClaimThrows(w, c)
  <2>1. row' \in Rows
    BY <1>5, <1>0 DEF ClaimThrows
  <2> QED BY <1>5, <1>p, <1>f, <2>1 DEF ClaimThrows, World, PCs, TypeInv, TypeOK
<1>6. CASE StartRun(w, c)
  BY <1>6, <1>p DEF StartRun, World, PCs, TypeInv, TypeOK
<1>7. CASE BeatPass(w, c)
  <2> DEFINE b == slot[w][c].aborted \/ ~Held(w)
             x == [slot[w][c] EXCEPT !.aborted = b]
  <2>1. row' \in Rows
    BY <1>7, <1>0, FieldType DEF BeatPass
  <2>2. slot[w][c] \in Slots
    BY DEF TypeInv, TypeOK
  <2>3. b \in BOOLEAN
    OBVIOUS
  <2>4. \A y \in Slots, z \in BOOLEAN : [y EXCEPT !.aborted = z] \in Slots
    BY Zenon DEF Slots
  <2>5. x \in Slots
    BY <2>2, <2>3, <2>4, Zenon
  <2>6. slot' = [slot EXCEPT ![w][c] = x]
    BY <1>7 DEF BeatPass, TypeInv, TypeOK
  <2>7. Moves(w, c, x)
    BY <2>5, <2>6, Replaced DEF TypeInv
  <2>8. x.at = slot[w][c].at /\ x.upto = slot[w][c].upto /\ x.pc = slot[w][c].pc
    BY <2>2 DEF Slots
  <2> HIDE DEF x
  <2>9. x.at <= x.upto /\ (x.pc \in {"unit", "cursor"} => x.at < x.upto)
    BY <2>8 DEF TypeInv, SlotFits
  <2>10. SlotFits'
    BY <2>7, <2>9, FitsMoved DEF TypeInv
  <2> QED BY <1>7, <2>1, <2>7, <2>10 DEF BeatPass, World, Moves, TypeInv, TypeOK
<1>8. CASE HandBack(w, c)
  <2>1. Moves(w, c, Rest)
    BY <1>8, <1>r, Replaced DEF HandBack, TypeInv
  <2>2. SlotFits'
    BY <2>1, FitsMoved DEF Rest, TypeInv
  <2>3. row' \in Rows
    BY <1>8, <1>0 DEF HandBack
  <2>4. faults' \in 0..MaxFaults
    BY <1>8, <1>f DEF HandBack, TypeInv, TypeOK
  <2> QED BY <1>8, <2>1, <2>2, <2>3, <2>4 DEF HandBack, World, Moves, TypeInv, TypeOK
<1>9. CASE ReleasePass(w, c)
  <2> DEFINE x == [Rest EXCEPT !.pc = "forget"]
  <2>1. Moves(w, c, x)
    BY <1>9, <1>r, Replaced DEF ReleasePass, TypeInv
  <2>2. x.at = 0 /\ x.upto = 0 /\ x.pc = "forget"
    BY DEF Rest
  <2> HIDE DEF x
  <2>3. SlotFits'
    BY <2>1, <2>2, FitsMoved DEF TypeInv
  <2>4. row' \in Rows
    BY <1>9, <1>0 DEF ReleasePass
  <2>5. faults' \in 0..MaxFaults
    BY <1>9, <1>f DEF ReleasePass, TypeInv, TypeOK
  <2> QED BY <1>9, <2>1, <2>3, <2>4, <2>5 DEF ReleasePass, World, Moves, TypeInv, TypeOK
<1>10. CASE ForgetRun(w, c)
  BY <1>10, <1>p DEF ForgetRun, World, PCs, TypeInv, TypeOK
<1> QED BY <1>1, <1>2, <1>3, <1>4, <1>5, <1>6, <1>7, <1>8, <1>9, <1>10

\* What reading the cursor and listing the documents does to the slot.
LEMMA ReadMoves ==
    ASSUME TypeOK, NEW w \in Workers, NEW c \in Callers, ReadCursor(w, c)
    PROVE  /\ Moves(w, c, slot'[w][c])
           /\ \/ /\ slot'[w][c].pc = "next" /\ slot'[w][c].at = row.cursor
                 /\ row.cursor <= slot'[w][c].upto
              \/ /\ slot'[w][c].pc = "release" /\ slot'[w][c].at = slot[w][c].at
                 /\ slot'[w][c].upto = slot[w][c].upto
<1> DEFINE y == slot[w][c]
           n == IF row.cursor + UnitsPerRun <= Docs THEN row.cursor + UnitsPerRun ELSE Docs
           a == [y EXCEPT !.pc = "next"]
           b == [a EXCEPT !.at = row.cursor]
           x == IF row.enabled THEN [b EXCEPT !.upto = n] ELSE [y EXCEPT !.pc = "release"]
<1>1. y \in Slots /\ row.cursor \in 0..Docs
  BY DEF TypeOK, Rows
<1>2. n \in 0..Docs /\ row.cursor <= n
  BY <1>1, PassAssumption
<1> HIDE DEF n
<1>3. "next" \in PCs /\ "release" \in PCs
  BY DEF PCs
<1>4. a \in Slots /\ [y EXCEPT !.pc = "release"] \in Slots
  BY <1>1, <1>3, Zenon DEF Slots
<1>5. b \in Slots
  BY <1>1, <1>4, Zenon DEF Slots
<1>6. [b EXCEPT !.upto = n] \in Slots
  BY <1>2, <1>5, Zenon DEF Slots
<1>7. x \in Slots
  BY <1>4, <1>6
<1>8. slot' = [slot EXCEPT ![w][c] = x]
  BY <1>1 DEF ReadCursor, TypeOK, n, Slots
<1>9. \/ x.pc = "next" /\ x.at = row.cursor /\ row.cursor <= x.upto
      \/ x.pc = "release" /\ x.at = y.at /\ x.upto = y.upto
  BY <1>1, <1>2 DEF Slots
<1> HIDE DEF x
<1>10. Moves(w, c, x)
  BY <1>7, <1>8, Replaced
<1>11. slot'[w][c] = x
  BY <1>10 DEF Moves
<1> QED BY <1>9, <1>10, <1>11

\* What a unit does to the slot and to the documents.
LEMMA DigestMoves ==
    ASSUME TypeInv, NEW w \in Workers, NEW c \in Callers, Digest(w, c)
    PROVE  /\ Moves(w, c, slot'[w][c])
           /\ slot'[w][c].pc = "cursor"
           /\ slot'[w][c].at = slot[w][c].at
           /\ slot'[w][c].at < slot'[w][c].upto
           /\ slot[w][c].at + 1 \in 1..Docs
           /\ slot[w][c].at + 1 \in digested' \cup failed'
           /\ digested' \in SUBSET (1..Docs) /\ failed' \in SUBSET (1..Docs)
           /\ digested \cup failed \subseteq digested' \cup failed'
<1> DEFINE y == slot[w][c]
           a == [y EXCEPT !.pc = "cursor"]
           x == [a EXCEPT !.upto = y.at + 1]
<1>1. y \in Slots /\ y.at \in 0..Docs /\ y.upto \in 0..Docs /\ y.at < y.upto
  BY DEF TypeInv, TypeOK, Slots, SlotFits, Digest
<1>2. y.at + 1 \in 0..Docs /\ y.at + 1 \in 1..Docs
  BY <1>1, PassAssumption
<1>3. a \in Slots
  BY <1>1, Zenon DEF Slots, PCs
<1>4. x \in Slots
  BY <1>2, <1>3, Zenon DEF Slots
<1>5. a.pc = "cursor" /\ a.at = y.at /\ a.upto = y.upto
  BY <1>1 DEF Slots
<1>6. x.pc = "cursor" /\ x.at = y.at /\ x.upto = y.at + 1
  BY <1>1 DEF Slots
<1>7. digested' \in SUBSET (1..Docs) /\ failed' \in SUBSET (1..Docs)
  BY <1>2 DEF Digest, TypeInv, TypeOK
<1>8. digested \cup failed \subseteq digested' \cup failed' /\ y.at + 1 \in digested' \cup failed'
  BY DEF Digest
<1>9. slot' = [slot EXCEPT ![w][c] = a] \/ slot' = [slot EXCEPT ![w][c] = x]
  BY <1>1 DEF Digest, Goto, TypeInv, TypeOK, Slots
<1> HIDE DEF a, x
<1>10. Moves(w, c, a) \/ Moves(w, c, x)
  BY <1>3, <1>4, <1>9, Replaced DEF TypeInv
<1>11. y.at < y.at + 1
  BY <1>1
<1>12. \E z \in Slots : Moves(w, c, z) /\ z.pc = "cursor" /\ z.at = y.at /\ z.at < z.upto
  BY <1>1, <1>3, <1>4, <1>5, <1>6, <1>10, <1>11
<1>13. PICK z \in Slots : Moves(w, c, z) /\ z.pc = "cursor" /\ z.at = y.at /\ z.at < z.upto
  BY <1>12
<1>14. slot'[w][c] = z
  BY <1>13 DEF Moves
<1> QED BY <1>2, <1>7, <1>8, <1>13, <1>14

\* What the move of the cursor does to the slot.
LEMMA CursorMoves ==
    ASSUME TypeInv, NEW w \in Workers, NEW c \in Callers, WriteCursor(w, c)
    PROVE  /\ Moves(w, c, slot'[w][c])
           /\ slot'[w][c].pc = "next"
           /\ slot'[w][c].at = slot[w][c].at + 1
           /\ slot'[w][c].upto = slot[w][c].upto
           /\ slot[w][c].at + 1 \in 0..Docs
           /\ slot[w][c].at + 1 <= slot[w][c].upto
<1> DEFINE y == slot[w][c]
           a == [y EXCEPT !.pc = "next"]
           x == [a EXCEPT !.at = y.at + 1]
<1>1. y \in Slots /\ y.at \in 0..Docs /\ y.upto \in 0..Docs /\ y.at < y.upto
  BY DEF TypeInv, TypeOK, Slots, SlotFits, WriteCursor
<1>2. y.at + 1 \in 0..Docs /\ y.at + 1 <= y.upto
  BY <1>1, PassAssumption
<1>3. a \in Slots
  BY <1>1, Zenon DEF Slots, PCs
<1>4. x \in Slots
  BY <1>2, <1>3, Zenon DEF Slots
<1>5. x.pc = "next" /\ x.at = y.at + 1 /\ x.upto = y.upto
  BY <1>1 DEF Slots
<1>6. slot' = [slot EXCEPT ![w][c] = x]
  BY <1>1 DEF WriteCursor, TypeInv, TypeOK, Slots
<1> HIDE DEF x
<1>7. Moves(w, c, x)
  BY <1>4, <1>6, Replaced DEF TypeInv
<1>8. slot'[w][c] = x
  BY <1>7 DEF Moves
<1> QED BY <1>2, <1>5, <1>7, <1>8

\* A step of the corpus pass keeps the invariant.
LEMMA TypeRun ==
    ASSUME TypeInv, NEW w \in Workers, NEW c \in Callers,
           \/ ReadCursor(w, c) \/ NextUnit(w, c) \/ Digest(w, c)
           \/ WriteCursor(w, c) \/ Summary(w, c) \/ RunThrows(w, c)
    PROVE  TypeInv'
<1> USE PassAssumption
<1>0. row \in Rows
  BY DEF TypeInv, TypeOK
<1>p. \A p \in PCs : Goto(w, c, p) /\ (p \in {"unit", "cursor"} => slot[w][c].at < slot[w][c].upto)
         => SlotFits' /\ slot' \in [Workers -> [Callers -> Slots]]
  BY FitsWent
<1>1. CASE ReadCursor(w, c)
  <2>1. Moves(w, c, slot'[w][c])
    BY <1>1, ReadMoves DEF TypeInv
  <2>2. slot'[w][c].at <= slot'[w][c].upto
    BY <1>1, ReadMoves DEF TypeInv, SlotFits
  <2>3. slot'[w][c].pc \notin {"unit", "cursor"}
    BY <1>1, ReadMoves DEF TypeInv
  <2>4. SlotFits'
    BY <2>1, <2>2, <2>3, FitsMoved DEF TypeInv
  <2> QED BY <1>1, <2>1, <2>4 DEF ReadCursor, World, Moves, TypeInv, TypeOK
<1>2. CASE NextUnit(w, c)
  <2>1. slot[w][c].at \in 0..Docs /\ slot[w][c].upto \in 0..Docs
    BY DEF TypeInv, TypeOK, Slots
  <2> QED BY <1>2, <1>p, <2>1 DEF NextUnit, World, PCs, TypeInv, TypeOK
<1>3. CASE Digest(w, c)
  <2>1. SlotFits'
    <3>1. slot'[w][c] \in Slots
      BY <1>3, DigestMoves DEF Moves
    <3>2. slot'[w][c].at <= slot'[w][c].upto
      BY <1>3, <3>1, DigestMoves DEF Slots
    <3> QED BY <1>3, <3>2, DigestMoves, FitsMoved DEF TypeInv
  <2> QED BY <1>3, <2>1, DigestMoves DEF Digest, Moves, TypeInv, TypeOK
<1>4. CASE WriteCursor(w, c)
  <2>1. row' \in Rows
    BY <1>0, <1>4, CursorMoves, CursorType DEF WriteCursor
  <2>2. SlotFits'
    BY <1>4, CursorMoves, FitsMoved DEF TypeInv
  <2> QED BY <1>4, <2>1, <2>2, CursorMoves DEF WriteCursor, World, Moves, TypeInv, TypeOK
<1>5. CASE Summary(w, c)
  <2>1. row.recent \in BOOLEAN
    BY <1>0 DEF Rows
  <2>2. row' \in Rows
    BY <1>0, <1>5, <2>1, FieldType DEF Summary
  <2> QED BY <1>5, <1>p, <2>2 DEF Summary, World, PCs, TypeInv, TypeOK
<1>6. CASE RunThrows(w, c)
  BY <1>6, <1>p DEF RunThrows, Fault, World, PCs, TypeInv, TypeOK
<1> QED BY <1>1, <1>2, <1>3, <1>4, <1>5, <1>6

\* The slots of a process that ends are at rest, the others as they were.
LEMMA DiesMoves ==
    ASSUME TypeOK, NEW w \in Workers, Dies(w)
    PROVE  /\ slot' \in [Workers -> [Callers -> Slots]]
           /\ \A c \in Callers : slot'[w][c] = Rest
           /\ \A v \in Workers \ {w}, c \in Callers : slot'[v][c] = slot[v][c]
BY RestType DEF Dies, TypeOK

\* A step of the clock, the switch or a process keeps the invariant.
LEMMA TypeProcess ==
    ASSUME TypeInv,
           \/ LeaseExpires \/ IntervalPasses \/ SwitchPass
           \/ \E w \in Workers : ReleaseAllPasses(w) \/ Drained(w) \/ Exit(w) \/ Crash(w)
    PROVE  TypeInv'
<1> USE PassAssumption
<1>0. row \in Rows
  BY DEF TypeInv, TypeOK
<1>s. UNCHANGED slot => SlotFits' /\ slot' \in [Workers -> [Callers -> Slots]]
  BY DEF TypeInv, TypeOK, SlotFits
<1>1. CASE LeaseExpires
  BY <1>0, <1>1, <1>s, FieldType DEF LeaseExpires, World, TypeInv, TypeOK
<1>2. CASE IntervalPasses
  BY <1>0, <1>2, <1>s, FieldType DEF IntervalPasses, World, TypeInv, TypeOK
<1>3. CASE SwitchPass
  <2>1. (~row.enabled) \in BOOLEAN
    OBVIOUS
  <2>2. row' = [row EXCEPT !.enabled = ~row.enabled]
    BY <1>3 DEF SwitchPass
  <2>3. row' \in Rows
    BY <1>0, <2>1, <2>2, FieldType, Zenon
  <2> QED BY <1>3, <1>s, <2>3 DEF SwitchPass, World, TypeInv, TypeOK
<1>4. ASSUME NEW w \in Workers, ReleaseAllPasses(w) PROVE TypeInv'
  BY <1>4, <1>s DEF ReleaseAllPasses, Fault, World, TypeInv, TypeOK
<1>5. ASSUME NEW w \in Workers, Drained(w) PROVE TypeInv'
  BY <1>5, <1>s DEF Drained, World, TypeInv, TypeOK
<1>6. ASSUME NEW w \in Workers, Dies(w), faults' \in 0..MaxFaults PROVE TypeInv'
  <2>1. SlotFits'
    <3> SUFFICES ASSUME NEW v \in Workers, NEW c \in Callers
                 PROVE  /\ slot'[v][c].at <= slot'[v][c].upto
                        /\ slot'[v][c].pc \in {"unit", "cursor"}
                              => slot'[v][c].at < slot'[v][c].upto
      BY DEF SlotFits
    <3>1. CASE v = w
      <4>1. slot'[v][c] = Rest
        BY <1>6, <3>1, DiesMoves DEF TypeInv
      <4> QED BY <4>1 DEF Rest
    <3>2. CASE v # w
      <4>1. slot'[v][c] = slot[v][c]
        BY <1>6, <3>2, DiesMoves DEF TypeInv
      <4> QED BY <4>1 DEF TypeInv, SlotFits
    <3> QED BY <3>1, <3>2
  <2>2. slot' \in [Workers -> [Callers -> Slots]]
    BY <1>6, DiesMoves DEF TypeInv
  <2> QED BY <1>6, <2>1, <2>2 DEF Dies, World, TypeInv, TypeOK
<1>7. ASSUME NEW w \in Workers, Exit(w) PROVE TypeInv'
  BY <1>6, <1>7 DEF Exit, TypeInv, TypeOK
<1>8. ASSUME NEW w \in Workers, Crash(w) PROVE TypeInv'
  BY <1>6, <1>8 DEF Crash, Fault, TypeInv, TypeOK
<1> QED BY <1>1, <1>2, <1>3, <1>4, <1>5, <1>7, <1>8

\* Every step keeps the types.
LEMMA TypeNext == TypeInv /\ [Next]_vars => TypeInv'
<1> SUFFICES ASSUME TypeInv, [Next]_vars PROVE TypeInv'
  OBVIOUS
<1>1. ASSUME NEW w \in Workers, NEW c \in Callers,
             \/ Trigger(w, c) \/ Thread(w, c)
             \/ BeatPass(w, c) \/ ClaimThrows(w, c) \/ RunThrows(w, c)
      PROVE  TypeInv'
  BY <1>1, TypeLease, TypeRun DEF Thread
<1>2. CASE UNCHANGED vars
  BY <1>2 DEF vars, TypeInv, TypeOK, SlotFits
<1> QED BY <1>1, <1>2, TypeProcess DEF Next

\* TypeCorrect: the row, the slots and the process state keep their types, and
\* the cursor stays within the documents (TypeOK), whatever the constants.
THEOREM TypeCorrect == Spec => []TypeOK
<1>1. Spec => []TypeInv
  BY TypeInit, TypeNext, PTL DEF Spec
<1> QED BY <1>1, PTL DEF TypeInv

-----------------------------------------------------------------------------
(* The lease *)

\* The fields a change of the program counter leaves alone.
LEMMA WentFields ==
    ASSUME TypeOK, NEW w \in Workers, NEW c \in Callers, NEW p \in PCs, Goto(w, c, p)
    PROVE  /\ Moves(w, c, slot'[w][c])
           /\ slot'[w][c].pc = p
           /\ slot'[w][c].at = slot[w][c].at
           /\ slot'[w][c].upto = slot[w][c].upto
<1> DEFINE x == [slot[w][c] EXCEPT !.pc = p]
<1>1. Moves(w, c, x) /\ slot[w][c] \in Slots
  BY Went
<1>2. x.pc = p /\ x.at = slot[w][c].at /\ x.upto = slot[w][c].upto
  BY <1>1 DEF Slots
<1> HIDE DEF x
<1>3. slot'[w][c] = x
  BY <1>1 DEF Moves
<1> QED BY <1>1, <1>2, <1>3

\* What a beat leaves alone.
LEMMA BeatFields ==
    ASSUME TypeOK, NEW w \in Workers, NEW c \in Callers, BeatPass(w, c)
    PROVE  /\ Moves(w, c, slot'[w][c])
           /\ slot'[w][c].pc = slot[w][c].pc
           /\ slot'[w][c].at = slot[w][c].at
           /\ slot'[w][c].upto = slot[w][c].upto
<1> DEFINE b == slot[w][c].aborted \/ ~Held(w)
           x == [slot[w][c] EXCEPT !.aborted = b]
<1>1. slot[w][c] \in Slots /\ b \in BOOLEAN
  BY DEF TypeOK
<1>2. \A y \in Slots, z \in BOOLEAN : [y EXCEPT !.aborted = z] \in Slots
  BY Zenon DEF Slots
<1>3. x \in Slots
  BY <1>1, <1>2, Zenon
<1>4. slot' = [slot EXCEPT ![w][c] = x]
  BY DEF BeatPass, TypeOK
<1>5. x.at = slot[w][c].at /\ x.upto = slot[w][c].upto /\ x.pc = slot[w][c].pc
  BY <1>1 DEF Slots
<1> HIDE DEF x
<1>6. Moves(w, c, x)
  BY <1>3, <1>4, Replaced
<1>7. slot'[w][c] = x
  BY <1>6 DEF Moves
<1> QED BY <1>5, <1>6, <1>7

\* The claim on the row is as it was, perhaps refreshed.
SameClaim ==
    /\ row'.runState = row.runState
    /\ row'.claimedBy = row.claimedBy
    /\ row'.by = row.by
    /\ row.stale = FALSE => row'.stale = FALSE

\* A step of one slot that starts no reliance on the claim and leaves it alone.
LEMMA KeepsHeld ==
    ASSUME HeldWhileRunning, SameClaim, NEW w \in Workers, NEW c \in Callers,
           Moves(w, c, slot'[w][c]),
           slot'[w][c].pc \in Holding => slot[w][c].pc \in Holding,
           row.stale \in BOOLEAN
    PROVE  HeldWhileRunning'
<1> SUFFICES ASSUME NEW v \in Steady, NEW d \in Callers, slot'[v][d].pc \in Holding
             PROVE  row'.runState = "running" /\ row'.claimedBy = v /\ row'.by = d /\ ~row'.stale
  BY DEF HeldWhileRunning, Steady
<1>1. slot[v][d].pc \in Holding
  BY DEF Moves, Steady
<1>2. row.runState = "running" /\ row.claimedBy = v /\ row.by = d /\ ~row.stale
  BY <1>1 DEF HeldWhileRunning
<1> QED BY <1>2 DEF SameClaim

\* Nobody relies on a claim that may be taken.
LEMMA ClaimableIsFree ==
    ASSUME HeldWhileRunning, Claimable
    PROVE  \A v \in Steady, d \in Callers : slot[v][d].pc \notin Holding
BY DEF HeldWhileRunning, Claimable

\* A claim is the claimer's own.
LEMMA ClaimedFields ==
    ASSUME row \in Rows, NEW w \in Workers, NEW c \in Callers
    PROVE  /\ Claimed(w, c).runState = "running" /\ Claimed(w, c).claimedBy = w
           /\ Claimed(w, c).by = c /\ ~Claimed(w, c).stale
           /\ Claimed(w, c).cursor = row.cursor
BY DEF Claimed, Rows

\* A won claim is the winner's, and nobody else relied on the row.
LEMMA HeldClaim ==
    ASSUME TypeInv, HeldWhileRunning, NEW w \in Workers, NEW c \in Callers,
           ClaimPass(w, c) \/ ClaimThrows(w, c)
    PROVE  HeldWhileRunning'
<1>0. row \in Rows /\ row.stale \in BOOLEAN /\ TypeOK
  BY DEF TypeInv, TypeOK, Rows
<1>1. Moves(w, c, slot'[w][c]) /\ slot'[w][c].pc \in {"won", "idle"}
  BY <1>0, WentFields DEF ClaimPass, ClaimThrows, PCs
<1>2. CASE row' = row /\ slot'[w][c].pc = "idle"
  BY <1>0, <1>1, <1>2, KeepsHeld DEF SameClaim, Holding, Running
<1>3. CASE Claimable /\ row' = Claimed(w, c)
  <2> SUFFICES ASSUME NEW v \in Steady, NEW d \in Callers, slot'[v][d].pc \in Holding
               PROVE  row'.runState = "running" /\ row'.claimedBy = v /\ row'.by = d /\ ~row'.stale
    BY DEF HeldWhileRunning, Steady
  <2>1. slot[v][d].pc \notin Holding
    BY <1>3, ClaimableIsFree
  <2>2. v = w /\ d = c
    BY <1>1, <2>1 DEF Moves, Steady
  <2> QED BY <1>0, <1>3, <2>2, ClaimedFields
<1>4. CASE ClaimPass(w, c)
  <2>1. CASE Claimable
    BY <1>3, <1>4, <2>1 DEF ClaimPass
  <2>2. CASE ~Claimable
    <3>1. slot'[w][c].pc = "idle"
      BY <1>0, <1>4, <2>2, WentFields DEF ClaimPass, PCs
    <3> QED BY <1>2, <1>4, <2>2, <3>1 DEF ClaimPass
  <2> QED BY <2>1, <2>2
<1>5. CASE ClaimThrows(w, c)
  <2>1. slot'[w][c].pc = "idle"
    BY <1>0, <1>5, WentFields DEF ClaimThrows, PCs
  <2>2. row' = row \/ (Claimable /\ row' = Claimed(w, c))
    BY <1>5 DEF ClaimThrows
  <2> QED BY <1>2, <1>3, <2>1, <2>2
<1> QED BY <1>4, <1>5

\* A release frees only the releasing run's own claim, in a steady process,
\* and no steady process's claim from any other.
LEMMA HeldRelease ==
    ASSUME TypeInv, HeldWhileRunning, NEW w \in Workers, NEW c \in Callers,
           HandBack(w, c) \/ ReleasePass(w, c)
    PROVE  HeldWhileRunning'
<1>0. row \in Rows /\ row.stale \in BOOLEAN /\ TypeOK
  BY DEF TypeInv, TypeOK, Rows
<1>1. Moves(w, c, slot'[w][c]) /\ slot'[w][c].pc \in {"idle", "forget"}
  <2>1. CASE HandBack(w, c)
    <3>1. Moves(w, c, Rest)
      BY <1>0, <2>1, RestType, Replaced DEF HandBack
    <3> QED BY <3>1 DEF Moves, Rest
  <2>2. CASE ReleasePass(w, c)
    <3> DEFINE x == [Rest EXCEPT !.pc = "forget"]
    <3>1. x.pc = "forget"
      BY DEF Rest
    <3>2. Moves(w, c, x)
      BY <1>0, <2>2, RestType, Replaced DEF ReleasePass
    <3> HIDE DEF x
    <3> QED BY <3>1, <3>2 DEF Moves
  <2> QED BY <2>1, <2>2
<1>2. slot[w][c].pc \in Holding
  BY DEF HandBack, ReleasePass, Holding
<1>3. row' = row \/ (Held(w) /\ row'.runState = "idle")
  BY <1>0 DEF HandBack, ReleasePass, Released, Rows
<1>4. CASE row' = row
  BY <1>0, <1>1, <1>4, KeepsHeld DEF SameClaim, Holding, Running
<1>5. CASE Held(w)
  <2> SUFFICES ASSUME NEW v \in Steady, NEW d \in Callers, slot'[v][d].pc \in Holding
               PROVE  FALSE
    BY DEF HeldWhileRunning, Steady
  <2>1. slot[v][d].pc \in Holding /\ (v # w \/ d # c)
    BY <1>1 DEF Moves, Steady, Holding, Running
  <2>2. row.claimedBy = v /\ row.by = d
    BY <2>1 DEF HeldWhileRunning
  <2>3. v = w
    BY <1>5, <2>2 DEF Held
  <2>4. row.by = c
    BY <1>2, <2>3 DEF HeldWhileRunning
  <2> QED BY <2>1, <2>2, <2>3, <2>4
<1> QED BY <1>3, <1>4, <1>5

\* Every other step of a slot leaves the claim alone.
LEMMA HeldOther ==
    ASSUME TypeInv, HeldWhileRunning, NEW w \in Workers, NEW c \in Callers,
           \/ Trigger(w, c) \/ RateLimit(w, c) \/ Attempt(w, c) \/ StartRun(w, c)
           \/ BeatPass(w, c) \/ ForgetRun(w, c) \/ ReadCursor(w, c) \/ NextUnit(w, c)
           \/ Digest(w, c) \/ WriteCursor(w, c) \/ Summary(w, c) \/ RunThrows(w, c)
    PROVE  HeldWhileRunning'
<1>0. row \in Rows /\ row.stale \in BOOLEAN /\ TypeOK
  BY DEF TypeInv, TypeOK, Rows
<1>s. UNCHANGED row => SameClaim
  BY DEF SameClaim
<1>w. \A p \in PCs : Goto(w, c, p) => Moves(w, c, slot'[w][c]) /\ slot'[w][c].pc = p
  BY <1>0, WentFields
<1>k. ASSUME SameClaim, Moves(w, c, slot'[w][c]),
             slot'[w][c].pc \in Holding => slot[w][c].pc \in Holding
      PROVE  HeldWhileRunning'
  BY <1>0, <1>k, KeepsHeld
<1>1. CASE Trigger(w, c)
  BY <1>1, <1>s, <1>w, <1>k DEF Trigger, PCs, Holding, Running
<1>2. CASE RateLimit(w, c)
  BY <1>2, <1>s, <1>w, <1>k DEF RateLimit, PCs, Holding, Running
<1>3. CASE Attempt(w, c)
  BY <1>3, <1>s, <1>w, <1>k DEF Attempt, PCs, Holding, Running
<1>4. CASE StartRun(w, c)
  BY <1>4, <1>s, <1>w, <1>k DEF StartRun, PCs, Holding, Running
<1>5. CASE BeatPass(w, c)
  <2>1. SameClaim
    BY <1>0, <1>5 DEF BeatPass, SameClaim, Rows
  <2> QED BY <1>0, <1>5, <1>k, <2>1, BeatFields
<1>6. CASE ForgetRun(w, c)
  BY <1>6, <1>s, <1>w, <1>k DEF ForgetRun, PCs, Holding, Running
<1>7. CASE ReadCursor(w, c)
  BY <1>0, <1>7, <1>s, <1>k, ReadMoves DEF ReadCursor, Holding, Running
<1>8. CASE NextUnit(w, c)
  <2>1. \E p \in {"release", "summary", "unit"} : Goto(w, c, p)
    BY <1>8 DEF NextUnit
  <2> QED BY <1>8, <1>s, <1>w, <1>k, <2>1 DEF NextUnit, PCs, Holding, Running
<1>9. CASE Digest(w, c)
  BY <1>9, <1>s, <1>k, DigestMoves DEF Digest, Holding, Running
<1>10. CASE WriteCursor(w, c)
  <2>1. SameClaim
    BY <1>0, <1>10 DEF WriteCursor, SameClaim, Rows
  <2> QED BY <1>10, <1>k, <2>1, CursorMoves DEF WriteCursor, Holding, Running
<1>11. CASE Summary(w, c)
  <2>1. SameClaim
    BY <1>0, <1>11 DEF Summary, SameClaim, Rows
  <2> QED BY <1>11, <1>w, <1>k, <2>1 DEF Summary, PCs, Holding, Running
<1>12. CASE RunThrows(w, c)
  BY <1>12, <1>s, <1>w, <1>k DEF RunThrows, PCs, Holding, Running
<1> QED BY <1>1, <1>2, <1>3, <1>4, <1>5, <1>6, <1>7, <1>8, <1>9, <1>10, <1>11, <1>12

\* The clock, the switch and the processes: a lease runs out under nobody who
\* relies on it, and a process that ends relies on nothing any more.
LEMMA HeldProcess ==
    ASSUME TypeInv, HeldWhileRunning,
           \/ LeaseExpires \/ IntervalPasses \/ SwitchPass
           \/ \E w \in Workers : ReleaseAllPasses(w) \/ Drained(w) \/ Exit(w) \/ Crash(w)
    PROVE  HeldWhileRunning'
<1>0. row \in Rows /\ TypeOK
  BY DEF TypeInv, TypeOK
<1>1. CASE LeaseExpires
  <2>1. \A v \in Steady, d \in Callers : slot[v][d].pc \notin Holding
    BY <1>1 DEF LeaseExpires, HeldWhileRunning, Steady
  <2> QED BY <1>1, <2>1 DEF LeaseExpires, HeldWhileRunning, Steady
<1>2. CASE IntervalPasses
  BY <1>0, <1>2 DEF IntervalPasses, HeldWhileRunning, Steady, Rows
<1>3. CASE SwitchPass
  BY <1>0, <1>3 DEF SwitchPass, HeldWhileRunning, Steady, Rows
<1>4. ASSUME NEW w \in Workers, ReleaseAllPasses(w) \/ Drained(w) PROVE HeldWhileRunning'
  BY <1>4 DEF ReleaseAllPasses, Drained, HeldWhileRunning, Steady
<1>5. ASSUME NEW w \in Workers, Dies(w) PROVE HeldWhileRunning'
  <2> SUFFICES ASSUME NEW v \in Steady, NEW d \in Callers, slot'[v][d].pc \in Holding
               PROVE  row'.runState = "running" /\ row'.claimedBy = v /\ row'.by = d /\ ~row'.stale
    BY DEF HeldWhileRunning, Steady
  <2>1. v # w
    BY <1>0, <1>5, DiesMoves DEF Rest, Holding, Running
  <2>2. slot[v][d].pc \in Holding
    BY <1>0, <1>5, <2>1, DiesMoves DEF Steady
  <2> QED BY <1>5, <2>2 DEF Dies, HeldWhileRunning
<1> QED BY <1>1, <1>2, <1>3, <1>4, <1>5 DEF Exit, Crash

LeaseInv == TypeInv /\ HeldWhileRunning

\* The lease invariant holds at first and every step keeps it.
LEMMA LeaseInductive ==
    /\ Init => LeaseInv
    /\ LeaseInv /\ [Next]_vars => LeaseInv'
<1>1. Init => LeaseInv
  BY TypeInit DEF Init, LeaseInv, HeldWhileRunning, Steady, Rest, Holding, Running
<1>2. ASSUME LeaseInv, [Next]_vars PROVE HeldWhileRunning'
  <2>1. ASSUME NEW w \in Workers, NEW c \in Callers,
               \/ Trigger(w, c) \/ Thread(w, c)
               \/ BeatPass(w, c) \/ ClaimThrows(w, c) \/ RunThrows(w, c)
        PROVE  HeldWhileRunning'
    BY <1>2, <2>1, HeldClaim, HeldRelease, HeldOther DEF Thread, LeaseInv
  <2>2. CASE UNCHANGED vars
    BY <1>2, <2>2 DEF vars, LeaseInv, HeldWhileRunning, Steady
  <2> QED BY <1>2, <2>1, <2>2, HeldProcess DEF Next, LeaseInv
<1> QED BY <1>1, <1>2, TypeNext DEF LeaseInv

\* LeaseHeld: in every process that does not stall, the run that won the pass
\* keeps its own unexpired claim until it gives it back (HeldWhileRunning),
\* for any number of processes, callers and zombies.
THEOREM LeaseHeld == Spec => []HeldWhileRunning
<1>1. Spec => []LeaseInv
  BY LeaseInductive, PTL DEF Spec
<1> QED BY <1>1, PTL DEF LeaseInv

-----------------------------------------------------------------------------
(* The lease implements the mutex *)

\* The runs at work in steady processes: the mapping of PassMutex's variable.
AtWork == {r \in Steady \X Callers : slot[r[1]][r[2]].pc \in Running}

\* A step of a caller moves its own slot only.
LEMMA StepMoves ==
    ASSUME TypeInv, NEW w \in Workers, NEW c \in Callers,
           \/ Trigger(w, c) \/ Thread(w, c)
           \/ BeatPass(w, c) \/ ClaimThrows(w, c) \/ RunThrows(w, c)
    PROVE  Moves(w, c, slot'[w][c])
<1>0. TypeOK
  BY DEF TypeInv
<1>w. (\E p \in PCs : Goto(w, c, p)) => Moves(w, c, slot'[w][c])
  BY <1>0, WentFields
<1>1. CASE Trigger(w, c) \/ RateLimit(w, c) \/ Attempt(w, c) \/ ClaimPass(w, c)
  BY <1>1, <1>w DEF Trigger, RateLimit, Attempt, ClaimPass, PCs
<1>2. CASE ClaimThrows(w, c) \/ StartRun(w, c) \/ ForgetRun(w, c) \/ RunThrows(w, c)
  BY <1>2, <1>w DEF ClaimThrows, StartRun, ForgetRun, RunThrows, PCs
<1>3. CASE NextUnit(w, c) \/ Summary(w, c)
  BY <1>3, <1>w DEF NextUnit, Summary, PCs
<1>4. CASE BeatPass(w, c) \/ ReadCursor(w, c) \/ Digest(w, c) \/ WriteCursor(w, c)
  BY <1>0, <1>4, BeatFields, ReadMoves, DigestMoves, CursorMoves
<1>5. CASE HandBack(w, c)
  <2>1. Moves(w, c, Rest)
    BY <1>0, <1>5, RestType, Replaced DEF HandBack
  <2> QED BY <2>1 DEF Moves
<1>6. CASE ReleasePass(w, c)
  <2> DEFINE x == [Rest EXCEPT !.pc = "forget"]
  <2>1. Moves(w, c, x)
    BY <1>0, <1>6, RestType, Replaced DEF ReleasePass
  <2> HIDE DEF x
  <2> QED BY <2>1 DEF Moves
<1> QED BY <1>1, <1>2, <1>3, <1>4, <1>5, <1>6 DEF Thread

\* Two runs at work are the same run.
LEMMA AtMostOne ==
    ASSUME HeldWhileRunning, NEW r \in AtWork, NEW s \in AtWork
    PROVE  r = s
<1>1. r \in Steady \X Callers /\ s \in Steady \X Callers
  BY DEF AtWork
<1>2. slot[r[1]][r[2]].pc \in Holding /\ slot[s[1]][s[2]].pc \in Holding
  BY DEF AtWork, Holding
<1>3. r[1] \in Steady /\ r[2] \in Callers /\ s[1] \in Steady /\ s[2] \in Callers
  BY <1>1
<1>4. row.claimedBy = r[1] /\ row.by = r[2] /\ row.claimedBy = s[1] /\ row.by = s[2]
  BY <1>2, <1>3 DEF HeldWhileRunning
<1>5. r = <<r[1], r[2]>> /\ s = <<s[1], s[2]>>
  BY <1>1
<1> QED BY <1>4, <1>5

\* A step that brings a run to work takes none away.
LEMMA NoSwap ==
    ASSUME TypeInv, [Next]_vars, NEW r \in AtWork, NEW s \in AtWork', s \notin AtWork
    PROVE  r \in AtWork'
<1>0. TypeOK
  BY DEF TypeInv
<1>1. r[1] \in Workers /\ r[2] \in Callers /\ s[1] \in Workers /\ s[2] \in Callers
  BY DEF AtWork, Steady
<1>2. r \in Steady \X Callers /\ s \in Steady \X Callers
  BY DEF AtWork, Steady
<1>3. slot'[s[1]][s[2]] # slot[s[1]][s[2]]
  BY <1>2 DEF AtWork, Steady
<1>4. r # s
  OBVIOUS
<1>5. r[1] # s[1] \/ r[2] # s[2]
  BY <1>2, <1>4
<1>6. ASSUME NEW w \in Workers, NEW c \in Callers,
             \/ Trigger(w, c) \/ Thread(w, c)
             \/ BeatPass(w, c) \/ ClaimThrows(w, c) \/ RunThrows(w, c)
      PROVE  slot'[r[1]][r[2]] = slot[r[1]][r[2]]
  <2>1. Moves(w, c, slot'[w][c])
    BY <1>6, StepMoves
  <2>2. s[1] = w /\ s[2] = c
    BY <1>1, <1>3, <2>1 DEF Moves
  <2> QED BY <1>1, <1>5, <2>1, <2>2 DEF Moves
<1>7. ASSUME NEW w \in Workers, Dies(w)
      PROVE  FALSE
  <2>1. s[1] # w
    BY <1>0, <1>1, <1>7, DiesMoves DEF AtWork, Rest, Running
  <2> QED BY <1>0, <1>1, <1>3, <1>7, <2>1, DiesMoves
<1>8. ~UNCHANGED slot
  BY <1>3
<1>9. slot'[r[1]][r[2]] = slot[r[1]][r[2]]
  BY <1>6, <1>7, <1>8 DEF Next, LeaseExpires, IntervalPasses, SwitchPass, ReleaseAllPasses,
     Drained, Exit, Crash, vars
<1> QED BY <1>2, <1>9 DEF AtWork, Steady

\* Every step of the pass is a step of the mutex or changes nothing in it.
LEMMA MutexStep ==
    ASSUME LeaseInv, LeaseInv', [Next]_vars
    PROVE  [Mutex!Next]_AtWork
<1>1. \A r, s \in AtWork : r = s
  BY AtMostOne DEF LeaseInv
<1>2. \A r, s \in AtWork' : r = s
  <2>1. HeldWhileRunning'
    BY DEF LeaseInv
  <2> SUFFICES ASSUME NEW r \in AtWork', NEW s \in AtWork' PROVE r = s
    OBVIOUS
  <2>2. r \in Steady \X Callers /\ s \in Steady \X Callers
    BY DEF AtWork, Steady
  <2>3. slot'[r[1]][r[2]].pc \in Holding /\ slot'[s[1]][s[2]].pc \in Holding
    BY DEF AtWork, Holding
  <2>4. row'.claimedBy = r[1] /\ row'.by = r[2] /\ row'.claimedBy = s[1] /\ row'.by = s[2]
    BY <2>1, <2>2, <2>3 DEF HeldWhileRunning, Steady
  <2>5. r = <<r[1], r[2]>> /\ s = <<s[1], s[2]>>
    BY <2>2
  <2> QED BY <2>4, <2>5
<1>3. \A r \in AtWork, s \in AtWork' : s \notin AtWork => r \in AtWork'
  BY NoSwap DEF LeaseInv
<1>4. CASE AtWork = {} /\ AtWork' # {}
  <2>1. PICK r \in AtWork' : TRUE
    BY <1>4
  <2>2. AtWork' = {r}
    BY <1>2, <2>1
  <2>3. r \in Steady \X Callers
    BY DEF AtWork, Steady
  <2> QED BY <1>4, <2>2, <2>3 DEF Mutex!Next, Mutex!Start, AtWork
<1>5. CASE AtWork # {} /\ AtWork' = {}
  BY <1>5 DEF Mutex!Next, Mutex!Stop, AtWork
<1>6. CASE AtWork # {} /\ AtWork' # {}
  <2>1. AtWork' = AtWork
    BY <1>1, <1>2, <1>3, <1>6
  <2> QED BY <2>1
<1>7. CASE AtWork = {} /\ AtWork' = {}
  BY <1>7
<1> QED BY <1>4, <1>5, <1>6, <1>7

\* LeaseIsMutex: runWithLease implements PassMutex (OneRunPerPass): among any
\* number of processes that do not stall, beside any number that do, one run of
\* the pass works at a time.
THEOREM LeaseIsMutex == Spec => OneRunPerPass
<1>1. Init => Mutex!Init
  BY DEF Init, Mutex!Init, Steady, Rest, Running
<1>2. LeaseInv /\ LeaseInv' /\ [Next]_vars => [Mutex!Next]_AtWork
  BY MutexStep
<1>3. Spec => []LeaseInv
  BY LeaseInductive, PTL DEF Spec
<1> QED BY <1>1, <1>2, <1>3, PTL DEF Spec, OneRunPerPass, Mutex!Spec, AtWork

-----------------------------------------------------------------------------
(* The cursor *)

Done == digested \cup failed

\* What a run is past has been dealt with, and so has the unit whose cursor it
\* is about to write: the zombie's write, however late, skips nothing.
RunsSkipNone ==
    \A w \in Workers, c \in Callers :
        /\ \A n \in 1..slot[w][c].at : n \in Done
        /\ slot[w][c].pc = "cursor" => slot[w][c].at + 1 \in Done

CursorInv == TypeInv /\ SkipsNone /\ RunsSkipNone

\* A step that moves one slot and forgets no document.
LEMMA SkipsMoved ==
    ASSUME RunsSkipNone, NEW w \in Workers, NEW c \in Callers, Moves(w, c, slot'[w][c]),
           Done \subseteq Done',
           \A n \in 1..slot'[w][c].at : n \in Done',
           slot'[w][c].pc = "cursor" => slot'[w][c].at + 1 \in Done'
    PROVE  RunsSkipNone'
<1> SUFFICES ASSUME NEW v \in Workers, NEW d \in Callers
             PROVE  /\ \A n \in 1..slot'[v][d].at : n \in Done'
                    /\ slot'[v][d].pc = "cursor" => slot'[v][d].at + 1 \in Done'
  BY DEF RunsSkipNone
<1>1. CASE v = w /\ d = c
  BY <1>1
<1>2. CASE v # w \/ d # c
  <2>1. slot'[v][d] = slot[v][d]
    BY <1>2 DEF Moves
  <2> QED BY <2>1 DEF RunsSkipNone
<1> QED BY <1>1, <1>2

\* A step that only changes a program counter, not to "cursor".
LEMMA SkipsWent ==
    ASSUME CursorInv, NEW w \in Workers, NEW c \in Callers, NEW p \in PCs \ {"cursor"},
           Goto(w, c, p), UNCHANGED World, row'.cursor = row.cursor
    PROVE  SkipsNone' /\ RunsSkipNone'
<1>1. Moves(w, c, slot'[w][c]) /\ slot'[w][c].pc # "cursor" /\ slot'[w][c].at = slot[w][c].at
  BY WentFields DEF CursorInv, TypeInv
<1>2. Done' = Done
  BY DEF Done, World
<1>3. \A n \in 1..slot'[w][c].at : n \in Done'
  BY <1>1, <1>2 DEF CursorInv, RunsSkipNone
<1>4. RunsSkipNone'
  BY <1>1, <1>2, <1>3, SkipsMoved DEF CursorInv
<1>5. SkipsNone'
  BY <1>2 DEF CursorInv, SkipsNone, Done
<1> QED BY <1>4, <1>5

\* A step that resets a slot.
LEMMA SkipsReset ==
    ASSUME CursorInv, NEW w \in Workers, NEW c \in Callers, Moves(w, c, slot'[w][c]),
           slot'[w][c].at = 0, slot'[w][c].pc # "cursor",
           UNCHANGED World, row'.cursor = row.cursor
    PROVE  SkipsNone' /\ RunsSkipNone'
<1>1. Done' = Done
  BY DEF Done, World
<1>2. RunsSkipNone'
  BY <1>1, SkipsMoved DEF CursorInv
<1> QED BY <1>1, <1>2 DEF CursorInv, SkipsNone, Done

\* A release leaves the cursor where it is.
LEMMA ReleasedCursor ==
    ASSUME row \in Rows, NEW w \in Workers
    PROVE  Released(w).cursor = row.cursor
BY DEF Released, Rows

\* Steps of a caller skip no document.
LEMMA SkipsCaller ==
    ASSUME CursorInv, NEW w \in Workers, NEW c \in Callers,
           \/ Trigger(w, c) \/ Thread(w, c)
           \/ BeatPass(w, c) \/ ClaimThrows(w, c) \/ RunThrows(w, c)
    PROVE  SkipsNone' /\ RunsSkipNone'
<1>0. TypeInv /\ TypeOK /\ row \in Rows
  BY DEF CursorInv, TypeInv, TypeOK
<1>c. Claimed(w, c).cursor = row.cursor /\ Released(w).cursor = row.cursor
  BY <1>0, ClaimedFields, ReleasedCursor
<1>w. (\E p \in PCs \ {"cursor"} : Goto(w, c, p)) /\ UNCHANGED World /\ row'.cursor = row.cursor
         => SkipsNone' /\ RunsSkipNone'
  BY SkipsWent
<1>1. CASE Trigger(w, c) \/ RateLimit(w, c) \/ Attempt(w, c) \/ StartRun(w, c)
  <2>1. UNCHANGED World /\ row' = row /\ \E p \in PCs \ {"cursor"} : Goto(w, c, p)
    BY <1>1 DEF Trigger, RateLimit, Attempt, StartRun, PCs
  <2> QED BY <1>w, <2>1
<1>2. CASE ClaimPass(w, c) \/ ClaimThrows(w, c)
  <2>1. UNCHANGED World /\ \E p \in PCs \ {"cursor"} : Goto(w, c, p)
    BY <1>2 DEF ClaimPass, ClaimThrows, PCs
  <2>2. row'.cursor = row.cursor
    BY <1>2, <1>c DEF ClaimPass, ClaimThrows
  <2> QED BY <1>w, <2>1, <2>2
<1>3. CASE ForgetRun(w, c) \/ RunThrows(w, c) \/ NextUnit(w, c) \/ Summary(w, c)
  <2>1. UNCHANGED World /\ \E p \in PCs \ {"cursor"} : Goto(w, c, p)
    BY <1>3 DEF ForgetRun, RunThrows, NextUnit, Summary, PCs
  <2>2. row'.cursor = row.cursor
    BY <1>0, <1>3 DEF ForgetRun, RunThrows, NextUnit, Summary, Rows
  <2> QED BY <1>w, <2>1, <2>2
<1>4. CASE BeatPass(w, c)
  <2>1. /\ Moves(w, c, slot'[w][c])
        /\ slot'[w][c].pc = slot[w][c].pc
        /\ slot'[w][c].at = slot[w][c].at
    BY <1>0, <1>4, BeatFields
  <2>2. Done' = Done
    BY <1>4 DEF BeatPass, World, Done
  <2>3. RunsSkipNone'
    BY <2>1, <2>2, SkipsMoved DEF CursorInv, RunsSkipNone
  <2>4. row'.cursor = row.cursor
    BY <1>0, <1>4 DEF BeatPass, Rows
  <2> QED BY <2>2, <2>3, <2>4 DEF CursorInv, SkipsNone, Done
<1>5. CASE HandBack(w, c) \/ ReleasePass(w, c)
  <2>1. Moves(w, c, Rest) \/ Moves(w, c, [Rest EXCEPT !.pc = "forget"])
    BY <1>0, <1>5, RestType, Replaced DEF HandBack, ReleasePass
  <2>2. Rest.at = 0 /\ Rest.pc # "cursor"
    BY DEF Rest
  <2>3. [Rest EXCEPT !.pc = "forget"].at = 0 /\ [Rest EXCEPT !.pc = "forget"].pc # "cursor"
    BY DEF Rest
  <2>4. Moves(w, c, slot'[w][c]) /\ slot'[w][c].at = 0 /\ slot'[w][c].pc # "cursor"
    <3>1. \A x : Moves(w, c, x) => slot'[w][c] = x
      BY DEF Moves
    <3> QED BY <2>1, <2>2, <2>3, <3>1, Zenon
  <2>5. UNCHANGED World
    BY <1>5 DEF HandBack, ReleasePass
  <2>6. row'.cursor = row.cursor
    BY <1>5, <1>c DEF HandBack, ReleasePass
  <2> QED BY <2>4, <2>5, <2>6, SkipsReset
<1>6. CASE ReadCursor(w, c)
  <2>1. Done' = Done /\ row' = row
    BY <1>6 DEF ReadCursor, World, Done
  <2>2. /\ Moves(w, c, slot'[w][c]) /\ slot'[w][c].pc # "cursor"
        /\ slot'[w][c].at \in {row.cursor, slot[w][c].at}
    BY <1>0, <1>6, ReadMoves
  <2>3. \A n \in 1..slot'[w][c].at : n \in Done'
    BY <2>1, <2>2 DEF CursorInv, SkipsNone, RunsSkipNone, Done
  <2>4. RunsSkipNone'
    BY <2>1, <2>2, <2>3, SkipsMoved DEF CursorInv
  <2> QED BY <2>1, <2>4 DEF CursorInv, SkipsNone, Done
<1>7. CASE Digest(w, c)
  <2>1. Done \subseteq Done' /\ row' = row
    BY <1>0, <1>7, DigestMoves DEF Digest, Done
  <2>2. \A n \in 1..slot'[w][c].at : n \in Done'
    BY <1>0, <1>7, <2>1, DigestMoves DEF CursorInv, RunsSkipNone
  <2>3. slot'[w][c].at + 1 \in Done'
    BY <1>0, <1>7, DigestMoves DEF Done
  <2>4. RunsSkipNone'
    BY <1>0, <1>7, <2>1, <2>2, <2>3, DigestMoves, SkipsMoved DEF CursorInv
  <2> QED BY <2>1, <2>4 DEF CursorInv, SkipsNone, Done
<1>8. CASE WriteCursor(w, c)
  <2> DEFINE k == slot[w][c].at
  <2>1. Done' = Done
    BY <1>8 DEF WriteCursor, World, Done
  <2>2. row'.cursor = k + 1
    BY <1>0, <1>8 DEF WriteCursor, Rows
  <2>3. k \in 0..Docs /\ k + 1 \in Done /\ \A n \in 1..k : n \in Done
    BY <1>0, <1>8 DEF WriteCursor, TypeOK, Slots, CursorInv, RunsSkipNone
  <2>4. \A n \in 1..(k + 1) : n \in Done
    BY <2>3, PassAssumption
  <2>5. Moves(w, c, slot'[w][c]) /\ slot'[w][c].at = k + 1 /\ slot'[w][c].pc # "cursor"
    BY <1>0, <1>8, CursorMoves
  <2>6. RunsSkipNone'
    BY <2>1, <2>4, <2>5, SkipsMoved DEF CursorInv
  <2>7. SkipsNone'
    BY <2>1, <2>2, <2>4 DEF SkipsNone, Done
  <2> QED BY <2>6, <2>7
<1> QED BY <1>1, <1>2, <1>3, <1>4, <1>5, <1>6, <1>7, <1>8 DEF Thread

\* The clock, the switch and the processes leave the cursor and the documents
\* alone.
LEMMA ProcessCursor ==
    ASSUME TypeInv,
           \/ LeaseExpires \/ IntervalPasses \/ SwitchPass
           \/ \E w \in Workers : ReleaseAllPasses(w) \/ Drained(w) \/ Exit(w) \/ Crash(w)
    PROVE  /\ row'.cursor = row.cursor
           /\ Done' = Done
           /\ \A v \in Workers, d \in Callers :
                 slot'[v][d] = slot[v][d] \/ slot'[v][d] = Rest
<1>0. row \in Rows /\ TypeOK
  BY DEF TypeInv, TypeOK
<1>1. CASE LeaseExpires \/ IntervalPasses \/ SwitchPass
  BY <1>0, <1>1 DEF LeaseExpires, IntervalPasses, SwitchPass, World, Done, Rows
<1>2. ASSUME NEW w \in Workers, ReleaseAllPasses(w) \/ Drained(w)
      PROVE  UNCHANGED <<row, slot, World>>
  BY <1>2 DEF ReleaseAllPasses, Drained
<1>3. ASSUME NEW w \in Workers, Exit(w) \/ Crash(w)
      PROVE  /\ UNCHANGED <<row, World>>
             /\ \A v \in Workers, d \in Callers :
                   slot'[v][d] = slot[v][d] \/ slot'[v][d] = Rest
  BY <1>0, <1>3, DiesMoves DEF Exit, Crash, Dies
<1> QED BY <1>1, <1>2, <1>3 DEF World, Done

\* The cursor invariant holds at first and every step keeps it.
LEMMA CursorInductive ==
    /\ Init => CursorInv
    /\ CursorInv /\ [Next]_vars => CursorInv'
<1>1. Init => CursorInv
  BY TypeInit DEF Init, CursorInv, SkipsNone, RunsSkipNone, Rest
<1>2. ASSUME CursorInv, [Next]_vars PROVE SkipsNone' /\ RunsSkipNone'
  <2>0. TypeInv
    BY <1>2 DEF CursorInv
  <2>1. CASE \E w \in Workers, c \in Callers :
                \/ Trigger(w, c) \/ Thread(w, c)
                \/ BeatPass(w, c) \/ ClaimThrows(w, c) \/ RunThrows(w, c)
    BY <1>2, <2>1, SkipsCaller
  <2>2. CASE \/ LeaseExpires \/ IntervalPasses \/ SwitchPass
             \/ \E w \in Workers : ReleaseAllPasses(w) \/ Drained(w) \/ Exit(w) \/ Crash(w)
    <3>1. /\ row'.cursor = row.cursor
          /\ Done' = Done
          /\ \A v \in Workers, d \in Callers :
                slot'[v][d] = slot[v][d] \/ slot'[v][d] = Rest
      BY <2>0, <2>2, ProcessCursor
    <3>2. SkipsNone'
      BY <1>2, <3>1 DEF CursorInv, SkipsNone, Done
    <3>3. \A n \in 1..Rest.at : n \in Done'
      BY DEF Rest
    <3>4. Rest.pc # "cursor"
      BY DEF Rest
    <3>5. RunsSkipNone'
      <4> SUFFICES ASSUME NEW v \in Workers, NEW d \in Callers
                   PROVE  /\ \A n \in 1..slot'[v][d].at : n \in Done'
                          /\ slot'[v][d].pc = "cursor" => slot'[v][d].at + 1 \in Done'
        BY DEF RunsSkipNone
      <4>1. CASE slot'[v][d] = slot[v][d]
        BY <1>2, <3>1, <4>1 DEF CursorInv, RunsSkipNone
      <4>2. CASE slot'[v][d] = Rest
        BY <3>3, <3>4, <4>2
      <4> QED BY <3>1, <4>1, <4>2
    <3> QED BY <3>2, <3>5
  <2>3. CASE UNCHANGED vars
    BY <1>2, <2>3 DEF vars, CursorInv, SkipsNone, RunsSkipNone, Done
  <2> QED BY <1>2, <2>1, <2>2, <2>3 DEF Next
<1> QED BY <1>1, <1>2, TypeNext DEF CursorInv

\* NothingSkipped: the cursor never passes a document no run has dealt with
\* (SkipsNone), with any number of crashes, takeovers and zombies.
THEOREM NothingSkipped == Spec => []SkipsNone
<1>1. Spec => []CursorInv
  BY CursorInductive, PTL DEF Spec
<1> QED BY <1>1, PTL DEF CursorInv

\* The run at work stands where the cursor stands.
InStep ==
    \A w \in Workers, c \in Callers :
        slot[w][c].pc \in {"next", "unit", "cursor"} => slot[w][c].at = row.cursor

\* A step of one slot that leaves the cursor alone.
LEMMA InStepMoved ==
    ASSUME InStep, row'.cursor = row.cursor, NEW w \in Workers, NEW c \in Callers,
           Moves(w, c, slot'[w][c]),
           slot'[w][c].pc \in {"next", "unit", "cursor"} => slot'[w][c].at = row.cursor
    PROVE  InStep'
<1> SUFFICES ASSUME NEW v \in Workers, NEW d \in Callers,
                    slot'[v][d].pc \in {"next", "unit", "cursor"}
             PROVE  slot'[v][d].at = row'.cursor
  BY DEF InStep
<1>1. CASE v = w /\ d = c
  BY <1>1
<1>2. CASE v # w \/ d # c
  <2>1. slot'[v][d] = slot[v][d]
    BY <1>2 DEF Moves
  <2> QED BY <2>1 DEF InStep
<1> QED BY <1>1, <1>2

\* With no stalled process the cursor stays or advances by one document.
LEMMA InStepCaller ==
    ASSUME Stalling = {}, LeaseInv, InStep, NEW w \in Workers, NEW c \in Callers,
           \/ Trigger(w, c) \/ Thread(w, c)
           \/ BeatPass(w, c) \/ ClaimThrows(w, c) \/ RunThrows(w, c)
    PROVE  InStep' /\ row'.cursor \in {row.cursor, row.cursor + 1}
<1>0. TypeInv /\ TypeOK /\ row \in Rows /\ HeldWhileRunning
  BY DEF LeaseInv, TypeInv, TypeOK
<1>c. Claimed(w, c).cursor = row.cursor /\ Released(w).cursor = row.cursor
  BY <1>0, ClaimedFields, ReleasedCursor
<1>m. Moves(w, c, slot'[w][c])
  BY <1>0, StepMoves
<1>w. \A p \in PCs : Goto(w, c, p) => slot'[w][c].pc = p /\ slot'[w][c].at = slot[w][c].at
  BY <1>0, WentFields
<1>k. row'.cursor = row.cursor
      /\ (slot'[w][c].pc \in {"next", "unit", "cursor"} => slot'[w][c].at = row.cursor)
         => InStep'
  BY <1>m, InStepMoved
<1>1. CASE Trigger(w, c) \/ RateLimit(w, c) \/ Attempt(w, c) \/ StartRun(w, c)
  <2>1. row' = row /\ \E p \in PCs \ {"next", "unit", "cursor"} : Goto(w, c, p)
    BY <1>1 DEF Trigger, RateLimit, Attempt, StartRun, PCs
  <2> QED BY <1>w, <1>k, <2>1
<1>2. CASE ClaimPass(w, c) \/ ClaimThrows(w, c)
  <2>1. \E p \in PCs \ {"next", "unit", "cursor"} : Goto(w, c, p)
    BY <1>2 DEF ClaimPass, ClaimThrows, PCs
  <2>2. row'.cursor = row.cursor
    BY <1>2, <1>c DEF ClaimPass, ClaimThrows
  <2> QED BY <1>w, <1>k, <2>1, <2>2
<1>3. CASE ForgetRun(w, c) \/ RunThrows(w, c) \/ Summary(w, c)
  <2>1. \E p \in PCs \ {"next", "unit", "cursor"} : Goto(w, c, p)
    BY <1>3 DEF ForgetRun, RunThrows, Summary, PCs
  <2>2. row'.cursor = row.cursor
    BY <1>0, <1>3 DEF ForgetRun, RunThrows, Summary, Rows
  <2> QED BY <1>w, <1>k, <2>1, <2>2
<1>4. CASE NextUnit(w, c)
  <2>1. row' = row /\ slot[w][c].pc = "next" /\ \E p \in PCs : Goto(w, c, p)
    BY <1>4 DEF NextUnit, PCs
  <2> QED BY <1>w, <1>k, <2>1 DEF InStep
<1>5. CASE BeatPass(w, c)
  <2>1. row'.cursor = row.cursor
    BY <1>0, <1>5 DEF BeatPass, Rows
  <2> QED BY <1>0, <1>5, <1>k, <2>1, BeatFields DEF InStep
<1>6. CASE HandBack(w, c) \/ ReleasePass(w, c)
  <2>1. slot'[w][c] = Rest \/ slot'[w][c] = [Rest EXCEPT !.pc = "forget"]
    BY <1>0, <1>6 DEF HandBack, ReleasePass, TypeOK
  <2>2. slot'[w][c].pc \notin {"next", "unit", "cursor"}
    BY <2>1 DEF Rest
  <2>3. row'.cursor = row.cursor
    BY <1>6, <1>c DEF HandBack, ReleasePass
  <2> QED BY <1>k, <2>2, <2>3
<1>7. CASE ReadCursor(w, c)
  BY <1>0, <1>7, <1>k, ReadMoves DEF ReadCursor
<1>8. CASE Digest(w, c)
  <2>1. row' = row /\ slot[w][c].pc = "unit"
    BY <1>8 DEF Digest
  <2> QED BY <1>0, <1>8, <1>k, <2>1, DigestMoves DEF InStep
<1>9. CASE WriteCursor(w, c)
  <2>1. slot[w][c].pc = "cursor" /\ slot[w][c].at = row.cursor
    BY <1>9 DEF WriteCursor, InStep
  <2>2. row'.cursor = row.cursor + 1
    BY <1>0, <1>9, <2>1 DEF WriteCursor, Rows
  <2>3. InStep'
    <3> SUFFICES ASSUME NEW v \in Workers, NEW d \in Callers,
                        slot'[v][d].pc \in {"next", "unit", "cursor"}
                 PROVE  slot'[v][d].at = row'.cursor
      BY DEF InStep
    <3>1. row.claimedBy = w /\ row.by = c
      BY <1>0, <2>1 DEF HeldWhileRunning, Steady, Holding, Running
    <3>2. CASE v = w /\ d = c
      BY <1>0, <1>9, <2>1, <2>2, <3>2, CursorMoves
    <3>3. CASE v # w \/ d # c
      <4>1. slot[v][d].pc \in Holding
        BY <1>m, <3>3 DEF Moves, Holding, Running
      <4>2. row.claimedBy = v /\ row.by = d
        BY <1>0, <4>1 DEF HeldWhileRunning, Steady
      <4> QED BY <3>1, <3>3, <4>2
    <3> QED BY <3>2, <3>3
  <2> QED BY <2>2, <2>3
<1> QED BY <1>1, <1>2, <1>3, <1>4, <1>5, <1>6, <1>7, <1>8, <1>9 DEF Thread

\* CursorOnlyAdvances: as long as no process stalls past the lease, no run
\* moves the cursor back or over a document (CursorAdvances), although the
\* update is not fenced: the lease is what orders the runs.
THEOREM CursorOnlyAdvances ==
    ASSUME Stalling = {} PROVE Spec => CursorAdvances
<1> DEFINE Inv == LeaseInv /\ InStep
<1>1. Init => Inv
  BY LeaseInductive DEF Init, InStep, Rest
<1>2. ASSUME Inv, [Next]_vars
      PROVE  InStep' /\ row'.cursor \in {row.cursor, row.cursor + 1}
  <2>0. TypeInv
    BY <1>2 DEF LeaseInv
  <2>1. CASE \E w \in Workers, c \in Callers :
                \/ Trigger(w, c) \/ Thread(w, c)
                \/ BeatPass(w, c) \/ ClaimThrows(w, c) \/ RunThrows(w, c)
    BY <1>2, <2>1, InStepCaller
  <2>2. CASE \/ LeaseExpires \/ IntervalPasses \/ SwitchPass
             \/ \E w \in Workers : ReleaseAllPasses(w) \/ Drained(w) \/ Exit(w) \/ Crash(w)
    <3>1. /\ row'.cursor = row.cursor
          /\ \A v \in Workers, d \in Callers :
                slot'[v][d] = slot[v][d] \/ slot'[v][d] = Rest
      BY <2>0, <2>2, ProcessCursor
    <3> QED BY <1>2, <3>1 DEF InStep, Rest
  <2>3. CASE UNCHANGED vars
    BY <1>2, <2>3 DEF vars, InStep
  <2> QED BY <1>2, <2>1, <2>2, <2>3 DEF Next
<1>3. Inv /\ [Next]_vars => Inv'
  BY <1>2, LeaseInductive
<1>4. Inv /\ [Next]_vars => [row'.cursor \in {row.cursor, row.cursor + 1}]_vars
  BY <1>2
<1> HIDE DEF Inv
<1> QED BY <1>1, <1>3, <1>4, PTL DEF Spec, CursorAdvances

-----------------------------------------------------------------------------
(* The drain *)

\* An attempt becomes or stays pending only in a process that is up, or that
\* was waited for already.
LEMMA PendingStays ==
    ASSUME TypeInv, NEW w \in Workers, NEW c \in Callers,
           \/ Trigger(w, c) \/ Thread(w, c)
           \/ BeatPass(w, c) \/ ClaimThrows(w, c) \/ RunThrows(w, c)
    PROVE  /\ UNCHANGED phase
           /\ slot'[w][c].pc \in Pending => slot[w][c].pc \in Pending \/ phase[w] = "up"
<1>0. TypeOK
  BY DEF TypeInv
<1>w. \A p \in PCs : Goto(w, c, p) => slot'[w][c].pc = p
  BY <1>0, WentFields
<1>1. CASE Trigger(w, c) \/ RateLimit(w, c) \/ ForgetRun(w, c) \/ RunThrows(w, c)
  <2>1. UNCHANGED phase /\ \E p \in PCs \ Pending : Goto(w, c, p)
    BY <1>1 DEF Trigger, RateLimit, ForgetRun, RunThrows, PCs, Pending
  <2> QED BY <1>w, <2>1
<1>2. CASE NextUnit(w, c) \/ Summary(w, c)
  <2>1. UNCHANGED phase /\ \E p \in PCs \ Pending : Goto(w, c, p)
    BY <1>2 DEF NextUnit, Summary, PCs, Pending
  <2> QED BY <1>w, <2>1
<1>3. CASE Attempt(w, c)
  <2>1. CASE ShuttingDown(w)
    BY <1>3, <1>w, <2>1 DEF Attempt, PCs, Pending
  <2>2. CASE ~ShuttingDown(w)
    BY <1>3, <2>2 DEF Attempt, ShuttingDown
  <2> QED BY <2>1, <2>2
<1>4. CASE ClaimPass(w, c) \/ ClaimThrows(w, c) \/ StartRun(w, c)
  BY <1>4 DEF ClaimPass, ClaimThrows, StartRun, Pending
<1>5. CASE HandBack(w, c) \/ ReleasePass(w, c)
  <2>1. slot'[w][c] = Rest \/ slot'[w][c] = [Rest EXCEPT !.pc = "forget"]
    BY <1>0, <1>5 DEF HandBack, ReleasePass, TypeOK
  <2> QED BY <1>5, <2>1 DEF HandBack, ReleasePass, Rest, Pending
<1>6. CASE BeatPass(w, c)
  BY <1>0, <1>6, BeatFields DEF BeatPass
<1>7. CASE ReadCursor(w, c)
  BY <1>0, <1>7, ReadMoves DEF ReadCursor, Pending
<1>8. CASE Digest(w, c)
  BY <1>8, DigestMoves DEF Digest, Pending
<1>9. CASE WriteCursor(w, c)
  BY <1>9, CursorMoves DEF WriteCursor, Pending
<1> QED BY <1>1, <1>2, <1>3, <1>4, <1>5, <1>6, <1>7, <1>8, <1>9 DEF Thread

\* DrainIsClosed: once releaseAllPasses has returned, no claim of the process
\* is under way or ever starts (DrainedIsClosed), for any number of callers.
THEOREM DrainIsClosed == Spec => []DrainedIsClosed
<1> DEFINE Inv == TypeInv /\ DrainedIsClosed
<1>1. Init => Inv
  BY TypeInit DEF Init, DrainedIsClosed
<1>2. ASSUME Inv, [Next]_vars PROVE DrainedIsClosed'
  <2>0. TypeInv /\ TypeOK /\ DrainedIsClosed
    BY <1>2 DEF TypeInv
  <2> SUFFICES ASSUME NEW v \in Workers, NEW d \in Callers,
                      phase'[v] = "drained", slot'[v][d].pc \in Pending
               PROVE  FALSE
    BY DEF DrainedIsClosed
  <2>1. ASSUME NEW w \in Workers, NEW c \in Callers,
               \/ Trigger(w, c) \/ Thread(w, c)
               \/ BeatPass(w, c) \/ ClaimThrows(w, c) \/ RunThrows(w, c)
        PROVE  FALSE
    <3>1. phase[v] = "drained"
      BY <2>0, <2>1, PendingStays
    <3>2. slot[v][d].pc \notin Pending
      BY <2>0, <3>1 DEF DrainedIsClosed
    <3>3. Moves(w, c, slot'[w][c])
      BY <2>0, <2>1, StepMoves
    <3>4. v = w /\ d = c
      BY <3>2, <3>3 DEF Moves
    <3> QED BY <2>0, <2>1, <3>1, <3>2, <3>4, PendingStays
  <2>2. CASE LeaseExpires \/ IntervalPasses \/ SwitchPass \/ UNCHANGED vars
    BY <2>0, <2>2 DEF LeaseExpires, IntervalPasses, SwitchPass, vars, DrainedIsClosed
  <2>3. ASSUME NEW w \in Workers, ReleaseAllPasses(w) PROVE FALSE
    BY <2>0, <2>3 DEF ReleaseAllPasses, DrainedIsClosed, TypeOK
  <2>4. ASSUME NEW w \in Workers, Drained(w) PROVE FALSE
    BY <2>0, <2>4 DEF Drained, DrainedIsClosed, TypeOK
  <2>5. ASSUME NEW w \in Workers, Dies(w) PROVE FALSE
    <3>1. v # w
      BY <2>0, <2>5 DEF Dies, TypeOK
    <3>2. slot'[v][d] = slot[v][d] /\ phase'[v] = phase[v]
      BY <2>0, <2>5, <3>1, DiesMoves DEF Dies, TypeOK
    <3> QED BY <2>0, <3>2 DEF DrainedIsClosed
  <2> QED BY <1>2, <2>1, <2>2, <2>3, <2>4, <2>5 DEF Next, Exit, Crash
<1>3. Inv /\ [Next]_vars => Inv'
  BY <1>2, TypeNext
<1> QED BY <1>1, <1>3, PTL DEF Spec

=============================================================================

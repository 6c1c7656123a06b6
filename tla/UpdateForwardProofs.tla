------------------------ MODULE UpdateForwardProofs -------------------------
(***************************************************************************)
(* Proofs about UpdateAgent: when the installed release never goes         *)
(* backwards.  It is so in every behaviour in which updates are applied    *)
(* one at a time, and they are in every behaviour in which nothing throws, *)
(* nobody calls apply-now and the window does not open beside a supervisor.*)
(***************************************************************************)
EXTENDS UpdateAgentProofs

-----------------------------------------------------------------------------
(* The inductive invariants *)

\* The runner there has yet to begin its swap.
EarlyPCs == {"select", "claim", "dispatch", "floor"} \cup VerifyPCs

\* The runner there applies or settles an update.
BusyPCs == EarlyPCs \cup SwapPCs \cup ResumePCs

NoneApplying == \A i \in Ids : status[i] # "applying"

\* Updates are applied one at a time: no two runners are at it, and none begins
\* while an earlier one waits for its verdict.
OneAtATime ==
    /\ \A t, u \in Runners : pc[t] \in BusyPCs /\ pc[u] \in BusyPCs => t = u
    /\ \A t \in Runners : pc[t] = "claim" => NoneApplying

\* One row is applied at a time, and none before its swap begins.
Solo ==
    /\ \A i, j \in Ids : status[i] = "applying" /\ status[j] = "applying" => i = j
    /\ \A t \in Runners : pc[t] \in EarlyPCs => NoneApplying

\* The installed row is a committed one, and the one whose services are started.
InstalledOK ==
    /\ installed # 0 => status[installed] = "committed"
    /\ pc[Boot] = "starting" => installed = work[Boot]

\* What is verified or applied is newer than what is installed.
Newer ==
    installed # 0 =>
        /\ \A i \in Ids : status[i] = "applying" => release[i] > release[installed]
        /\ \A t \in Runners : pc[t] \in VerifyPCs => release[work[t]] > release[installed]

Orderly == Solo /\ InstalledOK /\ Newer

\* What NeverBackwards says of a step.
Forward == installed # 0 => release[installed'] >= release[installed]

\* Nothing has thrown, nobody asks for an update, and the window does not open
\* while a supervisor is at work.
Calm ==
    /\ faults = 0
    /\ \A o \in Operators : pc[o] = "idle"
    /\ pc[Window] = "claim" => \A i \in Ids : helper[i] = "none"

\* Somebody is going to settle the row: the next boot, the runner that swaps it, or
\* the supervisor, which restarts the process.
Tended(i) ==
    \/ pc[Boot] = "resume"
    \/ pc[Boot] \in ResumePCs /\ work[Boot] = i
    \/ \E t \in Runners : pc[t] \in SwapPCs /\ work[t] = i
    \/ helper[i] = "swap"

\* The window runs after the resume hook, and no row is left behind.
Attended ==
    /\ pc[Window] # "idle" => pc[Boot] \in {"idle", "starting"}
    /\ \A i \in Ids : status[i] = "applying" => Tended(i)

-----------------------------------------------------------------------------
(* The shapes of a step *)

\* A step that begins no swap, commits nothing and lets no stale row through.
Kept ==
    /\ installed' = installed
    /\ \A i \in Ids :
        /\ status[i] # "none" => release'[i] = release[i]
        /\ status[i] = "committed" => status'[i] = "committed"
        /\ status'[i] = "applying" => status[i] = "applying"
    /\ \A t \in Runners :
        /\ pc'[t] \in EarlyPCs => pc[t] \in EarlyPCs \/ pc'[t] = "claim" \/ NoneApplying
        /\ pc'[t] \in VerifyPCs =>
            /\ work'[t] = work[t]
            /\ pc[t] \in VerifyPCs \/ (pc[t] = "floor" /\ ~Stale(work[t]))
    /\ pc'[Boot] = "starting" => pc[Boot] = "starting" /\ work'[Boot] = work[Boot]

\* The runner goes to n, along the apply or out of it; unless it throws, it leaves
\* its row settled or to the supervisor.
Moves(t, n) ==
    /\ pc' = [pc EXCEPT ![t] = n]
    /\ work' = work /\ installed' = installed /\ release' = release
    /\ \A i \in Ids :
        /\ status[i] = "committed" => status'[i] = "committed"
        /\ status'[i] = "applying" => status[i] = "applying"
        /\ helper[i] = "swap" => helper'[i] = "swap"
    /\ pc[t] \notin {"idle", "starting"} /\ n \notin {"resume", "select", "claim", "starting"}
    /\ n \in EarlyPCs => pc[t] \in EarlyPCs
    /\ n \in VerifyPCs => pc[t] \in VerifyPCs \/ (pc[t] = "floor" /\ ~Stale(work[t]))
    /\ faults' = faults =>
        /\ pc[t] # "resume"
        /\ pc[t] \in SwapPCs \cup ResumePCs =>
            \/ pc[t] \in SwapPCs /\ n \in SwapPCs
            \/ pc[t] \in ResumePCs /\ n \in ResumePCs
            \/ status'[work[t]] # "applying" \/ helper'[work[t]] = "swap"

\* Everyone stays where it is, and no swap begins.
Still ==
    /\ pc' = pc /\ work' = work /\ installed' = installed
    /\ \A i \in Ids :
        /\ status[i] # "none" => release'[i] = release[i]
        /\ status[i] = "committed" => status'[i] = "committed"
        /\ status'[i] = "applying" => status[i] = "applying"
        /\ helper[i] = "swap" => helper'[i] = "swap"

\* The process is a new one.
Boots ==
    /\ pc' = [t \in Runners |-> IF t = Boot THEN "resume" ELSE "idle"]
    /\ status' = status /\ release' = release /\ installed' = installed

USE UpdateAssumption DEF Ids, Images, Statuses, Applicable, Verdicts, Outcomes, Runners, PCs,
    ApplyPCs, ResumePCs, BackedPCs, BootPCs, VerifyPCs, SwapPCs, EarlyPCs, BusyPCs, Applied,
    RowPCs, Services, rowVars, boxVars, helperVars, settings, bounds

\* Releases are numbers.
LEMMA InstalledNat ==
    ASSUME Inv
    PROVE  /\ \A i \in Ids : release[i] \in Nat
           /\ installed # 0 => installed \in Ids /\ release[installed] \in Nat
  <1>1. Images \subseteq Nat
    OBVIOUS
  <1>2. QED
    BY <1>1 DEF Inv, TypeOK

\* A kept step keeps the order.
LEMMA KeptOrderly ==
    ASSUME Inv, Inv', Orderly, OneAtATime', Kept
    PROVE  Orderly' /\ Forward
  <1>1. Solo'
    <2>1. \A i, j \in Ids : status'[i] = "applying" /\ status'[j] = "applying" => i = j
      BY DEF Orderly, Solo, Kept
    <2>2. ASSUME NEW t \in Runners, pc'[t] \in EarlyPCs PROVE NoneApplying'
      <3>1. CASE pc'[t] = "claim"
        BY <3>1 DEF OneAtATime
      <3>2. CASE pc'[t] # "claim"
        <4>1. NoneApplying
          BY <2>2, <3>2 DEF Orderly, Solo, Kept
        <4>2. QED
          BY <4>1 DEF NoneApplying, Kept
      <3>3. QED
        BY <3>1, <3>2
    <2>3. QED
      BY <2>1, <2>2 DEF Solo
  <1>2. InstalledOK'
    BY DEF Orderly, InstalledOK, Kept, Inv, TypeOK
  <1>3. ASSUME installed # 0
        PROVE  installed \in Ids /\ release'[installed] = release[installed] /\ release[installed] \in Nat
    <2>1. installed \in Ids /\ status[installed] = "committed" /\ Images \subseteq Nat
      BY <1>3 DEF Orderly, InstalledOK, Inv, TypeOK
    <2>2. release'[installed] = release[installed]
      BY <2>1 DEF Kept
    <2>3. QED
      BY <2>1, <2>2 DEF Inv, TypeOK
  <1>4. Newer'
    <2>1. SUFFICES ASSUME installed # 0
                   PROVE  /\ \A i \in Ids : status'[i] = "applying" => release'[i] > release[installed]
                          /\ \A t \in Runners : pc'[t] \in VerifyPCs => release'[work'[t]] > release[installed]
      BY <1>3 DEF Newer, Kept
    <2>2. ASSUME NEW i \in Ids, status'[i] = "applying" PROVE release'[i] > release[installed]
      BY <2>1, <2>2 DEF Orderly, Newer, Kept
    <2>3. ASSUME NEW t \in Runners, pc'[t] \in VerifyPCs PROVE release'[work'[t]] > release[installed]
      <3>1. /\ work'[t] = work[t]
            /\ pc[t] \in VerifyPCs \/ (pc[t] = "floor" /\ ~Stale(work[t]))
        BY <2>3 DEF Kept
      <3>2. work[t] \in Ids /\ status[work[t]] # "none" /\ release[work[t]] \in Nat
        <4>1. work[t] \in Ids /\ status[work[t]] # "none" /\ Images \subseteq Nat
          BY <3>1 DEF Inv, Control, RunnerOK
        <4>2. QED
          BY <4>1 DEF Inv, TypeOK
      <3>3. release'[work[t]] = release[work[t]]
        BY <3>2 DEF Kept
      <3>4. release[work[t]] > release[installed]
        BY <1>3, <2>1, <3>1, <3>2 DEF Orderly, Newer, Stale
      <3>5. QED
        BY <3>1, <3>3, <3>4
    <2>4. QED
      BY <2>2, <2>3
  <1>5. Forward
    BY <1>3 DEF Forward, Kept
  <1>6. QED
    BY <1>1, <1>2, <1>4, <1>5 DEF Orderly

\* A move of one runner is kept.
LEMMA MovesKept ==
    ASSUME Inv, NEW t \in Runners, NEW n \in PCs, Moves(t, n)
    PROVE  Kept
  <1>1. pc'[t] = n /\ \A u \in Runners : u # t => pc'[u] = pc[u]
    BY DEF Moves, Inv, TypeOK
  <1>2. ASSUME NEW u \in Runners
        PROVE  /\ pc'[u] \in EarlyPCs => pc[u] \in EarlyPCs
               /\ pc'[u] \in VerifyPCs => pc[u] \in VerifyPCs \/ (pc[u] = "floor" /\ ~Stale(work[u]))
               /\ pc'[u] = "starting" => pc[u] = "starting"
    <2>1. CASE u = t
      BY <1>1, <2>1 DEF Moves
    <2>2. CASE u # t
      BY <1>1, <2>2
    <2>3. QED
      BY <2>1, <2>2
  <1>3. QED
    BY <1>2 DEF Kept, Moves

\* So are a step that moves nobody and a restart.
LEMMA StillKept ==
    ASSUME Still \/ Boots
    PROVE  Kept
  BY DEF Still, Boots, Kept

-----------------------------------------------------------------------------
(* The moves: what a step of a runner does to its place, its row and the
   supervisor *)

\* What a transition does to the table and the runner.
LEMMA AdvanceMoves ==
    ASSUME Inv, NEW t \in Runners, NEW to \in Statuses \ {"applying"}, NEW v, NEW n, work[t] \in Ids,
           Advance(t, work[t], to, v, n)
    PROVE  /\ pc' = [pc EXCEPT ![t] = n] \/ pc' = [pc EXCEPT ![t] = Thrown(t)]
           /\ \A i \in Ids : /\ status[i] = "committed" => status'[i] = "committed"
                             /\ status'[i] = "applying" => status[i] = "applying"
           /\ to \in {"rolled_back", "failed"} /\ status[work[t]] = "applying" => status'[work[t]] = to
  <1>1. CASE to \in AllowedTransitions[status[work[t]]]
    <2>1. status[work[t]] # "committed"
      BY <1>1 DEF AllowedTransitions
    <2>2. status' = [status EXCEPT ![work[t]] = to] /\ pc' = [pc EXCEPT ![t] = n]
      BY <1>1 DEF Advance, Goto
    <2>3. QED
      BY <2>1, <2>2 DEF Inv, TypeOK
  <1>2. CASE to \notin AllowedTransitions[status[work[t]]]
    <2>1. status' = status /\ pc' = [pc EXCEPT ![t] = Thrown(t)]
      BY <1>2 DEF Advance, Goto
    <2>2. status[work[t]] = "applying" => to \notin {"rolled_back", "failed"}
      BY <1>2 DEF AllowedTransitions
    <2>3. QED
      BY <2>1, <2>2
  <1>3. QED
    BY <1>1, <1>2

LEMMA MovesClaim ==
    ASSUME Inv, NEW t \in Runners, Claim(t)
    PROVE  \E n \in PCs : Moves(t, n)
  BY DEF Claim, Goto,
      Inv, TypeOK, Control, RunnerOK, Moves

LEMMA MovesDispatch ==
    ASSUME Inv, NEW t \in Runners, Dispatch(t)
    PROVE  \E n \in PCs : Moves(t, n)
  BY DEF Dispatch, Goto,
      Inv, TypeOK, Control, RunnerOK, Moves

LEMMA MovesRelease ==
    ASSUME Inv, NEW t \in Runners, Release(t)
    PROVE  \E n \in PCs : Moves(t, n)
  BY DEF Release, Goto,
      Inv, TypeOK, Control, RunnerOK, Moves

LEMMA MovesFloor ==
    ASSUME Inv, NEW t \in Runners, Floor(t)
    PROVE  \E n \in PCs : Moves(t, n)
  <1>1. pc[t] = "floor" /\ work[t] \in Ids /\ UNCHANGED <<work, installed, release, helper>>
    BY DEF Floor, Inv, Control, RunnerOK
  <1>2. Thrown(t) = "release"
    BY <1>1 DEF Thrown
  <1>3. \/ ~Stale(work[t]) /\ pc' = [pc EXCEPT ![t] = "fetch"]
        \/ pc' = [pc EXCEPT ![t] = "release"]
    <2>1. CASE Stale(work[t]) /\ Advance(t, work[t], "superseded", outcome[work[t]], "release")
      BY <1>2, <2>1 DEF Advance, Goto
    <2>2. CASE ~Stale(work[t]) /\ Advance(t, work[t], "verifying", outcome[work[t]], "fetch")
      BY <1>2, <2>2 DEF Advance, Goto
    <2>3. CASE Goto(t, "release") \/ (~Stale(work[t]) /\ Goto(t, "fetch"))
      BY <2>3 DEF Goto
    <2>4. QED
      BY <2>1, <2>2, <2>3 DEF Floor
  <1>4. \A i \in Ids : /\ status[i] = "committed" => status'[i] = "committed"
                       /\ status'[i] = "applying" => status[i] = "applying"
    BY <1>1, AdvanceMoves DEF Floor
  <1>5. CASE ~Stale(work[t]) /\ pc' = [pc EXCEPT ![t] = "fetch"]
    <2>1. Moves(t, "fetch")
      BY <1>1, <1>4, <1>5 DEF Moves
    <2>2. QED
      BY <2>1
  <1>6. CASE pc' = [pc EXCEPT ![t] = "release"]
    <2>1. Moves(t, "release")
      BY <1>1, <1>4, <1>6 DEF Moves
    <2>2. QED
      BY <2>1
  <1>7. QED
    BY <1>3, <1>5, <1>6

\* A check lets the release through or rejects it.
LEMMA MovesChecks ==
    ASSUME Inv, NEW t \in Runners, NEW at \in VerifyPCs, NEW next \in VerifyPCs, Checks(t, at, next)
    PROVE  \E n \in PCs : Moves(t, n)
  <1>1. pc[t] \in VerifyPCs /\ work[t] \in Ids /\ UNCHANGED <<work, installed, release, helper>>
    BY DEF Checks, Inv, Control, RunnerOK
  <1>2. Thrown(t) = "release"
    BY <1>1 DEF Thrown
  <1>3. pc' = [pc EXCEPT ![t] = next] \/ pc' = [pc EXCEPT ![t] = "release"]
    <2>1. CASE Goto(t, next)
      BY <2>1 DEF Goto
    <2>2. CASE Advance(t, work[t], "rejected", outcome[work[t]], "release")
      BY <1>2, <2>2 DEF Advance, Goto
    <2>3. QED
      BY <2>1, <2>2 DEF Checks
  <1>4. \A i \in Ids : /\ status[i] = "committed" => status'[i] = "committed"
                       /\ status'[i] = "applying" => status[i] = "applying"
    BY <1>1, AdvanceMoves DEF Checks
  <1>5. ASSUME NEW n \in VerifyPCs \cup {"release"}, pc' = [pc EXCEPT ![t] = n] PROVE Moves(t, n)
    BY <1>1, <1>4, <1>5 DEF Moves
  <1>6. QED
    BY <1>3, <1>5

LEMMA MovesFetch ==
    ASSUME Inv, NEW t \in Runners, Fetch(t)
    PROVE  \E n \in PCs : Moves(t, n)
  BY MovesChecks DEF Fetch

LEMMA MovesSnapshot ==
    ASSUME Inv, NEW t \in Runners, Snapshot(t)
    PROVE  \E n \in PCs : Moves(t, n)
  BY DEF Snapshot, Goto,
      Inv, TypeOK, Control, RunnerOK, Moves

LEMMA MovesPull ==
    ASSUME Inv, NEW t \in Runners, Pull(t)
    PROVE  \E n \in PCs : Moves(t, n)
  BY MovesChecks DEF Pull

LEMMA MovesStage ==
    ASSUME Inv, NEW t \in Runners, Stage(t)
    PROVE  \E n \in PCs : Moves(t, n)
  BY DEF Stage, Goto,
      Inv, TypeOK, Control, RunnerOK, Moves

LEMMA MovesReconcile ==
    ASSUME Inv, NEW t \in Runners, Reconcile(t)
    PROVE  \E n \in PCs : Moves(t, n)
  BY DEF Reconcile, Goto,
      Inv, TypeOK, Control, RunnerOK, Moves

LEMMA MovesRefuse ==
    ASSUME Inv, NEW t \in Runners, Refuse(t)
    PROVE  \E n \in PCs : Moves(t, n)
  BY DEF Refuse, Advance, Goto, Thrown, AllowedTransitions,
      Inv, TypeOK, Control, RunnerOK, Moves

LEMMA MovesRecreate ==
    ASSUME Inv, NEW t \in Runners, Recreate(t)
    PROVE  \E n \in PCs : Moves(t, n)
  BY DEF Recreate, Recreates, Fault, Goto, Thrown,
      Inv, TypeOK, Control, RunnerOK, Moves

LEMMA MovesGate ==
    ASSUME Inv, NEW t \in Runners, Gate(t)
    PROVE  \E n \in PCs : Moves(t, n)
  BY DEF Gate, Goto,
      Inv, TypeOK, Control, RunnerOK, Moves

LEMMA MovesSwap ==
    ASSUME Inv, NEW t \in Runners, Swap(t)
    PROVE  \E n \in PCs : Moves(t, n)
  BY DEF Swap, Launch, Goto,
      Inv, TypeOK, Control, RunnerOK, Moves

LEMMA MovesRestore ==
    ASSUME Inv, NEW t \in Runners, Restore(t)
    PROVE  \E n \in PCs : Moves(t, n)
  BY DEF Restore, Goto,
      Inv, TypeOK, Control, RunnerOK, Moves

LEMMA MovesUnswap ==
    ASSUME Inv, NEW t \in Runners, Unswap(t)
    PROVE  \E n \in PCs : Moves(t, n)
  <1>1. /\ pc[t] \in {"unswap", "undoSidecars"}
        /\ UNCHANGED <<status, work, installed, release, helper>>
    BY DEF Unswap
  <1>2. \/ /\ pc' = [pc EXCEPT ![t] = IF pc[t] = "unswap" THEN "regate" ELSE "undoSelf"]
           /\ UNCHANGED bounds
        \/ Fault /\ pc' = [pc EXCEPT ![t] = Thrown(t)]
    BY DEF Unswap, Recreates, Goto
  <1>3. CASE pc[t] = "unswap" /\ pc' = [pc EXCEPT ![t] = "regate"]
    BY <1>1, <1>3 DEF Moves
  <1>4. CASE pc[t] = "undoSidecars" /\ pc' = [pc EXCEPT ![t] = "undoSelf"]
    BY <1>1, <1>4 DEF Moves
  <1>5. CASE Fault /\ pc' = [pc EXCEPT ![t] = Thrown(t)]
    <2>1. faults' # faults
      BY <1>5 DEF Fault, Inv, TypeOK
    <2>2. Thrown(t) \in {"release", "idle"}
      BY DEF Thrown
    <2>3. Moves(t, Thrown(t))
      BY <1>1, <1>5, <2>1, <2>2 DEF Moves
    <2>4. QED
      BY <2>2, <2>3
  <1>6. QED
    BY <1>1, <1>2, <1>3, <1>4, <1>5

\* The verdict settles the row.
LEMMA MovesVerdict ==
    ASSUME Inv, NEW t \in Runners, NEW n \in {"release", "idle"}, pc[t] \in {"regate", "verdict"},
           Thrown(t) = n, Verdict(t, work[t], n)
    PROVE  Moves(t, n)
  <1>1. /\ work[t] \in Ids /\ status[work[t]] = "applying"
        /\ UNCHANGED <<work, installed, release, helper>>
    BY DEF Verdict, Inv, Control, RunnerOK
  <1>2. PICK to \in {"rolled_back", "failed"} : \E v \in Outcomes : Advance(t, work[t], to, v, n)
    BY DEF Verdict
  <1>3. pc' = [pc EXCEPT ![t] = n] /\ status'[work[t]] = to
    BY <1>1, <1>2, AdvanceMoves
  <1>4. \A i \in Ids : /\ status[i] = "committed" => status'[i] = "committed"
                       /\ status'[i] = "applying" => status[i] = "applying"
    BY <1>1, <1>2, AdvanceMoves
  <1>5. QED
    BY <1>1, <1>3, <1>4 DEF Moves

LEMMA MovesRegate ==
    ASSUME Inv, NEW t \in Runners, Regate(t)
    PROVE  \E n \in PCs : Moves(t, n)
  <1>1. pc[t] = "regate" /\ Thrown(t) = "release" /\ Verdict(t, work[t], "release")
    BY DEF Regate, Thrown
  <1>2. QED
    BY <1>1, MovesVerdict

LEMMA MovesThrow ==
    ASSUME Inv, NEW t \in Runners, Throw(t)
    PROVE  \E n \in PCs : Moves(t, n)
  <1>1. faults' # faults
    BY DEF Throw, Fault, Inv, TypeOK
  <1>2. pc[t] \notin {"idle", "starting"} /\ UNCHANGED <<status, work, installed, release, helper>>
    BY DEF Throw
  <1>3. PICK n \in {"release", "idle"} : pc' = [pc EXCEPT ![t] = n]
    BY DEF Throw, Goto, Thrown
  <1>4. Moves(t, n)
    BY <1>1, <1>2, <1>3 DEF Moves
  <1>5. QED
    BY <1>4

LEMMA MovesBootVerdict ==
    ASSUME Inv, NEW t \in Runners, t = Boot, BootVerdict
    PROVE  \E n \in PCs : Moves(t, n)
  <1>1. pc[t] = "verdict" /\ Thrown(t) = "idle" /\ Verdict(t, work[t], "idle")
    BY DEF BootVerdict, Thrown
  <1>2. QED
    BY <1>1, MovesVerdict

LEMMA MovesUndoSelf ==
    ASSUME Inv, NEW t \in Runners, t = Boot, UndoSelf
    PROVE  \E n \in PCs : Moves(t, n)
  BY DEF UndoSelf, Launch, Goto,
      Inv, TypeOK, Control, RunnerOK, Moves

\* All of them.
LEMMA RunnersMove ==
    ASSUME Inv, NEW t \in Runners,
           \/ Claim(t) \/ Dispatch(t) \/ Release(t) \/ Floor(t) \/ Fetch(t) \/ Snapshot(t)
           \/ Pull(t) \/ Stage(t) \/ Reconcile(t) \/ Refuse(t)
           \/ Recreate(t) \/ Gate(t) \/ Swap(t) \/ Restore(t) \/ Unswap(t)
           \/ Regate(t) \/ Throw(t) \/ (t = Boot /\ (BootVerdict \/ UndoSelf))
    PROVE  \E n \in PCs : Moves(t, n)
  BY Zenon, MovesClaim, MovesDispatch, MovesRelease, MovesFloor, MovesFetch, MovesSnapshot, MovesPull,
      MovesStage, MovesReconcile, MovesRefuse, MovesRecreate, MovesGate, MovesSwap, MovesRestore,
      MovesUnswap, MovesRegate, MovesThrow, MovesBootVerdict, MovesUndoSelf

-----------------------------------------------------------------------------
(* The steps that move nobody, and the restarts *)

\* A poll records a release, and moves nobody.
LEMMA StillPolls ==
    ASSUME Inv, NEW p \in Pollers,
           (\E r \in Releases : PollCheck(p, r)) \/ (\E i \in Ids : PollCreate(p, i))
    PROVE  Still
  <1>1. CASE \E r \in Releases : PollCheck(p, r)
    BY <1>1 DEF PollCheck, Still
  <1>2. CASE \E i \in Ids : PollCreate(p, i)
    BY <1>2 DEF PollCreate, Rows, Still, Inv, TypeOK
  <1>3. QED
    BY <1>1, <1>2

\* Nor do the skip of a pending row and the settings.
LEMMA StillSettings ==
    ASSUME Inv,
           (\E i \in Ids : Skip(i)) \/ (\E c \in Channels : SetChannel(c)) \/ FinishSetup \/ UNCHANGED vars
    PROVE  Still
  <1>1. CASE \E i \in Ids : Skip(i)
    BY <1>1 DEF Skip, IsNewest, WithStatus, Rows, Still, Inv, TypeOK
  <1>2. CASE (\E c \in Channels : SetChannel(c)) \/ FinishSetup
    BY <1>2 DEF SetChannel, FinishSetup, Still
  <1>3. CASE UNCHANGED vars
    BY <1>3 DEF vars, Still
  <1>4. QED
    BY <1>1, <1>2, <1>3

\* A swap by the supervisor is a restart, unless docker refuses it.
LEMMA HelperSteps ==
    ASSUME Inv, NEW i \in Ids, HelperSwap(i) \/ HelperWatch(i) \/ HelperUndo(i) \/ HelperWalk(i)
    PROVE  Kept /\ (faults' = faults => Still \/ Boots)
  <1>1. CASE HelperSwap(i)
    <2>1. CASE Restart /\ UNCHANGED bounds
      <3>1. Boots
        BY <1>1, <2>1 DEF HelperSwap, Restart, Boots
      <3>2. QED
        BY <3>1, StillKept
    <2>2. CASE Fault /\ UNCHANGED <<pc, work>>
      <3>1. faults' # faults
        BY <2>2 DEF Fault, Inv, TypeOK
      <3>2. Kept
        BY <1>1, <2>2 DEF HelperSwap, Kept
      <3>3. QED
        BY <3>1, <3>2
    <2>3. QED
      BY <1>1, <2>1, <2>2 DEF HelperSwap
  <1>2. CASE HelperWatch(i)
    <2>1. Still
      BY <1>2 DEF HelperWatch, Still, Inv, TypeOK
    <2>2. QED
      BY <2>1, StillKept
  <1>3. CASE HelperUndo(i)
    <2>1. Still
      BY <1>3 DEF HelperUndo, Still, Inv, TypeOK
    <2>2. QED
      BY <2>1, StillKept
  <1>4. CASE HelperWalk(i)
    <2>1. UNCHANGED <<status, installed, release>> /\ helper[i] = "walk" /\ helper' = [helper EXCEPT ![i] = "none"]
      BY <1>4 DEF HelperWalk
    <2>2. CASE Restart
      <3>1. Boots
        BY <2>1, <2>2 DEF Restart, Boots
      <3>2. QED
        BY <3>1, StillKept
    <2>3. CASE UNCHANGED <<pc, work>>
      <3>1. Still
        BY <2>1, <2>3 DEF Still, Inv, TypeOK
      <3>2. QED
        BY <3>1, StillKept
    <2>4. QED
      BY <1>4, <2>2, <2>3 DEF HelperWalk
  <1>5. QED
    BY <1>1, <1>2, <1>3, <1>4

\* A crash is a restart.
LEMMA BootsCrash ==
    ASSUME Crash
    PROVE  Boots
  BY DEF Crash, Restart, Boots

-----------------------------------------------------------------------------
(* The steps that take up a row, begin its swap or commit it *)

\* A runner picks a row.
LEMMA PickKept ==
    ASSUME Inv,
           \/ \E i \in Ids : WindowTick(i)
           \/ \E o \in Operators : ApplyNow(o)
           \/ \E t \in Runners : Select(t)
    PROVE  Kept
  <1>1. PICK t \in Runners, n \in {"select", "claim", "idle"} :
            /\ pc' = [pc EXCEPT ![t] = n] /\ \A u \in Runners : u # t => work'[u] = work[u]
            /\ UNCHANGED <<status, release, installed>>
            /\ n = "select" => NoneApplying
    <2>1. ASSUME NEW t \in Runners, NEW j \in Ids, Picks(t, j)
          PROVE  pc' = [pc EXCEPT ![t] = "claim"] /\ \A u \in Runners : u # t => work'[u] = work[u]
      BY <2>1 DEF Picks, Goto, Inv, TypeOK
    <2>2. CASE \E i \in Ids : WindowTick(i)
      BY <2>1, <2>2 DEF WindowTick
    <2>3. CASE \E o \in Operators : ApplyNow(o)
      <3>1. NoneApplying
        BY <2>3 DEF ApplyNow, WithStatus, Rows, NoneApplying
      <3>2. QED
        BY <2>3, <3>1 DEF ApplyNow, Goto
    <2>4. CASE \E t \in Runners : Select(t)
      BY <2>1, <2>4 DEF Select, Goto
    <2>5. QED
      BY <2>2, <2>3, <2>4
  <1>2. pc'[t] = n /\ \A u \in Runners : u # t => pc'[u] = pc[u]
    BY <1>1 DEF Inv, TypeOK
  <1>3. QED
    BY <1>1, <1>2 DEF Kept

\* The resume hook takes up an interrupted update.
LEMMA ResumeKept ==
    ASSUME Inv, (\E i \in Ids : ResumeApplying(i)) \/ ResumeVerifying
    PROVE  Kept
  <1>1. PICK n \in {"final", "verdict", "select", "idle"} :
            /\ pc' = [pc EXCEPT ![Boot] = n] /\ \A u \in Runners : u # Boot => work'[u] = work[u]
            /\ UNCHANGED <<status, release, installed>>
            /\ n = "select" => NoneApplying
    <2>1. CASE \E i \in Ids : ResumeApplying(i)
      <3>1. pc' = [pc EXCEPT ![Boot] = "final"] \/ pc' = [pc EXCEPT ![Boot] = "verdict"]
        BY <2>1 DEF ResumeApplying, Goto
      <3>2. \A u \in Runners : u # Boot => work'[u] = work[u]
        BY <2>1 DEF ResumeApplying, Inv, TypeOK
      <3>3. QED
        BY <2>1, <3>1, <3>2 DEF ResumeApplying
    <2>2. CASE ResumeVerifying
      <3>1. NoneApplying
        BY <2>2 DEF ResumeVerifying, WithStatus, Rows, NoneApplying
      <3>2. QED
        BY <2>2, <3>1 DEF ResumeVerifying, Goto
    <2>3. QED
      BY <2>1, <2>2
  <1>2. pc'[Boot] = n /\ \A u \in Runners : u # Boot => pc'[u] = pc[u]
    BY <1>1 DEF Inv, TypeOK
  <1>3. QED
    BY <1>1, <1>2 DEF Kept

\* The swap begins.
LEMMA MigrateOrderly ==
    ASSUME Inv, Inv', Orderly, OneAtATime, OneAtATime', NEW t \in Runners, Migrate(t)
    PROVE  Orderly' /\ Forward
  <1>1. /\ pc[t] = "migrate" /\ work[t] \in Ids /\ status[work[t]] = "verifying"
        /\ NoneApplying
    BY DEF Migrate, Inv, Control, RunnerOK, Orderly, Solo
  <1>2. /\ status' = [status EXCEPT ![work[t]] = "applying"] /\ pc' = [pc EXCEPT ![t] = "recreate"]
        /\ UNCHANGED <<work, release, installed>>
    BY <1>1 DEF Migrate, Advance, AllowedTransitions, Goto
  <1>3. \A i \in Ids : status'[i] = IF i = work[t] THEN "applying" ELSE status[i]
    BY <1>1, <1>2 DEF Inv, TypeOK
  <1>4. \A u \in Runners : pc'[u] = IF u = t THEN "recreate" ELSE pc[u]
    BY <1>2 DEF Inv, TypeOK
  <1>5. Solo'
    <2>1. \A u \in Runners : pc'[u] \notin EarlyPCs
      BY <1>1, <1>4 DEF OneAtATime
    <2>2. QED
      BY <1>1, <1>3, <2>1 DEF Solo, NoneApplying
  <1>6. InstalledOK'
    BY <1>1, <1>2, <1>3, <1>4 DEF Orderly, InstalledOK, Inv, TypeOK
  <1>7. Newer'
    BY <1>1, <1>2, <1>3, <1>4 DEF Orderly, Newer, NoneApplying
  <1>8. Forward
    <2>1. installed # 0 => release[installed] \in Nat
      BY InstalledNat
    <2>2. QED
      BY <1>2, <2>1 DEF Forward
  <1>9. QED
    BY <1>5, <1>6, <1>7, <1>8 DEF Orderly

\* The commit: the one row that is applied is newer than the one installed.
LEMMA FinalOrderly ==
    ASSUME Inv, Inv', Orderly, OneAtATime, OneAtATime', Final
    PROVE  Orderly' /\ Forward
  <1>1. /\ Boot \in Runners /\ pc[Boot] = "final" /\ work[Boot] \in Ids
        /\ status[work[Boot]] = "applying"
    BY DEF Final, Inv, Control, RunnerOK
  <1>2. CASE Goto(Boot, "undoConfigs") /\ UNCHANGED <<status, outcome, installed>>
    <2>1. Moves(Boot, "undoConfigs")
      BY <1>1, <1>2 DEF Final, Goto, Moves
    <2>2. QED
      BY <1>1, <2>1, MovesKept, KeptOrderly
  <1>3. CASE Advance(Boot, work[Boot], "committed", "starting_services", "starting")
             /\ installed' = IF status'[work[Boot]] = "committed" THEN work[Boot] ELSE installed
    <2>1. /\ status' = [status EXCEPT ![work[Boot]] = "committed"]
          /\ pc' = [pc EXCEPT ![Boot] = "starting"] /\ UNCHANGED <<work, release>>
      BY <1>1, <1>3 DEF Final, Advance, AllowedTransitions, Goto
    <2>2. /\ installed' = work[Boot]
          /\ \A i \in Ids : status'[i] = IF i = work[Boot] THEN "committed" ELSE status[i]
      BY <1>1, <1>3, <2>1 DEF Inv, TypeOK
    <2>3. \A u \in Runners : pc'[u] = IF u = Boot THEN "starting" ELSE pc[u]
      BY <2>1 DEF Inv, TypeOK
    <2>4. NoneApplying'
      BY <1>1, <2>2 DEF Orderly, Solo, NoneApplying
    <2>5. \A u \in Runners : pc'[u] \notin VerifyPCs
      BY <1>1, <2>3 DEF OneAtATime
    <2>6. Solo' /\ InstalledOK'
      BY <1>1, <2>1, <2>2, <2>3, <2>4 DEF Solo, NoneApplying, InstalledOK
    <2>7. Newer'
      BY <2>4, <2>5 DEF Newer, NoneApplying
    <2>8. Forward
      <3>1. installed # 0 => release[work[Boot]] > release[installed]
        BY <1>1 DEF Orderly, Newer
      <3>2. release[work[Boot]] \in Nat /\ (installed # 0 => release[installed] \in Nat)
        BY <1>1, InstalledNat
      <3>3. QED
        BY <2>2, <3>1, <3>2 DEF Forward
    <2>9. QED
      BY <2>6, <2>7, <2>8 DEF Orderly
  <1>4. QED
    BY <1>2, <1>3 DEF Final

\* The services of the installed release are started.
LEMMA StartKept ==
    ASSUME Inv, Orderly, StartServices
    PROVE  Kept
  <1>1. /\ installed' = installed /\ pc' = [pc EXCEPT ![Boot] = "idle"] /\ Boot \in Runners
        /\ UNCHANGED <<status, release, work>>
    BY DEF StartServices, Goto, Orderly, InstalledOK
  <1>2. \A u \in Runners : pc'[u] = IF u = Boot THEN "idle" ELSE pc[u]
    BY <1>1 DEF Inv, TypeOK
  <1>3. QED
    BY <1>1, <1>2 DEF Kept

\* Every step keeps the order, while updates are applied one at a time.
LEMMA NextOrderly ==
    ASSUME Inv, Inv', Orderly, OneAtATime, OneAtATime', [Next]_vars
    PROVE  Orderly' /\ Forward
  <1>1. ASSUME Kept PROVE Orderly' /\ Forward
    BY <1>1, KeptOrderly
  <1>2. CASE \E t \in Runners :
                \/ Claim(t) \/ Dispatch(t) \/ Release(t) \/ Floor(t) \/ Fetch(t) \/ Snapshot(t)
                \/ Pull(t) \/ Stage(t) \/ Reconcile(t) \/ Refuse(t)
                \/ Recreate(t) \/ Gate(t) \/ Swap(t) \/ Restore(t) \/ Unswap(t)
                \/ Regate(t) \/ Throw(t) \/ (t = Boot /\ (BootVerdict \/ UndoSelf))
    BY <1>1, <1>2, RunnersMove, MovesKept
  <1>3. CASE \E t \in Runners : Migrate(t)
    BY <1>3, MigrateOrderly
  <1>4. CASE \/ \E p \in Pollers : (\E r \in Releases : PollCheck(p, r)) \/ (\E i \in Ids : PollCreate(p, i))
             \/ (\E i \in Ids : Skip(i)) \/ (\E c \in Channels : SetChannel(c)) \/ FinishSetup
             \/ UNCHANGED vars \/ Crash
    BY <1>1, <1>4, StillPolls, StillSettings, BootsCrash, StillKept
  <1>5. CASE \E i \in Ids : HelperSwap(i) \/ HelperWatch(i) \/ HelperUndo(i) \/ HelperWalk(i)
    BY <1>1, <1>5, HelperSteps
  <1>6. CASE \/ \E i \in Ids : WindowTick(i)
             \/ \E o \in Operators : ApplyNow(o)
             \/ \E t \in Runners : Select(t)
    BY <1>1, <1>6, PickKept
  <1>7. CASE (\E i \in Ids : ResumeApplying(i)) \/ ResumeVerifying
    BY <1>1, <1>7, ResumeKept
  <1>8. CASE Final
    BY <1>8, FinalOrderly
  <1>9. CASE StartServices
    BY <1>1, <1>9, StartKept
  <1>10. QED
    BY <1>2, <1>3, <1>4, <1>5, <1>6, <1>7, <1>8, <1>9, Steps, Zenon

-----------------------------------------------------------------------------
(* When nothing throws, nobody calls apply-now and the window does not open
   beside a supervisor *)

\* What the shapes have to give: the invariant, and no claim beside an update
\* that waits for its verdict.
Goes == Attended' /\ \A t \in Runners : pc'[t] = "claim" => NoneApplying'

\* A step that moves nobody.
LEMMA StillGoes ==
    ASSUME Inv, Orderly, Attended, Still
    PROVE  Goes
  <1>1. ASSUME NEW i \in Ids, status'[i] = "applying" PROVE Tended(i)'
    <2>1. Tended(i)
      BY <1>1 DEF Still, Attended
    <2>2. QED
      BY <2>1 DEF Tended, Still
  <1>2. ASSUME NEW t \in Runners, pc'[t] = "claim" PROVE NoneApplying'
    BY <1>2 DEF Still, Orderly, Solo, NoneApplying
  <1>3. QED
    BY <1>1, <1>2 DEF Goes, Attended, Still

\* A restart.
LEMMA BootsGoes ==
    ASSUME Boots
    PROVE  Goes
  <1>1. pc'[Boot] = "resume" /\ pc'[Window] = "idle" /\ \A t \in Runners : pc'[t] # "claim"
    BY DEF Boots
  <1>2. QED
    BY <1>1 DEF Goes, Attended, Tended

\* One runner moves on.
LEMMA MovesGoes ==
    ASSUME Inv, Orderly, Attended, faults' = faults, NEW t \in Runners, NEW n \in PCs, Moves(t, n)
    PROVE  Goes
  <1>1. pc'[t] = n /\ (\A u \in Runners : u # t => pc'[u] = pc[u]) /\ work' = work
    BY DEF Moves, Inv, TypeOK
  <1>2. pc[t] \notin {"idle", "starting", "resume"} /\ n \notin {"resume", "select", "claim", "starting"}
    BY DEF Moves
  <1>3. pc'[Window] # "idle" => pc'[Boot] \in {"idle", "starting"}
    BY <1>1, <1>2 DEF Attended
  <1>4. ASSUME NEW i \in Ids, status'[i] = "applying" PROVE Tended(i)'
    <2>1. Tended(i)
      BY <1>4 DEF Moves, Attended
    <2>2. CASE pc[Boot] = "resume"
      BY <1>1, <1>2, <2>2 DEF Tended
    <2>3. CASE helper[i] = "swap"
      BY <2>3 DEF Moves, Tended
    <2>4. CASE \E u \in Runners : pc[u] \in SwapPCs /\ work[u] = i
      <3>1. PICK u \in Runners : pc[u] \in SwapPCs /\ work[u] = i
        BY <2>4
      <3>2. CASE u = t
        BY <1>1, <1>4, <3>1, <3>2 DEF Moves, Tended
      <3>3. CASE u # t
        BY <1>1, <3>1, <3>3 DEF Tended
      <3>4. QED
        BY <3>2, <3>3
    <2>5. CASE pc[Boot] \in ResumePCs /\ work[Boot] = i
      <3>1. CASE Boot = t
        BY <1>1, <1>4, <2>5, <3>1 DEF Moves, Tended
      <3>2. CASE Boot # t
        BY <1>1, <2>5, <3>2 DEF Tended
      <3>3. QED
        BY <3>1, <3>2
    <2>6. QED
      BY <2>1, <2>2, <2>3, <2>4, <2>5 DEF Tended
  <1>5. ASSUME NEW u \in Runners, pc'[u] = "claim" PROVE NoneApplying'
    <2>1. pc[u] = "claim"
      BY <1>1, <1>2, <1>5
    <2>2. QED
      BY <2>1 DEF Orderly, Solo, NoneApplying, Moves
  <1>6. QED
    BY <1>3, <1>4, <1>5 DEF Goes, Attended

\* The window finds no row that is being applied.
LEMMA WindowGoes ==
    ASSUME Inv, Attended, Calm, Calm', NEW i \in Ids, WindowTick(i)
    PROVE  Goes
  <1>0. /\ pc[Window] = "idle" /\ pc[Boot] \in {"idle", "starting"} /\ helper' = helper
        /\ pc' = [pc EXCEPT ![Window] = "claim"] /\ status' = status
    BY DEF WindowTick, Picks, Goto
  <1>1. /\ pc[Window] = "idle" /\ pc[Boot] \in {"idle", "starting"} /\ \A j \in Ids : helper[j] = "none"
        /\ pc' = [pc EXCEPT ![Window] = "claim"] /\ status' = status
    BY <1>0 DEF Calm, Inv, TypeOK
  <1>2. \A t \in Runners : pc[t] \in {"idle", "starting"}
    BY <1>1 DEF Calm
  <1>3. NoneApplying
    BY <1>1, <1>2 DEF Attended, Tended, NoneApplying
  <1>4. pc'[Boot] = pc[Boot]
    BY <1>1 DEF Inv, TypeOK
  <1>5. QED
    BY <1>1, <1>3, <1>4 DEF Goes, Attended, NoneApplying

\* The resume hook runs alone.
LEMMA ResumeGoes ==
    ASSUME Inv, Orderly, Attended, Calm,
           (\E i \in Ids : ResumeApplying(i)) \/ ResumeVerifying \/ (\E t \in Runners : Select(t))
    PROVE  Goes
  <1>0. ASSUME NEW t \in Runners, Select(t) PROVE t = Boot
    BY <1>0 DEF Select, Calm, Inv, Control, RunnerOK
  <1>1. Boot \in Runners /\ pc[Boot] \in {"resume", "select"} /\ status' = status
    BY <1>0 DEF ResumeApplying, ResumeVerifying, Select
  <1>2. \A t \in Runners : t # Boot => pc[t] = "idle"
    BY <1>1 DEF Attended, Calm
  <1>3. CASE Select(Boot)
    <2>1. NoneApplying
      BY <1>1, <1>3 DEF Select, Orderly, Solo
    <2>2. PICK n \in PCs : pc' = [pc EXCEPT ![Boot] = n]
      BY <1>3 DEF Select, Picks, Goto
    <2>3. pc'[Window] = "idle"
      BY <1>2, <2>2 DEF Inv, TypeOK
    <2>4. QED
      BY <1>1, <2>1, <2>3 DEF Goes, Attended, NoneApplying
  <1>4. CASE ResumeVerifying
    <2>1. NoneApplying
      BY <1>4 DEF ResumeVerifying, WithStatus, Rows, NoneApplying
    <2>2. PICK n \in PCs : pc' = [pc EXCEPT ![Boot] = n]
      BY <1>4 DEF ResumeVerifying, Goto
    <2>3. pc'[Window] = "idle"
      BY <1>2, <2>2 DEF Inv, TypeOK
    <2>4. QED
      BY <1>1, <2>1, <2>3 DEF Goes, Attended, NoneApplying
  <1>5. ASSUME NEW i \in Ids, ResumeApplying(i) PROVE Goes
    <2>1. PICK n \in {"final", "verdict"} : pc' = [pc EXCEPT ![Boot] = n]
      BY <1>5 DEF ResumeApplying, Goto
    <2>2. \A t \in Runners : pc'[t] = IF t = Boot THEN n ELSE "idle"
      BY <1>1, <1>2, <2>1 DEF Inv, TypeOK
    <2>3. status[i] = "applying" /\ work'[Boot] = i
      BY <1>1, <1>5 DEF ResumeApplying, IsNewest, WithStatus, Inv, TypeOK
    <2>4. ASSUME NEW j \in Ids, status'[j] = "applying" PROVE Tended(j)'
      <3>1. j = i
        BY <1>1, <2>3, <2>4 DEF Orderly, Solo
      <3>2. QED
        BY <1>1, <2>2, <2>3, <3>1 DEF Tended
    <2>5. QED
      BY <2>2, <2>4 DEF Goes, Attended
  <1>6. QED
    BY <1>0, <1>3, <1>4, <1>5

\* The swap begins, beside nobody.
LEMMA MigrateGoes ==
    ASSUME Inv, Orderly, Attended, OneAtATime, NEW t \in Runners, Migrate(t)
    PROVE  Goes
  <1>1. pc[t] = "migrate" /\ work[t] \in Ids /\ status[work[t]] = "verifying" /\ NoneApplying
    BY DEF Migrate, Inv, Control, RunnerOK, Orderly, Solo
  <1>2. /\ status' = [status EXCEPT ![work[t]] = "applying"] /\ pc' = [pc EXCEPT ![t] = "recreate"]
        /\ work' = work
    BY <1>1 DEF Migrate, Advance, AllowedTransitions, Goto
  <1>3. \A i \in Ids : status'[i] = "applying" => i = work[t]
    BY <1>1, <1>2 DEF NoneApplying, Inv, TypeOK
  <1>4. \A u \in Runners : pc'[u] = IF u = t THEN "recreate" ELSE pc[u]
    BY <1>2 DEF Inv, TypeOK
  <1>5. pc'[Window] # "idle" => pc'[Boot] \in {"idle", "starting"}
    BY <1>1, <1>4 DEF Attended
  <1>6. \A u \in Runners : pc'[u] # "claim"
    BY <1>1, <1>4 DEF OneAtATime
  <1>7. ASSUME NEW i \in Ids, status'[i] = "applying" PROVE Tended(i)'
    BY <1>2, <1>3, <1>4, <1>7 DEF Tended
  <1>8. QED
    BY <1>5, <1>6, <1>7 DEF Goes, Attended

\* The verdict of the new orchestrator, and the start of its services.
LEMMA FinalGoes ==
    ASSUME Inv, Orderly, Attended, OneAtATime, Final \/ StartServices
    PROVE  Goes
  <1>1. Boot \in Runners
    OBVIOUS
  <1>2. CASE Final
    <2>1. pc[Boot] = "final" /\ work[Boot] \in Ids /\ status[work[Boot]] = "applying"
      BY <1>2 DEF Final, Inv, Control, RunnerOK
    <2>2. \A j \in Ids : status[j] = "applying" => j = work[Boot]
      BY <2>1 DEF Orderly, Solo
    <2>3. pc[Window] = "idle" /\ \A u \in Runners : u # Boot => pc[u] # "claim"
      BY <1>1, <2>1 DEF Attended, OneAtATime
    <2>4. \/ /\ pc' = [pc EXCEPT ![Boot] = "starting"]
             /\ status' = [status EXCEPT ![work[Boot]] = "committed"]
          \/ pc' = [pc EXCEPT ![Boot] = "undoConfigs"] /\ UNCHANGED <<status, work>>
      BY <1>2, <2>1 DEF Final, Advance, AllowedTransitions, Goto
    <2>5. pc'[Window] = "idle" /\ \A u \in Runners : pc'[u] # "claim"
      BY <2>3, <2>4 DEF Inv, TypeOK
    <2>6. ASSUME NEW i \in Ids, status'[i] = "applying" PROVE Tended(i)'
      <3>1. i = work[Boot] /\ pc'[Boot] = "undoConfigs" /\ work' = work
        BY <1>1, <2>1, <2>2, <2>4, <2>6 DEF Inv, TypeOK
      <3>2. QED
        BY <3>1 DEF Tended
    <2>7. QED
      BY <2>5, <2>6 DEF Goes, Attended
  <1>3. CASE StartServices
    <2>1. pc[Boot] = "starting" /\ pc' = [pc EXCEPT ![Boot] = "idle"] /\ UNCHANGED <<status, work, helper>>
      BY <1>3 DEF StartServices, Goto
    <2>2. \A u \in Runners : pc'[u] = IF u = Boot THEN "idle" ELSE pc[u]
      BY <2>1 DEF Inv, TypeOK
    <2>3. ASSUME NEW i \in Ids, status'[i] = "applying" PROVE Tended(i)'
      <3>1. Tended(i)
        BY <2>1, <2>3 DEF Attended
      <3>2. QED
        BY <2>1, <2>2, <3>1 DEF Tended
    <2>4. \A u \in Runners : pc'[u] = "claim" => NoneApplying'
      BY <2>1, <2>2 DEF Orderly, Solo, NoneApplying
    <2>5. QED
      BY <1>1, <2>2, <2>3, <2>4 DEF Goes, Attended
  <1>4. QED
    BY <1>2, <1>3

\* Every step of a calm behaviour keeps its updates attended.
LEMMA NextGoes ==
    ASSUME Inv, Orderly, Attended, OneAtATime, Calm, Calm', [Next]_vars
    PROVE  Goes
  <1>1. faults' = faults
    BY DEF Calm
  <1>2. CASE \E t \in Runners :
                \/ Claim(t) \/ Dispatch(t) \/ Release(t) \/ Floor(t) \/ Fetch(t) \/ Snapshot(t)
                \/ Pull(t) \/ Stage(t) \/ Reconcile(t) \/ Refuse(t)
                \/ Recreate(t) \/ Gate(t) \/ Swap(t) \/ Restore(t) \/ Unswap(t)
                \/ Regate(t) \/ Throw(t) \/ (t = Boot /\ (BootVerdict \/ UndoSelf))
    BY <1>1, <1>2, RunnersMove, MovesGoes
  <1>3. CASE \E t \in Runners : Migrate(t)
    BY <1>3, MigrateGoes
  <1>4. CASE \/ \E p \in Pollers : (\E r \in Releases : PollCheck(p, r)) \/ (\E i \in Ids : PollCreate(p, i))
             \/ (\E i \in Ids : Skip(i)) \/ (\E c \in Channels : SetChannel(c)) \/ FinishSetup
             \/ UNCHANGED vars \/ Crash
    BY <1>4, StillPolls, StillSettings, BootsCrash, StillGoes, BootsGoes
  <1>5. CASE \E i \in Ids : HelperSwap(i) \/ HelperWatch(i) \/ HelperUndo(i) \/ HelperWalk(i)
    BY <1>1, <1>5, HelperSteps, StillGoes, BootsGoes
  <1>6. CASE \E i \in Ids : WindowTick(i)
    BY <1>6, WindowGoes
  <1>7. CASE (\E i \in Ids : ResumeApplying(i)) \/ ResumeVerifying \/ (\E t \in Runners : Select(t))
    BY <1>7, ResumeGoes
  <1>8. CASE Final \/ StartServices
    BY <1>8, FinalGoes
  <1>9. ASSUME NEW o \in Operators PROVE ~ApplyNow(o)
    <2>1. SUFFICES ASSUME ApplyNow(o) PROVE FALSE
      OBVIOUS
    <2>2. o \in Runners /\ pc' = [pc EXCEPT ![o] = "select"]
      BY <2>1 DEF ApplyNow, Goto
    <2>3. QED
      BY <2>2 DEF Calm, Inv, TypeOK
  <1>10. QED
    BY <1>2, <1>3, <1>4, <1>5, <1>6, <1>7, <1>8, <1>9, Steps, Zenon

\* So one runner at most is at work.
LEMMA NextAttended ==
    ASSUME Inv, Orderly, Attended, OneAtATime, Calm, Calm', [Next]_vars
    PROVE  Attended' /\ OneAtATime'
  <1>1. Attended' /\ \A t \in Runners : pc'[t] = "claim" => NoneApplying'
    BY NextGoes DEF Goes
  <1>2. ASSUME NEW t \in Runners, pc'[t] \in BusyPCs
        PROVE  t = (IF pc'[Window] = "idle" THEN Boot ELSE Window)
    BY <1>1, <1>2 DEF Attended, Calm
  <1>3. QED
    BY <1>1, <1>2 DEF OneAtATime

\* At first nothing is installed, and nothing applied.
LEMMA InitForward ==
    ASSUME Init
    PROVE  Orderly /\ Attended /\ OneAtATime
  <1>1. /\ installed = 0 /\ NoneApplying
        /\ \A t \in Runners : pc[t] = IF t = Boot THEN "resume" ELSE "idle"
    BY DEF Init, NoneApplying
  <1>2. QED
    BY <1>1 DEF Orderly, Solo, InstalledOK, Newer, Attended, OneAtATime, NoneApplying

-----------------------------------------------------------------------------
(* The theorems *)

\* As long as updates are applied one at a time, the installed release never goes
\* backwards: requests to apply-now, errors, refused recreates and restarts
\* included.  The stale check holds at the head of the apply (Stale in Floor), and
\* the order of the runs carries it to the commit.
THEOREM OneAtATimeForward == Spec /\ []OneAtATime => NeverBackwards
  <1>1. Init => Inv /\ Orderly
    BY InitInv, InitForward
  <1>2. Inv /\ Inv' /\ Orderly /\ OneAtATime /\ OneAtATime' /\ [Next]_vars => Orderly' /\ Forward
    BY NextOrderly
  <1>3. Forward <=> (installed # 0 => release[installed'] >= release[installed])
    BY DEF Forward
  <1>4. QED
    BY <1>1, <1>2, <1>3, Invariant, PTL DEF Spec, NeverBackwards

\* When nothing throws, nobody calls apply-now and the window does not open beside
\* a supervisor, the window and the resume hook apply updates one at a time: the hook settles every update it finds before the
\* window looks at the table, across restarts in any step of a swap or a rollback.
THEOREM CalmOneAtATime == Spec /\ []Calm => []OneAtATime
  <1>1. Init => Inv /\ Orderly /\ Attended /\ OneAtATime
    BY InitInv, InitForward
  <1>2. /\ Inv /\ Inv' /\ Calm /\ Calm' /\ [Next]_vars
        /\ Orderly /\ Attended /\ OneAtATime
        => Orderly' /\ Attended' /\ OneAtATime'
    BY NextAttended, NextOrderly
  <1>3. QED
    BY <1>1, <1>2, Invariant, PTL DEF Spec

\* So a box that follows its window and its resume hook never goes back to an older
\* release, for any number of releases, channels, services, pollers and restarts.
THEOREM CalmForward == Spec /\ []Calm => NeverBackwards
  BY OneAtATimeForward, CalmOneAtATime, PTL

=============================================================================

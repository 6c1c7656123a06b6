SPECIFICATION Spec
CONSTANTS
  Runs = {r1}
  Workers = {w1, w2}
  Clients = {c1}
  Repeatable = {}
  Ungated = {}
  Gated = {g}
  Proposals = {g}
  None = None
  MaxIter = 2
  MaxAttempts = 1
  Concurrency = 1
  MaxPreemptions = 1
  MaxYields = 0
  MaxFaults = 0
SYMMETRY WorkerSymmetry
INVARIANTS
  TypeOK
  ConversationIsTraced
  PendingMatchesStatus
  RunsOnlyWhatWasApproved
  ApprovalSpentOnce
  LostApprovalIsAtCheckpoint
PROPERTIES
  CheckpointAdvances
CHECK_DEADLOCK FALSE

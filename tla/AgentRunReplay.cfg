SPECIFICATION Spec
CONSTANTS
  Runs = {r1}
  Workers = {w1, w2}
  Clients = {}
  Repeatable = {q}
  Ungated = {u}
  Gated = {}
  Proposals = {}
  None = None
  MaxIter = 1
  MaxAttempts = 1
  Concurrency = 1
  MaxPreemptions = 1
  MaxYields = 1
  MaxFaults = 0
SYMMETRY WorkerSymmetry
INVARIANTS
  UngatedOncePerIteration
  TraceHoldsEveryEffect
CHECK_DEADLOCK FALSE

SPECIFICATION Spec
CONSTANTS
  Runs = {r1}
  Workers = {w1}
  Clients = {c1, c2}
  Repeatable = {}
  Ungated = {}
  Gated = {g1, g2}
  Proposals = {}
  None = None
  MaxIter = 2
  MaxAttempts = 0
  Concurrency = 1
  MaxPreemptions = 0
  MaxYields = 0
  MaxFaults = 0
INVARIANT
  ApprovesWhatWasShown
CHECK_DEADLOCK FALSE

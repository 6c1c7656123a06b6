SPECIFICATION LiveSpec
CONSTANTS
  Runs = {r1}
  Workers = {w1, w2}
  Clients = {}
  Repeatable = {}
  Ungated = {}
  Gated = {}
  Proposals = {}
  None = None
  MaxIter = 1
  MaxAttempts = 1
  Concurrency = 1
  MaxPreemptions = 1
  MaxYields = 0
  MaxFaults = 1
PROPERTIES
  TerminalIsFinal
  RunsSettle
CHECK_DEADLOCK FALSE

SPECIFICATION LiveSpec
CONSTANTS
  Self = orch
  Sidecars = {a, b}
  Running = {a}
  Releases = {1, 2}
  stable = stable
  beta = beta
  ChannelOf <- TwoChannels
  Boot = boot
  Window = window
  Operators = {}
  Pollers = {cron}
  None = None
  QuietWindow = TRUE
  MaxRows = 2
  MaxFaults = 0
  MaxCrashes = 1
INVARIANTS
  CanRollBack
  OnlyAppliedRuns
PROPERTIES
  NeverBackwards
  RowsSettle
CHECK_DEADLOCK FALSE

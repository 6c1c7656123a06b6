SPECIFICATION Spec
CONSTANTS
  Self = orch
  Sidecars = {a}
  Running = {a}
  Releases = {1, 2}
  stable = stable
  beta = beta
  ChannelOf <- OneChannel
  Boot = boot
  Window = window
  Operators = {op}
  Pollers = {cron, now}
  None = None
  QuietWindow = FALSE
  MaxRows = 2
  MaxFaults = 1
  MaxCrashes = 0
INVARIANTS
  TypeOK
  OneRunPerRow
  CanRollBack
  OnlyAppliedRuns
CHECK_DEADLOCK FALSE

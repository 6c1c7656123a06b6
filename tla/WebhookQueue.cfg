SPECIFICATION Spec
CONSTANTS
    Deliveries = {x, y}
    Events = {e}
    Workers = {u, v}
    None = None
    MaxAttempts = 2
    DisableAfter = 2
    Batch = 2
    MaxOps = 1
    MaxFaults = 1
    MaxOverruns = 0
SYMMETRY Symmetry
INVARIANTS
    TypeOK
    TestIsOnce
    OneAttempt
    OneNotice
    LimitTurnsOff
CHECK_DEADLOCK FALSE

SPECIFICATION LiveSpec
CONSTANTS
    Deliveries = {x}
    Events = {e}
    Workers = {u, v}
    None = None
    MaxAttempts = 2
    DisableAfter = 2
    Batch = 2
    MaxOps = 1
    MaxFaults = 1
    MaxOverruns = 1
PROPERTIES
    SettledStays
    EachSettles
CHECK_DEADLOCK FALSE

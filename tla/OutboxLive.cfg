SPECIFICATION LiveSpec
CONSTANTS
    Rows = {1, 2}
    Replicas = {p, q}
    None = None
    Settle = 2
    TxTimeout = 1
    BatchSize = 1
    MaxBatches = 2
    MinFailures = 2
    PoisonAfter = 1
    MaxTime = 3
    MaxFaults = 1
    MaxCrashes = 0
    MaxLosses = 0
PROPERTIES CursorForward AllDelivered

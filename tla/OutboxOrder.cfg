SPECIFICATION Spec
CONSTANTS
    Rows = {1, 2}
    Replicas = {p, q}
    None = None
    Settle = 2
    TxTimeout = 1
    BatchSize = 2
    MaxBatches = 2
    MinFailures = 1
    PoisonAfter = 1
    MaxTime = 3
    MaxFaults = 0
    MaxCrashes = 1
    MaxLosses = 1
INVARIANTS TypeOK NoneSkipped
SYMMETRY ReplicaSymmetry
PROPERTY InOrder

SPECIFICATION Spec
CONSTANTS
    w1 = w1
    w2 = w2
    tick = tick
    operator = operator
    None = None
    Workers <- TwoWorkers
    Callers <- TwoCallers
    Manual <- Operators
    Stalling <- Nobody
    Docs = 2
    UnitsPerRun = 2
    MaxFaults = 1
SYMMETRY SymmetricWorkers
INVARIANTS
    TypeOK
    DrainedIsClosed
PROPERTIES
    CursorAdvances
    OneRunPerPass

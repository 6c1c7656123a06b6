SPECIFICATION LiveSpec
CONSTANTS
    w1 = w1
    w2 = w2
    tick = tick
    operator = operator
    None = None
    Workers <- TwoWorkers
    Callers <- OneCaller
    Manual <- Nobody
    Stalling <- Stalls
    Docs = 2
    UnitsPerRun = 2
    MaxFaults = 1
INVARIANTS
    HeldWhileRunning
    SkipsNone
PROPERTIES
    ShutdownEnds
    PassRecovers

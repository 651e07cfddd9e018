CONSTANTS
    t1 = t1
    t2 = t2
    t3 = t3
    w1 = w1
    w2 = w2
    NoKey = NoKey
    NoTask = NoTask
    Tasks = {t1, t2, t3}
    Workers = {w1, w2}
    Admins = {a1}
    Keys = {}
    ServerOf <- MCServerOf
    UniqueKey <- MCUniqueKey
    Priority <- MCPriority
    DependsOn <- FanOut
    MaxRetry = 1
    Ops = {"enqueue"}
    Env = {"abandon", "expire"}
SPECIFICATION DepSpec
INVARIANTS
    DepTypeOK
    SingleCopy
    NeverEarly
    StrandedForCause
SYMMETRY WorkerSymmetry

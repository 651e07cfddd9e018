CONSTANTS
    t1 = t1
    t2 = t2
    w1 = w1
    w2 = w2
    k1 = k1
    NoKey = NoKey
    NoTask = NoTask
    Tasks = {t1, t2}
    Workers = {w1, w2}
    Admins = {}
    Keys = {k1}
    ServerOf <- MCServerOf
    UniqueKey <- MCUniqueKey
    Priority <- MCPriority
    MaxRetry = 1
    Ops = {"enqueue"}
    Env = {}
SPECIFICATION MCSpec
INVARIANT DeadAreListed
SYMMETRY WorkerSymmetry

CONSTANTS
    t1 = t1
    t2 = t2
    w1 = w1
    w2 = w2
    k1 = k1
    NoKey = NoKey
    NoTask = NoTask
    Tasks = {t1, t2}
    Workers = {w1, w2}
    Admins = {a1}
    Keys = {k1}
    ServerOf <- MCServerOf
    UniqueKey <- MCUniqueKey
    Priority <- MCPriority
    MaxRetry = 2
    Ops = {"enqueue", "enqueue_priority", "enqueue_delayed", "enqueue_batch"}
    Env = {"pause", "flush", "expire", "abandon", "before_err"}
SPECIFICATION MCSpec
INVARIANTS
    TypeOK
    SingleCopy
    ActiveListExact
    Conservation
    CounterExact
    PauseLeaksOne
    UniqueKeyHonoured
PROPERTY ImplementsLifecycle
SYMMETRY WorkerSymmetry

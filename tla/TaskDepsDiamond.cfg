CONSTANTS
    t1 = t1
    t2 = t2
    t3 = t3
    w1 = w1
    w2 = w2
    NoKey = NoKey
    NoTask = NoTask
    Tasks = {t1, t2, t3}
    Workers = {w1, w2}
    Admins = {}
    Keys = {}
    ServerOf <- MCServerOf
    UniqueKey <- MCUniqueKey
    Priority <- MCPriority
    DependsOn <- Diamond
    MaxRetry = 2
    Ops = {"enqueue"}
    Env = {}
SPECIFICATION FairDepSpec
INVARIANTS
    LinkedIsPending
PROPERTY
    DependentsResolved

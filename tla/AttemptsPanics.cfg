CONSTANTS
    x = x
    w1 = w1
    w2 = w2
    t1 = t1
    t2 = t2
    Empty = Empty
    NoTask = NoTask
    NoWorker = NoWorker
    Tasks = {t1, t2}
    Workers = {w1, w2}
    Types = {x}
    Requests <- MCRequests
    Configs <- MCConfigs
    DefaultConfig <- MCDefaultConfig
    Hooks = 2
    MaxUpdates = 1
    MaxCuts = 2
SPECIFICATION FairSpec
INVARIANTS
    AdmittedWithinLimits
    GaugesExact
    RetriesSpent
PROPERTY AttemptsEnd
CHECK_DEADLOCK FALSE

CONSTANTS
    x = x
    w1 = w1
    w2 = w2
    t1 = t1
    t2 = t2
    Empty = Empty
    NoTask = NoTask
    NoWorker = NoWorker
    Tasks = {t1, t2}
    Workers = {w1, w2}
    Types = {x}
    Requests <- MCRequests
    Configs <- MCConfigs
    DefaultConfig <- MCDefaultConfig
    Hooks = 2
    MaxUpdates = 0
    MaxCuts = 0
SPECIFICATION Spec
INVARIANT BackoffAsDocumented
CHECK_DEADLOCK FALSE

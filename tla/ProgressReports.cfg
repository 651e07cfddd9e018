CONSTANTS
    t1 = t1
    t2 = t2
    w1 = w1
    w2 = w2
    th1 = th1
    th2 = th2
    NoTask = NoTask
    NoWorker = NoWorker
    NoHash = NoHash
    Tasks = {t1, t2}
    Workers = {w1, w2}
    Spawners = {w1}
    Threads = {th1, th2}
    Full = 2
    MaxTries <- MCMaxTries
    MaxFaults = 1
SPECIFICATION Spec
INVARIANTS
    TypeOK
    OwnReports
    DoneIsFull
    HashesExpire
SYMMETRY ThreadSymmetry
CHECK_DEADLOCK FALSE

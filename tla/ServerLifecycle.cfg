CONSTANTS
    s1 = s1
    w1 = w1
    w2 = w2
    Servers = {s1}
    Workers = {w1, w2}
    ServerOf <- MCServerOf
    Metrics = {}
    MaxStarts = 2
    MaxCount = 1
    Env = {"crash", "panic", "cmd_fail", "expire", "stop_worker"}
SPECIFICATION FairSpec
INVARIANTS
    TypeOK
    ListedIsDescribed
    LoopIsListed
    CleanExit
    CountIsFresh
PROPERTY ShutdownEnds
CHECK_DEADLOCK FALSE

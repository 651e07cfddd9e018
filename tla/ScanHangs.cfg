CONSTANTS
    s1 = s1
    r1 = r1
    d1 = d1
    d2 = d2
    m1 = m1
    m2 = m2
    Schedulers = {s1}
    Retries = {r1}
    Delayeds = {d1, d2}
    Members = {m1}
    Delay <- MCDelay
    DelayedEvery = 2
    GroupEvery = 1
    BatchSize = 1
    MaxSize = 1
    ManyKeys = TRUE
    MaxTime = 1
    MaxFaults = 0
SPECIFICATION FairSpec
PROPERTY DueIsMoved
CHECK_DEADLOCK FALSE

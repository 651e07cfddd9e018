CONSTANTS
    w1 = w1
    w2 = w2
    NoConfig = NoConfig
    NoKey = NoKey
    NoTTL = NoTTL
    NoMeta = NoMeta
    Workers = {w1, w2}
    MaxLate = 1
    Horizons <- MCHorizons
SPECIFICATION Spec
INVARIANTS
    BeatMeansAlive
    OpsHonest
CHECK_DEADLOCK FALSE

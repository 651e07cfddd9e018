CONSTANTS
    q1 = q1
    q2 = q2
    t1 = t1
    t2 = t2
    NoQueue = NoQueue
    NoList = NoList
    Queues = {q1, q2}
    Tasks = {t1, t2}
    QueueOf <- MCQueueOf
    PageSize = 2
    Settings <- MCSettings
SPECIFICATION Spec
SYMMETRY Symmetry
INVARIANTS
    CountsNearTruth
    MarkedRow
    AlertsHonest

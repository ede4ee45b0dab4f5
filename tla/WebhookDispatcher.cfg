SPECIFICATION FairSpec
CONSTANTS
    Jobs = {j1, j2, j3, j4}
    Callers = {c1, c2}
    Workers = {w1, w2}
    QueueCap = 2
    NoJob = NoJob
INVARIANT
    NoSendOnClosed
PROPERTIES
    KeepsPromise
    ShutdownReturns

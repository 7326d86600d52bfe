CONSTANTS
    Requests = {r1, r2}
    Workers = {w1, w2}
    PoolThreads = {p1}
    None = None
SPECIFICATION FairSpec
PROPERTIES
    Settles
    JobsFinish

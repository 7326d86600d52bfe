\* One pool thread is not enough for r2 and r3, two workers are for r1 and r2.
CONSTANTS
    r1 = r1
    r2 = r2
    r3 = r3
    r4 = r4
    Requests <- MCRequests
    Workers = {w1, w2}
    PoolThreads = {p1}
    None = None
    CallAwaits <- MCCallAwaits
    RunAwaits <- MCRunAwaits
SPECIFICATION ChainSpec
PROPERTY HangsOnlyExhausted

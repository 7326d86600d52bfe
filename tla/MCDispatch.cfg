\* Three requests of any kind on two workers and two pool threads.
CONSTANTS
    Requests = {r1, r2, r3}
    Workers = {w1, w2}
    PoolThreads = {p1, p2}
    None = None
SPECIFICATION Spec
INVARIANTS
    TypeOK
    ThreadsMatch
    GilHeldInPython
    RunsOnce
    AnswersAreEarned
PROPERTY ImplementsService
SYMMETRY MCSymmetry

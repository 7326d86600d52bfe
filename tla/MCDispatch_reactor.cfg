\* Three Python requests and a Rust one on two workers and one pool thread.
CONSTANTS
    Requests = {r1, r2, r3, r4}
    Workers = {w1, w2}
    PoolThreads = {p1}
    None = None
SPECIFICATION MixedLoadSpec
INVARIANT ReactorFree
SYMMETRY MCSymmetry

----------------------------- MODULE MCDispatch -----------------------------
(* Model values for checking Dispatch. *)
EXTENDS Dispatch, TLC

\* Requests, workers and pool threads are interchangeable.
MCSymmetry == Permutations(Requests) \cup Permutations(Workers)
              \cup Permutations(PoolThreads)

\* The load of the ReactorFree run: three Python requests and a Rust one.
MixedLoad ==
    /\ Cardinality({r \in Requests : target[r] = "rust"}) = 1
    /\ \A r \in Requests : target[r] \in {"rust", "python"}

MixedLoadSpec == Init /\ MixedLoad /\ [][Next]_vars
=============================================================================

----------------------------- MODULE MCSelfCalls -----------------------------
(* Model values for checking SelfCalls. *)
EXTENDS SelfCalls, TLC

CONSTANTS r1, r2, r3, r4

\* The handler of r1 waits for r2 in its call, the coroutine of r2 for r3; r4
\* is somebody else's.
MCRequests == {r1, r2, r3, r4}
MCCallAwaits == r1 :> r2 @@ r2 :> None @@ r3 :> None @@ r4 :> None
MCRunAwaits == r1 :> None @@ r2 :> r3 @@ r3 :> None @@ r4 :> None

\* All handlers are Python's, but for that of r4.
ChainInit == Init /\ target = [r \in Requests |-> IF r = r4 THEN "rust" ELSE "python"]

ChainSpec == ChainInit /\ [][SelfNext]_vars /\ SelfFairness
=============================================================================

------------------------------ MODULE SelfCalls ------------------------------
(***************************************************************************)
(* Dispatch with handlers that send a request to their own server and wait *)
(* for its answer: a plain handler in its call, on a worker thread, a      *)
(* coroutine in asyncio.run, on a thread of the blocking pool.  A thread   *)
(* that waits for a socket has given up the GIL and serves nobody else.    *)
(***************************************************************************)
EXTENDS Dispatch

CONSTANTS CallAwaits,  \* CallAwaits[r]: the request the call of r waits for, or None
          RunAwaits    \* RunAwaits[r]: the request the coroutine of r waits for

ASSUME AwaitsAssumption ==
    {CallAwaits, RunAwaits} \subseteq [Requests -> Requests \cup {None}]

\* The request that thread t waits for, or None.
Awaited(t) ==
    LET r == serving[t]
    IN  CASE t \in Workers /\ r # None /\ pc[r] = "in_call" -> CallAwaits[r]
          [] t \in PoolThreads /\ r # None /\ job[r] = "running" -> RunAwaits[r]
          [] OTHER -> None

Blocked(t) == Awaited(t) # None /\ pc[Awaited(t)] \notin Settled

\* Until its answer is there, the code on t neither returns nor raises, and t
\* does not ask for the GIL.
StaysPut(t) ==
    Blocked(t) => LET r == serving[t]
                  IN  /\ t \in Workers => pc'[r] = "in_call"
                      /\ t \in PoolThreads => job'[r] = "running"
                      /\ gil' = t => gil = t

Nested(q) == \E r \in Requests : q \in {CallAwaits[r], RunAwaits[r]}

\* A handler's own request is sent when the handler comes to it.
SentByHandler(q) ==
    Nested(q) /\ pc[q] = "new" /\ pc'[q] # "new" => \E t \in Threads : Awaited(t) = q

Allowed ==
    /\ \A t \in Threads : StaysPut(t)
    /\ \A q \in Requests : SentByHandler(q)

\* Handlers that never came to their own requests leave them unsent.
NoMoreSent ==
    /\ \A r \in Requests : pc[r] \in Settled \cup {"new"} /\ job[r] \notin Unfinished
    /\ UNCHANGED vars

SelfNext == (Next /\ Allowed) \/ NoMoreSent

\* As in Dispatch, of the steps that are left; moreover a thread that waits for
\* a socket gives up the GIL, and a handler's own request is sent to its end.
SelfFairness ==
    /\ WF_vars(up /\ (\E t \in Threads : Attach(t)) /\ Allowed)
    /\ SF_vars(up /\ Step /\ Allowed)
    /\ WF_vars(up /\ (\E t \in Threads : Blocked(t) /\ Yield(t)) /\ Allowed)
    /\ WF_vars(up /\ (\E q \in Requests : Nested(q) /\ (Arrive(q) \/ BodyEnds(q))) /\ Allowed)

SelfFairSpec == Init /\ [][SelfNext]_vars /\ SelfFairness

-----------------------------------------------------------------------------
(* Properties *)

\* Every thread of one kind waits for an answer of this very server.
Exhausted ==
    \E kind \in {Workers, PoolThreads} : \A t \in kind : Blocked(t)

\* Handlers that call their own server are answered, and everybody else is,
\* unless it comes to all threads of one kind waiting for answers for good: no
\* smaller knot of waiting handlers, and none over the GIL, stops the server.
HangsOnlyExhausted ==
    \A r \in Requests :
        pc[r] \in {"read", "unreadable"} ~> (pc[r] \in Settled \/ ~up \/ []Exhausted)
=============================================================================

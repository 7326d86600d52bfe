--------------------------- MODULE DispatchProofs ---------------------------
(***************************************************************************)
(* Theorems about Dispatch, for any requests and any threads.              *)
(***************************************************************************)
EXTENDS Dispatch, TLAPS

\* What has happened to a request by the time its future is at pc[r].
StagesAgree ==
    \A r \in Requests :
        /\ pc[r] \in {"new", "reading", "read", "unreadable", "clone", "call"} =>
              calls[r] = 0 /\ job[r] = "none"
        /\ pc[r] \in {"in_call", "inspect"} => calls[r] = 1 /\ job[r] = "none"
        /\ pc[r] = "parked" => calls[r] = 1 /\ job[r] \in Unfinished
        /\ pc[r] = "joined" => calls[r] = 1 /\ job[r] \in {"value", "raised"}
        /\ pc[r] = "convert" => calls[r] = 1 /\ job[r] \in {"none", "value"}
        /\ pc[r] = "describe" => calls[r] <= 1 /\ job[r] \notin Unfinished
        /\ pc[r] = "dropped" => calls[r] <= 1
        /\ pc[r] = "answered" => calls[r] <= 1
        /\ pc[r] \in Attached \cup {"parked", "joined"} => target[r] = "python"

\* What has happened to the coroutine of a request by the state of its job.
JobsAgree ==
    \A r \in Requests :
        /\ job[r] # "none" => calls[r] = 1 /\ target[r] = "python"
        /\ job[r] \in {"none", "queued", "starting"} => runs[r] = 0
        /\ job[r] \in {"running", "value"} => runs[r] = 1
        /\ runs[r] <= 1

DispatchInv ==
    /\ TypeOK
    /\ ThreadsMatch
    /\ GilHeldInPython
    /\ StagesAgree
    /\ JobsAgree
    /\ AnswersAreEarned

\* Every step keeps the types.

\* Every step keeps the types.

\* Every step keeps the types.

\* Every step keeps the types.
LEMMA TypeStep == DispatchInv /\ [Next]_vars => TypeOK'
<1> SUFFICES ASSUME DispatchInv, [Next]_vars PROVE TypeOK'
  OBVIOUS
<1> USE ThreadsAssumption DEF DispatchInv, TypeOK,
         Goto, Answer, Freed, Released, At, Waiting, Attached, Settled, Unfinished,
         Answers, Threads
<1>1. ASSUME NEW r \in Requests, Arrive(r) PROVE TypeOK'
  BY <1>1 DEF Arrive
<1>2. ASSUME NEW r \in Requests, BodyEnds(r) PROVE TypeOK'
  BY <1>2 DEF BodyEnds
<1>3. ASSUME NEW r \in Requests, Disconnect(r) PROVE TypeOK'
  BY <1>3 DEF Disconnect
<1>4. ASSUME NEW t \in Threads, Attach(t) PROVE TypeOK'
  BY <1>4 DEF Attach
<1>5. ASSUME NEW t \in Threads, Yield(t) PROVE TypeOK'
  BY <1>5 DEF Yield
<1>6. ASSUME NEW w \in Workers, NEW r \in Requests, RefuseBody(w, r) PROVE TypeOK'
  BY <1>6 DEF RefuseBody
<1>7. ASSUME NEW w \in Workers, NEW r \in Requests, Unrouted(w, r) PROVE TypeOK'
  BY <1>7 DEF Unrouted
<1>8. ASSUME NEW w \in Workers, NEW r \in Requests, RunRust(w, r) PROVE TypeOK'
  BY <1>8 DEF RunRust
<1>9. ASSUME NEW w \in Workers, NEW r \in Requests, StartPython(w, r) PROVE TypeOK'
  BY <1>9 DEF StartPython
<1>10. ASSUME NEW w \in Workers, NEW r \in Requests, Resume(w, r) PROVE TypeOK'
  BY <1>10 DEF Resume, AfterJoin
<1>11. ASSUME NEW w \in Workers, NEW r \in Requests, Clone(w, r) PROVE TypeOK'
  BY <1>11 DEF Clone
<1>12. ASSUME NEW w \in Workers, NEW r \in Requests, Invoke(w, r) PROVE TypeOK'
  BY <1>12 DEF Invoke
<1>13. ASSUME NEW w \in Workers, NEW r \in Requests, Return(w, r) PROVE TypeOK'
  BY <1>13 DEF Return
<1>14. ASSUME NEW w \in Workers, NEW r \in Requests, InspectValue(w, r) PROVE TypeOK'
  BY <1>14 DEF InspectValue
<1>15. ASSUME NEW w \in Workers, NEW r \in Requests, InspectAwaitable(w, r) PROVE TypeOK'
  BY <1>15 DEF InspectAwaitable
<1>16. ASSUME NEW w \in Workers, NEW r \in Requests, Fail(w, r) PROVE TypeOK'
  BY <1>16 DEF Fail, OnError
<1>17. ASSUME NEW w \in Workers, NEW r \in Requests, Describe(w, r) PROVE TypeOK'
  BY <1>17 DEF Describe
<1>18. ASSUME NEW w \in Workers, NEW r \in Requests, Convert(w, r) PROVE TypeOK'
  BY <1>18 DEF Convert
<1>19. ASSUME NEW w \in Workers, NEW r \in Requests, ConvertPanics(w, r) PROVE TypeOK'
  BY <1>19 DEF ConvertPanics
<1>20. ASSUME NEW p \in PoolThreads, NEW r \in Requests, StartJob(p, r) PROVE TypeOK'
  BY <1>20 DEF StartJob
<1>21. ASSUME NEW p \in PoolThreads, NEW r \in Requests, RunCoroutine(p, r) PROVE TypeOK'
  BY <1>21 DEF RunCoroutine
<1>22. ASSUME NEW p \in PoolThreads, NEW r \in Requests, JobEnds(p, r) PROVE TypeOK'
  BY <1>22 DEF JobEnds, Refused, Woken
<1>23. CASE UNCHANGED vars
  BY <1>23 DEF vars
<1>24. QED
  BY <1>1, <1>2, <1>3, <1>4, <1>5, <1>6, <1>7, <1>8, <1>9, <1>10, <1>11,
     <1>12, <1>13, <1>14, <1>15, <1>16, <1>17, <1>18, <1>19, <1>20, <1>21,
     <1>22, <1>23
     DEF Next, Client, Poll, Section, JobSection, Quiet

\* Every step keeps the places and the jobs of the futures in agreement.
LEMMA StagesStep == DispatchInv /\ [Next]_vars => StagesAgree'
<1> SUFFICES ASSUME DispatchInv, [Next]_vars PROVE StagesAgree'
  OBVIOUS
<1> USE ThreadsAssumption DEF DispatchInv, TypeOK, StagesAgree, AnswersAreEarned,
         Goto, Answer, Freed, Released, At, Waiting, Attached, Settled, Unfinished,
         Threads
<1>1. ASSUME NEW r \in Requests, Arrive(r) PROVE StagesAgree'
  BY <1>1 DEF Arrive
<1>2. ASSUME NEW r \in Requests, BodyEnds(r) PROVE StagesAgree'
  BY <1>2 DEF BodyEnds
<1>3. ASSUME NEW r \in Requests, Disconnect(r) PROVE StagesAgree'
  BY <1>3 DEF Disconnect
<1>4. ASSUME NEW t \in Threads, Attach(t) PROVE StagesAgree'
  BY <1>4 DEF Attach
<1>5. ASSUME NEW t \in Threads, Yield(t) PROVE StagesAgree'
  BY <1>5 DEF Yield
<1>6. ASSUME NEW w \in Workers, NEW r \in Requests, RefuseBody(w, r) PROVE StagesAgree'
  BY <1>6 DEF RefuseBody
<1>7. ASSUME NEW w \in Workers, NEW r \in Requests, Unrouted(w, r) PROVE StagesAgree'
  BY <1>7 DEF Unrouted
<1>8. ASSUME NEW w \in Workers, NEW r \in Requests, RunRust(w, r) PROVE StagesAgree'
  BY <1>8 DEF RunRust
<1>9. ASSUME NEW w \in Workers, NEW r \in Requests, StartPython(w, r) PROVE StagesAgree'
  BY <1>9 DEF StartPython
<1>10. ASSUME NEW w \in Workers, NEW r \in Requests, Resume(w, r) PROVE StagesAgree'
  BY <1>10 DEF Resume, AfterJoin
<1>11. ASSUME NEW w \in Workers, NEW r \in Requests, Clone(w, r) PROVE StagesAgree'
  BY <1>11 DEF Clone
<1>12. ASSUME NEW w \in Workers, NEW r \in Requests, Invoke(w, r) PROVE StagesAgree'
  BY <1>12 DEF Invoke
<1>13. ASSUME NEW w \in Workers, NEW r \in Requests, Return(w, r) PROVE StagesAgree'
  BY <1>13 DEF Return
<1>14. ASSUME NEW w \in Workers, NEW r \in Requests, InspectValue(w, r) PROVE StagesAgree'
  BY <1>14 DEF InspectValue
<1>15. ASSUME NEW w \in Workers, NEW r \in Requests, InspectAwaitable(w, r) PROVE StagesAgree'
  BY <1>15 DEF InspectAwaitable
<1>16. ASSUME NEW w \in Workers, NEW r \in Requests, Fail(w, r) PROVE StagesAgree'
  BY <1>16 DEF Fail, OnError
<1>17. ASSUME NEW w \in Workers, NEW r \in Requests, Describe(w, r) PROVE StagesAgree'
  BY <1>17 DEF Describe
<1>18. ASSUME NEW w \in Workers, NEW r \in Requests, Convert(w, r) PROVE StagesAgree'
  BY <1>18 DEF Convert
<1>19. ASSUME NEW w \in Workers, NEW r \in Requests, ConvertPanics(w, r) PROVE StagesAgree'
  BY <1>19 DEF ConvertPanics
<1>20. ASSUME NEW p \in PoolThreads, NEW r \in Requests, StartJob(p, r) PROVE StagesAgree'
  BY <1>20 DEF StartJob
<1>21. ASSUME NEW p \in PoolThreads, NEW r \in Requests, RunCoroutine(p, r) PROVE StagesAgree'
  BY <1>21 DEF RunCoroutine
<1>22. ASSUME NEW p \in PoolThreads, NEW r \in Requests, JobEnds(p, r) PROVE StagesAgree'
  BY <1>22 DEF JobEnds, Refused, Woken
<1>23. CASE UNCHANGED vars
  BY <1>23 DEF vars
<1>24. QED
  BY <1>1, <1>2, <1>3, <1>4, <1>5, <1>6, <1>7, <1>8, <1>9, <1>10, <1>11,
     <1>12, <1>13, <1>14, <1>15, <1>16, <1>17, <1>18, <1>19, <1>20, <1>21,
     <1>22, <1>23
     DEF Next, Client, Poll, Section, JobSection, Quiet

\* Every step keeps the jobs and the coroutines in agreement.
LEMMA JobsStep == DispatchInv /\ [Next]_vars => JobsAgree'
<1> SUFFICES ASSUME DispatchInv, [Next]_vars PROVE JobsAgree'
  OBVIOUS
<1> USE ThreadsAssumption DEF DispatchInv, TypeOK, StagesAgree, JobsAgree,
         Goto, Answer, Freed, Released, At, Waiting, Attached, Settled, Unfinished,
         Threads
<1>1. ASSUME NEW r \in Requests, Arrive(r) PROVE JobsAgree'
  BY <1>1 DEF Arrive
<1>2. ASSUME NEW r \in Requests, BodyEnds(r) PROVE JobsAgree'
  BY <1>2 DEF BodyEnds
<1>3. ASSUME NEW r \in Requests, Disconnect(r) PROVE JobsAgree'
  BY <1>3 DEF Disconnect
<1>4. ASSUME NEW t \in Threads, Attach(t) PROVE JobsAgree'
  BY <1>4 DEF Attach
<1>5. ASSUME NEW t \in Threads, Yield(t) PROVE JobsAgree'
  BY <1>5 DEF Yield
<1>6. ASSUME NEW w \in Workers, NEW r \in Requests, RefuseBody(w, r) PROVE JobsAgree'
  BY <1>6 DEF RefuseBody
<1>7. ASSUME NEW w \in Workers, NEW r \in Requests, Unrouted(w, r) PROVE JobsAgree'
  BY <1>7 DEF Unrouted
<1>8. ASSUME NEW w \in Workers, NEW r \in Requests, RunRust(w, r) PROVE JobsAgree'
  BY <1>8 DEF RunRust
<1>9. ASSUME NEW w \in Workers, NEW r \in Requests, StartPython(w, r) PROVE JobsAgree'
  BY <1>9 DEF StartPython
<1>10. ASSUME NEW w \in Workers, NEW r \in Requests, Resume(w, r) PROVE JobsAgree'
  BY <1>10 DEF Resume, AfterJoin
<1>11. ASSUME NEW w \in Workers, NEW r \in Requests, Clone(w, r) PROVE JobsAgree'
  BY <1>11 DEF Clone
<1>12. ASSUME NEW w \in Workers, NEW r \in Requests, Invoke(w, r) PROVE JobsAgree'
  BY <1>12 DEF Invoke
<1>13. ASSUME NEW w \in Workers, NEW r \in Requests, Return(w, r) PROVE JobsAgree'
  BY <1>13 DEF Return
<1>14. ASSUME NEW w \in Workers, NEW r \in Requests, InspectValue(w, r) PROVE JobsAgree'
  BY <1>14 DEF InspectValue
<1>15. ASSUME NEW w \in Workers, NEW r \in Requests, InspectAwaitable(w, r) PROVE JobsAgree'
  BY <1>15 DEF InspectAwaitable
<1>16. ASSUME NEW w \in Workers, NEW r \in Requests, Fail(w, r) PROVE JobsAgree'
  BY <1>16 DEF Fail, OnError
<1>17. ASSUME NEW w \in Workers, NEW r \in Requests, Describe(w, r) PROVE JobsAgree'
  BY <1>17 DEF Describe
<1>18. ASSUME NEW w \in Workers, NEW r \in Requests, Convert(w, r) PROVE JobsAgree'
  BY <1>18 DEF Convert
<1>19. ASSUME NEW w \in Workers, NEW r \in Requests, ConvertPanics(w, r) PROVE JobsAgree'
  BY <1>19 DEF ConvertPanics
<1>20. ASSUME NEW p \in PoolThreads, NEW r \in Requests, StartJob(p, r) PROVE JobsAgree'
  BY <1>20 DEF StartJob
<1>21. ASSUME NEW p \in PoolThreads, NEW r \in Requests, RunCoroutine(p, r) PROVE JobsAgree'
  BY <1>21 DEF RunCoroutine
<1>22. ASSUME NEW p \in PoolThreads, NEW r \in Requests, JobEnds(p, r) PROVE JobsAgree'
  BY <1>22 DEF JobEnds, Refused, Woken
<1>23. CASE UNCHANGED vars
  BY <1>23 DEF vars
<1>24. QED
  BY <1>1, <1>2, <1>3, <1>4, <1>5, <1>6, <1>7, <1>8, <1>9, <1>10, <1>11,
     <1>12, <1>13, <1>14, <1>15, <1>16, <1>17, <1>18, <1>19, <1>20, <1>21,
     <1>22, <1>23
     DEF Next, Client, Poll, Section, JobSection, Quiet

\* Every step leaves only earned answers.
LEMMA AnswersStep == DispatchInv /\ [Next]_vars => AnswersAreEarned'
<1> SUFFICES ASSUME DispatchInv, [Next]_vars PROVE AnswersAreEarned'
  OBVIOUS
<1> USE ThreadsAssumption DEF DispatchInv, TypeOK, StagesAgree, JobsAgree, AnswersAreEarned,
         Goto, Answer, Freed, Released, At, Waiting, Attached, Settled, Unfinished,
         Threads
<1>1. ASSUME NEW r \in Requests, Arrive(r) PROVE AnswersAreEarned'
  BY <1>1 DEF Arrive
<1>2. ASSUME NEW r \in Requests, BodyEnds(r) PROVE AnswersAreEarned'
  BY <1>2 DEF BodyEnds
<1>3. ASSUME NEW r \in Requests, Disconnect(r) PROVE AnswersAreEarned'
  BY <1>3 DEF Disconnect
<1>4. ASSUME NEW t \in Threads, Attach(t) PROVE AnswersAreEarned'
  BY <1>4 DEF Attach
<1>5. ASSUME NEW t \in Threads, Yield(t) PROVE AnswersAreEarned'
  BY <1>5 DEF Yield
<1>6. ASSUME NEW w \in Workers, NEW r \in Requests, RefuseBody(w, r) PROVE AnswersAreEarned'
  BY <1>6 DEF RefuseBody
<1>7. ASSUME NEW w \in Workers, NEW r \in Requests, Unrouted(w, r) PROVE AnswersAreEarned'
  BY <1>7 DEF Unrouted
<1>8. ASSUME NEW w \in Workers, NEW r \in Requests, RunRust(w, r) PROVE AnswersAreEarned'
  BY <1>8 DEF RunRust
<1>9. ASSUME NEW w \in Workers, NEW r \in Requests, StartPython(w, r) PROVE AnswersAreEarned'
  BY <1>9 DEF StartPython
<1>10. ASSUME NEW w \in Workers, NEW r \in Requests, Resume(w, r) PROVE AnswersAreEarned'
  BY <1>10 DEF Resume, AfterJoin
<1>11. ASSUME NEW w \in Workers, NEW r \in Requests, Clone(w, r) PROVE AnswersAreEarned'
  BY <1>11 DEF Clone
<1>12. ASSUME NEW w \in Workers, NEW r \in Requests, Invoke(w, r) PROVE AnswersAreEarned'
  BY <1>12 DEF Invoke
<1>13. ASSUME NEW w \in Workers, NEW r \in Requests, Return(w, r) PROVE AnswersAreEarned'
  BY <1>13 DEF Return
<1>14. ASSUME NEW w \in Workers, NEW r \in Requests, InspectValue(w, r) PROVE AnswersAreEarned'
  BY <1>14 DEF InspectValue
<1>15. ASSUME NEW w \in Workers, NEW r \in Requests, InspectAwaitable(w, r) PROVE AnswersAreEarned'
  BY <1>15 DEF InspectAwaitable
<1>16. ASSUME NEW w \in Workers, NEW r \in Requests, Fail(w, r) PROVE AnswersAreEarned'
  BY <1>16 DEF Fail, OnError
<1>17. ASSUME NEW w \in Workers, NEW r \in Requests, Describe(w, r) PROVE AnswersAreEarned'
  BY <1>17 DEF Describe
<1>18. ASSUME NEW w \in Workers, NEW r \in Requests, Convert(w, r) PROVE AnswersAreEarned'
  BY <1>18 DEF Convert
<1>19. ASSUME NEW w \in Workers, NEW r \in Requests, ConvertPanics(w, r) PROVE AnswersAreEarned'
  BY <1>19 DEF ConvertPanics
<1>20. ASSUME NEW p \in PoolThreads, NEW r \in Requests, StartJob(p, r) PROVE AnswersAreEarned'
  BY <1>20 DEF StartJob
<1>21. ASSUME NEW p \in PoolThreads, NEW r \in Requests, RunCoroutine(p, r) PROVE AnswersAreEarned'
  BY <1>21 DEF RunCoroutine
<1>22. ASSUME NEW p \in PoolThreads, NEW r \in Requests, JobEnds(p, r) PROVE AnswersAreEarned'
  BY <1>22 DEF JobEnds, Refused, Woken
<1>23. CASE UNCHANGED vars
  BY <1>23 DEF vars
<1>24. QED
  BY <1>1, <1>2, <1>3, <1>4, <1>5, <1>6, <1>7, <1>8, <1>9, <1>10, <1>11,
     <1>12, <1>13, <1>14, <1>15, <1>16, <1>17, <1>18, <1>19, <1>20, <1>21,
     <1>22, <1>23
     DEF Next, Client, Poll, Section, JobSection, Quiet

\* Every step leaves the GIL with a thread that has work in Python.
LEMMA GilStep == DispatchInv /\ [Next]_vars => GilHeldInPython'
<1> SUFFICES ASSUME DispatchInv, [Next]_vars PROVE GilHeldInPython'
  OBVIOUS
<1> USE ThreadsAssumption DEF DispatchInv, TypeOK, ThreadsMatch, OneThreadEach, GilHeldInPython,
         Goto, Answer, Freed, Released, At, Threads
<1>1. ASSUME NEW r \in Requests, Arrive(r) PROVE GilHeldInPython'
  BY <1>1 DEF Arrive
<1>2. ASSUME NEW r \in Requests, BodyEnds(r) PROVE GilHeldInPython'
  BY <1>2 DEF BodyEnds
<1>3. ASSUME NEW r \in Requests, Disconnect(r) PROVE GilHeldInPython'
  BY <1>3 DEF Disconnect
<1>4. ASSUME NEW t \in Threads, Attach(t) PROVE GilHeldInPython'
  BY <1>4 DEF Attach
<1>5. ASSUME NEW t \in Threads, Yield(t) PROVE GilHeldInPython'
  BY <1>5 DEF Yield
<1>6. ASSUME NEW w \in Workers, NEW r \in Requests, RefuseBody(w, r) PROVE GilHeldInPython'
  BY <1>6 DEF RefuseBody
<1>7. ASSUME NEW w \in Workers, NEW r \in Requests, Unrouted(w, r) PROVE GilHeldInPython'
  BY <1>7 DEF Unrouted
<1>8. ASSUME NEW w \in Workers, NEW r \in Requests, RunRust(w, r) PROVE GilHeldInPython'
  BY <1>8 DEF RunRust
<1>9. ASSUME NEW w \in Workers, NEW r \in Requests, StartPython(w, r) PROVE GilHeldInPython'
  BY <1>9 DEF StartPython
<1>10. ASSUME NEW w \in Workers, NEW r \in Requests, Resume(w, r) PROVE GilHeldInPython'
  BY <1>10 DEF Resume, AfterJoin
<1>11. ASSUME NEW w \in Workers, NEW r \in Requests, Clone(w, r) PROVE GilHeldInPython'
  BY <1>11 DEF Clone
<1>12. ASSUME NEW w \in Workers, NEW r \in Requests, Invoke(w, r) PROVE GilHeldInPython'
  BY <1>12 DEF Invoke
<1>13. ASSUME NEW w \in Workers, NEW r \in Requests, Return(w, r) PROVE GilHeldInPython'
  BY <1>13 DEF Return
<1>14. ASSUME NEW w \in Workers, NEW r \in Requests, InspectValue(w, r) PROVE GilHeldInPython'
  BY <1>14 DEF InspectValue
<1>15. ASSUME NEW w \in Workers, NEW r \in Requests, InspectAwaitable(w, r) PROVE GilHeldInPython'
  BY <1>15 DEF InspectAwaitable
<1>16. ASSUME NEW w \in Workers, NEW r \in Requests, Fail(w, r) PROVE GilHeldInPython'
  BY <1>16 DEF Fail, OnError
<1>17. ASSUME NEW w \in Workers, NEW r \in Requests, Describe(w, r) PROVE GilHeldInPython'
  BY <1>17 DEF Describe
<1>18. ASSUME NEW w \in Workers, NEW r \in Requests, Convert(w, r) PROVE GilHeldInPython'
  BY <1>18 DEF Convert
<1>19. ASSUME NEW w \in Workers, NEW r \in Requests, ConvertPanics(w, r) PROVE GilHeldInPython'
  BY <1>19 DEF ConvertPanics
<1>20. ASSUME NEW p \in PoolThreads, NEW r \in Requests, StartJob(p, r) PROVE GilHeldInPython'
  BY <1>20 DEF StartJob
<1>21. ASSUME NEW p \in PoolThreads, NEW r \in Requests, RunCoroutine(p, r) PROVE GilHeldInPython'
  BY <1>21 DEF RunCoroutine
<1>22. ASSUME NEW p \in PoolThreads, NEW r \in Requests, JobEnds(p, r) PROVE GilHeldInPython'
  BY <1>22 DEF JobEnds, Refused, Woken
<1>23. CASE UNCHANGED vars
  BY <1>23 DEF vars
<1>24. QED
  BY <1>1, <1>2, <1>3, <1>4, <1>5, <1>6, <1>7, <1>8, <1>9, <1>10, <1>11,
     <1>12, <1>13, <1>14, <1>15, <1>16, <1>17, <1>18, <1>19, <1>20, <1>21,
     <1>22, <1>23
     DEF Next, Client, Poll, Section, JobSection, Quiet

\* Every step keeps the workers and the futures matched.
LEMMA WorkersStep == DispatchInv /\ [Next]_vars => WorkersMatch'
<1> SUFFICES ASSUME DispatchInv, [Next]_vars PROVE WorkersMatch'
  OBVIOUS
<1> USE ThreadsAssumption DEF DispatchInv, TypeOK, ThreadsMatch, WorkersMatch, PoolMatches, OneThreadEach,
         Goto, Answer, Freed, Released, At, Waiting, Attached, Unfinished, Threads
<1>1. ASSUME NEW r \in Requests, Arrive(r) PROVE WorkersMatch'
  BY <1>1 DEF Arrive
<1>2. ASSUME NEW r \in Requests, BodyEnds(r) PROVE WorkersMatch'
  BY <1>2 DEF BodyEnds
<1>3. ASSUME NEW r \in Requests, Disconnect(r) PROVE WorkersMatch'
  BY <1>3 DEF Disconnect
<1>4. ASSUME NEW t \in Threads, Attach(t) PROVE WorkersMatch'
  BY <1>4 DEF Attach
<1>5. ASSUME NEW t \in Threads, Yield(t) PROVE WorkersMatch'
  BY <1>5 DEF Yield
<1>6. ASSUME NEW w \in Workers, NEW r \in Requests, RefuseBody(w, r) PROVE WorkersMatch'
  BY <1>6 DEF RefuseBody
<1>7. ASSUME NEW w \in Workers, NEW r \in Requests, Unrouted(w, r) PROVE WorkersMatch'
  BY <1>7 DEF Unrouted
<1>8. ASSUME NEW w \in Workers, NEW r \in Requests, RunRust(w, r) PROVE WorkersMatch'
  BY <1>8 DEF RunRust
<1>9. ASSUME NEW w \in Workers, NEW r \in Requests, StartPython(w, r) PROVE WorkersMatch'
  BY <1>9 DEF StartPython
<1>10. ASSUME NEW w \in Workers, NEW r \in Requests, Resume(w, r) PROVE WorkersMatch'
  BY <1>10 DEF Resume, AfterJoin
<1>11. ASSUME NEW w \in Workers, NEW r \in Requests, Clone(w, r) PROVE WorkersMatch'
  BY <1>11 DEF Clone
<1>12. ASSUME NEW w \in Workers, NEW r \in Requests, Invoke(w, r) PROVE WorkersMatch'
  BY <1>12 DEF Invoke
<1>13. ASSUME NEW w \in Workers, NEW r \in Requests, Return(w, r) PROVE WorkersMatch'
  BY <1>13 DEF Return
<1>14. ASSUME NEW w \in Workers, NEW r \in Requests, InspectValue(w, r) PROVE WorkersMatch'
  BY <1>14 DEF InspectValue
<1>15. ASSUME NEW w \in Workers, NEW r \in Requests, InspectAwaitable(w, r) PROVE WorkersMatch'
  BY <1>15 DEF InspectAwaitable
<1>16. ASSUME NEW w \in Workers, NEW r \in Requests, Fail(w, r) PROVE WorkersMatch'
  BY <1>16 DEF Fail, OnError
<1>17. ASSUME NEW w \in Workers, NEW r \in Requests, Describe(w, r) PROVE WorkersMatch'
  BY <1>17 DEF Describe
<1>18. ASSUME NEW w \in Workers, NEW r \in Requests, Convert(w, r) PROVE WorkersMatch'
  BY <1>18 DEF Convert
<1>19. ASSUME NEW w \in Workers, NEW r \in Requests, ConvertPanics(w, r) PROVE WorkersMatch'
  BY <1>19 DEF ConvertPanics
<1>20. ASSUME NEW p \in PoolThreads, NEW r \in Requests, StartJob(p, r) PROVE WorkersMatch'
  BY <1>20 DEF StartJob
<1>21. ASSUME NEW p \in PoolThreads, NEW r \in Requests, RunCoroutine(p, r) PROVE WorkersMatch'
  BY <1>21 DEF RunCoroutine
<1>22. ASSUME NEW p \in PoolThreads, NEW r \in Requests, JobEnds(p, r) PROVE WorkersMatch'
  BY <1>22 DEF JobEnds, Refused, Woken
<1>23. CASE UNCHANGED vars
  BY <1>23 DEF vars
<1>24. QED
  BY <1>1, <1>2, <1>3, <1>4, <1>5, <1>6, <1>7, <1>8, <1>9, <1>10, <1>11,
     <1>12, <1>13, <1>14, <1>15, <1>16, <1>17, <1>18, <1>19, <1>20, <1>21,
     <1>22, <1>23
     DEF Next, Client, Poll, Section, JobSection, Quiet

\* Every step keeps the pool threads and the jobs matched.
LEMMA PoolStep == DispatchInv /\ [Next]_vars => PoolMatches'
<1> SUFFICES ASSUME DispatchInv, [Next]_vars PROVE PoolMatches'
  OBVIOUS
<1> USE ThreadsAssumption DEF DispatchInv, TypeOK, ThreadsMatch, WorkersMatch, PoolMatches, OneThreadEach,
         Goto, Answer, Freed, Released, At, Waiting, Attached, Unfinished, Threads
<1>1. ASSUME NEW r \in Requests, Arrive(r) PROVE PoolMatches'
  BY <1>1 DEF Arrive
<1>2. ASSUME NEW r \in Requests, BodyEnds(r) PROVE PoolMatches'
  BY <1>2 DEF BodyEnds
<1>3. ASSUME NEW r \in Requests, Disconnect(r) PROVE PoolMatches'
  BY <1>3 DEF Disconnect
<1>4. ASSUME NEW t \in Threads, Attach(t) PROVE PoolMatches'
  BY <1>4 DEF Attach
<1>5. ASSUME NEW t \in Threads, Yield(t) PROVE PoolMatches'
  BY <1>5 DEF Yield
<1>6. ASSUME NEW w \in Workers, NEW r \in Requests, RefuseBody(w, r) PROVE PoolMatches'
  BY <1>6 DEF RefuseBody
<1>7. ASSUME NEW w \in Workers, NEW r \in Requests, Unrouted(w, r) PROVE PoolMatches'
  BY <1>7 DEF Unrouted
<1>8. ASSUME NEW w \in Workers, NEW r \in Requests, RunRust(w, r) PROVE PoolMatches'
  BY <1>8 DEF RunRust
<1>9. ASSUME NEW w \in Workers, NEW r \in Requests, StartPython(w, r) PROVE PoolMatches'
  BY <1>9 DEF StartPython
<1>10. ASSUME NEW w \in Workers, NEW r \in Requests, Resume(w, r) PROVE PoolMatches'
  BY <1>10 DEF Resume, AfterJoin
<1>11. ASSUME NEW w \in Workers, NEW r \in Requests, Clone(w, r) PROVE PoolMatches'
  BY <1>11 DEF Clone
<1>12. ASSUME NEW w \in Workers, NEW r \in Requests, Invoke(w, r) PROVE PoolMatches'
  BY <1>12 DEF Invoke
<1>13. ASSUME NEW w \in Workers, NEW r \in Requests, Return(w, r) PROVE PoolMatches'
  BY <1>13 DEF Return
<1>14. ASSUME NEW w \in Workers, NEW r \in Requests, InspectValue(w, r) PROVE PoolMatches'
  BY <1>14 DEF InspectValue
<1>15. ASSUME NEW w \in Workers, NEW r \in Requests, InspectAwaitable(w, r) PROVE PoolMatches'
  <2>1. \A q \in Requests : job'[q] = IF q = r THEN "queued" ELSE job[q]
    BY <1>15 DEF InspectAwaitable
  <2>2. \A p \in PoolThreads : serving'[p] = serving[p]
    BY <1>15 DEF InspectAwaitable
  <2>3. job[r] = "none"
    BY <1>15 DEF InspectAwaitable, StagesAgree
  <2>4. QED
    BY <2>1, <2>2, <2>3
<1>16. ASSUME NEW w \in Workers, NEW r \in Requests, Fail(w, r) PROVE PoolMatches'
  BY <1>16 DEF Fail, OnError
<1>17. ASSUME NEW w \in Workers, NEW r \in Requests, Describe(w, r) PROVE PoolMatches'
  BY <1>17 DEF Describe
<1>18. ASSUME NEW w \in Workers, NEW r \in Requests, Convert(w, r) PROVE PoolMatches'
  BY <1>18 DEF Convert
<1>19. ASSUME NEW w \in Workers, NEW r \in Requests, ConvertPanics(w, r) PROVE PoolMatches'
  BY <1>19 DEF ConvertPanics
<1>20. ASSUME NEW p \in PoolThreads, NEW r \in Requests, StartJob(p, r) PROVE PoolMatches'
  BY <1>20 DEF StartJob
<1>21. ASSUME NEW p \in PoolThreads, NEW r \in Requests, RunCoroutine(p, r) PROVE PoolMatches'
  BY <1>21 DEF RunCoroutine
<1>22. ASSUME NEW p \in PoolThreads, NEW r \in Requests, JobEnds(p, r) PROVE PoolMatches'
  BY <1>22 DEF JobEnds, Refused, Woken
<1>23. CASE UNCHANGED vars
  BY <1>23 DEF vars
<1>24. QED
  BY <1>1, <1>2, <1>3, <1>4, <1>5, <1>6, <1>7, <1>8, <1>9, <1>10, <1>11,
     <1>12, <1>13, <1>14, <1>15, <1>16, <1>17, <1>18, <1>19, <1>20, <1>21,
     <1>22, <1>23
     DEF Next, Client, Poll, Section, JobSection, Quiet

\* Every step keeps each request with one thread of a kind.
LEMMA OneThreadStep == DispatchInv /\ [Next]_vars => OneThreadEach'
<1> SUFFICES ASSUME DispatchInv, [Next]_vars PROVE OneThreadEach'
  OBVIOUS
<1> USE ThreadsAssumption DEF DispatchInv, TypeOK, ThreadsMatch, WorkersMatch, PoolMatches, OneThreadEach,
         Goto, Answer, Freed, Released, At, Waiting, Attached, Unfinished, Threads
<1>1. ASSUME NEW r \in Requests, Arrive(r) PROVE OneThreadEach'
  BY <1>1 DEF Arrive
<1>2. ASSUME NEW r \in Requests, BodyEnds(r) PROVE OneThreadEach'
  BY <1>2 DEF BodyEnds
<1>3. ASSUME NEW r \in Requests, Disconnect(r) PROVE OneThreadEach'
  BY <1>3 DEF Disconnect
<1>4. ASSUME NEW t \in Threads, Attach(t) PROVE OneThreadEach'
  BY <1>4 DEF Attach
<1>5. ASSUME NEW t \in Threads, Yield(t) PROVE OneThreadEach'
  BY <1>5 DEF Yield
<1>6. ASSUME NEW w \in Workers, NEW r \in Requests, RefuseBody(w, r) PROVE OneThreadEach'
  BY <1>6 DEF RefuseBody
<1>7. ASSUME NEW w \in Workers, NEW r \in Requests, Unrouted(w, r) PROVE OneThreadEach'
  BY <1>7 DEF Unrouted
<1>8. ASSUME NEW w \in Workers, NEW r \in Requests, RunRust(w, r) PROVE OneThreadEach'
  BY <1>8 DEF RunRust
<1>9. ASSUME NEW w \in Workers, NEW r \in Requests, StartPython(w, r) PROVE OneThreadEach'
  BY <1>9 DEF StartPython
<1>10. ASSUME NEW w \in Workers, NEW r \in Requests, Resume(w, r) PROVE OneThreadEach'
  BY <1>10 DEF Resume, AfterJoin
<1>11. ASSUME NEW w \in Workers, NEW r \in Requests, Clone(w, r) PROVE OneThreadEach'
  BY <1>11 DEF Clone
<1>12. ASSUME NEW w \in Workers, NEW r \in Requests, Invoke(w, r) PROVE OneThreadEach'
  BY <1>12 DEF Invoke
<1>13. ASSUME NEW w \in Workers, NEW r \in Requests, Return(w, r) PROVE OneThreadEach'
  BY <1>13 DEF Return
<1>14. ASSUME NEW w \in Workers, NEW r \in Requests, InspectValue(w, r) PROVE OneThreadEach'
  BY <1>14 DEF InspectValue
<1>15. ASSUME NEW w \in Workers, NEW r \in Requests, InspectAwaitable(w, r) PROVE OneThreadEach'
  BY <1>15 DEF InspectAwaitable
<1>16. ASSUME NEW w \in Workers, NEW r \in Requests, Fail(w, r) PROVE OneThreadEach'
  BY <1>16 DEF Fail, OnError
<1>17. ASSUME NEW w \in Workers, NEW r \in Requests, Describe(w, r) PROVE OneThreadEach'
  BY <1>17 DEF Describe
<1>18. ASSUME NEW w \in Workers, NEW r \in Requests, Convert(w, r) PROVE OneThreadEach'
  BY <1>18 DEF Convert
<1>19. ASSUME NEW w \in Workers, NEW r \in Requests, ConvertPanics(w, r) PROVE OneThreadEach'
  BY <1>19 DEF ConvertPanics
<1>20. ASSUME NEW p \in PoolThreads, NEW r \in Requests, StartJob(p, r) PROVE OneThreadEach'
  BY <1>20 DEF StartJob
<1>21. ASSUME NEW p \in PoolThreads, NEW r \in Requests, RunCoroutine(p, r) PROVE OneThreadEach'
  BY <1>21 DEF RunCoroutine
<1>22. ASSUME NEW p \in PoolThreads, NEW r \in Requests, JobEnds(p, r) PROVE OneThreadEach'
  BY <1>22 DEF JobEnds, Refused, Woken
<1>23. CASE UNCHANGED vars
  BY <1>23 DEF vars
<1>24. QED
  BY <1>1, <1>2, <1>3, <1>4, <1>5, <1>6, <1>7, <1>8, <1>9, <1>10, <1>11,
     <1>12, <1>13, <1>14, <1>15, <1>16, <1>17, <1>18, <1>19, <1>20, <1>21,
     <1>22, <1>23
     DEF Next, Client, Poll, Section, JobSection, Quiet

LEMMA InvInit == Init => DispatchInv
  BY ThreadsAssumption
     DEF Init, DispatchInv, TypeOK, ThreadsMatch, WorkersMatch, PoolMatches,
         OneThreadEach, GilHeldInPython, StagesAgree, JobsAgree, AnswersAreEarned,
         Threads, Waiting, Attached, Settled, Unfinished, Answers

LEMMA InvStep == DispatchInv /\ [Next]_vars => DispatchInv'
  BY TypeStep, StagesStep, JobsStep, AnswersStep, GilStep, WorkersStep,
     PoolStep, OneThreadStep
     DEF DispatchInv, ThreadsMatch

LEMMA Invariant == Spec => []DispatchInv
  BY InvInit, InvStep, PTL DEF Spec

-----------------------------------------------------------------------------
(* The theorems *)

\* The state of the runtime keeps its type.
THEOREM TypeCorrect == Spec => []TypeOK
<1>1. DispatchInv => TypeOK
  BY DEF DispatchInv
<1>2. QED
  BY <1>1, Invariant, PTL

\* Threads serve exactly the futures and jobs that need one, one each.
THEOREM ThreadsAlwaysMatch == Spec => []ThreadsMatch
<1>1. DispatchInv => ThreadsMatch
  BY DEF DispatchInv
<1>2. QED
  BY <1>1, Invariant, PTL

\* No way out of PyHandler::handle or of a job leaves the GIL behind.
THEOREM GilNeverOrphaned == Spec => []GilHeldInPython
<1>1. DispatchInv => GilHeldInPython
  BY DEF DispatchInv
<1>2. QED
  BY <1>1, Invariant, PTL

\* The Python callable is called at most once for a request, and its coroutine
\* run at most once.
THEOREM UserCodeRunsOnce == Spec => []RunsOnce
<1>1. DispatchInv => RunsOnce
  <2> SUFFICES ASSUME DispatchInv, NEW r \in Requests
               PROVE  runs[r] <= calls[r] /\ calls[r] <= 1
    BY DEF RunsOnce
  <2>1. calls[r] \in Nat /\ runs[r] \in Nat
    BY DEF DispatchInv, TypeOK
  <2>2. calls[r] <= 1
    BY DEF DispatchInv, TypeOK, StagesAgree, Waiting, Attached, Settled
  <2>3. CASE job[r] = "none"
    BY <2>1, <2>2, <2>3 DEF DispatchInv, JobsAgree
  <2>4. CASE job[r] # "none"
    BY <2>1, <2>4 DEF DispatchInv, JobsAgree
  <2>5. QED
    BY <2>2, <2>3, <2>4
<1>2. QED
  BY <1>1, Invariant, PTL

\* Every answer is earned, and leaves no user code behind.
THEOREM AnswersEarned == Spec => []AnswersAreEarned
<1>1. DispatchInv => AnswersAreEarned
  BY DEF DispatchInv
<1>2. QED
  BY <1>1, Invariant, PTL
=============================================================================

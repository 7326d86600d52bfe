------------------------- MODULE DispatchRefinement -------------------------
(***************************************************************************)
(* Dispatch implements HttpService, for any requests and any threads, and  *)
(* so it does when handlers call their own server.                         *)
(***************************************************************************)
EXTENDS DispatchProofs, SelfCalls

phaseView == [r \in Requests |-> PhaseAt(pc[r])]
userView  == [r \in Requests |-> Ran(calls[r], runs[r])]

\* A future that moves to label changes what one client sees.
LEMMA PhaseMoves ==
    ASSUME TypeOK, NEW r \in Requests, NEW label, Goto(r, label)
    PROVE  phaseView' = [phaseView EXCEPT ![r] = PhaseAt(label)]
  BY DEF TypeOK, Goto, phaseView

\* A future that stays open moves unseen.
LEMMA OpenMoves ==
    ASSUME TypeOK, NEW r \in Requests, NEW label, Goto(r, label),
           PhaseAt(pc[r]) = PhaseAt(label)
    PROVE  UNCHANGED phaseView
  BY DEF TypeOK, Goto, phaseView

\* Calls and runs show in nothing else.
LEMMA UserStays == ASSUME UNCHANGED <<calls, runs>> PROVE UNCHANGED userView
  BY DEF userView

\* The user code of one request moves.
LEMMA UserMoves ==
    ASSUME NEW r \in Requests,
           \A q \in Requests \ {r} : calls'[q] = calls[q] /\ runs'[q] = runs[q]
    PROVE  userView' = [userView EXCEPT ![r] = Ran(calls'[r], runs'[r])]
  BY DEF userView

\* Every step is a step of HttpService, or unseen.
LEMMA RefinementStep == DispatchInv /\ [Next]_vars => [Service!HNext]_Service!hvars
<1> SUFFICES ASSUME DispatchInv, [Next]_vars, up \/ UNCHANGED vars
             PROVE  [Service!HNext]_Service!hvars
  BY DEF Next, Quiet
<1>0. TypeOK
  BY DEF DispatchInv
<1> USE <1>0
<1>1. ASSUME NEW r \in Requests, Arrive(r) PROVE up => Service!HNext
  <2>1. phaseView[r] = "idle" /\ phaseView' = [phaseView EXCEPT ![r] = "open"]
    BY <1>1, PhaseMoves DEF Arrive, PhaseAt, phaseView
  <2>2. Service!Open(r)
    BY <1>1, <2>1, UserStays DEF Arrive, Service!Open, phaseView, userView
  <2>3. QED
    BY <2>2 DEF Service!HNext
<1>2. ASSUME NEW r \in Requests, Disconnect(r) PROVE up => Service!HNext
  <2>1. phaseView[r] = "open" /\ phaseView' = [phaseView EXCEPT ![r] = "gone"]
    BY <1>2, PhaseMoves DEF Disconnect, Waiting, PhaseAt, phaseView
  <2>2. Service!Leave(r)
    BY <1>2, <2>1, UserStays DEF Disconnect, Service!Leave, phaseView, userView
  <2>3. QED
    BY <2>2 DEF Service!HNext
<1>3. ASSUME NEW w \in Workers, NEW r \in Requests, RefuseBody(w, r) PROVE up => Service!HNext
  <2>1. phaseView' = [phaseView EXCEPT ![r] = "done"]
    BY <1>3, PhaseMoves DEF RefuseBody, Answer, PhaseAt
  <2>2. phaseView[r] = "open"
    BY <1>3 DEF RefuseBody, At, phaseView, PhaseAt
  <2>3. PICK a \in Service!Answers : Service!Earned(r, a) /\ answer' = [answer EXCEPT ![r] = a]
    BY <1>3 DEF RefuseBody, At, Answer, Service!Answers, Service!Earned, Ran,
           DispatchInv, StagesAgree, JobsAgree
  <2>4. Service!Reply(r, a)
    BY <1>3, <2>1, <2>2, <2>3, UserStays DEF RefuseBody, Service!Reply, phaseView, userView
  <2>5. QED
    BY <1>3, <2>4 DEF Service!HNext
<1>4. ASSUME NEW w \in Workers, NEW r \in Requests, Unrouted(w, r) PROVE up => Service!HNext
  <2>1. phaseView' = [phaseView EXCEPT ![r] = "done"]
    BY <1>4, PhaseMoves DEF Unrouted, Answer, PhaseAt
  <2>2. phaseView[r] = "open"
    BY <1>4 DEF Unrouted, At, phaseView, PhaseAt
  <2>3. PICK a \in Service!Answers : Service!Earned(r, a) /\ answer' = [answer EXCEPT ![r] = a]
    BY <1>4 DEF Unrouted, At, Answer, Service!Answers, Service!Earned, Ran,
           DispatchInv, StagesAgree, JobsAgree
  <2>4. Service!Reply(r, a)
    BY <1>4, <2>1, <2>2, <2>3, UserStays DEF Unrouted, Service!Reply, phaseView, userView
  <2>5. QED
    BY <1>4, <2>4 DEF Service!HNext
<1>5. ASSUME NEW w \in Workers, NEW r \in Requests, RunRust(w, r) PROVE up => Service!HNext
  <2>1. phaseView' = [phaseView EXCEPT ![r] = "done"]
    BY <1>5, PhaseMoves DEF RunRust, Answer, PhaseAt
  <2>2. phaseView[r] = "open"
    BY <1>5 DEF RunRust, At, phaseView, PhaseAt
  <2>3. PICK a \in Service!Answers : Service!Earned(r, a) /\ answer' = [answer EXCEPT ![r] = a]
    BY <1>5 DEF RunRust, At, Answer, Service!Answers, Service!Earned, Ran,
           DispatchInv, StagesAgree, JobsAgree
  <2>4. Service!Reply(r, a)
    BY <1>5, <2>1, <2>2, <2>3, UserStays DEF RunRust, Service!Reply, phaseView, userView
  <2>5. QED
    BY <1>5, <2>4 DEF Service!HNext
<1>6. ASSUME NEW w \in Workers, NEW r \in Requests, Describe(w, r) PROVE up => Service!HNext
  <2>1. phaseView' = [phaseView EXCEPT ![r] = "done"]
    BY <1>6, PhaseMoves DEF Describe, Answer, PhaseAt
  <2>2. phaseView[r] = "open"
    BY <1>6 DEF Describe, At, phaseView, PhaseAt
  <2>3. PICK a \in Service!Answers : Service!Earned(r, a) /\ answer' = [answer EXCEPT ![r] = a]
    BY <1>6 DEF Describe, At, Answer, Service!Answers, Service!Earned, Ran,
           DispatchInv, StagesAgree, JobsAgree, Attached
  <2>4. Service!Reply(r, a)
    BY <1>6, <2>1, <2>2, <2>3, UserStays DEF Describe, Service!Reply, phaseView, userView
  <2>5. QED
    BY <1>6, <2>4 DEF Service!HNext
<1>7. ASSUME NEW w \in Workers, NEW r \in Requests, Convert(w, r) PROVE up => Service!HNext
  <2>1. phaseView' = [phaseView EXCEPT ![r] = "done"]
    BY <1>7, PhaseMoves DEF Convert, Answer, PhaseAt
  <2>2. phaseView[r] = "open"
    BY <1>7 DEF Convert, At, phaseView, PhaseAt
  <2>3. PICK a \in Service!Answers : Service!Earned(r, a) /\ answer' = [answer EXCEPT ![r] = a]
    BY <1>7 DEF Convert, At, Answer, Service!Answers, Service!Earned, Ran,
           DispatchInv, StagesAgree, JobsAgree, Attached
  <2>4. Service!Reply(r, a)
    BY <1>7, <2>1, <2>2, <2>3, UserStays DEF Convert, Service!Reply, phaseView, userView
  <2>5. QED
    BY <1>7, <2>4 DEF Service!HNext
<1>8. ASSUME NEW w \in Workers, NEW r \in Requests, Invoke(w, r) PROVE up => Service!HNext
  <2>1. UNCHANGED phaseView /\ phaseView[r] = "open"
    BY <1>8, OpenMoves DEF Invoke, At, PhaseAt, phaseView
  <2>2. calls[r] = 0 /\ runs[r] = 0 /\ target[r] = "python"
    BY <1>8 DEF Invoke, At, DispatchInv, StagesAgree, JobsAgree, Attached
  <2>3. userView[r] = "none" /\ userView' = [userView EXCEPT ![r] = "called"]
    <3>1. \A q \in Requests \ {r} : calls'[q] = calls[q] /\ runs'[q] = runs[q]
      BY <1>8 DEF Invoke, TypeOK
    <3>2. calls'[r] = 1 /\ runs'[r] = 0
      BY <1>8, <2>2 DEF Invoke, TypeOK
    <3>3. userView' = [userView EXCEPT ![r] = Ran(1, 0)]
      BY <3>1, <3>2, UserMoves
    <3>4. QED
      BY <2>2, <3>3 DEF userView, Ran
  <2>4. Service!Call(r)
    BY <1>8, <2>1, <2>2, <2>3 DEF Invoke, Service!Call, phaseView, userView
  <2>5. QED
    BY <2>4 DEF Service!HNext
<1>9. ASSUME NEW p \in PoolThreads, NEW r \in Requests, RunCoroutine(p, r) PROVE up => Service!HNext
  <2>1. calls[r] = 1 /\ runs[r] = 0
    BY <1>9 DEF RunCoroutine, DispatchInv, JobsAgree
  <2>2. pc[r] \notin {"new", "answered"}
    BY <1>9 DEF RunCoroutine, DispatchInv, StagesAgree, AnswersAreEarned, Unfinished
  <2>3. phaseView[r] \in {"open", "gone"}
    BY <2>2 DEF phaseView, PhaseAt
  <2>4. userView[r] = "called" /\ userView' = [userView EXCEPT ![r] = "ran"]
    <3>1. \A q \in Requests \ {r} : calls'[q] = calls[q] /\ runs'[q] = runs[q]
      BY <1>9 DEF RunCoroutine, TypeOK
    <3>2. calls'[r] = 1 /\ runs'[r] = 1
      BY <1>9, <2>1 DEF RunCoroutine, TypeOK
    <3>3. userView' = [userView EXCEPT ![r] = Ran(1, 1)]
      BY <3>1, <3>2, UserMoves
    <3>4. QED
      BY <2>1, <3>3 DEF userView, Ran
  <2>5. Service!RunOnce(r)
    BY <1>9, <2>3, <2>4 DEF RunCoroutine, Service!RunOnce, phaseView, userView
  <2>6. QED
    BY <2>5 DEF Service!HNext
<1>10. ASSUME NEW w \in Workers, NEW r \in Requests, ConvertPanics(w, r) PROVE up => Service!HNext
  BY <1>10 DEF ConvertPanics, Service!Stop, Service!HNext
<1>11. ASSUME NEW r \in Requests, BodyEnds(r) PROVE UNCHANGED Service!hvars
  <2>1. UNCHANGED phaseView
    BY <1>11, OpenMoves DEF BodyEnds, PhaseAt
  <2>2. QED
    BY <1>11, <2>1, UserStays DEF BodyEnds, Service!hvars, phaseView, userView
<1>12. ASSUME NEW t \in Threads, Attach(t) PROVE UNCHANGED Service!hvars
  BY <1>12 DEF Attach, Service!hvars
<1>13. ASSUME NEW t \in Threads, Yield(t) PROVE UNCHANGED Service!hvars
  BY <1>13 DEF Yield, Service!hvars
<1>14. ASSUME NEW w \in Workers, NEW r \in Requests, StartPython(w, r) PROVE UNCHANGED Service!hvars
  <2>1. UNCHANGED phaseView
    BY <1>14, OpenMoves DEF StartPython, PhaseAt
  <2>2. QED
    BY <1>14, <2>1, UserStays DEF StartPython, Service!hvars, phaseView, userView
<1>15. ASSUME NEW w \in Workers, NEW r \in Requests, Resume(w, r) PROVE UNCHANGED Service!hvars
  <2>1. UNCHANGED phaseView
    BY <1>15, OpenMoves DEF Resume, PhaseAt, AfterJoin
  <2>2. QED
    BY <1>15, <2>1, UserStays DEF Resume, Service!hvars, phaseView, userView
<1>16. ASSUME NEW w \in Workers, NEW r \in Requests, Clone(w, r) PROVE UNCHANGED Service!hvars
  <2>1. UNCHANGED phaseView
    BY <1>16, OpenMoves DEF Clone, PhaseAt, At
  <2>2. QED
    BY <1>16, <2>1, UserStays DEF Clone, Service!hvars, phaseView, userView
<1>17. ASSUME NEW w \in Workers, NEW r \in Requests, Return(w, r) PROVE UNCHANGED Service!hvars
  <2>1. UNCHANGED phaseView
    BY <1>17, OpenMoves DEF Return, PhaseAt, At
  <2>2. QED
    BY <1>17, <2>1, UserStays DEF Return, Service!hvars, phaseView, userView
<1>18. ASSUME NEW w \in Workers, NEW r \in Requests, InspectValue(w, r) PROVE UNCHANGED Service!hvars
  <2>1. UNCHANGED phaseView
    BY <1>18, OpenMoves DEF InspectValue, PhaseAt, At
  <2>2. QED
    BY <1>18, <2>1, UserStays DEF InspectValue, Service!hvars, phaseView, userView
<1>19. ASSUME NEW w \in Workers, NEW r \in Requests, InspectAwaitable(w, r) PROVE UNCHANGED Service!hvars
  <2>1. UNCHANGED phaseView
    BY <1>19, OpenMoves DEF InspectAwaitable, PhaseAt, At
  <2>2. QED
    BY <1>19, <2>1, UserStays DEF InspectAwaitable, Service!hvars, phaseView, userView
<1>20. ASSUME NEW w \in Workers, NEW r \in Requests, Fail(w, r) PROVE UNCHANGED Service!hvars
  <2>1. UNCHANGED phaseView
    BY <1>20, OpenMoves DEF Fail, PhaseAt, At, OnError
  <2>2. QED
    BY <1>20, <2>1, UserStays DEF Fail, Service!hvars, phaseView, userView
<1>21. ASSUME NEW p \in PoolThreads, NEW r \in Requests, StartJob(p, r) PROVE UNCHANGED Service!hvars
  BY <1>21 DEF StartJob, Service!hvars
<1>22. ASSUME NEW p \in PoolThreads, NEW r \in Requests, JobEnds(p, r) PROVE UNCHANGED Service!hvars
  <2>1. CASE pc[r] = "parked"
    <3>1. UNCHANGED phaseView
      BY <1>22, <2>1, OpenMoves DEF JobEnds, PhaseAt, Woken
    <3>2. QED
      BY <1>22, <3>1, UserStays DEF JobEnds, Service!hvars, phaseView, userView
  <2>2. CASE pc[r] # "parked"
    BY <1>22, <2>2 DEF JobEnds, Woken, Service!hvars
  <2>3. QED
    BY <2>1, <2>2
<1>23. CASE UNCHANGED vars
  BY <1>23 DEF vars, Service!hvars
<1>24. QED
  BY <1>1, <1>2, <1>3, <1>4, <1>5, <1>6, <1>7, <1>8, <1>9, <1>10, <1>11,
     <1>12, <1>13, <1>14, <1>15, <1>16, <1>17, <1>18, <1>19, <1>20, <1>21,
     <1>22, <1>23
     DEF Next, Client, Poll, Section, JobSection, Quiet

LEMMA RefinementInit == Init => Service!HInit
  BY DEF Init, Service!HInit, PhaseAt, Ran, Targets, Service!Targets

\* The runtime, the GIL and the blocking pool keep the promise of HttpService:
\* at most one answer, user code at most once and never after the answer.
THEOREM RefinesService == Spec => ImplementsService
<1>1. Spec => []DispatchInv
  BY Invariant
<1>2. QED
  BY <1>1, RefinementInit, RefinementStep, PTL
     DEF Spec, ImplementsService, Service!HSpec

\* Handlers that wait for an answer of their own server hold threads back, they
\* break no promise: whatever waits for what, be it in a circle, the server may
\* hang but answers nobody twice, nothing unearned, and runs no code twice.
THEOREM SelfCallsKeepPromise == SelfFairSpec => ImplementsService
<1>1. [SelfNext]_vars => [Next]_vars
  BY DEF SelfNext, NoMoreSent
<1>2. SelfFairSpec => Spec
  BY <1>1, PTL DEF SelfFairSpec, Spec
<1> QED
  BY <1>2, RefinesService
=============================================================================

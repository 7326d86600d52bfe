------------------------------- MODULE Dispatch -------------------------------
(***************************************************************************)
(* One served application under load: dispatch (server.rs) and             *)
(* PyHandler::handle (rustapi-py/src/lib.rs) as the tokio runtime runs     *)
(* them.  A request is a future: it occupies a worker thread from one      *)
(* await to the next and no thread while it awaits its body or the job it  *)
(* put on the blocking pool.  Python::attach is no await: a worker that    *)
(* wants the GIL blocks, and takes no other future, until it has it.       *)
(*                                                                         *)
(* Threads never hold the GIL outside a section between Python::attach and *)
(* its end, but inside one the interpreter may hand it to another thread.  *)
(* The router is immutable while served, so what it finds for a request is *)
(* a fact about the request, target[r].                                    *)
(***************************************************************************)
EXTENDS Naturals, FiniteSets

CONSTANTS Requests,     \* requests the clients may send
          Workers,      \* worker threads of the tokio runtime
          PoolThreads,  \* threads of its blocking pool
          None          \* no request, no thread

Threads == Workers \cup PoolThreads

ASSUME ThreadsAssumption ==
    /\ Workers \cap PoolThreads = {}
    /\ None \notin Requests \cup Threads

VARIABLES
    pc,       \* pc[r]: where the future of r is
    target,   \* target[r]: what match_route finds for r
    job,      \* job[r]: the blocking-pool job of r
    serving,  \* serving[t]: the request thread t works for, or None
    gil,      \* the thread that holds the GIL, or None
    calls,    \* calls[r]: times the Python callable was called for r
    runs,     \* runs[r]: times asyncio.run was entered for r
    answer,   \* answer[r]: the response given to hyper, "none" if none
    up        \* the process is alive

vars == <<pc, target, job, serving, gil, calls, runs, answer, up>>

Targets == {"missing", "wrong_method", "rust", "python"}

\* The future waits: for its body, for its job, or for a worker to poll it.
Waiting == {"reading", "read", "unreadable", "parked", "joined"}

\* A worker is in a section of Python::attach for the request, or enters one.
Attached == {"clone", "call", "in_call", "inspect", "convert", "describe"}

Settled == {"answered", "dropped"}

Unfinished == {"queued", "starting", "running"}

Answers == {"NotFound", "MethodNotAllowed", "BodyRefused", "HandlerError", "Ok"}

TypeOK ==
    /\ pc \in [Requests -> {"new"} \cup Waiting \cup Attached \cup Settled]
    /\ target \in [Requests -> Targets]
    /\ job \in [Requests -> {"none", "value", "raised"} \cup Unfinished]
    /\ serving \in [Threads -> Requests \cup {None}]
    /\ gil \in Threads \cup {None}
    /\ calls \in [Requests -> Nat]
    /\ runs \in [Requests -> Nat]
    /\ answer \in [Requests -> {"none"} \cup Answers]
    /\ up \in BOOLEAN

Init ==
    /\ pc = [r \in Requests |-> "new"]
    /\ target \in [Requests -> Targets]
    /\ job = [r \in Requests |-> "none"]
    /\ serving = [t \in Threads |-> None]
    /\ gil = None
    /\ calls = [r \in Requests |-> 0]
    /\ runs = [r \in Requests |-> 0]
    /\ answer = [r \in Requests |-> "none"]
    /\ up = TRUE

-----------------------------------------------------------------------------
(* Clients and the body: no worker is held between two frames *)

Goto(r, label) == pc' = [pc EXCEPT ![r] = label]

\* hyper has parsed the head of r; dispatch awaits its body.
Arrive(r) ==
    /\ pc[r] = "new"
    /\ Goto(r, "reading")
    /\ UNCHANGED <<target, job, serving, gil, calls, runs, answer, up>>

\* collect_body has the whole body, or meets a frame it refuses.
BodyEnds(r) ==
    /\ pc[r] = "reading"
    /\ \E label \in {"read", "unreadable"} : Goto(r, label)
    /\ UNCHANGED <<target, job, serving, gil, calls, runs, answer, up>>

\* The connection is gone: hyper drops the future wherever it waits.  A job
\* on the blocking pool is not dropped with the handle that awaits it.
Disconnect(r) ==
    /\ pc[r] \in Waiting
    /\ Goto(r, "dropped")
    /\ UNCHANGED <<target, job, serving, gil, calls, runs, answer, up>>

-----------------------------------------------------------------------------
(* dispatch, on an idle worker w *)

Answer(r, a) == Goto(r, "answered") /\ answer' = [answer EXCEPT ![r] = a]

\* The early return on a body that is too large or broken: no route is looked
\* up, whatever the path.
RefuseBody(w, r) ==
    /\ pc[r] = "unreadable"
    /\ serving[w] = None
    /\ Answer(r, "BodyRefused")
    /\ UNCHANGED <<target, job, serving, gil, calls, runs, up>>

Unrouted(w, r) ==
    /\ pc[r] = "read"
    /\ serving[w] = None
    /\ \/ target[r] = "missing" /\ Answer(r, "NotFound")
       \/ target[r] = "wrong_method" /\ Answer(r, "MethodNotAllowed")
    /\ UNCHANGED <<target, job, serving, gil, calls, runs, up>>

\* A handler written in Rust: it needs a worker and nothing of Python.
RunRust(w, r) ==
    /\ pc[r] = "read"
    /\ serving[w] = None
    /\ target[r] = "rust"
    /\ \E a \in {"Ok", "HandlerError"} : Answer(r, a)
    /\ UNCHANGED <<target, job, serving, gil, calls, runs, up>>

\* PyHandler::handle starts; its first statement wants the GIL.
StartPython(w, r) ==
    /\ pc[r] = "read"
    /\ serving[w] = None
    /\ target[r] = "python"
    /\ Goto(r, "clone")
    /\ serving' = [serving EXCEPT ![w] = r]
    /\ UNCHANGED <<target, job, gil, calls, runs, answer, up>>

-----------------------------------------------------------------------------
(* The GIL *)

\* Seeded fault: the GIL is still held when the section is left.
Kept == UNCHANGED gil

Released == gil' = None

\* Thread t gets the GIL it waits for.
Attach(t) ==
    /\ serving[t] # None
    /\ gil = None
    /\ gil' = t
    /\ UNCHANGED <<pc, target, job, serving, calls, runs, answer, up>>

\* The interpreter hands the GIL on between two bytecodes or around blocking
\* I/O.  Cloning the callback runs no bytecode.
Yield(t) ==
    /\ gil = t
    /\ serving[t] # None
    /\ ~(t \in Workers /\ pc[serving[t]] = "clone")
    /\ Released
    /\ UNCHANGED <<pc, target, job, serving, calls, runs, answer, up>>

-----------------------------------------------------------------------------
(* PyHandler::handle on worker w, for the request r it serves *)

\* w runs the section at label of r's future, with the GIL.
At(w, r, label) == gil = w /\ serving[w] = r /\ pc[r] = label

\* Seeded fault: the thread is not freed when its work for a request is over.
StillServing(t) == UNCHANGED serving

Freed(t) == serving' = [serving EXCEPT ![t] = None]

Clone(w, r) ==
    /\ At(w, r, "clone")
    /\ Released
    /\ Goto(r, "call")
    /\ UNCHANGED <<target, job, serving, calls, runs, answer, up>>

\* PyRequest is built and the callable called: user code runs.
Invoke(w, r) ==
    /\ At(w, r, "call")
    /\ Goto(r, "in_call")
    /\ calls' = [calls EXCEPT ![r] = @ + 1]
    /\ UNCHANGED <<target, job, serving, gil, runs, answer, up>>

Return(w, r) ==
    /\ At(w, r, "in_call")
    /\ Released
    /\ Goto(r, "inspect")
    /\ UNCHANGED <<target, job, serving, calls, runs, answer, up>>

InspectValue(w, r) ==
    /\ At(w, r, "inspect")
    /\ Released
    /\ Goto(r, "convert")
    /\ UNCHANGED <<target, job, serving, calls, runs, answer, up>>

\* The value is awaitable: spawn_blocking queues a job and the future awaits it.
InspectAwaitable(w, r) ==
    /\ At(w, r, "inspect")
    /\ Released
    /\ Goto(r, "parked")
    /\ job' = [job EXCEPT ![r] = "queued"]
    /\ Freed(w)
    /\ UNCHANGED <<target, calls, runs, answer, up>>

\* Seeded fault: an exception makes the future call the handler again.
AfterError == "call"

OnError == "describe"

\* A Python exception ends the section; its text needs the GIL once more.
Fail(w, r) ==
    /\ \E label \in {"call", "in_call", "inspect", "convert"} : At(w, r, label)
    /\ Released
    /\ Goto(r, OnError)
    /\ UNCHANGED <<target, job, serving, calls, runs, answer, up>>

Describe(w, r) ==
    /\ At(w, r, "describe")
    /\ Released
    /\ Answer(r, "HandlerError")
    /\ Freed(w)
    /\ UNCHANGED <<target, job, calls, runs, up>>

\* pyobj_to_response.
Convert(w, r) ==
    /\ At(w, r, "convert")
    /\ Released
    /\ Answer(r, "Ok")
    /\ Freed(w)
    /\ UNCHANGED <<target, job, calls, runs, up>>

\* The content type of the user's Response is no legal header value: the
\* unwrap in Response::new panics, and the release profile aborts on a panic.
ConvertPanics(w, r) ==
    /\ At(w, r, "convert")
    /\ up' = FALSE
    /\ UNCHANGED <<pc, target, job, serving, gil, calls, runs, answer>>

-----------------------------------------------------------------------------
(* The blocking pool *)

StartJob(p, r) ==
    /\ job[r] = "queued"
    /\ serving[p] = None
    /\ job' = [job EXCEPT ![r] = "starting"]
    /\ serving' = [serving EXCEPT ![p] = r]
    /\ UNCHANGED <<pc, target, gil, calls, runs, answer, up>>

\* asyncio.run is entered: the coroutine's code runs.
RunCoroutine(p, r) ==
    /\ gil = p /\ serving[p] = r /\ job[r] = "starting"
    /\ job' = [job EXCEPT ![r] = "running"]
    /\ runs' = [runs EXCEPT ![r] = @ + 1]
    /\ UNCHANGED <<pc, target, serving, gil, calls, answer, up>>

\* Seeded fault: nobody is told that the job is over.
NotWoken(r) == UNCHANGED pc
\* Seeded fault: the end of a job revives a future that was dropped.
WokenAnyway(r) == Goto(r, "joined")

\* The future of r, if it still waits, is woken.
Woken(r) == IF pc[r] = "parked" THEN Goto(r, "joined") ELSE UNCHANGED pc

\* Seeded fault: a job that asyncio.run refuses goes back to the queue.
Requeued == "queued"

\* asyncio.run raises on an awaitable that is no coroutine.
Refused == "raised"

\* asyncio.run returns, raises, or refuses an awaitable that is no coroutine.
JobEnds(p, r) ==
    /\ gil = p /\ serving[p] = r
    /\ \/ job[r] = "running" /\ \E end \in {"value", "raised"} :
                                   job' = [job EXCEPT ![r] = end]
       \/ job[r] = "starting" /\ job' = [job EXCEPT ![r] = Refused]
    /\ Released
    /\ Freed(p)
    /\ Woken(r)
    /\ UNCHANGED <<target, calls, runs, answer, up>>

\* Seeded fault: the outcome of the job is not looked at.
ConvertAlways(r) == "convert"
\* Seeded fault: an outcome is mistaken for a place in the future.
OutcomeItself(r) == job[r]

AfterJoin(r) == IF job[r] = "value" THEN "convert" ELSE "describe"

\* The future of r goes on with the outcome of its job.
Resume(w, r) ==
    /\ pc[r] = "joined"
    /\ serving[w] = None
    /\ Goto(r, AfterJoin(r))
    /\ serving' = [serving EXCEPT ![w] = r]
    /\ UNCHANGED <<target, job, gil, calls, runs, answer, up>>

-----------------------------------------------------------------------------
(* The system *)

\* What worker w may do for r without the GIL.
Poll(w, r) ==
    \/ RefuseBody(w, r) \/ Unrouted(w, r) \/ RunRust(w, r)
    \/ StartPython(w, r) \/ Resume(w, r)

\* What worker w does for r with the GIL.
Section(w, r) ==
    \/ Clone(w, r) \/ Invoke(w, r) \/ Return(w, r)
    \/ InspectValue(w, r) \/ InspectAwaitable(w, r)
    \/ Fail(w, r) \/ Describe(w, r) \/ Convert(w, r) \/ ConvertPanics(w, r)

\* What pool thread p does for r with the GIL.
JobSection(p, r) == RunCoroutine(p, r) \/ JobEnds(p, r)

Client(r) == Arrive(r) \/ BodyEnds(r) \/ Disconnect(r)

\* Nothing is left to do, or nothing can be done any more.
Quiet ==
    /\ \/ ~up
       \/ \A r \in Requests : pc[r] \in Settled /\ job[r] \notin Unfinished
    /\ UNCHANGED vars

Next ==
    \/ /\ up
       /\ \/ \E r \in Requests : Client(r)
          \/ \E t \in Threads : Attach(t) \/ Yield(t)
          \/ \E w \in Workers, r \in Requests : Poll(w, r) \/ Section(w, r)
          \/ \E p \in PoolThreads, r \in Requests : StartJob(p, r) \/ JobSection(p, r)
    \/ Quiet

\* A step of one of the threads other than waiting for the GIL.
Step ==
    \/ \E w \in Workers, r \in Requests : Poll(w, r) \/ Section(w, r)
    \/ \E p \in PoolThreads, r \in Requests : StartJob(p, r) \/ JobSection(p, r)

\* User code ends, a free GIL goes to a thread that waits for it, and an idle
\* thread takes up queued work.  No client has to be quick, and no thread or
\* request has to be treated fairly against another.
Fairness == WF_vars(up /\ \E t \in Threads : Attach(t)) /\ SF_vars(up /\ Step)

Spec == Init /\ [][Next]_vars

FairSpec == Spec /\ Fairness

-----------------------------------------------------------------------------
(* Properties *)

\* A worker serves a request exactly while the request is in one of its
\* sections, a pool thread exactly while its job runs, and no request has two
\* threads of a kind: a future that is parked or dropped holds no worker.
WorkersMatch ==
    \A r \in Requests : pc[r] \in Attached <=> \E w \in Workers : serving[w] = r

PoolMatches ==
    \A r \in Requests :
        job[r] \in {"starting", "running"} <=> \E p \in PoolThreads : serving[p] = r

OneThreadEach ==
    \A kind \in {Workers, PoolThreads} : \A t, u \in kind :
        serving[t] = serving[u] /\ serving[t] # None => t = u

ThreadsMatch == WorkersMatch /\ PoolMatches /\ OneThreadEach

\* No path out of a section, an error or the end of a job least of all, leaves
\* the GIL with a thread that has nothing to do in Python: every other request
\* would wait for ever.
GilHeldInPython == gil # None => serving[gil] # None

\* User code runs at most once per request, whatever fails and whoever leaves,
\* and a coroutine only for a call that returned.
RunsOnce ==
    \A r \in Requests : runs[r] <= calls[r] /\ calls[r] <= 1

\* An answer is earned: a result comes from a handler that ran to its end, and
\* no answer leaves user code of its request behind, waiting or running.
AnswersAreEarned ==
    \A r \in Requests : pc[r] = "answered" =>
        /\ job[r] \notin Unfinished
        /\ answer[r] = "Ok" /\ target[r] = "python" =>
              calls[r] = 1 /\ job[r] # "raised" /\ (job[r] = "value" => runs[r] = 1)
        /\ answer[r] \in {"NotFound", "MethodNotAllowed", "BodyRefused"} => calls[r] = 0

\* A request as its client sees it.
PhaseAt(label) == CASE label = "new" -> "idle"
                    [] label = "answered" -> "done"
                    [] label = "dropped" -> "gone"
                    [] OTHER -> "open"

\* The user code of a request, from the times it was called and run.
Ran(called, entered) == IF entered > 0 THEN "ran"
                        ELSE IF called > 0 THEN "called" ELSE "none"

\* The runtime, the GIL and the blocking pool implement the promise of
\* HttpService.
Service == INSTANCE HttpService WITH
    phase <- [r \in Requests |-> PhaseAt(pc[r])],
    user <- [r \in Requests |-> Ran(calls[r], runs[r])]

ImplementsService == Service!HSpec

\* Every request whose body has ended is answered, or its client leaves,
\* although workers block for the GIL and share one blocking pool.
Settles ==
    \A r \in Requests :
        pc[r] \in {"read", "unreadable"} ~> (pc[r] \in Settled \/ ~up)

\* A coroutine that was queued runs to its end, even if its client has left.
JobsFinish ==
    \A r \in Requests : job[r] = "queued" ~> (job[r] \notin Unfinished \/ ~up)

\* docs/ARCHITECTURE.md:176: "During the `asyncio.run` call, the GIL is held by
\* the blocking thread; other tokio workers can still process pure-Rust requests
\* (static files, health checks) without contending for it."
ReactorFree ==
    \A r \in Requests :
        /\ pc[r] = "read" /\ target[r] = "rust"
        /\ gil \in PoolThreads /\ job[serving[gil]] = "running"
        => \E w \in Workers : serving[w] = None
=============================================================================

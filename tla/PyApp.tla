-------------------------------- MODULE PyApp --------------------------------
(***************************************************************************)
(* The life of one RustApi object: PyApp (crates/rustapi-py/src/lib.rs)    *)
(* and the Server it starts (server.rs), over the Router module.  Routes   *)
(* are registered, run moves the router out of the object and into a       *)
(* server, and the object may be used again when run has raised.           *)
(*                                                                         *)
(* run takes &mut self for as long as it blocks: PyO3 refuses every other  *)
(* call on the object meanwhile, from a handler or another thread alike.   *)
(***************************************************************************)
EXTENDS Router

CONSTANTS Ports,       \* addresses run may be given
          MaxDetached  \* bound: servers that may be on their way at a time, their
                       \* run interrupted

RouterValues == [inner : [Methods -> [Patterns -> Handlers \cup {None}]],
                 all   : [Patterns -> SUBSET Methods]]

Routes == Methods \X Patterns \X Handlers

\* A Server: the router it took and, as history, the routes that were registered
\* with success in the object it took it from.
Servers == [router : RouterValues, promised : SUBSET Routes]

ASSUME NoneApart == None \notin Ports /\ None \notin Servers

VARIABLES
    running,    \* the port run blocks on, or None: the mutable borrow of self
    starting,   \* the server of run before its listener is bound, or None
    detached,   \* servers on their way to a port whose run was interrupted
    listening,  \* listening[a]: the server on port a, or None
    outcome,    \* what the last call on the object returned or raised
    accepted    \* history: routes registered with success since the last run

avars == <<rvars, running, starting, detached, listening, outcome, accepted>>

AppTypeOK ==
    /\ TypeOK
    /\ running \in Ports \cup {None}
    /\ starting \in Servers \cup {None}
    /\ detached \in SUBSET [port : Ports, server : Servers]
    /\ listening \in [Ports -> Servers \cup {None}]
    /\ outcome \in {"none", "ok", "ValueError", "RuntimeError", "OSError", "Interrupt"}
    /\ accepted \in SUBSET Routes

AppInit ==
    /\ Init
    /\ running = None
    /\ starting = None
    /\ detached = {}
    /\ listening = [a \in Ports |-> None]
    /\ outcome = "none"
    /\ accepted = {}

-----------------------------------------------------------------------------

\* Seeded fault: the router's error is handed on as it is.
ResultItself(res) == res

\* The router's error becomes a ValueError.
Raised(res) == IF res = "Ok" THEN "ok" ELSE "ValueError"

\* _register.
Register(m, p, h) ==
    /\ running = None
    /\ Add(m, p, h)
    /\ outcome' = Raised(result')
    /\ accepted' = IF result' = "Ok" THEN accepted \cup {<<m, p, h>>} ELSE accepted
    /\ UNCHANGED <<running, starting, detached, listening>>

\* _register with a method http::Method refuses.
BadMethod ==
    /\ running = None
    /\ outcome' = "ValueError"
    /\ UNCHANGED <<rvars, running, starting, detached, listening, accepted>>

\* _register, route_count or run while run has the object.
Borrowed ==
    /\ running # None
    /\ outcome' = "RuntimeError"
    /\ UNCHANGED <<rvars, running, starting, detached, listening, accepted>>

\* Seeded fault: the router is copied, not taken.
Copied == UNCHANGED <<inner, patterns, allPatterns>>
\* Seeded fault: the duplicate set stays behind.
TakenInPart == inner' = NoRoutes /\ allPatterns' = NoKeys /\ UNCHANGED patterns

\* std::mem::take.
Taken == inner' = NoRoutes /\ patterns' = NoPatterns /\ allPatterns' = NoKeys

\* run(port = a): the router leaves the object before anything can fail.
Run(a) ==
    /\ running = None
    /\ running' = a
    /\ starting' = [router |-> This, promised |-> accepted]
    /\ Taken
    /\ accepted' = {}
    /\ asked' = None /\ result' = "none"
    /\ UNCHANGED <<detached, listening, outcome>>

\* serve: the host is no address, or the port is taken; the router is dropped.
StartFails ==
    /\ starting # None
    /\ running' = None
    /\ starting' = None
    /\ outcome' = "OSError"
    /\ UNCHANGED <<rvars, detached, listening, accepted>>

\* Seeded fault: a server looks its routes up in the object.
OwnRouter(server) == [server EXCEPT !.router = This]

Served(server) == server

\* serve: the listener is bound and the accept loop entered.
Bind(a, server) ==
    /\ listening[a] = None
    /\ listening' = [listening EXCEPT ![a] = Served(server)]

Listen ==
    /\ starting # None
    /\ Bind(running, starting)
    /\ starting' = None
    /\ UNCHANGED <<rvars, running, detached, outcome, accepted>>

\* A signal ends the event loop run blocks on, before the listener is bound or
\* after.  Whether serve, a task of the tokio runtime, ends with it is
\* pyo3-async-runtimes' affair.
Interrupt ==
    /\ running # None
    /\ running' = None
    /\ starting' = None
    /\ outcome' = "Interrupt"
    /\ \/ /\ starting # None /\ Cardinality(detached) < MaxDetached
          /\ detached' = detached \cup {[port |-> running, server |-> starting]}
          /\ UNCHANGED listening
       \/ /\ starting = None
          /\ listening' = [listening EXCEPT ![running] = None]
          /\ UNCHANGED detached
       \/ UNCHANGED <<detached, listening>>
    /\ UNCHANGED <<rvars, accepted>>

\* A server whose run was interrupted comes to its bind at last, or to nothing.
Late(d) ==
    /\ detached' = detached \ {d}
    /\ Bind(d.port, d.server) \/ UNCHANGED listening
    /\ UNCHANGED <<rvars, running, starting, outcome, accepted>>

AppNext ==
    \/ \E m \in Methods, p \in Patterns, h \in Handlers : Register(m, p, h)
    \/ \E a \in Ports : Run(a)
    \/ \E d \in detached : Late(d)
    \/ BadMethod \/ Borrowed \/ StartFails \/ Listen \/ Interrupt

AppSpec == AppInit /\ [][AppNext]_avars

-----------------------------------------------------------------------------
(* Properties *)

\* End to end: on every port that is served, a request reaches a handler only
\* if that handler was registered, with success, for the method and a pattern
\* that fits, before the run whose server it is and since the run before that;
\* it is told an error only if none was, and 404 only if no such registration
\* of any method fits the path, catch-all routes excepted.  Failed runs, failed
\* registrations, calls made while the server runs and servers that come to
\* their port after another run change nothing in this.
ServedAsRegistered ==
    \A a \in Ports : listening[a] # None =>
        \A m \in Methods, path \in Paths :
            LET match    == MatchRoute(listening[a].router, m, path)
                promised == listening[a].promised
            IN  /\ match.outcome = "Ok" =>
                      \E p \in Patterns : Fits(p, path)
                                          /\ <<m, p, match.handler>> \in promised
                /\ match.outcome # "Ok" =>
                      \A p \in Patterns, h \in Handlers :
                          <<m, p, h>> \in promised => ~Fits(p, path)
                /\ match.outcome = "NotFound" =>
                      \A route \in promised :
                          Fits(route[2], path) => EndsInCatchAll(route[2])

\* A route the caller was told is registered, and that no run has taken, can be
\* matched in the object's router; and one that was taken can be registered anew.
KeptUntilRun ==
    \A m \in Methods, p \in Patterns :
        /\ \A h \in Handlers : <<m, p, h>> \in accepted <=> inner[m][p] = h
        /\ accepted = {} /\ p \in patterns[m] => InsertFails({}, p)

\* crates/rustapi-py/src/lib.rs:392, route_count: "Get the number of registered
\* routes.", those since the last run whose registration did not raise.
CountsRegistered == running = None => RouteCount = Cardinality(accepted)
=============================================================================

----------------------------- MODULE PyAppProofs -----------------------------
(***************************************************************************)
(* Theorems about the life of an application object, for any methods,      *)
(* patterns, paths, handlers and ports.                                    *)
(***************************************************************************)
EXTENDS PyApp, RouterProofs

\* rt serves the routes in promise: each is in its tree, a tree holds no other,
\* a path has one best pattern, and all_patterns knows every pattern.
Holds(rt, promise) ==
    /\ \A m \in Methods, p \in Patterns :
          /\ \A h \in Handlers : <<m, p, h>> \in promise <=> rt.inner[m][p] = h
          /\ rt.inner[m][p] # None => m \in rt.all[p]
    /\ \A m \in Methods, path \in Paths :
          HasBest({q \in Live(rt, m) : Fits(q, path)})

\* What was registered with success is what the object's router holds.
AcceptedHeld ==
    \A m \in Methods, p \in Patterns, h \in Handlers :
        <<m, p, h>> \in accepted <=> inner[m][p] = h

Keeps(server) == Holds(server.router, server.promised)

\* Every server, on its way or listening, holds what was registered before the
\* run that made it.
PromiseHeld ==
    /\ starting # None => Keeps(starting)
    /\ \A d \in detached : Keeps(d.server)
    /\ \A a \in Ports : listening[a] # None => Keeps(listening[a])

\* The object is borrowed while a server is starting, so its port is known.
BorrowInv == starting # None => running # None

AppInv == AppTypeOK /\ RouterInv /\ AcceptedHeld /\ PromiseHeld /\ BorrowInv

-----------------------------------------------------------------------------
(* The router at rest *)

\* std::mem::take leaves the object with the router it began with.
LEMMA TakenIsInit ==
    (Taken /\ asked' = None /\ result' = "none") => RouterInv'
<1>1. (Taken /\ asked' = None /\ result' = "none") => Init'
  BY DEF Taken, Init
<1>2. QED
  BY <1>1, InvInit, PTL

\* The object's router holds what was accepted.
LEMMA ThisHolds ==
    ASSUME RouterInv, AcceptedHeld
    PROVE  Holds(This, accepted)
<1>1. \A m \in Methods, path \in Paths :
          HasBest({q \in Live(This, m) : Fits(q, path)})
  BY DEF RouterInv, BestIsUnique, HasBest
<1>2. ASSUME NEW m \in Methods, NEW p \in Patterns
      PROVE  /\ \A h \in Handlers : <<m, p, h>> \in accepted <=> This.inner[m][p] = h
             /\ This.inner[m][p] # None => m \in This.all[p]
  BY DEF RouterInv, BooksAgree, AcceptedHeld, This
<1>3. QED
  BY <1>1, <1>2 DEF Holds

\* A router that holds what was promised serves it: a request is answered by a
\* handler that was registered for it, or told an error that is true.
LEMMA HoldsServes ==
    ASSUME NEW rt \in RouterValues, NEW promise \in SUBSET Routes, Holds(rt, promise),
           NEW m \in Methods, NEW path \in Paths
    PROVE  LET match == MatchRoute(rt, m, path)
           IN  /\ match.outcome = "Ok" =>
                     \E p \in Patterns : Fits(p, path) /\ <<m, p, match.handler>> \in promise
               /\ match.outcome # "Ok" =>
                     \A p \in Patterns, h \in Handlers :
                         <<m, p, h>> \in promise => ~Fits(p, path)
               /\ match.outcome = "NotFound" =>
                     \A route \in promise : Fits(route[2], path) => EndsInCatchAll(route[2])
<1> DEFINE fitting == {p \in Live(rt, m) : Fits(p, path)}
           match == MatchRoute(rt, m, path)
<1> USE PatternsAssumption
<1>1. CASE fitting # {}
  <2>1. match = [outcome |-> "Ok", handler |-> rt.inner[m][BestOf(fitting)]]
    BY <1>1 DEF MatchRoute
  <2>2. BestOf(fitting) \in fitting
    <3>1. \E p \in fitting : \A q \in fitting \ {p} : Preferred(p, q)
      BY <1>1 DEF Holds, HasBest
    <3>2. QED
      BY <3>1 DEF BestOf
  <2>3. PICK p \in Patterns : p = BestOf(fitting) /\ Fits(p, path) /\ rt.inner[m][p] # None
    BY <2>2 DEF Live
  <2>4. rt.inner[m][p] \in Handlers
    BY <2>3 DEF RouterValues
  <2>5. <<m, p, match.handler>> \in promise
    BY <2>1, <2>3, <2>4 DEF Holds
  <2>6. match.outcome = "Ok"
    BY <2>1
  <2> HIDE DEF match
  <2>7. QED
    BY <2>3, <2>5, <2>6 DEF match
<1>2. CASE fitting = {}
  <2>1. /\ match.outcome # "Ok"
        /\ match.outcome = "NotFound" => ~\E p \in Known(rt) : MatchesAnyMethod(p, path)
    BY <1>2 DEF MatchRoute
  <2>2. ASSUME NEW p \in Patterns, NEW h \in Handlers, <<m, p, h>> \in promise
        PROVE  ~Fits(p, path)
    <3>1. rt.inner[m][p] # None
      BY <2>2 DEF Holds
    <3>2. QED
      BY <1>2, <3>1 DEF Live
  <2>3. ASSUME match.outcome = "NotFound", NEW route \in promise, Fits(route[2], path)
        PROVE  EndsInCatchAll(route[2])
    <3>1. PICK o \in Methods, p \in Patterns, h \in Handlers : route = <<o, p, h>>
      BY DEF Routes
    <3>2. rt.inner[o][p] # None /\ o \in rt.all[p]
      BY <3>1 DEF Holds
    <3>3. ~MatchesAnyMethod(p, path)
      BY <2>1, <2>3, <3>2 DEF Known
    <3>4. QED
      BY <2>3, <3>1, <3>3, FitsMatches
  <2>4. QED
    BY <2>1, <2>2, <2>3
<1>3. QED
  BY <1>1, <1>2
-----------------------------------------------------------------------------
(* The inductive invariant *)

LEMMA AppInvInit == AppInit => AppInv
<1> SUFFICES ASSUME AppInit PROVE AppInv
  OBVIOUS
<1>1. RouterInv
  BY InvInit DEF AppInit
<1>2. AppTypeOK
  BY <1>1 DEF AppInit, AppTypeOK, RouterInv
<1>3. AcceptedHeld
  BY PatternsAssumption DEF AppInit, Init, NoRoutes, AcceptedHeld
<1>4. PromiseHeld /\ BorrowInv
  BY DEF AppInit, PromiseHeld, BorrowInv
<1>5. QED
  BY <1>1, <1>2, <1>3, <1>4 DEF AppInv

\* The state of the object and its servers keeps its type.
LEMMA AppTypesStep == AppInv /\ [AppNext]_avars => AppTypeOK'
<1> SUFFICES ASSUME AppInv, [AppNext]_avars PROVE AppTypeOK'
  OBVIOUS
<1> USE DEF AppInv
<1>1. CASE UNCHANGED avars
  BY <1>1 DEF avars, rvars, AppTypeOK, TypeOK
<1>2. ASSUME NEW m \in Methods, NEW p \in Patterns, NEW h \in Handlers, Register(m, p, h)
      PROVE  AppTypeOK'
  <2>1. RouterInv /\ [Next]_rvars
    BY <1>2 DEF Register, Next
  <2>2. TypeOK'
    BY <2>1, InvStep DEF RouterInv
  <2>3. accepted' \in SUBSET Routes /\ outcome' \in {"ok", "ValueError"}
    BY <1>2 DEF Register, Raised, AppTypeOK, Routes
  <2>4. QED
    BY <1>2, <2>2, <2>3 DEF Register, AppTypeOK
<1>3. ASSUME NEW a \in Ports, Run(a) PROVE AppTypeOK'
  <2>1. TypeOK'
    BY <1>3, TakenIsInit DEF Run, RouterInv
  <2>2. This \in RouterValues
    BY DEF AppTypeOK, TypeOK, This, RouterValues
  <2>3. starting' \in Servers
    BY <1>3, <2>2 DEF Run, AppTypeOK, Servers
  <2>4. QED
    BY <1>3, <2>1, <2>3 DEF Run, AppTypeOK
<1>4. CASE BadMethod \/ Borrowed
  BY <1>4 DEF BadMethod, Borrowed, rvars, AppTypeOK, TypeOK
<1>5. CASE StartFails
  BY <1>5 DEF StartFails, rvars, AppTypeOK, TypeOK
<1>6. CASE Listen
  <2>1. running \in Ports /\ starting \in Servers
    BY <1>6 DEF Listen, AppTypeOK, BorrowInv
  <2>2. QED
    BY <1>6, <2>1 DEF Listen, Bind, Served, rvars, AppTypeOK, TypeOK
<1>7. CASE Interrupt
  <2>1. detached' \in SUBSET [port : Ports, server : Servers]
    BY <1>7 DEF Interrupt, AppTypeOK
  <2>2. listening' \in [Ports -> Servers \cup {None}]
    BY <1>7 DEF Interrupt, AppTypeOK
  <2>3. QED
    BY <1>7, <2>1, <2>2 DEF Interrupt, rvars, AppTypeOK, TypeOK
<1>8. ASSUME NEW d \in detached, Late(d) PROVE AppTypeOK'
  <2>1. d.port \in Ports /\ d.server \in Servers
    BY DEF AppTypeOK
  <2>2. QED
    BY <1>8, <2>1 DEF Late, Bind, Served, rvars, AppTypeOK, TypeOK
<1>9. QED
  BY <1>1, <1>2, <1>3, <1>4, <1>5, <1>6, <1>7, <1>8 DEF AppNext

LEMMA RouterStep == AppInv /\ [AppNext]_avars => RouterInv'
<1> SUFFICES ASSUME AppInv, [AppNext]_avars PROVE RouterInv'
  OBVIOUS
<1>1. ASSUME NEW a \in Ports, Run(a) PROVE RouterInv'
  BY <1>1, TakenIsInit DEF Run
<1>2. CASE ~\E a \in Ports : Run(a)
  <2>1. [Next]_rvars
    BY <1>2 DEF AppNext, avars, Next, Register, BadMethod, Borrowed, StartFails,
           Listen, Interrupt, Late
  <2>2. QED
    BY <2>1, InvStep DEF AppInv
<1>3. QED
  BY <1>1, <1>2

LEMMA AcceptedStep == AppInv /\ [AppNext]_avars => AcceptedHeld'
<1> SUFFICES ASSUME AppInv, [AppNext]_avars PROVE AcceptedHeld'
  OBVIOUS
<1> USE PatternsAssumption
<1>1. ASSUME NEW m \in Methods, NEW p \in Patterns, NEW h \in Handlers, Register(m, p, h)
      PROVE  AcceptedHeld'
  <2>1. CASE result' # "Ok"
    BY <1>1, <2>1 DEF Register, Add, AppInv, AcceptedHeld
  <2>2. CASE result' = "Ok"
    <3>1. /\ inner' = [inner EXCEPT ![m][p] = h] /\ ~Duplicate(m, p)
          /\ accepted' = accepted \cup {<<m, p, h>>}
      BY <1>1, <2>2 DEF Register, Add, Refusal
    <3>2. inner[m][p] = None
      BY <3>1 DEF AppInv, RouterInv, BooksAgree, Duplicate
    <3>3. inner \in [Methods -> [Patterns -> Handlers \cup {None}]]
      BY DEF AppInv, AppTypeOK, TypeOK
    <3>4. ASSUME NEW n \in Methods, NEW q \in Patterns, NEW k \in Handlers
          PROVE  <<n, q, k>> \in accepted' <=> inner'[n][q] = k
      <4>1. CASE n = m /\ q = p
        <5>1. inner'[n][q] = h /\ <<n, q, k>> \notin accepted
          BY <3>1, <3>2, <3>3, <4>1 DEF AppInv, AcceptedHeld
        <5>2. QED
          BY <3>1, <4>1, <5>1
      <4>2. CASE ~(n = m /\ q = p)
        <5>1. inner'[n][q] = inner[n][q]
          BY <3>1, <3>3, <4>2
        <5>2. QED
          BY <3>1, <4>2, <5>1 DEF AppInv, AcceptedHeld
      <4>3. QED
        BY <4>1, <4>2
    <3>5. QED
      BY <3>4 DEF AcceptedHeld
  <2>3. QED
    BY <2>1, <2>2
<1>2. ASSUME NEW a \in Ports, Run(a) PROVE AcceptedHeld'
  BY <1>2 DEF Run, Taken, NoRoutes, AcceptedHeld
<1>3. CASE UNCHANGED <<inner, accepted>>
  BY <1>3 DEF AppInv, AcceptedHeld
<1>4. QED
  BY <1>1, <1>2, <1>3 DEF AppNext, avars, rvars, BadMethod, Borrowed, StartFails,
                                Listen, Interrupt, Late

LEMMA BorrowStep == AppInv /\ [AppNext]_avars => BorrowInv'
<1> SUFFICES ASSUME AppInv, [AppNext]_avars PROVE BorrowInv'
  OBVIOUS
<1>1. ASSUME NEW a \in Ports, Run(a) PROVE BorrowInv'
  BY <1>1, NoneApart DEF Run, BorrowInv
<1>2. CASE starting' = None
  BY <1>2 DEF BorrowInv
<1>3. CASE UNCHANGED <<running, starting>>
  BY <1>3 DEF AppInv, BorrowInv
<1>4. QED
  BY <1>1, <1>2, <1>3 DEF AppNext, avars, Register, BadMethod, Borrowed, StartFails,
                          Listen, Interrupt, Late

\* A server that comes to its port serves what it holds.
LEMMA BindKeeps ==
    ASSUME AppInv, NEW a \in Ports, NEW server \in Servers, Bind(a, server), Keeps(server)
    PROVE  \A b \in Ports : listening'[b] # None => Keeps(listening'[b])
<1>1. listening \in [Ports -> Servers \cup {None}]
  BY DEF AppInv, AppTypeOK
<1>2. listening' = [listening EXCEPT ![a] = server]
  BY DEF Bind, Served
<1>3. \A b \in Ports : listening'[b] = IF b = a THEN server ELSE listening[b]
  BY <1>1, <1>2
<1>4. QED
  BY <1>3 DEF AppInv, PromiseHeld

LEMMA PromiseStep == AppInv /\ [AppNext]_avars => PromiseHeld'
<1> SUFFICES ASSUME AppInv, [AppNext]_avars PROVE PromiseHeld'
  OBVIOUS
<1> USE DEF PromiseHeld
<1>1. PromiseHeld /\ listening \in [Ports -> Servers \cup {None}]
  BY DEF AppInv, AppTypeOK
<1>2. ASSUME NEW a \in Ports, Run(a) PROVE PromiseHeld'
  <2>1. Holds(This, accepted)
    BY ThisHolds DEF AppInv
  <2>2. starting' = [router |-> This, promised |-> accepted] /\ UNCHANGED <<detached, listening>>
    BY <1>2 DEF Run
  <2>3. starting'.router = This /\ starting'.promised = accepted
    BY <2>2
  <2>4. Keeps(starting')
    BY <2>1, <2>3 DEF Keeps
  <2>5. QED
    BY <1>1, <2>2, <2>4
<1>3. CASE Listen
  <2>1. running \in Ports /\ starting \in Servers /\ Keeps(starting)
    BY <1>1, <1>3 DEF Listen, AppInv, AppTypeOK, BorrowInv
  <2>2. \A b \in Ports : listening'[b] # None => Keeps(listening'[b])
    BY <1>3, <2>1, BindKeeps DEF Listen
  <2>3. QED
    BY <1>1, <1>3, <2>2 DEF Listen
<1>4. CASE StartFails
  BY <1>1, <1>4 DEF StartFails
<1>5. CASE Interrupt
  <2>1. starting' = None
    BY <1>5 DEF Interrupt
  <2>2. ASSUME NEW d \in detached' PROVE Keeps(d.server)
    <3>1. d \in detached \/ (starting # None /\ d = [port |-> running, server |-> starting])
      BY <1>5, <2>2 DEF Interrupt
    <3>2. QED
      BY <1>1, <3>1
  <2>3. ASSUME NEW b \in Ports, listening'[b] # None PROVE Keeps(listening'[b])
    <3>1. listening'[b] = listening[b]
      BY <1>1, <1>5, <2>3 DEF Interrupt
    <3>2. QED
      BY <1>1, <2>3, <3>1
  <2>4. QED
    BY <2>1, <2>2, <2>3
<1>6. ASSUME NEW d \in detached, Late(d) PROVE PromiseHeld'
  <2>1. d.port \in Ports /\ d.server \in Servers /\ Keeps(d.server)
    BY <1>1 DEF AppInv, AppTypeOK
  <2>2. \A b \in Ports : listening'[b] # None => Keeps(listening'[b])
    BY <1>1, <1>6, <2>1, BindKeeps DEF Late
  <2>3. QED
    BY <1>1, <1>6, <2>2 DEF Late
<1>7. CASE UNCHANGED <<starting, detached, listening>>
  BY <1>1, <1>7
<1>8. QED
  BY <1>2, <1>3, <1>4, <1>5, <1>6, <1>7 DEF AppNext, avars, Register, BadMethod, Borrowed

LEMMA AppInvariant == AppSpec => []AppInv
<1>1. AppInv /\ [AppNext]_avars => AppInv'
  BY AppTypesStep, RouterStep, AcceptedStep, PromiseStep, BorrowStep DEF AppInv
<1>2. QED
  BY <1>1, AppInvInit, PTL DEF AppSpec

-----------------------------------------------------------------------------
(* The theorems *)

\* The object, its router and its servers keep their types.
THEOREM AppTypeCorrect == AppSpec => []AppTypeOK
<1>1. AppInv => AppTypeOK
  BY DEF AppInv
<1>2. QED
  BY <1>1, AppInvariant, PTL

\* A route the caller was told is registered stays in the object until a run
\* takes it, and can be registered anew then.
THEOREM RoutesKeptUntilRun == AppSpec => []KeptUntilRun
<1>1. AppInv => KeptUntilRun
  <2> SUFFICES ASSUME AppInv, NEW m \in Methods, NEW p \in Patterns
               PROVE  /\ \A h \in Handlers : <<m, p, h>> \in accepted <=> inner[m][p] = h
                      /\ accepted = {} /\ p \in patterns[m] => InsertFails({}, p)
    BY DEF KeptUntilRun
  <2>1. \A h \in Handlers : <<m, p, h>> \in accepted <=> inner[m][p] = h
    BY DEF AppInv, AcceptedHeld
  <2>2. ASSUME accepted = {}, p \in patterns[m] PROVE InsertFails({}, p)
    <3>1. Live(This, m) = {}
      BY <2>2 DEF AppInv, AcceptedHeld, AppTypeOK, TypeOK, Live, This
    <3>2. QED
      BY <2>2, <3>1 DEF AppInv, RouterInv, RejectedForGood
  <2>3. QED
    BY <2>1, <2>2
<1>2. QED
  BY <1>1, AppInvariant, PTL

\* End to end, on every port and for every request: handlers are reached as
\* they were registered, and errors tell the truth about what was.
THEOREM AlwaysServedAsRegistered == AppSpec => []ServedAsRegistered
<1>1. AppInv => ServedAsRegistered
  <2> SUFFICES ASSUME AppInv, NEW a \in Ports, listening[a] # None,
                      NEW m \in Methods, NEW path \in Paths
               PROVE  LET match    == MatchRoute(listening[a].router, m, path)
                          promised == listening[a].promised
                      IN  /\ match.outcome = "Ok" =>
                                \E p \in Patterns : Fits(p, path)
                                                    /\ <<m, p, match.handler>> \in promised
                          /\ match.outcome # "Ok" =>
                                \A p \in Patterns, h \in Handlers :
                                    <<m, p, h>> \in promised => ~Fits(p, path)
                          /\ match.outcome = "NotFound" =>
                                \A route \in promised :
                                    Fits(route[2], path) => EndsInCatchAll(route[2])
    BY DEF ServedAsRegistered
  <2>1. listening[a] \in Servers /\ Keeps(listening[a])
    BY DEF AppInv, AppTypeOK, PromiseHeld
  <2>2. /\ listening[a].router \in RouterValues /\ listening[a].promised \in SUBSET Routes
        /\ Holds(listening[a].router, listening[a].promised)
    BY <2>1 DEF Servers, Keeps
  <2>3. PICK rt \in RouterValues, promise \in SUBSET Routes :
            rt = listening[a].router /\ promise = listening[a].promised /\ Holds(rt, promise)
    BY <2>2
  <2>4. QED
    BY <2>3, HoldsServes
<1>2. QED
  BY <1>1, AppInvariant, PTL
=============================================================================

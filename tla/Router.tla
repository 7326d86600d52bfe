------------------------------- MODULE Router -------------------------------
(***************************************************************************)
(* rustapi-engine's router (crates/rustapi-engine/src/router.rs): routes   *)
(* are added one at a time, then requests are matched.  Every step of      *)
(* Router::add that changes state is in Add, in the order of the code: the *)
(* 405 bookkeeping and the duplicate set are updated before the radix tree *)
(* is asked, and stay updated when it refuses.                             *)
(***************************************************************************)
EXTENDS Matchit, FiniteSets

CONSTANTS Methods,   \* HTTP methods
          Patterns,  \* route patterns, sequences of segments
          Paths,     \* request paths, sequences of texts
          Handlers,  \* what a route dispatches to
          None       \* no handler

ASSUME PatternsAssumption ==
    /\ Patterns \subseteq Seq(Segments)
    /\ Paths \subseteq Seq(STRING)
    /\ None \notin Handlers

VARIABLES
    inner,        \* inner[m][p]: the handler in m's radix tree, None if absent
    patterns,     \* patterns[m]: the duplicate-detection set of method m
    allPatterns,  \* allPatterns[p]: methods p was offered for, {} if not a key
    asked,        \* the method and pattern of the last add, or None
    result        \* its Result

rvars == <<inner, patterns, allPatterns, asked, result>>

\* What a request is matched against: the router as a value.
This == [inner |-> inner, all |-> allPatterns]

Live(rt, m) == {p \in Patterns : rt.inner[m][p] # None}

Known(rt) == {p \in Patterns : rt.all[p] # {}}

TypeOK ==
    /\ inner \in [Methods -> [Patterns -> Handlers \cup {None}]]
    /\ patterns \in [Methods -> SUBSET Patterns]
    /\ allPatterns \in [Patterns -> SUBSET Methods]
    /\ asked \in (Methods \X Patterns) \cup {None}
    /\ result \in {"none", "Ok", "Conflict", "InvalidPattern"}

\* Router::default.
NoRoutes == [m \in Methods |-> [p \in Patterns |-> None]]
NoPatterns == [m \in Methods |-> {}]
NoKeys == [p \in Patterns |-> {}]

Init ==
    /\ inner = NoRoutes
    /\ patterns = NoPatterns
    /\ allPatterns = NoKeys
    /\ asked = None
    /\ result = "none"

-----------------------------------------------------------------------------
(* Registration *)

\* Seeded fault: duplicates are looked up across all methods.
DuplicateAnywhere(m, p) == allPatterns[p] # {}

Duplicate(m, p) == p \in patterns[m]

\* Seeded fault: only the first method of a pattern is noted.
NotedOnce(m, p) ==
    allPatterns' = [allPatterns EXCEPT ![p] = IF @ = {} THEN {m} ELSE @]
\* Seeded fault: a pattern with a parameter is not noted.
NotedIfStatic(m, p) ==
    allPatterns' = [allPatterns EXCEPT
        ![p] = IF \E i \in DOMAIN p : p[i].kind # "static" THEN @ ELSE @ \cup {m}]

Noted(m, p) == allPatterns' = [allPatterns EXCEPT ![p] = @ \cup {m}]

Insertable(m, p) == ~InsertFails(Live(This, m), p)

\* Seeded fault: the wrong variant of RouterError.
NotTheRightError == "NotFound"

Refusal == "InvalidPattern"

\* Router::add.
Add(m, p, h) ==
    /\ asked' = <<m, p>>
    /\ Noted(m, p)
    /\ patterns' = [patterns EXCEPT ![m] = @ \cup {p}]
    /\ \/ /\ Duplicate(m, p)
          /\ result' = "Conflict"
          /\ UNCHANGED inner
       \/ /\ ~Duplicate(m, p)
          /\ ~Insertable(m, p)
          /\ result' = Refusal
          /\ UNCHANGED inner
       \/ /\ ~Duplicate(m, p)
          /\ Insertable(m, p)
          /\ result' = "Ok"
          /\ inner' = [inner EXCEPT ![m][p] = h]

Next == \E m \in Methods, p \in Patterns, h \in Handlers : Add(m, p, h)

Spec == Init /\ [][Next]_rvars

-----------------------------------------------------------------------------
(* Matching *)

\* Seeded fault: a longer path is compared on the pattern's segments only.
MatchesPrefix(p, path) ==
    /\ Len(p) <= Len(path)
    /\ \A i \in DOMAIN p : p[i].kind \in {"param", "catchall"} \/ p[i].text = path[i]
\* Seeded fault: a brace is compared as text.
MatchesLiterally(p, path) ==
    Len(p) = Len(path) /\ \A i \in DOMAIN p : p[i].text = path[i]

\* matches_any_method: segment by segment, a braced segment being a wildcard.
MatchesAnyMethod(p, path) ==
    /\ Len(p) = Len(path)
    /\ \A i \in DOMAIN p : p[i].kind \in {"param", "catchall"} \/ p[i].text = path[i]

\* Seeded fault: a method without an entry is told 404 at once.
NotFoundAtOnce(rt, m, path) ==
    LET fitting == {p \in Live(rt, m) : Fits(p, path)}
        offered == \E p \in Patterns : m \in rt.all[p]
        known   == \E p \in Known(rt) : MatchesAnyMethod(p, path)
    IN  IF fitting = {}
        THEN [outcome |-> IF offered /\ known THEN "MethodNotAllowed" ELSE "NotFound",
              handler |-> None]
        ELSE [outcome |-> "Ok", handler |-> rt.inner[m][BestOf(fitting)]]

\* Router::match_route.  A method without an entry has an empty tree, and both
\* arms of the code's match then decide between 404 and 405 the same way.
MatchRoute(rt, m, path) ==
    LET fitting == {p \in Live(rt, m) : Fits(p, path)}
        error   == IF \E p \in Known(rt) : MatchesAnyMethod(p, path)
                   THEN "MethodNotAllowed" ELSE "NotFound"
    IN  IF fitting = {}
        THEN [outcome |-> error, handler |-> None]
        ELSE [outcome |-> "Ok", handler |-> rt.inner[m][BestOf(fitting)]]

\* Router::len.
RouteCount == Cardinality({r \in Methods \X Patterns : r[2] \in patterns[r[1]]})

-----------------------------------------------------------------------------
(* Properties *)

\* The three books of add agree: a pattern is a key of all_patterns for a
\* method exactly when it is in that method's duplicate set, and every handler
\* in a tree is in both.  match_route reads one book and len() another.
BooksAgree ==
    \A m \in Methods, p \in Patterns :
        /\ m \in allPatterns[p] <=> p \in patterns[m]
        /\ inner[m][p] # None => p \in patterns[m]

\* The early return on a duplicate never turns away a route the tree would
\* take: a pattern that was offered and is not live is one the tree refuses,
\* and keeps refusing, whatever was registered since.
RejectedForGood ==
    \A m \in Methods : \A p \in patterns[m] \ Live(This, m) :
        InsertFails(Live(This, m), p)

HasEmptySegment(path) == \E i \in DOMAIN path : path[i] = ""

\* A 404 hides no route: when match_route says NotFound, no live route of any
\* method matches the path, catch-all routes excepted (see the README).
NotFoundIsSound ==
    \A m \in Methods, path \in Paths :
        MatchRoute(This, m, path).outcome = "NotFound" =>
            \A o \in Methods : \A p \in Live(This, o) :
                Fits(p, path) => EndsInCatchAll(p)

\* A 405 has a reason: another method serves the path, or the pattern that
\* answered was refused by every tree, or the path has an empty segment.
NotAllowedIsExplained ==
    \A m \in Methods, path \in Paths :
        MatchRoute(This, m, path).outcome = "MethodNotAllowed" =>
            \/ HasEmptySegment(path)
            \/ \E o \in Methods \ {m} : \E p \in Live(This, o) : Fits(p, path)
            \/ \E p \in Known(This) :
                  /\ MatchesAnyMethod(p, path)
                  /\ \A o \in Methods : p \notin Live(This, o)

\* The route just accepted answers a path it fits, and fits better than every
\* route that was there.
TakesOver(m, path) ==
    LET p == asked'[2]
    IN  /\ asked'[1] = m /\ result' = "Ok"
        /\ Fits(p, path)
        /\ \A q \in Live(This, m) : Fits(q, path) => Preferred(p, q)
        /\ MatchRoute(This, m, path)' = [outcome |-> "Ok", handler |-> inner'[m][p]]

\* A path nothing was known of matches the pattern just offered, if only
\* segment by segment.
BecomesKnown(m, path) ==
    /\ MatchRoute(This, m, path).outcome = "NotFound"
    /\ MatchRoute(This, m, path)' = [outcome |-> "MethodNotAllowed", handler |-> None]
    /\ MatchesAnyMethod(asked'[2], path)

\* What one more call of add may change for requests: nothing but that.  Of two
\* routes that overlap the order of registration decides nothing, of two that
\* clash the first one stays; a refused call takes no handler away, and reaches
\* no request but those whose 404 it makes a 405.
AnswersStand ==
    [][\A m \in Methods, path \in Paths :
          \/ MatchRoute(This, m, path)' = MatchRoute(This, m, path)
          \/ TakesOver(m, path)
          \/ BecomesKnown(m, path)]_<<inner, allPatterns>>

\* Registration implements the abstract table: a caller is told Ok exactly when
\* the method's tree could take the pattern, and an accepted handler is never
\* moved or replaced by a later call.
Table == INSTANCE RouteTable WITH
    table <- inner,
    reply <- CASE result = "none" -> "none"
               [] result = "Ok" -> "accepted"
               [] OTHER -> "rejected"

ImplementsTable == Table!TSpec

\* The documentation of match_route (router.rs:91): "MethodNotAllowed: path
\* matched, but method didn't".
NotAllowedMeansOtherMethod ==
    \A m \in Methods, path \in Paths :
        MatchRoute(This, m, path).outcome = "MethodNotAllowed" =>
            \E o \in Methods \ {m} : \E p \in Live(This, o) : Fits(p, path)

\* The comment on matches_any_method (router.rs:144): "Correct for the pattern
\* syntax matchit accepts", with match_route's "NotFound: no route matched the
\* path (any method)".
NotFoundMeansNoRoute ==
    \A m \in Methods, path \in Paths :
        MatchRoute(This, m, path).outcome = "NotFound" =>
            \A o \in Methods : \A p \in Live(This, o) : ~Fits(p, path)
=============================================================================

------------------------------ MODULE MCPyApp ------------------------------
(* Model values for checking PyApp. *)
EXTENDS PyApp, TLC

Param(n)    == [kind |-> "param", text |-> n]
CatchAll(n) == [kind |-> "catchall", text |-> n]

\* /{id} and its rival /{*rest}: a tree takes one of them.
MCPatterns == {<<Param("id")>>, <<CatchAll("rest")>>}

\* /, /a, /a/b
MCPaths == {<<"">>, <<"a">>, <<"a", "b">>}

\* Nothing in PyApp tells two handlers or two ports apart.
MCSymmetry == Permutations(Handlers) \cup Permutations(Ports) \cup Permutations(Methods)

\* All but asked, result and outcome, which no step reads and of which the
\* properties say no more than their type: that is proved (AppTypeCorrect), and
\* checked here in one state of those that differ in nothing else.
MCView == <<inner, patterns, allPatterns, running, starting, detached, listening, accepted>>
=============================================================================

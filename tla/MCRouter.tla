------------------------------ MODULE MCRouter ------------------------------
(* Model values for checking Router. *)
EXTENDS Router, TLC

Static(t)   == [kind |-> "static", text |-> t]
Param(n)    == [kind |-> "param", text |-> n]
CatchAll(n) == [kind |-> "catchall", text |-> n]
Open(t)     == [kind |-> "open", text |-> t]

\* /users/{id}, /users/{name} (its shape), /users/me (overlaps both),
\* /users/{*rest} (competes with a parameter, not with /users/me) and /{id
\* (malformed).
MCPatterns == {<<Static("users"), Param("id")>>,
               <<Static("users"), Param("name")>>,
               <<Static("users"), Static("me")>>,
               <<Static("users"), CatchAll("rest")>>,
               <<Open("{id")>>}

\* /, /users/, /users/me, /users/42, /users/42/x, /{id
MCPaths == {<<"">>, <<"users", "">>, <<"users", "me">>,
            <<"users", "42">>, <<"users", "42", "x">>, <<"{id">>}

\* /users/{id} and /users/me, which every tree takes.
MCPlainPatterns == {<<Static("users"), Param("id")>>, <<Static("users"), Static("me")>>}

\* Nothing in Router tells two methods or two handlers apart.
MCSymmetry == Permutations(Methods) \cup Permutations(Handlers)

\* What the next call of add finds: it overwrites asked and result and reads
\* neither.  A step is judged by their new values; where they and the tree stay
\* as they were, the same call was judged the step before.
MCView == <<inner, patterns, allPatterns>>
=============================================================================

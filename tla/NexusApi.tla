------------------------------- MODULE NexusApi -------------------------------
(***************************************************************************)
(* What the API of the Nexus example promises to those who call it: each   *)
(* request takes effect at most once, at one moment, never after its       *)
(* answer; what is stored is only what may be stored at that moment; and   *)
(* an answer is true when it is given.  There are no tables and no         *)
(* statements here, only the set of the requests that took effect.         *)
(***************************************************************************)
CONSTANTS Tasks, Emails, Names,
          Members,  \* who has an account at the start
          Nobody    \* who sends a request with no user's token

VARIABLES asked,   \* asked[t]: what t asks for
          stored,  \* the requests that took effect
          answer   \* answer[t]: the status t was answered, 0 before

apivars == <<asked, stored, answer>>

Wishes == [kind : {"register"}, email : Emails, name : Names]
            \cup [kind : {"post"}, by : Members \cup {Nobody}]
            \cup [kind : {"comment"}, by : Members \cup {Nobody}, post : Tasks]

ApiInit == asked \in [Tasks -> Wishes] /\ stored = {} /\ answer = [t \in Tasks |-> 0]

Stored(kind) == {s \in stored : asked[s].kind = kind}

EmailHeld(email) ==
    \/ \E m \in Members : m.email = email
    \/ \E s \in Stored("register") : asked[s].email = email

NameHeld(name) ==
    \/ \E m \in Members : m.name = name
    \/ \E s \in Stored("register") : asked[s].name = name

MayStore(t) ==
    CASE asked[t].kind = "register" -> ~EmailHeld(asked[t].email) /\ ~NameHeld(asked[t].name)
      [] asked[t].kind = "post" -> asked[t].by # Nobody
      [] asked[t].kind = "comment" -> asked[t].by # Nobody /\ asked[t].post \in Stored("post")

\* The request takes effect, before it is answered.
Store(t) ==
    /\ t \notin stored /\ answer[t] = 0
    /\ MayStore(t)
    /\ stored' = stored \cup {t}
    /\ UNCHANGED <<asked, answer>>

\* What a status tells.  An exception may end a request that took effect: a
\* registration is then told 500, a post or a comment 422, and never the other.
Truthful(t, status) ==
    LET kind == asked[t].kind
    IN  \/ status = 201 /\ t \in stored
        \/ status = 400 /\ kind = "register" /\ t \notin stored /\ EmailHeld(asked[t].email)
        \/ status = 401 /\ kind # "register" /\ t \notin stored /\ asked[t].by = Nobody
        \/ status = 404 /\ kind = "comment" /\ t \notin stored
           /\ asked[t].post \notin Stored("post")
        \/ status = 422 /\ (kind = "register" => t \notin stored)
        \/ status = 500 /\ (kind # "register" => t \notin stored)

Reply(t, status) ==
    /\ answer[t] = 0
    /\ Truthful(t, status)
    /\ answer' = [answer EXCEPT ![t] = status]
    /\ UNCHANGED <<asked, stored>>

Statuses == {201, 400, 401, 404, 422, 500}

ApiNext ==
    \/ \E t \in Tasks : Store(t)
    \/ \E t \in Tasks, status \in Statuses : Reply(t, status)

ApiSpec == ApiInit /\ [][ApiNext]_apivars
=============================================================================

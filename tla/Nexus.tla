-------------------------------- MODULE Nexus --------------------------------
(***************************************************************************)
(* The backend of the Nexus example (examples/nexus/backend/app): register *)
(* and the making of posts and comments, each in an event loop of its own  *)
(* over one SQLite database.  A handler is one step per SQL statement; any *)
(* other handler may run between two of them, and any may fail.            *)
(***************************************************************************)
EXTENDS Naturals

CONSTANTS Tasks,    \* requests; the row that one inserts has it as its id
          Emails, Names,
          Members,  \* rows of users that are in the database at the start
          Nobody    \* the sender of a request whose token is none, or of no user's

ASSUME NexusAssumption ==
    /\ \A m, n \in Members : m.email = n.email \/ m.name = n.name => m = n
    /\ \A m \in Members : m.id \notin Tasks
    /\ Nobody \notin Members \cup [id : Tasks, email : Emails, name : Names]

VARIABLES users, posts, comments,  \* the tables, as sets of rows
          at,      \* at[t]: the statement t will run, or "new" or "done"
          asked,   \* asked[t]: what t was asked to do
          answer,  \* answer[t]: the status of its answer, 0 before
          failed   \* history: the tasks one of whose statements failed

nvars == <<users, posts, comments, at, asked, answer, failed>>

Statements == {"auth", "select", "insert", "refresh", "load"}

Registration == [kind : {"register"}, email : Emails, name : Names]
Posting == [kind : {"post"}, by : Members \cup {Nobody}]
Commenting == [kind : {"comment"}, by : Members \cup {Nobody}, post : Tasks]

NexusInit ==
    /\ users = Members /\ posts = {} /\ comments = {}
    /\ at = [t \in Tasks |-> "new"]
    /\ asked \in [Tasks -> Registration \cup Posting \cup Commenting]
    /\ answer = [t \in Tasks |-> 0]
    /\ failed = {}

-----------------------------------------------------------------------------

Kind(t) == asked[t].kind
Goto(t, label) == at' = [at EXCEPT ![t] = label] /\ UNCHANGED answer
Answer(t, status) == at' = [at EXCEPT ![t] = "done"] /\ answer' = [answer EXCEPT ![t] = status]

\* The handler starts, or turns away a malformed registration or a bad token.
Arrive(t) ==
    /\ at[t] = "new"
    /\ \/ Kind(t) = "register" /\ (Goto(t, "select") \/ Answer(t, 422))
       \/ Kind(t) # "register" /\ asked[t].by = Nobody /\ Answer(t, 401)
       \/ Kind(t) # "register" /\ Goto(t, "auth")
    /\ UNCHANGED <<users, posts, comments, asked, failed>>

\* require_auth finds the user of the token; the body is read only now.
Authenticate(t) ==
    /\ at[t] = "auth"
    /\ \/ asked[t].by \in users /\ Goto(t, IF Kind(t) = "post" THEN "insert" ELSE "select")
       \/ asked[t].by \in users /\ Answer(t, 422)
       \/ asked[t].by \notin users /\ Answer(t, 401)
    /\ UNCHANGED <<users, posts, comments, asked, failed>>

EmailTaken(t) == \E u \in users : u.email = asked[t].email

\* Seeded fault: a comment is stored whatever it is on.
AnyPost(t) == TRUE

PostExists(t) == \E p \in posts : p.id = asked[t].post

\* What must be there, or must not, before the row is made.
Select(t) ==
    /\ at[t] = "select"
    /\ CASE Kind(t) = "register" -> IF EmailTaken(t) THEN Answer(t, 400) ELSE Goto(t, "insert")
         [] Kind(t) = "comment" -> IF PostExists(t) THEN Goto(t, "insert") ELSE Answer(t, 404)
    /\ UNCHANGED <<users, posts, comments, asked, failed>>

\* Seeded fault: the column of the emails is not unique, the check must do.
NameClash(t) == \E u \in users : u.name = asked[t].name

\* Either column of the table is unique.
Clash(t) == EmailTaken(t) \/ \E u \in users : u.name = asked[t].name

\* Seeded fault: the exception is caught and its answer not returned.
Swallow(t) == Answer(t, 200)

\* Seeded fault: registration catches what the other handlers catch.
Caught(t) == Answer(t, 422)

\* An exception that leaves the handler of a registration, or require_auth, is
\* an error 500 of the server; the others catch it and answer 422.
Raise(t) == Answer(t, IF Kind(t) = "register" \/ at[t] = "auth" THEN 500 ELSE 422)

\* INSERT and COMMIT.
Insert(t) ==
    /\ at[t] = "insert"
    /\ \/ /\ Kind(t) = "register" /\ ~Clash(t)
          /\ users' = users \cup {[id |-> t, email |-> asked[t].email, name |-> asked[t].name]}
          /\ UNCHANGED <<posts, comments>>
       \/ /\ Kind(t) = "post"
          /\ posts' = posts \cup {[id |-> t, author |-> asked[t].by]}
          /\ UNCHANGED <<users, comments>>
       \/ /\ Kind(t) = "comment"
          /\ comments' = comments \cup
                 {[id |-> t, post |-> asked[t].post, author |-> asked[t].by]}
          /\ UNCHANGED <<users, posts>>
    /\ Goto(t, "refresh")
    /\ UNCHANGED <<asked, failed>>

InsertClashes(t) ==
    /\ at[t] = "insert"
    /\ Kind(t) = "register" /\ Clash(t)
    /\ Raise(t)
    /\ UNCHANGED <<users, posts, comments, asked, failed>>

Refresh(t) ==
    /\ at[t] = "refresh"
    /\ IF Kind(t) = "register" THEN Answer(t, 201) ELSE Goto(t, "load")
    /\ UNCHANGED <<users, posts, comments, asked, failed>>

\* Seeded fault: a post is read back only while nobody, not even its author,
\* has commented on it.
Uncommented(t) == \A c \in comments : c.post # t

\* The authors of a post's comments are not loaded with it: only the author of
\* the post itself is at hand.
Readable(t) == \A c \in comments : c.post = t => c.author = asked[t].by

\* The row is read back for the answer, a post with its comments.
Load(t) ==
    /\ at[t] = "load"
    /\ IF Kind(t) = "comment" \/ Readable(t) THEN Answer(t, 201) ELSE Raise(t)
    /\ UNCHANGED <<users, posts, comments, asked, failed>>

\* A statement, or what leads to it, raises: the database is locked, say.
Fail(t) ==
    /\ at[t] \in Statements
    /\ Raise(t)
    /\ failed' = failed \cup {t}
    /\ UNCHANGED <<users, posts, comments, asked>>

AllDone == (\A t \in Tasks : at[t] = "done") /\ UNCHANGED nvars

NexusNext ==
    \/ \E t \in Tasks : \/ Arrive(t) \/ Authenticate(t) \/ Select(t) \/ Insert(t)
                        \/ InsertClashes(t) \/ Refresh(t) \/ Load(t) \/ Fail(t)
    \/ AllDone

NexusSpec == NexusInit /\ [][NexusNext]_nvars

-----------------------------------------------------------------------------
(* Properties *)

NexusTypeOK ==
    /\ \A u \in users : u.id \in Tasks \cup {m.id : m \in Members}
    /\ at \in [Tasks -> {"new", "done"} \cup Statements]
    /\ answer \in [Tasks -> {0, 201, 400, 401, 404, 422, 500}]
    /\ \A t \in Tasks : answer[t] = 0 <=> at[t] # "done"

\* Nobody registers with the email or the name of somebody else, although each
\* of two registrations may look before the other inserts (main.py:32).
OneAccountEach ==
    \A t \in Tasks : answer[t] = 201 /\ Kind(t) = "register" =>
        \A u \in users : u.email = asked[t].email \/ u.name = asked[t].name => u.id = t

\* SQLite checks no foreign key here: it is the handlers that never store a
\* comment on a post, or either for a user, that is not there.
NothingDangles ==
    /\ \A p \in posts : p.author \in users
    /\ \A c \in comments : c.author \in users /\ \E p \in posts : p.id = c.post

Stored(t) == \E row \in users \cup posts \cup comments : row.id = t

\* Success is told for stored rows only.  A row is stored and its maker told of
\* an error only if a later statement failed, or, for a post, if somebody else
\* commented on it before it was read back.
ToldAsStored ==
    \A t \in Tasks : at[t] = "done" =>
        /\ answer[t] = 201 => Stored(t)
        /\ Stored(t) /\ answer[t] # 201 =>
              \/ t \in failed
              \/ Kind(t) = "post" /\ \E c \in comments : c.post = t /\ c.author # asked[t].by

\* Seen from outside each request is one step: it takes effect at most once and
\* never after its answer, on what is there at that moment, and 400, 401 and 404
\* are true when they are told.  An error that may hide a stored row is 500 for
\* a registration, 422 for the rest.
Api == INSTANCE NexusApi WITH stored <- {t \in Tasks : Stored(t)}

ImplementsApi == Api!ApiSpec
=============================================================================

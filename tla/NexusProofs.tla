----------------------------- MODULE NexusProofs -----------------------------
(***************************************************************************)
(* That the tables of the Nexus backend stay consistent, and its answers   *)
(* true, for any number of requests in any order; and that the backend,    *)
(* statement by statement, does for its callers what NexusApi promises.    *)
(***************************************************************************)
EXTENDS Nexus, TLAPS

\* The rows that t may insert.
UserRow(t) == [id |-> t, email |-> asked[t].email, name |-> asked[t].name]
PostRow(t) == [id |-> t, author |-> asked[t].by]
CommentRow(t) == [id |-> t, post |-> asked[t].post, author |-> asked[t].by]

Labels ==
    /\ at \in [Tasks -> {"new", "done"} \cup Statements]
    /\ answer \in [Tasks -> {0, 201, 400, 401, 404, 422, 500}]
    /\ \A t \in Tasks : Kind(t) \in {"register", "post", "comment"}
    /\ \A t \in Tasks : answer[t] = 0 <=> at[t] # "done"
    /\ \A t \in Tasks : Kind(t) = "register" => at[t] \notin {"auth", "load"}
    /\ \A t \in Tasks : Kind(t) = "post" => at[t] # "select"

\* Every row is what its task was asked to store.
UsersHaveOrigin ==
    \A u \in users : u \in Members \/ \E t \in Tasks : Kind(t) = "register" /\ u = UserRow(t)

Unique == \A u, v \in users : u.email = v.email \/ u.name = v.name => u = v

\* Past require_auth the sender is a user, past its look at the post a comment
\* has a post: neither is ever deleted.
Known ==
    \A t \in Tasks :
        /\ Kind(t) # "register" /\ at[t] \in Statements \ {"auth"} => asked[t].by \in users
        /\ Kind(t) = "comment" /\ at[t] = "insert" => PostExists(t)

Inserted(t) == at[t] \in {"refresh", "load"} \/ answer[t] = 201

Kept ==
    \A t \in Tasks : Inserted(t) =>
        /\ Kind(t) = "register" => UserRow(t) \in users
        /\ Kind(t) = "post" => PostRow(t) \in posts
        /\ Kind(t) = "comment" => CommentRow(t) \in comments

Excused(t) ==
    \/ t \in failed
    \/ Kind(t) = "post" /\ \E c \in comments : c.post = t /\ c.author # asked[t].by

Accounted == \A t \in Tasks : Stored(t) => Inserted(t) \/ Excused(t)

NexusInv ==
    /\ Labels /\ UsersHaveOrigin /\ Unique /\ Known
    /\ NothingDangles /\ Kept /\ Accounted

-----------------------------------------------------------------------------

\* Initially the tables hold the members and nothing else.
LEMMA NexusStarts == NexusInit => NexusInv
<1> SUFFICES ASSUME NexusInit PROVE NexusInv
  OBVIOUS
<1> USE DEF NexusInit
<1>1. \A t \in Tasks : Kind(t) \in {"register", "post", "comment"}
  <2> SUFFICES ASSUME NEW t \in Tasks PROVE asked[t].kind \in {"register", "post", "comment"}
    BY DEF Kind
  <2>1. asked[t] \in Registration \cup Posting \cup Commenting
    OBVIOUS
  <2> QED
    BY <2>1 DEF Registration, Posting, Commenting
<1>2. Labels
  BY <1>1 DEF Labels, Statements
<1>3. UsersHaveOrigin /\ Known /\ NothingDangles /\ Kept
  BY DEF UsersHaveOrigin, Known, NothingDangles, Kept, Inserted, Statements
<1>4. Unique
  BY NexusAssumption DEF Unique
<1>5. Accounted
  BY NexusAssumption DEF Accounted, Stored
<1> QED
  BY <1>2, <1>3, <1>4, <1>5 DEF NexusInv

\* No statement deletes or changes a row, and no request is asked anew.
LEMMA NothingDeleted ==
    ASSUME [NexusNext]_nvars
    PROVE  /\ users \subseteq users' /\ posts \subseteq posts' /\ comments \subseteq comments'
           /\ failed \subseteq failed' /\ asked' = asked
BY DEF NexusNext, nvars, Arrive, Authenticate, Select, Insert, InsertClashes, Refresh,
       Load, Fail, AllDone

\* A step answers or moves the one task that takes it.
LEMMA LabelsStay == ASSUME Labels, [NexusNext]_nvars PROVE Labels'
<1> USE DEF Labels, Statements, Kind, Goto, Answer, Raise
<1>1. ASSUME NEW t \in Tasks, Arrive(t) PROVE Labels'
  BY <1>1 DEF Arrive
<1>2. ASSUME NEW t \in Tasks, Authenticate(t) PROVE Labels'
  BY <1>2 DEF Authenticate
<1>3. ASSUME NEW t \in Tasks, Select(t) PROVE Labels'
  <2>1. Kind(t) \in {"register", "comment"}
    BY <1>3 DEF Select
  <2>2. Goto(t, "insert") \/ Answer(t, 400) \/ Answer(t, 404)
    BY <1>3, <2>1 DEF Select
  <2> QED
    BY <1>3, <2>2 DEF Select
<1>4. ASSUME NEW t \in Tasks, Insert(t) PROVE Labels'
  BY <1>4 DEF Insert
<1>5. ASSUME NEW t \in Tasks, InsertClashes(t) PROVE Labels'
  BY <1>5 DEF InsertClashes
<1>6. ASSUME NEW t \in Tasks, Refresh(t) PROVE Labels'
  BY <1>6 DEF Refresh
<1>7. ASSUME NEW t \in Tasks, Load(t) PROVE Labels'
  BY <1>7 DEF Load
<1>8. ASSUME NEW t \in Tasks, Fail(t) PROVE Labels'
  BY <1>8 DEF Fail
<1>9. CASE UNCHANGED nvars
  BY <1>9 DEF nvars
<1> QED
  BY <1>1, <1>2, <1>3, <1>4, <1>5, <1>6, <1>7, <1>8, <1>9 DEF NexusNext, AllDone

\* A task stands still while others step.
LEMMA OneMoves ==
    ASSUME Labels, [NexusNext]_nvars, NEW t \in Tasks
    PROVE  \/ at'[t] = at[t] /\ answer'[t] = answer[t]
           \/ Arrive(t) \/ Authenticate(t) \/ Select(t) \/ Insert(t)
           \/ InsertClashes(t) \/ Fail(t) \/ Refresh(t) \/ Load(t)
<1>1. CASE UNCHANGED nvars
  BY <1>1 DEF nvars
<1>2. ASSUME NEW s \in Tasks, s # t,
             \/ Arrive(s) \/ Authenticate(s) \/ Select(s) \/ Insert(s)
             \/ InsertClashes(s) \/ Fail(s) \/ Refresh(s) \/ Load(s)
      PROVE  at'[t] = at[t] /\ answer'[t] = answer[t]
  <2>1. (\E label : Goto(s, label)) \/ (\E status : Answer(s, status))
    <3>1. CASE Select(s)
      <4>1. Kind(s) \in {"register", "comment"}
        BY <3>1 DEF Select, Labels
      <4> QED
        BY <3>1, <4>1 DEF Select
    <3>2. CASE Load(s) \/ InsertClashes(s) \/ Fail(s)
      BY <3>2 DEF Load, InsertClashes, Fail, Raise
    <3>3. CASE Arrive(s) \/ Authenticate(s) \/ Insert(s) \/ Refresh(s)
      BY <3>3 DEF Arrive, Authenticate, Insert, Refresh
    <3> QED
      BY <1>2, <3>1, <3>2, <3>3
  <2> QED
    BY <1>2, <2>1 DEF Goto, Answer, Labels
<1> QED
  BY <1>1, <1>2 DEF NexusNext, AllDone

\* The row that Insert adds, by the kind of its task; no other step adds one.
LEMMA OneRow ==
    ASSUME Labels, [NexusNext]_nvars
    PROVE  \/ UNCHANGED <<users, posts, comments>>
           \/ \E t \in Tasks :
                 /\ at[t] = "insert" /\ at' = [at EXCEPT ![t] = "refresh"]
                 /\ \/ /\ Kind(t) = "register" /\ ~Clash(t)
                       /\ users' = users \cup {UserRow(t)}
                       /\ UNCHANGED <<posts, comments>>
                    \/ /\ Kind(t) = "post"
                       /\ posts' = posts \cup {PostRow(t)}
                       /\ UNCHANGED <<users, comments>>
                    \/ /\ Kind(t) = "comment"
                       /\ comments' = comments \cup {CommentRow(t)}
                       /\ UNCHANGED <<users, posts>>
<1>1. CASE \E t \in Tasks : Insert(t)
  BY <1>1 DEF Insert, Goto, UserRow, PostRow, CommentRow
<1>2. CASE UNCHANGED nvars
  BY <1>2 DEF nvars
<1> QED
  BY <1>1, <1>2 DEF NexusNext, Arrive, Authenticate, Select, InsertClashes, Refresh, Load,
                    Fail, AllDone

LEMMA UsersStay ==
    ASSUME Labels, UsersHaveOrigin, Unique, [NexusNext]_nvars
    PROVE  UsersHaveOrigin' /\ Unique'
<1>0. asked' = asked
  BY NothingDeleted
<1>1. CASE UNCHANGED users
  BY <1>0, <1>1 DEF UsersHaveOrigin, Unique, UserRow, Kind
<1>2. ASSUME NEW t \in Tasks, Kind(t) = "register", ~Clash(t), users' = users \cup {UserRow(t)}
      PROVE  UsersHaveOrigin' /\ Unique'
  <2>1. UsersHaveOrigin'
    BY <1>0, <1>2 DEF UsersHaveOrigin, UserRow, Kind
  <2>2. UserRow(t).email = asked[t].email /\ UserRow(t).name = asked[t].name
    BY DEF UserRow
  <2>3. \A u \in users : u.email # UserRow(t).email /\ u.name # UserRow(t).name
    BY <1>2, <2>2 DEF Clash, EmailTaken
  <2>4. Unique'
    BY <1>2, <2>3 DEF Unique
  <2> QED
    BY <2>1, <2>4
<1> QED
  BY <1>1, <1>2, OneRow

\* require_auth lets users through only, Select only comments on a post.
LEMMA KnownStays ==
    ASSUME Labels, Known, [NexusNext]_nvars
    PROVE  Known'
<1> SUFFICES ASSUME NEW t \in Tasks
             PROVE  /\ (Kind(t) # "register" /\ at[t] \in Statements \ {"auth"}
                           => asked[t].by \in users)'
                    /\ (Kind(t) = "comment" /\ at[t] = "insert" => PostExists(t))'
  BY DEF Known
<1>0. /\ asked' = asked /\ users \subseteq users' /\ posts \subseteq posts'
      /\ PostExists(t) => PostExists(t)'
  BY NothingDeleted DEF PostExists
<1>1. CASE at'[t] = at[t]
  BY <1>0, <1>1 DEF Known, Kind
<1>2. CASE Arrive(t)
  BY <1>0, <1>2 DEF Arrive, Kind, Goto, Answer, Labels, Statements
<1>3. CASE Authenticate(t)
  BY <1>0, <1>3 DEF Authenticate, Kind, Goto, Answer, Labels, Statements
<1>4. CASE Select(t)
  <2>1. at[t] = "select" /\ Kind(t) \in {"register", "comment"}
    BY <1>4 DEF Select, Labels
  <2>2. CASE Kind(t) = "register"
    BY <1>0, <2>2 DEF Kind
  <2>3. CASE Kind(t) = "comment"
    <3>1. asked[t].by \in users
      BY <2>1, <2>3 DEF Known, Statements
    <3>2. (Goto(t, "insert") /\ PostExists(t)) \/ Answer(t, 404)
      BY <1>4, <2>3 DEF Select
    <3> QED
      BY <1>0, <3>1, <3>2 DEF Goto, Answer, Labels, Statements
  <2> QED
    BY <2>1, <2>2, <2>3
<1>5. CASE Insert(t)
  BY <1>0, <1>5 DEF Insert, Known, Kind, Goto, Labels, Statements
<1>6. CASE InsertClashes(t) \/ Fail(t)
  BY <1>6 DEF InsertClashes, Fail, Raise, Answer, Labels, Statements
<1>7. CASE Refresh(t)
  BY <1>0, <1>7 DEF Refresh, Known, Kind, Goto, Answer, Labels, Statements
<1>8. CASE Load(t)
  BY <1>8 DEF Load, Raise, Answer, Labels, Statements
<1>9. \/ at'[t] = at[t] \/ Arrive(t) \/ Authenticate(t) \/ Select(t) \/ Insert(t)
      \/ InsertClashes(t) \/ Fail(t) \/ Refresh(t) \/ Load(t)
  BY OneMoves
<1> QED
  BY <1>1, <1>2, <1>3, <1>4, <1>5, <1>6, <1>7, <1>8, <1>9

\* What Known says of a task is what the row that it inserts needs.
LEMMA DanglingStays ==
    ASSUME Labels, Known, NothingDangles, [NexusNext]_nvars
    PROVE  NothingDangles'
<1>0. users \subseteq users' /\ posts \subseteq posts'
  BY NothingDeleted
<1>1. CASE UNCHANGED <<posts, comments>>
  BY <1>0, <1>1 DEF NothingDangles
<1>2. ASSUME NEW t \in Tasks, at[t] = "insert", Kind(t) = "post",
             posts' = posts \cup {PostRow(t)}, UNCHANGED comments
      PROVE  NothingDangles'
  <2>1. PostRow(t).author \in users
    BY <1>2 DEF Known, Statements, PostRow
  <2> QED
    BY <1>0, <1>2, <2>1 DEF NothingDangles
<1>3. ASSUME NEW t \in Tasks, at[t] = "insert", Kind(t) = "comment",
             comments' = comments \cup {CommentRow(t)}, UNCHANGED posts
      PROVE  NothingDangles'
  <2>1. /\ CommentRow(t).author \in users
        /\ \E p \in posts : p.id = CommentRow(t).post
    BY <1>3 DEF Known, Statements, CommentRow, PostExists
  <2> QED
    BY <1>0, <1>3, <2>1 DEF NothingDangles
<1> QED
  BY <1>1, <1>2, <1>3, OneRow

\* Only Insert makes a task one that has inserted, and it inserts its row.
LEMMA InsertedStays ==
    ASSUME Labels, [NexusNext]_nvars, NEW t \in Tasks, Inserted(t)', ~Inserted(t)
    PROVE  Insert(t)
<1>1. CASE at'[t] = at[t] /\ answer'[t] = answer[t]
  BY <1>1 DEF Inserted
<1>2. CASE Arrive(t) \/ Authenticate(t)
  BY <1>2 DEF Arrive, Authenticate, Goto, Answer, Inserted, Labels
<1>3. CASE Select(t)
  <2>1. Kind(t) \in {"register", "comment"}
    BY <1>3 DEF Select, Labels
  <2>2. Goto(t, "insert") \/ Answer(t, 400) \/ Answer(t, 404)
    BY <1>3, <2>1 DEF Select
  <2> QED
    BY <2>2 DEF Goto, Answer, Inserted, Labels
<1>4. CASE InsertClashes(t) \/ Fail(t)
  BY <1>4 DEF InsertClashes, Fail, Raise, Answer, Inserted, Labels
<1>5. CASE Refresh(t) \/ Load(t)
  BY <1>5 DEF Refresh, Load, Inserted
<1> QED
  BY <1>1, <1>2, <1>3, <1>4, <1>5, OneMoves

LEMMA KeptStays ==
    ASSUME Labels, Kept, [NexusNext]_nvars
    PROVE  Kept'
<1> SUFFICES ASSUME NEW t \in Tasks, Inserted(t)'
             PROVE  /\ Kind(t) = "register" => UserRow(t) \in users'
                    /\ Kind(t) = "post" => PostRow(t) \in posts'
                    /\ Kind(t) = "comment" => CommentRow(t) \in comments'
  BY NothingDeleted DEF Kept, Kind, UserRow, PostRow, CommentRow
<1>1. CASE Inserted(t)
  BY <1>1, NothingDeleted DEF Kept
<1>2. CASE Insert(t)
  BY <1>2 DEF Insert, UserRow, PostRow, CommentRow
<1> QED
  BY <1>1, <1>2, InsertedStays

\* The row that is stored is its task's, and an answer other than 201 after it
\* has one of the two excuses.
LEMMA AccountedStays ==
    ASSUME Labels, Accounted, [NexusNext]_nvars
    PROVE  Accounted'
<1> SUFFICES ASSUME NEW t \in Tasks, Stored(t)'
             PROVE  Inserted(t)' \/ Excused(t)'
  BY DEF Accounted
<1>0. Excused(t) => Excused(t)'
  BY NothingDeleted DEF Excused, Kind
<1>1. CASE ~Stored(t)
  <2>1. PICK s \in Tasks : at[s] = "insert" /\ at' = [at EXCEPT ![s] = "refresh"]
                           /\ (Stored(t)' => Stored(t) \/ s = t)
    <3>1. ~UNCHANGED <<users, posts, comments>>
      BY <1>1 DEF Stored
    <3>2. \A s : UserRow(s).id = s /\ PostRow(s).id = s /\ CommentRow(s).id = s
      BY DEF UserRow, PostRow, CommentRow
    <3> QED
      BY <3>1, <3>2, OneRow DEF Stored
  <2>2. at'[t] = "refresh"
    BY <1>1, <2>1 DEF Labels
  <2> QED
    BY <2>2 DEF Inserted
<1>2. CASE Stored(t) /\ Excused(t)
  BY <1>0, <1>2
<1>3. CASE Inserted(t)
  <2>1. CASE at'[t] = at[t] /\ answer'[t] = answer[t]
    BY <1>3, <2>1 DEF Inserted
  <2>2. CASE Refresh(t)
    BY <2>2 DEF Refresh, Goto, Answer, Inserted, Labels
  <2>3. CASE Load(t)
    <3>1. CASE Kind(t) = "comment" \/ Readable(t)
      BY <2>3, <3>1 DEF Load, Answer, Inserted, Labels
    <3>2. CASE ~(Kind(t) = "comment" \/ Readable(t))
      <4>1. Kind(t) = "post"
        BY <2>3, <3>2 DEF Load, Labels
      <4>2. Excused(t)
        BY <3>2, <4>1 DEF Readable, Excused
      <4> QED
        BY <1>0, <4>2
    <3> QED
      BY <3>1, <3>2
  <2>4. CASE Fail(t)
    BY <2>4 DEF Fail, Excused
  <2>5. CASE Arrive(t) \/ Authenticate(t) \/ Select(t) \/ Insert(t) \/ InsertClashes(t)
    <3>1. at[t] \in {"new", "auth", "select", "insert"}
      BY <2>5 DEF Arrive, Authenticate, Select, Insert, InsertClashes
    <3> QED
      BY <1>3, <3>1 DEF Inserted, Labels
  <2> QED
    BY <2>1, <2>2, <2>3, <2>4, <2>5, OneMoves
<1> QED
  BY <1>1, <1>2, <1>3 DEF Accounted

LEMMA NexusStays == ASSUME NexusInv, [NexusNext]_nvars PROVE NexusInv'
BY LabelsStay, UsersStay, KnownStays, DanglingStays, KeptStays, AccountedStays DEF NexusInv

LEMMA NexusAlways == NexusSpec => []NexusInv
BY NexusStarts, NexusStays, PTL DEF NexusSpec

-----------------------------------------------------------------------------

\* Every user is a member or comes from one request, and a request is done
\* exactly when it is answered.
THEOREM NexusTypeCorrect == NexusSpec => []NexusTypeOK
<1>1. NexusInv => NexusTypeOK
  BY DEF NexusInv, Labels, UsersHaveOrigin, UserRow, NexusTypeOK
<1> QED
  BY <1>1, NexusAlways, PTL

\* Nobody registers with the email or the name of somebody else (main.py:32),
\* whatever the order of the checks and the insertions of any registrations.
THEOREM OneAccountEachAlways == NexusSpec => []OneAccountEach
<1>1. ASSUME NexusInv PROVE OneAccountEach
  <2> SUFFICES ASSUME NEW t \in Tasks, answer[t] = 201, Kind(t) = "register",
                      NEW u \in users, u.email = asked[t].email \/ u.name = asked[t].name
               PROVE  u.id = t
    BY DEF OneAccountEach
  <2>1. UserRow(t) \in users
    BY <1>1 DEF NexusInv, Kept, Inserted
  <2>2. u.email = UserRow(t).email \/ u.name = UserRow(t).name
    BY DEF UserRow
  <2>3. u = UserRow(t)
    BY <1>1, <2>1, <2>2 DEF NexusInv, Unique
  <2> QED
    BY <2>3 DEF UserRow
<1> QED
  BY <1>1, NexusAlways, PTL

\* The tables refer to rows that are there, with no foreign key checked.
THEOREM NothingEverDangles == NexusSpec => []NothingDangles
<1>1. NexusInv => NothingDangles
  BY DEF NexusInv
<1> QED
  BY <1>1, NexusAlways, PTL

\* An answer says what is stored, but for a later failure, or a comment by
\* somebody else that is made before a new post is read back (main.py:114).
THEOREM AlwaysToldAsStored == NexusSpec => []ToldAsStored
<1>1. ASSUME NexusInv PROVE ToldAsStored
  <2> SUFFICES ASSUME NEW t \in Tasks, at[t] = "done"
               PROVE  /\ answer[t] = 201 => Stored(t)
                      /\ Stored(t) /\ answer[t] # 201 => Excused(t)
    BY DEF ToldAsStored, Excused
  <2>1. ASSUME answer[t] = 201 PROVE Stored(t)
    <3>1. UserRow(t) \in users \/ PostRow(t) \in posts \/ CommentRow(t) \in comments
      BY <1>1, <2>1 DEF NexusInv, Labels, Kept, Inserted
    <3> QED
      BY <3>1 DEF Stored, UserRow, PostRow, CommentRow
  <2>2. ASSUME Stored(t), answer[t] # 201 PROVE Excused(t)
    BY <1>1, <2>2 DEF NexusInv, Accounted, Inserted
  <2> QED
    BY <2>1, <2>2
<1> QED
  BY <1>1, NexusAlways, PTL

-----------------------------------------------------------------------------
(* The backend implements NexusApi: a request takes effect in the one step *)
(* of its INSERT, and every answer is true when it is given.               *)

\* Every row was there at the start or is the one its own task asked for, so
\* that a row tells the kind of the task that stored it.
RowsHaveOrigin ==
    /\ Members \subseteq users
    /\ UsersHaveOrigin
    /\ \A p \in posts : \E t \in Tasks : Kind(t) = "post" /\ p = PostRow(t)
    /\ \A c \in comments : \E t \in Tasks : Kind(t) = "comment" /\ c = CommentRow(t)

\* A task whose row is stored has run its INSERT.
StoredLate == \A t \in Tasks : Stored(t) => at[t] \in {"refresh", "load", "done"}

AskedRightly == asked \in [Tasks -> Registration \cup Posting \cup Commenting]

RefineInv == NexusInv /\ RowsHaveOrigin /\ StoredLate /\ AskedRightly

LEMMA RefineStarts == NexusInit => RefineInv
<1> SUFFICES ASSUME NexusInit PROVE RefineInv
  OBVIOUS
<1>1. NexusInv
  BY NexusStarts
<1>2. RowsHaveOrigin /\ AskedRightly
  BY DEF NexusInit, RowsHaveOrigin, UsersHaveOrigin, AskedRightly
<1>3. StoredLate
  BY NexusAssumption DEF NexusInit, StoredLate, Stored
<1> QED
  BY <1>1, <1>2, <1>3 DEF RefineInv

\* The one row that a step adds is its task's own.
LEMMA OriginStays ==
    ASSUME Labels, RowsHaveOrigin, [NexusNext]_nvars
    PROVE  RowsHaveOrigin'
<1>0. asked' = asked
  BY NothingDeleted
<1> USE <1>0 DEF UsersHaveOrigin, Kind, UserRow, PostRow, CommentRow
<1>1. CASE UNCHANGED <<users, posts, comments>>
  BY <1>1 DEF RowsHaveOrigin
<1>2. ASSUME NEW t \in Tasks, Kind(t) = "register", users' = users \cup {UserRow(t)},
             UNCHANGED <<posts, comments>>
      PROVE  RowsHaveOrigin'
  BY <1>2 DEF RowsHaveOrigin
<1>3. ASSUME NEW t \in Tasks, Kind(t) = "post", posts' = posts \cup {PostRow(t)},
             UNCHANGED <<users, comments>>
      PROVE  RowsHaveOrigin'
  BY <1>3 DEF RowsHaveOrigin
<1>4. ASSUME NEW t \in Tasks, Kind(t) = "comment", comments' = comments \cup {CommentRow(t)},
             UNCHANGED <<users, posts>>
      PROVE  RowsHaveOrigin'
  BY <1>4 DEF RowsHaveOrigin
<1> HIDE DEF UsersHaveOrigin, Kind, UserRow, PostRow, CommentRow
<1> QED
  BY <1>1, <1>2, <1>3, <1>4, OneRow

\* What the tasks have stored grows by the one that inserts, and by no other.
LEMMA StoredGrows ==
    ASSUME Labels, [NexusNext]_nvars
    PROVE  \/ UNCHANGED <<users, posts, comments>>
           \/ \E t \in Tasks :
                 /\ at[t] = "insert" /\ at' = [at EXCEPT ![t] = "refresh"]
                 /\ \A s \in Tasks : Stored(s)' <=> Stored(s) \/ s = t
<1>1. SUFFICES ASSUME NEW t \in Tasks,
                      \/ users' = users \cup {UserRow(t)} /\ UNCHANGED <<posts, comments>>
                      \/ posts' = posts \cup {PostRow(t)} /\ UNCHANGED <<users, comments>>
                      \/ comments' = comments \cup {CommentRow(t)} /\ UNCHANGED <<users, posts>>,
                      NEW s \in Tasks
               PROVE  Stored(s)' <=> Stored(s) \/ s = t
  BY OneRow
<1>2. UserRow(t).id = t /\ PostRow(t).id = t /\ CommentRow(t).id = t
  BY DEF UserRow, PostRow, CommentRow
<1> QED
  BY <1>1, <1>2 DEF Stored

LEMMA LateStays ==
    ASSUME Labels, StoredLate, [NexusNext]_nvars
    PROVE  StoredLate'
<1> SUFFICES ASSUME NEW s \in Tasks, Stored(s)'
             PROVE  at'[s] \in {"refresh", "load", "done"}
  BY DEF StoredLate
<1>1. CASE Stored(s)
  <2>1. at[s] \in {"refresh", "load", "done"}
    BY <1>1 DEF StoredLate
  <2>2. CASE at'[s] = at[s]
    BY <2>1, <2>2
  <2>3. CASE Refresh(s) \/ Load(s) \/ Fail(s)
    BY <2>3 DEF Refresh, Load, Fail, Raise, Goto, Answer, Labels
  <2>4. CASE Arrive(s) \/ Authenticate(s) \/ Select(s) \/ Insert(s) \/ InsertClashes(s)
    BY <2>1, <2>4 DEF Arrive, Authenticate, Select, Insert, InsertClashes
  <2> QED
    BY <2>2, <2>3, <2>4, OneMoves
<1>2. CASE ~Stored(s)
  <2>1. ~UNCHANGED <<users, posts, comments>>
    BY <1>2 DEF Stored
  <2>2. PICK t \in Tasks : /\ at' = [at EXCEPT ![t] = "refresh"]
                           /\ \A r \in Tasks : Stored(r)' <=> Stored(r) \/ r = t
    BY <2>1, StoredGrows
  <2>3. s = t
    BY <1>2, <2>2
  <2> QED
    BY <2>2, <2>3 DEF Labels
<1> QED
  BY <1>1, <1>2

LEMMA RefineStays == ASSUME RefineInv, [NexusNext]_nvars PROVE RefineInv'
<1>1. NexusInv' /\ Labels
  BY NexusStays DEF RefineInv, NexusInv
<1>2. RowsHaveOrigin' /\ StoredLate'
  BY <1>1, OriginStays, LateStays DEF RefineInv
<1>3. AskedRightly'
  BY NothingDeleted DEF RefineInv, AskedRightly
<1> QED
  BY <1>1, <1>2, <1>3 DEF RefineInv

LEMMA RefineAlways == NexusSpec => []RefineInv
BY RefineStarts, RefineStays, PTL DEF NexusSpec

-----------------------------------------------------------------------------
(* What the tables say of the requests that took effect *)

LEMMA NobodyIsNoUser == ASSUME RefineInv PROVE Nobody \notin users
<1> SUFFICES ASSUME NEW t \in Tasks, Kind(t) = "register"
             PROVE  UserRow(t) \in [id : Tasks, email : Emails, name : Names]
  BY NexusAssumption DEF RefineInv, RowsHaveOrigin, UsersHaveOrigin
<1>1. asked[t] \in Registration
  <2>1. asked[t] \in Registration \cup Posting \cup Commenting
    BY DEF RefineInv, AskedRightly
  <2> QED
    BY <2>1 DEF Posting, Commenting, Kind
<1> QED
  BY <1>1 DEF Registration, UserRow

\* A task that stored a row stored the row of its kind.
LEMMA RowOfKind ==
    ASSUME RefineInv, NEW s \in Tasks, Stored(s)
    PROVE  /\ Kind(s) = "register" => UserRow(s) \in users
           /\ Kind(s) = "post" => PostRow(s) \in posts
<1>1. PICK row \in users \cup posts \cup comments : row.id = s
  BY DEF Stored
<1>2. row \notin Members
  BY <1>1, NexusAssumption
<1>3. \A t : UserRow(t).id = t /\ PostRow(t).id = t /\ CommentRow(t).id = t
  BY DEF UserRow, PostRow, CommentRow
<1>4. CASE row \in users
  <2>1. PICK t \in Tasks : Kind(t) = "register" /\ row = UserRow(t)
    BY <1>2, <1>4 DEF RefineInv, RowsHaveOrigin, UsersHaveOrigin
  <2>2. t = s
    BY <1>1, <1>3, <2>1
  <2> QED
    BY <1>4, <2>1, <2>2
<1>5. CASE row \in posts
  <2>1. PICK t \in Tasks : Kind(t) = "post" /\ row = PostRow(t)
    BY <1>5 DEF RefineInv, RowsHaveOrigin
  <2>2. t = s
    BY <1>1, <1>3, <2>1
  <2> QED
    BY <1>5, <2>1, <2>2
<1>6. CASE row \in comments
  <2>1. PICK t \in Tasks : Kind(t) = "comment" /\ row = CommentRow(t)
    BY <1>6 DEF RefineInv, RowsHaveOrigin
  <2>2. t = s
    BY <1>1, <1>3, <2>1
  <2> QED
    BY <2>1, <2>2
<1> QED
  BY <1>1, <1>4, <1>5, <1>6

\* An email, or a name, is held in the abstract exactly if a row has it.
LEMMA HeldIsTaken ==
    ASSUME RefineInv
    PROVE  /\ \A e : Api!EmailHeld(e) <=> \E u \in users : u.email = e
           /\ \A n : Api!NameHeld(n) <=> \E u \in users : u.name = n
<1>1. \A s \in Tasks : UserRow(s).email = asked[s].email /\ UserRow(s).name = asked[s].name
                       /\ UserRow(s).id = s
  BY DEF UserRow
<1>2. ASSUME NEW s \in Api!Stored("register") PROVE s \in Tasks /\ UserRow(s) \in users
  BY <1>2, RowOfKind DEF Api!Stored, Kind
<1>3. ASSUME NEW u \in users, u \notin Members
      PROVE  \E s \in Api!Stored("register") : u = UserRow(s)
  <2>1. PICK s \in Tasks : Kind(s) = "register" /\ u = UserRow(s)
    BY <1>3 DEF RefineInv, RowsHaveOrigin, UsersHaveOrigin
  <2>2. Stored(s)
    BY <1>1, <2>1 DEF Stored
  <2> QED
    BY <2>1, <2>2 DEF Api!Stored, Kind
<1>4. Members \subseteq users
  BY DEF RefineInv, RowsHaveOrigin
<1>5. \A s \in Api!Stored("register") : s \in Tasks
  BY <1>2
<1>6. ASSUME NEW e PROVE Api!EmailHeld(e) <=> \E u \in users : u.email = e
  BY <1>1, <1>2, <1>3, <1>4 DEF Api!EmailHeld
<1>7. ASSUME NEW n PROVE Api!NameHeld(n) <=> \E u \in users : u.name = n
  BY <1>1, <1>2, <1>3, <1>4 DEF Api!NameHeld
<1> QED
  BY <1>6, <1>7

\* A post is among the requests that took effect exactly if its row is there.
LEMMA PostIsStored ==
    ASSUME RefineInv, NEW x
    PROVE  x \in Api!Stored("post") <=> \E p \in posts : p.id = x
<1>1. \A s : PostRow(s).id = s
  BY DEF PostRow
<1>2. ASSUME x \in Api!Stored("post") PROVE \E p \in posts : p.id = x
  <2>1. x \in Tasks /\ Stored(x) /\ Kind(x) = "post"
    BY <1>2 DEF Api!Stored, Kind
  <2> QED
    BY <1>1, <2>1, RowOfKind
<1>3. ASSUME NEW p \in posts, p.id = x PROVE x \in Api!Stored("post")
  <2>1. PICK s \in Tasks : Kind(s) = "post" /\ p = PostRow(s)
    BY DEF RefineInv, RowsHaveOrigin
  <2>2. s = x
    BY <1>1, <1>3, <2>1
  <2>3. Stored(x)
    BY <1>3 DEF Stored
  <2> QED
    BY <2>1, <2>2, <2>3 DEF Api!Stored, Kind
<1> QED
  BY <1>2, <1>3

-----------------------------------------------------------------------------
(* Every step is one of the abstract ones, or none *)

LEMMA ApiStarts == ASSUME NexusInit PROVE Api!ApiInit
<1>1. {t \in Tasks : Stored(t)} = {}
  BY NexusAssumption DEF NexusInit, Stored
<1> QED
  BY <1>1 DEF NexusInit, Api!ApiInit, Api!Wishes, Registration, Posting, Commenting

\* The INSERT is the moment at which a request takes effect.
LEMMA InsertStores ==
    ASSUME RefineInv, NEW t \in Tasks, Insert(t)
    PROVE  Api!Store(t)
<1>1. at[t] = "insert" /\ Labels /\ [NexusNext]_nvars
  BY DEF Insert, RefineInv, NexusInv, NexusNext
<1>2. ~Stored(t) /\ answer[t] = 0
  BY <1>1 DEF RefineInv, StoredLate, Labels
<1>3. Api!MayStore(t)
  <2>1. CASE Kind(t) = "register"
    <3>1. ~Clash(t)
      BY <2>1 DEF Insert
    <3> QED
      BY <2>1, <3>1, HeldIsTaken DEF Api!MayStore, Kind, Clash, EmailTaken
  <2>2. CASE Kind(t) # "register"
    <3>1. asked[t].by # Nobody
      BY <1>1, <2>2, NobodyIsNoUser DEF RefineInv, NexusInv, Known, Statements
    <3>2. Kind(t) = "comment" => asked[t].post \in Api!Stored("post")
      BY <1>1, PostIsStored DEF RefineInv, NexusInv, Known, PostExists
    <3>3. Kind(t) \in {"post", "comment"}
      BY <1>1, <2>2 DEF Labels
    <3> QED
      BY <3>1, <3>2, <3>3 DEF Api!MayStore, Kind
  <2> QED
    BY <2>1, <2>2
<1>4. {s \in Tasks : Stored(s)}' = {s \in Tasks : Stored(s)} \cup {t}
  <2>1. \/ users' = users \cup {UserRow(t)} /\ UNCHANGED <<posts, comments>>
        \/ posts' = posts \cup {PostRow(t)} /\ UNCHANGED <<users, comments>>
        \/ comments' = comments \cup {CommentRow(t)} /\ UNCHANGED <<users, posts>>
    BY DEF Insert, UserRow, PostRow, CommentRow
  <2>2. UserRow(t).id = t /\ PostRow(t).id = t /\ CommentRow(t).id = t
    BY DEF UserRow, PostRow, CommentRow
  <2>3. ASSUME NEW s \in Tasks PROVE Stored(s)' <=> Stored(s) \/ s = t
    BY <2>1, <2>2 DEF Stored
  <2> QED
    BY <2>3
<1>5. UNCHANGED <<asked, answer>>
  BY DEF Insert, Goto
<1> QED
  BY <1>2, <1>3, <1>4, <1>5 DEF Api!Store

\* An answer is the abstract one if what it tells is true before the step.
LEMMA AnswerReplies ==
    ASSUME RefineInv, NEW t \in Tasks, at[t] # "done",
           NEW status \in Api!Statuses, Answer(t, status), Api!Truthful(t, status),
           UNCHANGED <<users, posts, comments, asked>>
    PROVE  Api!ApiNext
<1>1. answer[t] = 0
  BY DEF RefineInv, NexusInv, Labels
<1>2. UNCHANGED {s \in Tasks : Stored(s)}
  BY DEF Stored
<1>3. Api!Reply(t, status)
  BY <1>1, <1>2 DEF Answer, Api!Reply
<1> QED
  BY <1>3 DEF Api!ApiNext

\* A task that moves on without an answer is not seen to do so.
LEMMA GotoIsUnseen ==
    ASSUME UNCHANGED <<users, posts, comments, asked, answer>>
    PROVE  UNCHANGED Api!apivars
BY DEF Stored, Api!apivars

\* Before its INSERT a task has stored nothing.
LEMMA NothingYet ==
    ASSUME RefineInv, NEW t \in Tasks, at[t] \in {"new", "auth", "select", "insert"}
    PROVE  t \notin {s \in Tasks : Stored(s)}
BY DEF RefineInv, StoredLate

LEMMA ArriveMaps ==
    ASSUME RefineInv, NEW t \in Tasks, Arrive(t)
    PROVE  [Api!ApiNext]_Api!apivars
<1>1. at[t] = "new" /\ UNCHANGED <<users, posts, comments, asked>>
  BY DEF Arrive
<1>2. t \notin {s \in Tasks : Stored(s)}
  BY <1>1, NothingYet
<1>3. CASE Kind(t) = "register" /\ Answer(t, 422)
  <2>1. Api!Truthful(t, 422)
    BY <1>2 DEF Api!Truthful
  <2> QED
    BY <1>1, <1>3, <2>1, AnswerReplies DEF Api!Statuses
<1>4. CASE Kind(t) # "register" /\ asked[t].by = Nobody /\ Answer(t, 401)
  <2>1. Api!Truthful(t, 401)
    BY <1>2, <1>4 DEF Api!Truthful, Kind
  <2> QED
    BY <1>1, <1>4, <2>1, AnswerReplies DEF Api!Statuses
<1>5. CASE UNCHANGED answer
  BY <1>1, <1>5, GotoIsUnseen
<1> QED
  BY <1>3, <1>4, <1>5 DEF Arrive, Goto

LEMMA AuthenticateMaps ==
    ASSUME RefineInv, NEW t \in Tasks, Authenticate(t)
    PROVE  [Api!ApiNext]_Api!apivars
<1>1. at[t] = "auth" /\ UNCHANGED <<users, posts, comments, asked>>
  BY DEF Authenticate
<1>2. t \notin {s \in Tasks : Stored(s)}
  BY <1>1, NothingYet
<1>3. Kind(t) # "register"
  BY <1>1 DEF RefineInv, NexusInv, Labels
<1>4. CASE Answer(t, 422)
  <2>1. Api!Truthful(t, 422)
    BY <1>2 DEF Api!Truthful
  <2> QED
    BY <1>1, <1>4, <2>1, AnswerReplies DEF Api!Statuses
<1>5. CASE asked[t].by \notin users /\ Answer(t, 401)
  <2>1. asked[t] \in Posting \cup Commenting
    <3>1. asked[t] \in Registration \cup Posting \cup Commenting
      BY DEF RefineInv, AskedRightly
    <3> QED
      BY <1>3, <3>1 DEF Registration, Kind
  <2>2. asked[t].by \in Members \cup {Nobody}
    BY <2>1 DEF Posting, Commenting
  <2>3. asked[t].by = Nobody
    BY <1>5, <2>2 DEF RefineInv, RowsHaveOrigin
  <2>4. Api!Truthful(t, 401)
    BY <1>2, <1>3, <2>3 DEF Api!Truthful, Kind
  <2> QED
    BY <1>1, <1>5, <2>4, AnswerReplies DEF Api!Statuses
<1>6. CASE UNCHANGED answer
  BY <1>1, <1>6, GotoIsUnseen
<1> QED
  BY <1>4, <1>5, <1>6 DEF Authenticate, Goto

\* What Select looked up is what the requests that took effect tell.
LEMMA SelectMaps ==
    ASSUME RefineInv, NEW t \in Tasks, Select(t)
    PROVE  [Api!ApiNext]_Api!apivars
<1>1. at[t] = "select" /\ UNCHANGED <<users, posts, comments, asked>>
  BY DEF Select
<1>2. t \notin {s \in Tasks : Stored(s)}
  BY <1>1, NothingYet
<1>3. Kind(t) \in {"register", "comment"}
  BY <1>1 DEF RefineInv, NexusInv, Labels
<1>4. CASE Kind(t) = "register" /\ EmailTaken(t) /\ Answer(t, 400)
  <2>1. Api!EmailHeld(asked[t].email)
    BY <1>4, HeldIsTaken DEF EmailTaken
  <2>2. Api!Truthful(t, 400)
    BY <1>2, <1>4, <2>1 DEF Api!Truthful, Kind
  <2> QED
    BY <1>1, <1>4, <2>2, AnswerReplies DEF Api!Statuses
<1>5. CASE Kind(t) = "comment" /\ ~PostExists(t) /\ Answer(t, 404)
  <2>1. asked[t].post \notin Api!Stored("post")
    BY <1>5, PostIsStored DEF PostExists
  <2>2. Api!Truthful(t, 404)
    BY <1>2, <1>5, <2>1 DEF Api!Truthful, Kind
  <2> QED
    BY <1>1, <1>5, <2>2, AnswerReplies DEF Api!Statuses
<1>6. CASE UNCHANGED answer
  BY <1>1, <1>6, GotoIsUnseen
<1>7. \/ Kind(t) = "register" /\ EmailTaken(t) /\ Answer(t, 400)
      \/ Kind(t) = "comment" /\ ~PostExists(t) /\ Answer(t, 404)
      \/ Goto(t, "insert")
  BY <1>3 DEF Select
<1> QED
  BY <1>4, <1>5, <1>6, <1>7 DEF Goto

\* An exception hides a stored row only under the status that may hide one.
LEMMA RaiseMaps ==
    ASSUME RefineInv, NEW t \in Tasks, at[t] \in Statements, Raise(t),
           UNCHANGED <<users, posts, comments, asked>>
    PROVE  Api!ApiNext
<1>1. at[t] = "auth" => t \notin {s \in Tasks : Stored(s)}
  BY NothingYet
<1>2. at[t] # "done"
  BY DEF Statements
<1>3. CASE Kind(t) = "register" \/ at[t] = "auth"
  <2>1. Answer(t, 500) /\ Api!Truthful(t, 500)
    BY <1>1, <1>3 DEF Raise, Api!Truthful, Kind
  <2> QED
    BY <1>2, <2>1, AnswerReplies DEF Api!Statuses
<1>4. CASE Kind(t) # "register" /\ at[t] # "auth"
  <2>1. Answer(t, 422) /\ Api!Truthful(t, 422)
    BY <1>4 DEF Raise, Api!Truthful, Kind
  <2> QED
    BY <1>2, <2>1, AnswerReplies DEF Api!Statuses
<1> QED
  BY <1>3, <1>4

\* 201 is told by a task whose row is there.
LEMMA CreatedMaps ==
    ASSUME RefineInv, NEW t \in Tasks, at[t] \in {"refresh", "load"}, Answer(t, 201),
           UNCHANGED <<users, posts, comments, asked>>
    PROVE  Api!ApiNext
<1>1. UserRow(t) \in users \/ PostRow(t) \in posts \/ CommentRow(t) \in comments
  BY DEF RefineInv, NexusInv, Labels, Kept, Inserted
<1>2. Stored(t)
  BY <1>1 DEF Stored, UserRow, PostRow, CommentRow
<1>3. Api!Truthful(t, 201)
  BY <1>2 DEF Api!Truthful
<1> QED
  BY <1>3, AnswerReplies DEF Api!Statuses

LEMMA StepMaps ==
    ASSUME RefineInv, [NexusNext]_nvars
    PROVE  [Api!ApiNext]_Api!apivars
<1>1. ASSUME NEW t \in Tasks, Insert(t) PROVE [Api!ApiNext]_Api!apivars
  BY <1>1, InsertStores DEF Api!ApiNext
<1>2. ASSUME NEW t \in Tasks, InsertClashes(t) \/ Fail(t)
      PROVE  [Api!ApiNext]_Api!apivars
  BY <1>2, RaiseMaps DEF InsertClashes, Fail, Statements
<1>3. ASSUME NEW t \in Tasks, Refresh(t) PROVE [Api!ApiNext]_Api!apivars
  <2>1. at[t] = "refresh" /\ UNCHANGED <<users, posts, comments, asked>>
    BY <1>3 DEF Refresh
  <2>2. Answer(t, 201) \/ UNCHANGED answer
    BY <1>3 DEF Refresh, Goto
  <2> QED
    BY <2>1, <2>2, CreatedMaps, GotoIsUnseen
<1>4. ASSUME NEW t \in Tasks, Load(t) PROVE [Api!ApiNext]_Api!apivars
  <2>1. at[t] = "load" /\ UNCHANGED <<users, posts, comments, asked>>
    BY <1>4 DEF Load
  <2>2. Answer(t, 201) \/ Raise(t)
    BY <1>4 DEF Load
  <2> QED
    BY <2>1, <2>2, CreatedMaps, RaiseMaps DEF Statements
<1>5. CASE UNCHANGED nvars
  BY <1>5, GotoIsUnseen DEF nvars
<1> QED
  BY <1>1, <1>2, <1>3, <1>4, <1>5, ArriveMaps, AuthenticateMaps, SelectMaps
     DEF NexusNext, AllDone

\* Seen from outside, each request to the Nexus backend is one step and every
\* answer is true (main.py:29), whatever the interleaving of the statements,
\* the failures, and the numbers of requests and members.
THEOREM RefinesApi == NexusSpec => ImplementsApi
<1>1. NexusInit => Api!ApiInit
  BY ApiStarts
<1>2. RefineInv /\ [NexusNext]_nvars => [Api!ApiNext]_Api!apivars
  BY StepMaps
<1> QED
  BY <1>1, <1>2, RefineAlways, PTL DEF NexusSpec, ImplementsApi, Api!ApiSpec
=============================================================================

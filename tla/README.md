# A verification development for rustapi

rustapi is a Python web framework whose HTTP engine is written in Rust. This
directory holds TLA+ modules that model its engine, its Python bridge and the
backend of its larger example, the TLC runs that check
them on small instances, and theorems about them that TLAPS checks for every
instance. Everything is translated from the source; where a doc or a comment
says something else, a run shows it (see *Disagreements*).

## The system

| Component | Source | State it keeps | Operations | What makes it hard, what makes it correct |
|---|---|---|---|---|
| Router | `crates/rustapi-engine/src/router.rs` | per method a matchit tree and a set of patterns; `all_patterns`, the methods each pattern was offered for | `add`, `match_route`, `len` | three books updated before the tree may refuse; overlapping patterns; 404 against 405. The books agree, what is refused stays refused, order decides only between patterns that clash, where the first one stays, an error status hides no route |
| Server | `server.rs` | the shared router and configuration, one task per connection | `serve`, the accept loop | start fails on the address or the port; accept errors; a task outlives the call that started it, and may bind after it |
| Dispatch | `server.rs`, `handler.rs` | one future per request | `dispatch`: body, route, handler, render | a future is dropped when its client leaves; it runs on any worker. One answer at most, for what was asked |
| Python bridge | `crates/rustapi-py/src/lib.rs` | the GIL, worker threads, the blocking pool | `PyHandler::handle` | four or five GIL sections per request, interleaved with those of others; a job on another thread; five error paths. Nothing is leaked, called twice or lost |
| Application object | `lib.rs`, `python/rustapi/__init__.py` | the router being built, the borrow of `self` | `_register`, `route_count`, `run` | `run` takes the router away before it can fail, and borrows the object while it blocks |
| Request parsing | `request.rs`, `collect_body` | none | `parse_query`, `urldecode`, the body cap | boundaries of a hand-written decoder and of a frame loop. The handler gets what the client meant, whole or not at all |
| Response conversion | `lib.rs`, `response.rs`, `render` | none | `pyobj_to_response`, `with_header`, `render` | the order of the type tests; headers that overwrite each other; panics on an illegal content type or server name. The client gets what the handler set |
| Nexus backend | `examples/nexus/backend` | users, posts, comments in one database | register, login, posts, comments | check-then-insert; rows read back after a commit; a new event loop per request. Accounts stay distinct, no row refers to nothing, answers say what is stored |
| Nexus frontend | `examples/nexus/frontend` | token, user, posts | login, logout, fetches | answers that arrive late or out of order |

How they interact: the application object builds a router and moves it into a
server; the accept loop spawns a task per connection; each request becomes a
future of `dispatch`, which asks the router (a value nobody changes any more)
and awaits a handler; `PyHandler` blocks its worker for the GIL, calls Python,
and puts a coroutine on the blocking pool, which runs `asyncio.run` and wakes
the future when it is over.

## The modules

| Module | Models | In terms of the code |
|---|---|---|
| `Matchit` | the crate matchit 0.8 (external) | patterns are sequences of segments; `Fits` is `at`, `InsertFails` is `insert`, `BestOf` its priority |
| `RouteTable` | abstract: what registering promises | one table per method; accept exactly when the tree can take the pattern |
| `Router` | `router.rs` | `inner`, `patterns`, `allPatterns` are the fields of the same names, `asked` and `result` the last call and its answer; `Add` is `Router::add`, `MatchRoute`, `MatchesAnyMethod` and `RouteCount` are `match_route`, `matches_any_method` and `len` |
| `PyApp` | `PyApp` and `Server` over `Router` | `running` is PyO3's mutable borrow of the object, `starting` the server `run` holds before the bind, `detached` those whose `run` was interrupted before it, `listening` those that serve; a server is its `router` and, as history, what was `promised` of it; `Taken` is `std::mem::take` |
| `HttpService` | abstract: what a client is promised | open, call, run once, reply or leave |
| `Dispatch` | `dispatch`, `PyHandler::handle`, tokio's threads and the GIL | `pc[r]` is the await or GIL section the future of `r` is at, `job[r]` its blocking-pool job, `serving[t]` the work of thread `t`, `gil` the holder |
| `SelfCalls` | handlers that call their own server, over `Dispatch` | `CallAwaits` and `RunAwaits` say for whose answer the code in `call1`, or in `asyncio.run`, waits |
| `Body` | `collect_body` | `collected` is its `Vec`, one step per frame |
| `Query` | `parse_query`, `urldecode`, `hex` | functions on sequences of bytes |
| `Reply` | `response.rs`, `PyResponse`, `pyobj_to_response`, `render` | one operator per constructor; a header map is a function |
| `Exchange` | what one request carries through `dispatch`, over the three modules above | `request` is the `PyRequest`, `returned` the handler's value, `wire` what `render` makes |
| `NexusApi` | abstract: what callers of the Nexus API are promised | a request takes effect at most once, at one moment, and its answer is true |
| `Nexus` | `examples/nexus/backend/app` | `users`, `posts`, `comments` are the tables; `at[t]` is the statement the handler of request `t` awaits |
| `FoldProofs` | lemmas on the folds of the library | what a loop over a sequence returns |
| `RouterProofs`, `PyAppProofs`, `DispatchProofs`, `DispatchRefinement`, `QueryProofs`, `ExchangeProofs`, `NexusProofs` | theorems | see *What is proved* |
| `MCRouter`, `MCPyApp`, `MCDispatch`, `MCSelfCalls`, `MCExchange`, `MCNexus` | model values and symmetry for TLC | |

`PyApp` composes with `Router` by extending it: a registration is `Router!Add`
and a served router is the router's state as a value (`This`). `Dispatch` takes
from both only that the served router never changes, so that what it finds for
a request is a fact about that request (`target`). `Exchange` is the data of one
request of `Dispatch`, whose control it leaves to `Dispatch`; `SelfCalls` is
`Dispatch` with steps taken away, those that a waiting handler cannot take.
`Nexus` stands on what `Dispatch` promises: a handler is called once and each in
an event loop of its own, so that statements of different requests interleave.

### Decisions in Router

* A pattern is a sequence of segments (static, parameter, catch-all, or a
  brace left open), a path a sequence of texts, which is what both matchit and
  `matches_any_method` look at. A parameter with a prefix in its segment, and
  escaped braces, are left out: the applications here use neither.
* `Add` is one step: `&mut self` lets nobody see it half done. Inside it the
  order of the code is kept: both sets change first, then the duplicate is
  refused, then the tree.
* The values of path parameters are not modelled; they come out of matchit.

### Decisions in Dispatch

* A future holds a worker from one `await` to the next. `Python::attach` is not
  an `await`, so a worker that wants the GIL keeps its request and waits.
  `Attach` gives the GIL to any waiting thread; `Yield` takes it away at any
  point inside a section where bytecode may run.
* `Fail` is every `?` and `map_err` of `handle`. The text of a Python exception
  is made by PyO3 with the GIL, hence the state `describe`.
* `JobEnds` covers a coroutine that returns or raises, and an awaitable that
  `asyncio.run` refuses because it is no coroutine.
* `Disconnect` drops the future wherever it waits; the job goes on, as tokio
  does not cancel a blocking task that has started, and nothing here aborts one
  that has not. The join error of a cancelled or panicked job (`lib.rs:278`)
  cannot occur: the runtime is never shut down and a panic aborts.
* `ConvertPanics` follows the release profile, `panic = "abort"` in
  `Cargo.toml`: the process is gone and `up` false.
* The arm of `dispatch` for any other router error is unreachable, since
  `match_route` returns only two, and is left out.
* The blocking pool's queue and tokio's run queue are sets: which waiting job or
  future is next is any of them. What is proved holds for every order.

### Decisions in PyApp

* A call on a borrowed object raises and changes nothing (`Borrowed`).
* `StartFails` stands for an address that does not parse (`localhost` does not)
  and for a bind that fails. The bind fails when a listener of this process has
  the port; for ports of other processes it may fail at any time.
* `serve` is a task of the tokio runtime, and a signal ends the event loop that
  `run` blocks on, before the bind or after it. Whether the task ends with it is
  up to pyo3-async-runtimes, so both are possible in `Interrupt`: a bound server
  goes on or is gone, one that is not yet bound is dropped or goes its own way
  (`detached`) and comes to its bind, or to nothing, whenever it likes (`Late`).
  `MaxDetached` bounds how many may be under way at a time.
* An accept error only goes round the loop and has no step.
* `accepted` and `promised` are history: what callers were told, kept apart from
  the router so that the properties compare the two. `promised` travels with the
  server that took the router, as two servers of different runs may coexist.
* That PyO3 gives the object back when `run` returns or raises is its guard's
  doing and no property here: `running` is `None` from then on.

### Decisions in SelfCalls

* A handler that waits does so in a blocking call, from its code in `call1` on a
  worker or from its coroutine on a pool thread (`Awaited`). An `await` in a
  coroutine is the same to the server: `asyncio.run` keeps its thread.
* A thread that waits for a socket has given up the GIL and takes it back only
  with the answer (`StaysPut`). The awaited request is one of `Requests`, sent
  when the handler comes to it and to its end (`SentByHandler`); its client may
  give up on it like any other (`Disconnect`), which ends the wait.
* Who waits for whom is a constant: code that decides it as it goes is one of
  several such constants.

### Decisions in Exchange

* Texts of queries and bodies are bytes, since what is checked is their
  decoding. `from_utf8_lossy` is external and stated for characters of one and
  two bytes (`Lossy`); longer ones take the same path. Names and values of
  headers, and the bodies of answers, are opaque.
* A client writes keys and values as sequences of pieces (`IsPiece`): a plain
  byte, `+`, an escape of an ASCII byte, of a byte that begins no character, or
  of both bytes of a character, and broken escapes, the last one perhaps cut off
  by the end (`IsCut`). `MeaningOf` is what the pieces mean, put together
  without any decoding, and `MeantBy` what the fields mean; the properties
  compare that with what `parse_query` makes of the bytes. Half a character,
  which the standard library replaces, is not among the pieces.
* A `HashMap` is iterated in any order: where two spellings of a header name
  are in the user's dictionary, either may win. Everything else keeps its
  order.
* `Vec<u8>` is extracted by PyO3 from any sequence of integers below 256 and
  refused for a `str`; `String` from a `str` that is UTF-8.
* What `json.dumps` writes and what hyper puts on the connection (framing,
  `Date`, `Content-Length`) is external. A configured server name that is no
  header value panics in `render`, and the release profile aborts.

### Decisions in Nexus

* One step per statement, `INSERT` with its `COMMIT`; `Fail` is any exception
  at a statement or on the way to it. Only the handlers that write are
  modelled, and `require_auth`; `login`, `get_me` and `list_posts` read.
* The id of a row is the request that inserts it. No row is ever deleted.
* `UNIQUE` of the two columns of `users` is the database's (`Clash`). SQLite
  checks foreign keys only when told to, and `database.py` does not.
* An exception that a handler does not catch reaches `PyHandler` and is told as
  500 (`Raise`).
* `NexusApi` promises what a caller can rely on without knowing of statements:
  each request takes effect at most once and never after its answer, only where
  it may at that moment, and 400, 401 and 404 are true when they are told. An
  exception after the commit is the one thing that hides an effect: 500 for a
  registration (`main.py:33`), 422 for a post or a comment (`main.py:147`,
  `main.py:151`).
* `create_post` loads the author of its post and the comments, not the authors
  of the comments. The author of a comment is at hand only if it is the one
  that was loaded; otherwise the access is an implicit load, which an
  `AsyncSession` refuses (`Readable`).

## The runs

| Run | Bounds | What it shows |
|---|---|---|
| `router` | 2 methods, 2 handlers, 5 patterns, 6 paths | every order of registration, duplicates and refusals included, and what each call changes for each request |
| `router_405` | 2 methods, 2 handlers, `/users/{id}` and `/users/me`, 6 paths | a disagreement, below; no tree refuses either pattern, so nothing refused is behind it |
| `router_404` | as `router` | a disagreement, below |
| `dispatch` | 3 requests of any kind, 2 workers, 2 pool threads | safety and the refinement of `HttpService` |
| `dispatch_live` | 2 requests, 2 workers, 1 pool thread | every request settles, every job finishes |
| `dispatch_reactor` | 3 Python requests, 1 Rust request, 2 workers, 1 pool thread | a disagreement, below |
| `pyapp` | 2 methods, 1 handler, 2 rival patterns, 2 ports, 1 detached server | register, run, fail, interrupt before or after the bind, run again, bind late |
| `pyapp_count` | the same | a disagreement, below |
| `dispatch_selfcalls` | 4 requests, 2 workers, 1 pool thread | a call that waits for a coroutine that waits for a third request, and a Rust request beside them |
| `exchange` | a maximum body of 3 bytes, chunks of 0 to 2; every piece of a query, alone and in pairs; up to 2 headers; 7 response statuses; 8 values that are no `Response` | one request's data both ways |
| `exchange_octets` | the same | a disagreement, below |
| `nexus` | 3 requests of any kind, 2 members | every interleaving of their statements, and failures; the refinement of `NexusApi` |

The bounds are small because the cases are. In `router` the five patterns hold
each relation two patterns can be in: same shape, static over parameter, static
over catch-all, parameter against catch-all, malformed; the paths reach each,
with an empty segment, an extra one and a brace. Two methods and two handlers
show mixed-up tables and moved handlers. In `dispatch` two requests compete for
the GIL while a third waits for a thread; the two threads of each kind let a
worker and a pool thread, two workers, or two pool threads race. In
`dispatch_live` one pool thread makes jobs queue. In `dispatch_selfcalls` one
pool thread is too few for the two coroutines, so the knot that the property
excepts does occur (`Settles` is violated there), while the two workers are
enough, so that it must not occur among them. In `exchange` the pieces of a
text are a plain byte, `+`, escapes of the separators, of a character of two
bytes and of none, and broken escapes, each alone, before and after another and
before an escape that the end of the text cuts off. In `nexus` three requests
are a post, a comment on it and a third that interferes, or three registrations
for two free names and one free email. In `pyapp` two ports and one detached
server let a server bind beside that of a later run, on its port after it, or
find the port taken. No variable but `detached` needs a cap: `calls` and `runs`
are bounded by `RunsOnce`. In `router` and `pyapp` states are told apart without
the variables that only hold the last call and its answer (`VIEW`). No step reads
these; of the invariants only the type invariants look at them, and those are
proved for every state; and an action property is evaluated on every step all the
same. Symmetry is used for interchangeable model
values in the safety runs and not in those of liveness.

Deadlock is checked in every run. `Quiet` is the step of a system that is at
rest or stopped, and is enabled only when every request is settled and no job
is left, so a system that is stuck is reported. `NoMoreSent` and `AllDone` do
the same in `SelfCalls`, whose stuck servers are what its property is about,
and `Nexus`.

Each property of a passing run is paired with a seeded fault, an operator marked
as such in the modules, that changes one definition the way a slip in the code
would; TLC finds the property violated with it.

### Fairness

`FairSpec` asks for two things. A free GIL goes to some thread that waits for it
(weak fairness of `Attach`), which the interpreter does when a thread releases
it. And if the threads could infinitely often take a step other than attaching,
they take one infinitely often (strong fairness of `Step`): user code ends, the
interpreter does not pass the GIL round for ever without running a bytecode, and
an idle tokio thread takes up queued work. It does not ask that any thread or
request is treated fairly against another. Clients owe nothing: `Arrive`,
`BodyEnds` and `Disconnect` are not fair, and `Settles` starts where the body
ends, because the code has no read timeout.

`SelfFairSpec` asks the same of the steps that are left, and two things more:
that a thread which goes to wait for a socket gives up the GIL, and that a
handler sends its own request to the end. `HangsOnlyExhausted` then says that
every request settles or all threads of one kind wait for answers for good.

## What is proved

All theorems hold for any `CONSTANTS` that satisfy the named assumptions, which
TLC evaluates in the runs. They say that patterns are sequences of segments
(`PatternsAssumption`), that the two kinds of threads are different
(`ThreadsAssumption`), that `None` is none of the values it stands apart from
(`NoneApart`), who a handler waits for (`AwaitsAssumption`), that a body's chunks
are sequences of numbers and its maximum is one (`BodyAssumption`), that a query
is a sequence of fields written in pieces, the headers of a request are a
sequence and those of a `Response` finite (`ExchangeAssumption`), and that the
rows in `users` at the start keep to its unique columns, have ids of their own
and are not nobody's (`NexusAssumption`).

**RouterProofs.** `TypeCorrect`, `BooksAlwaysAgree`, `RejectionIsFinal`,
`NotFoundSound`, `NotAllowedExplained`, `AnswersAlwaysStand` and `RefinesTable`.
The invariant is `RouterInv`: the types, `BooksAgree`, `RejectedForGood`, that
no tree holds a malformed pattern, that no two of its patterns clash, and
`BestIsUnique`: that among the patterns of a tree that fit a path one is preferred
to all others, so that what `MatchRoute` chooses is determined. `RejectedForGood` is inductive because trees only grow
(`LiveGrows`) and refusal grows with them (`InsertFailsGrows`). The refinement
needs it for the early return on a duplicate: the code answers `Conflict`
without asking the tree, and the abstract table rejects only what the tree
would refuse. `NotFoundSound` rests on `FitsMatches`: without a catch-all, what
the tree matches `matches_any_method` matches too. `NotAllowedExplained` rests
on the converse, `MatchesFits`, for well-formed patterns and paths without an
empty segment. `BestIsUnique` is kept by one registration at a time
(`BestOfOneMore`): the new pattern and the old best are comparable, because two
patterns that fit one path and do not clash differ first at a position where
one has the higher rank (`FittingAreComparable`, by the least such position),
and the preference is transitive and asymmetric. `AnswersAlwaysStand` follows
action by action: where the new pattern does not fit, or does and is not
preferred, the best of the tree is the one it was (`BestOfIs`) and keeps its
handler (`HandlerStays`); a 404 changes only if the pattern just noted matches
(`OneAnswer`).

**PyAppProofs.** `AppTypeCorrect`, `RoutesKeptUntilRun` and
`AlwaysServedAsRegistered`. The invariant `AppInv` adds to `RouterInv` that the
object's router holds exactly what was accepted, and that each server, whether
it is starting, detached or listening, keeps its promise (`Keeps`): its router
holds exactly what was promised, has one best pattern for a path and knows all
its patterns (`Holds`). These facts move with the value from the object to the
server and, with the server, to its port (`BindKeeps`). `ServedAsRegistered` follows from `Holds` and, for the
404, from `FitsMatches`.

**DispatchProofs.** `TypeCorrect`, `ThreadsAlwaysMatch`, `GilNeverOrphaned`,
`UserCodeRunsOnce` and `AnswersEarned`. The invariant is `DispatchInv`. The
properties are not inductive alone: that user code runs once needs to know that
a future before its call has called nothing (`StagesAgree`), and that an answer
leaves no job behind needs to know which states of its job a parked, joined or
converting future can have (`StagesAgree`, `JobsAgree`). One lemma per conjunct
goes through the actions one by one.

**DispatchRefinement.** `RefinesService`: `Dispatch` implements `HttpService`
under the mapping in `Dispatch`. Thirteen actions are unseen by the client; the
others are one step of `HttpService` each. `SelfCallsKeepPromise`: so do handlers
that wait for answers of their own server, whatever waits for what, since
`SelfCalls` only takes steps away and the abstract promise is safety.

**FoldProofs.** The library defines `FoldLeft`, `FoldLeftDomain` and
`FlattenSeq` by recursive functions on sets of indices. That such a function
exists is shown stage by stage, by the least stage that would be missing
(`FoldExists`, `LoopExists`), so that its equation holds and the fold is a loop
in its usual form (`FoldUnrolled`); a property of a loop holds at the end by the
least index at which it would fail (`UpTo`, `LoopKeeps`). `LaidOut` says where
each part of a flattened sequence is. The step of a loop is given as a function,
not as an operator, which is what the provers can instantiate.

**QueryProofs.** `QueryParsed`: for any fields a client writes, `parse_query`
returns what they mean. `ScansPiece` and `ScansCut`: wherever a piece of a text
is, the decoder's loop reads it whole, ends behind it and adds the bytes it
stands for, since a broken escape cannot be completed by what follows it.
`CharsOfPiece`: these bytes become its characters, as no piece ends in half a
character. Put together along the text they give `TextDecoded`; `FieldTaken`
adds that the first `=` of a pair is the separator, `SplitQuery` that the pairs
are the fields, because what `IsPiece` and `IsCut` allow on the wire has no `&`
and no `=`; and `EnterMeant` follows the map from field to field. The proof found
one slip of the model: two guards in `Hex` overlapped, so that `CASE` left the
value of some digits open.

**ExchangeProofs.** `BodyAlwaysWhole`, for any maximum and any frames. Its
invariant `LoopInv` says that what is left of the maximum and what was collected
make up the maximum, and that nothing is missing before a frame is refused.
`ExchangeTypeCorrect`, `QueryAlwaysAsMeant`, `HeadersSeenAsSent`,
`HeadersOnWireAsSet` and `ContentTypeIsTold` are about the data, for any heads and
any values of handlers. Their invariant `ReplyInv` says that what the handler
sees is made from the head of its own request, and what is on the wire from its
value or from an error. The rest is about the loops: `SeeKeeps` and
`WithHeaderKeeps` say what one more header changes, in any order the `HashMap` may
be iterated in.

**NexusProofs.** `NexusTypeCorrect`, `OneAccountEachAlways`,
`NothingEverDangles` and `AlwaysToldAsStored`, for any number of requests. The
invariant `NexusInv` says of each handler what the statements it has passed
have established: past `require_auth` its sender is a user, past its look at
the post the post is there (`Known`), past its insertion the row is there
(`Kept`), and whoever has a row is on the way to 201 or has an excuse
(`Accounted`). `OneAccountEach` rests on the unique columns alone; the check
before the insertion plays no part in its proof. `RefinesApi`: `Nexus` implements
`NexusApi`, where a request is stored once its row is there. The invariant
`RefineInv` adds to `NexusInv` that every row is that of a request which asked for
it (`RowsHaveOrigin`), that no row is there before its insertion (`StoredLate`)
and that requests are of the three kinds (`AskedRightly`). The insertion is
the step that takes effect, `Answer` and `Raise` the reply, all others are
unseen.

Only model-checked: liveness (`Settles`, `JobsFinish`, `HangsOnlyExhausted`),
which is out of the prover's reach. Every invariant and every action property of
the passing runs, and all three refinements, are theorems.

## Disagreements

Five runs show the code and one of its docs or comments to differ.

1. `router_405`: `GET /users/` is told 405 when `GET /users/{id}` is registered and
   nothing else was even offered, since the empty segment passes for the
   parameter; `match_route` documents 405 as "path matched, but method didn't". A
   pattern that every tree refused makes a 404 a 405 as well: `NotAllowedIsExplained`
   names both excuses and `AnswersStand` says that no other request is touched.
2. `router_404`: a path served by another method's catch-all route is told 404;
   `matches_any_method` is documented as correct for the syntax matchit accepts.
3. `dispatch_reactor`: while a coroutine holds the GIL, all workers can be
   blocked in `Python::attach`; `docs/ARCHITECTURE.md` says other workers can
   still process pure-Rust requests.
4. `pyapp_count`: `route_count` counts registrations that raised.
5. `exchange_octets`: a handler that returns `[]` or `[1]` is answered with octets;
   of values that are no `Response`, the doc of `pyobj_to_response` says so of
   `bytes` only, and JSON for the rest.

One more is inside a passing run. The doc of `with_header` (`response.rs:74`) says
"Append a header", and the code inserts (line 80), which overwrites: when a
handler sets two spellings of one name, or a content type among its headers,
only one of the two values is sent. `WithHeader` is what the code does.
`HeadersAsSet` does not state what that doc says, which is false here, but what
remains true: the one value on the wire is one the handler set for that name,
and no other header is lost with it. `exchange` covers both cases.

Seen while reading, and not the subject of a run: `Conflict` is returned for a
pattern that never registered, when its first attempt was refused;
`server.rs:65` speaks of a current-thread runtime and builds a multi-thread
one; `server.rs:75` says `serve` resolves when the listener fails, but accept
errors go round the loop; `lib.rs:254` admits any awaitable, `asyncio.run` only
coroutines; the quick start of the repository's README awaits `request.json()`,
which returns a plain value; a failed `run` leaves an object without routes; a
`str` with a lone surrogate is no UTF-8 and leaves as JSON, not as text;
`docs/ARCHITECTURE.md` has the GIL held continuously for a sync handler, and
`handle` attaches four times; a `Server` header the handler sets is sent beside
the configured one.

## What is not modelled

* hyper (parsing, keep-alive, writing), the connection level, logging, and the
  interpreter below the GIL. User code may do anything a section allows and is
  assumed to end, but for `SelfCalls`.
* Errors of `accept` (`server.rs:91`), which go round the loop: the loop has no
  state to say anything about. Signals, but for the interrupt that ends `run`.
* Bodies that never end (`server.rs:132`): the code has no timeout to model.
* Parameters with a prefix, and escaped braces, in patterns; values of
  parameters.
* A pooled connection of the Nexus engine that belongs to the event loop of an
  earlier request: that rule is SQLAlchemy's and asyncio's. In `Nexus` it is
  one of the reasons why a statement may fail.
* The Nexus frontend. A late answer of `fetch` may set the user of an earlier
  token or an older list of posts; the code has no guard against it and no text
  says what should happen, so there is no promise to check.
* `examples/demo.py`, whose handlers keep nothing, and the tests.

What could come next: the data of `Exchange` for two requests of `Dispatch` at
once would add nothing, as they share none; a deployment that runs more than one
process, if the framework gets one, would be a new module over `PyApp`.

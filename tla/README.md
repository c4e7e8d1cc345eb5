# A verification project for v60

v60 is an experimental HTTP server framework in C++20 over Boost.Asio and
Boost.Beast. An application builds a tree of *routables* as a type (end points,
bindings of path patterns, groups, middlewares), erases it into an
`any_routable`, and hands it to `v60::server`, which accepts connections and
runs one coroutine per connection. This directory holds TLA+ models of that
code, TLC configurations that check them on small instances, and TLAPS proofs.

`PROJECT.json` maps every definition to the lines it models, and lists the
runs, a mutant for each property, the hazards and the theorems.

## 1. The system

| Component | State | Operations | Interacts with |
|---|---|---|---|
| **server** (`src/server.cpp`) | `m_route`, `m_ioc`, acceptor, threads | `listen`, `do_listen` (open, bind, listen, accept loop), `co_spawn` of sessions | io_context threads; spawns sessions |
| **session** (`do_session`, `handle_request`) | socket, `flat_buffer`, `close`, the request being served | `async_read`, refuse an illegal target, call the route, the `send` lambda (`close = need_eof()`, `async_write`), shutdown | the client; the root routable, by call; the response's sender, by callback |
| **any_routable / erased_routable** (`routing.hpp`) | the tree | `match`, `operator()` | forwards to the root |
| **binding** (`binding.hpp`) | pattern, next | `match`, `operator()`: cut the path, set the parameters, consume | next, by move of request and response |
| **group** (`group.hpp`) | routes | `match`, `operator()`: a fold with `\|\|` over the routes that match | routes |
| **end_point** (`end_point.hpp`) | verb, handler | `match`, `operator()` | application handlers |
| **middleware** (`middleware.hpp`) | function, next | logging, profile, not_found, server_fault, object_body, cookie_parser | next; response |
| **request** (`request.hpp`) | raw message, `m_remaining`, params, body, mixins | `consume`, `with_params`, `with_body`, `with_mixin` | moved from routable to routable |
| **response** (`response.hpp`) | message, sender | `status`, `header`, `json`, `send` | the session's `send` lambda |
| **path_pattern_to_regex** (`routing.hpp`, `ctre.hpp`) | none | compile-time translation of a pattern | ctre |
| **cookies** (`middleware.hpp`: `split`, scan) | none | split at delimiters, match `key=value`, default to empty | cookie_parser |
| **object** (`object.hpp`) | members sorted by key | `get`, `set`, conversion | params, bodies, cookies |
| **meta lists** (`meta.hpp`) | none | sort, merge, take, union, intersection, difference, `index_of` | object |
| **fixed_string** (`fixed_string.hpp`) | characters | comparison, size | patterns, keys |
| **simdjson** (vendored) | a parser: bytes, structural indexes, cursor | index a text, look fields up, read values | object_body |
| **ctre** (vendored) | none | parse an expression at compile time, match it | bindings, cookies |

The examples build small trees; two of them are instances of the models here.

### What is hard in it

* **Coroutines and shared locals.** The `send` lambda of a session writes the
  local `close` by reference while the route that calls it runs; the loop tests
  it after the route has returned. Requests may be pipelined in the buffer.
* **Requests and responses travel by move.** Code that runs after a move reads
  what the move left: `req.keep_alive()` at `server.cpp:64`, `doidx` at
  `group.hpp:22` after an earlier route of the fold took the request.
* **match() and operator() are separate.** Both cut the path, at different
  times; `binding` asserts that they agree, and nothing at the root makes sure.
* **Greedy parameters.** `:key` becomes `\S+`, which takes `/` and everything
  after it; ctre backtracks within one pattern only.
* **Failures.** Writes throw into routes; `server_fault` answers 500 with a copy
  of the response, whatever was sent before; `cookie_parser` declines without an
  answer; there are no timeouts. A failed accept throws out of the accept loop.
* **Threads.** Every thread of the io_context runs any coroutine; nothing is locked.
* **Cursors over unvalidated input.** The lookup of JSON fields goes around the
  object and skips values by counting braces; `split` walks past the end of its
  string; the buffer of a generated expression is sized by a count.
* **Bit tricks.** Stage 1 of simdjson finds strings with carries and prefix sums
  over words; which implementation runs is decided by the processor.

### What makes each component correct

* session: one answer per request, in order; a graceful close only
  after the answer that announced it; the last answer to a request decides on the
  close, which is never left over to the next; nothing after an
  announced close; a session ends when its client leaves.
* routing: the first end point of the tree that serves the request runs, with
  parameters that rebuild the path; no assert fails behind `not_found`.
* dispatch: one answer per request; 404 exactly when no end point serves it;
  the task is true exactly when a handler returned; no handler runs after one
  that returned; no exception but a failed write leaves `server_fault`.
* objects and lists: conversions keep the values of common keys; sort, union,
  intersection are those of sets of keys.
* server: a connection the kernel has taken gets its session; a session is on one
  thread at a time; `listen` returns when, and only when, nothing is left to run.
* path_pattern_to_regex: the text fits its buffer, and matches what its author means.
* object_body: each member gets its own field or the request is refused; integers
  are exact or refused; the same body gives the same result on every processor.
* cookies: pairs come back as they were sent.

## 2. Modules

| Module | Models | Kind |
|---|---|---|
| `HttpConnection` | what a persistent connection promises its client | abstract specification |
| `Session` | `do_session` and `handle_request`, one instance per connection | detailed specification, properties |
| `Pattern` | path patterns and `RE::starts_with`, over tokens | operators |
| `Routes` | a tree of routables and `match()` | operators |
| `Dispatch` | one request going through a tree: every `operator()`, the middlewares, their responses | specification, properties |
| `Server` | `listen`, the accept loop, the threads of the io_context | specification, properties |
| `Service` | a session composed with the tree it calls: EXTENDS `Dispatch`, refines `Session` | composition, properties |
| `RegexNodes` | the nodes of v60's expressions, the results of a match | operators |
| `Regex` | the matching engine of ctre, for the nodes v60's expressions are made of | operators |
| `RegexReference` | what an expression means, apart from how ctre finds it | reference |
| `RegexLaws` | sequences of nodes and subjects that grow | properties |
| `PathPattern` | `path_pattern_to_regex`, whose scan calls an engine (a constant) | specification, property |
| `PathGrammar` | how ctre parses what it writes | operators |
| `MetaLists` | the type lists of `meta.hpp` | operators |
| `Objects` | `object.hpp` and the parameters a chain of bindings builds | specification, properties |
| `Cookies` | `split`, the key-value scan and the map | specification, properties |
| `JsonBody` | `object_body` and the lookup of fields in the on-demand parser | specification, properties |
| `JsonScanner` | stage 1 of simdjson with vector instructions (haswell) | specification |
| `JsonLexer` | stage 1 of simdjson, fallback | specification |
| `JsonNumber` | `parse_integer` for machine words of any width | specification, property |
| `MCSession`, `MCDispatch`, `MCServer`, `MCService` | instances: requests, trees, clients | TLC |
| `MCPathPattern`, `MCBindings` | patterns and paths; the composition of the parts of a binding | TLC, properties |
| `MCJsonBody`, `MCJsonText`, `MCInputs` | documents; texts and numbers; the composition of what is read from a request | TLC, properties |
| `SessionProofs` | types, the last response, shutdown, `close`; pipelining, reuse, finality of the close; `Session` implements `HttpConnection` | proofs |
| `DispatchProofs` | what `Cuts`, `Lengths` and `Match` compute; the outcome of the task, the fold, the answers after the first; which handler runs, with which parameters; asserts; one answer | proofs |
| `Layout` | what the theorems about routing suppose of a tree; `MCDispatch` and `MCService` check it of their trees | operators |
| `MCLayout` | the sets that `Layout` asks for, computed of a finite tree | TLC |
| `Recursion` | induction over numbers, functions defined by recursion, `FlattenSeq` | proofs |
| `ServiceProofs` | answers belong to their requests; the service implements `Session` and keeps the promise of `HttpConnection` | proofs |
| `ServerProofs` | threads and coroutines, the end of `listen` | proofs |
| `InputsProofs` | the cursor of the parser and what its second scan assumes; what `split` collects, what enters the map, what is read from it; integers | proofs |
| `TextProofs` | the two algorithms of stage 1 find the same tokens | proofs |
| `ObjectsProofs` | what sorting, merging and the set operations return; what `get` reads; the buffer of a pattern's expression | proofs |

An operator named like another with a suffix (`Find_DropLast`) is a plausible bug in
the code of that other one, and used by nothing else: `PROJECT.json` lists under
"mutants" which property it breaks.

### Session

State per connection: the requests sent (`asked`, socket and buffer together),
the client's end of the connection (`link`), and the coroutine: `pc` is the
`co_await` it is suspended at, `nread` counts the requests `async_read` has
yielded, `close` is the local, `flight` the Connection token of the message
being written, `sends` and `failed` count the route's writes for the current
request, `out` is the wire. An action is the code between two suspension points:

* `ReadRequest` is the completion of the read and `handle_request` up to its
  first `co_await`: the refusal of an illegal target (which calls the lambda, so
  `close` is set) or the call of the route.
* `RouteSend`, `WriteDone`, `WriteFail` are the lambda: `close` and `flight`
  first (`Transmit`), then the write, which completes or throws.
* `RouteReturn`, `RefusalDone` end `handle_request`; `Resume` is the test of
  `close`, the shutdown and the loop. `RouteThrow`, `ReadError`, `RefusalFail`
  leave through the catch.
* `KeepAlive`, `TokenFor` and `MovedFrom` are Beast's, from how `server.cpp` uses
  them (external). A message the server sends always has a content length, so
  `need_eof()` is the negation of `keep_alive()`.

A route is a contract here: it sends between `MinSends` and `MaxSends`
responses before it returns, may set the Connection header to one of
`HandlerTokens`, may throw at any time, and may survive `MaxFailures` failed
writes. The client is external: it sends, half-closes, stops reading or resets.
A stalled client may still send, and a write to it may still complete, since
socket buffers take what they take; it is only not obliged to.

### Pattern, Routes, Dispatch

A path is a sequence of tokens, the pieces of text an application's patterns
can tell apart. Literals match one token, a parameter one or more tokens of any
kind; `Cuts` is ctre's search, longest capture first, with backtracking inside
the pattern. `Match` is `match()` on a node and an offset.

`Dispatch` runs one request: `mode` says what happens next (call a node, fold of
a group, hand an outcome back, inside a handler, writing, done, aborted by an
assert), `off` is `m_remaining`, `params` the parameters. `live` says whether the
request and the response at hand still own something. Only frames that act when
they are resumed are on the `stack`: groups, and `server_fault` with the liveness
of its copy. A group that gets `false` back goes on with a request it has moved
away: `DoIdxMatches` is then any Boolean, `BindGarbage` any suffix, and a send
throws `bad_function_call` (`Answer`). `Asserts` tells a debug build from one
with `NDEBUG`. Handlers send and throw within `MinSends`, `MaxSends` and
`LateThrows`, and let failed writes through.

`object_body` is here a parse that succeeds or throws, `cookie_parser` the presence
of the header (`JsonBody` and `Cookies` model what they do with the text); log lines
are left out. An input names its application, the root of its tree. `trail`, `ran` and
`completed` are history, for the properties only.

### Server

A coroutine is the listener of one call of `listen` or the session of one
connection. `co` says how far each is: in the queue of completed operations,
pending, on a thread, finished; connections the kernel or a listener has and no
session yet are `backlog` and `accepted`. `calls` says how each call of `listen` was
left. There may be two listeners, so `acceptor`, `backlog` and `taken` say for each
whether its acceptor is open, which connections the kernel holds for it, and what its
accept has completed with. `at` is what each thread does: inside
`run()` (free, or in a coroutine), or left. `Listen`, `StartWorker`, `ListenThrows`,
`StartWorkerFails`, `RunCaller` and `Return` are the lines of `listen()`: it spawns
`do_listen`, starts the threads, runs, and joins. When the system has no thread for the
first worker, `emplace_back` throws out of `listen()` with an empty vector
(`ListenThrows`): the io_context lives on, `do_listen` stays in its queue, and a later
call runs it together with its own. When it has none for a later worker
(`StartWorkerFails`), the vector of joinable threads is destroyed and the process
terminates. `Open`,
`OpenFails`, `Accepted` and `AcceptThrows` are `do_listen`; what throws is
`async_accept`, because it is awaited with `use_awaitable`, and the test of `ec`
behind it is never true. `Finish` counts work: the io_context stops when its last
coroutine is gone, and nothing restarts it. `Take`, `Leave`, `SocketReady`,
`AcceptDone`, `AcceptFails` are Asio and the kernel (external). Descriptors are
counted by the sessions that hold one.

### Service

`Service` EXTENDS `Dispatch` and adds the loop of `do_session`: `phase` is `pc` of
`Session`, with `routing` while the tree has the request, and a step of the tree is
`Serve` of `Dispatch`, whose sends go through the lambda (`Dispatching`). The
INSTANCE `S` maps the composition back to `Session`: a tree that is writing is a
session that writes, and the answers of the current request are its `sends`.

### Regex, PathPattern

`Eval` has one disjunct for each overload of `evaluate()` over a stack of nodes. A
greedy repetition becomes possessive when `First` of its content and of what follows
do not collide (`Collides`), with the intervals `populate()` inserts. Texts are
character codes. `PathPattern` scans the pattern twice, as the code does, counts,
sizes the buffer (`Room`) and copies. What it needs of the engine is that a search finds
nothing, or a colon and a group of one character or more where it was told to look: the
constant `SearchFrom`, with `SearchAssumption`. The instance of the run puts `Search` of
`Regex` there, and TLC evaluates the assumption of it for every pattern and position.
`Parse` (`PathGrammar`) is the part of ctre's grammar and actions these texts use. `RegexReference` defines the meaning of a node as a language
and of a match as the greediest of all layouts.

### MetaLists, Objects, Cookies

`MetaLists` has the lists branch by branch: `Merge` takes from the right on ties,
`Walk` is the common shape of union, intersection and difference, and both are functions
of the two places reached in the lists (`Heads`). `Objects` models
`get`, `set`, the conversion, and a chain of bindings that each sort, combine and
fill the parameters' object (`Bind`); a captured text is named by the binding and the
position it was captured at. `Cookies` is the loop of `split` with its two pointers
and then the scan of the parts, over classes of characters.

### JsonBody, JsonScanner, JsonLexer, JsonNumber

`JsonBody` is `object_body` over the tokens stage 1 has found: for each member
`find_field_unordered_raw` from where the last one was found (`OpenObject`,
`ResumeObject`), the first scan, which checks, and the second, which does not; values
are skipped by depth (`SkipRest`). `parser` says whether the parser, a local, exists.
The types of tokens are words, `lbrace` for an opening brace.

Stage 1 is chosen at run time (`active_implementation`). `JsonScanner` is that of
processors with AVX2: a word is the set of positions of its ones; `FindEscapedBranchless`
has the addition whose carry takes runs of backslashes along, `Strings`, `NextBlock` and
`StructuralStart` the masks, `ScanStep` the step of two words, `FullBlock` and
`Remainder` the block reader, and indexes are written one word late. `JsonLexer` is
the fallback, character by character. The other architectures are copies of the same
algorithm. Texts are ASCII: `utf8_checker` does nothing on them. `JsonNumber` reads
digits into a word that overflows, and decides afterwards.

## 3. Runs

All runs say `CHECK_DEADLOCK FALSE`: sessions end, requests are done with, inputs
are read.

| Run | Instance | Shows |
|---|---|---|
| `SessionAny` | 1 connection, 3 requests, 0 to 2 responses per route, 1 survived failure, any token, fairness | an announced close ends the session unless the same route answers again, shutdown after the announced last answer, `close` never stale, whatever routes do; sessions of departed clients end; requests are settled or the client has stalled |
| `SessionContract` | 1 connection, 3 requests out of all 18, 1 response per route | pipelining, reuse, nothing after a close, refinement of `HttpConnection` |
| `DispatchApi` | two applications, 17 nodes with `not_found` and 7 without, every path of up to 3 of 6 segments, both verbs, with asserts | no assert fails behind `not_found`, only served requests are survived without it; first match, parameters, one answer, 404 |
| `DispatchFallback` | 12 nodes whose routes decline or fail late, no asserts | what holds even when moved-away requests are used |
| `DispatchAsserts` | `examples/barebones.cpp` | **violation**: `assert(m)` fails |
| `DispatchBackend` | `examples/backend.cpp` | **violation**: no route behind the bound parameter is reachable |
| `ServerRuns` | 3 connections, 3 threads, 2 calls of `listen`, 2 descriptors, fairness | one thread per session; `listen` returns, with everything over, and no listener runs after that; two run only when one was left behind by a call that threw; connections get their sessions |
| `ServerAccept` | 2 connections, 2 threads, 1 descriptor | **violation**: the accept loop ends with the first error |
| `Service` | 3 pipelined requests out of 8, a tree of 9 nodes, a client that may leave, fairness | the composition refines `Session`; each answer belongs to its request; every request is answered |
| `Bindings` | patterns of up to 5 characters with paths of up to 4; 3 nodes on subjects of 3, the expression of cookies on subjects of 5; chains of 3 patterns of 3 parameters | the expression fits and means its pattern; ctre is greedy and loses no match; parameters and lists |
| `Inputs` | objects of 3 fields, 5 arbitrary tokens; Cookie headers; texts of up to 9 characters; numbers of up to 4 digits | each member its own field, no read outside; pairs read back; the same tokens on every processor; integers exact or refused |
| `JsonViews` | objects of 3 fields | **violation**: the strings of a body are dangling when the handler runs |

`Bindings` and `Inputs` try parts that have nothing to do with each other one at a
time: in each behaviour one part runs and the others are over before they begin, so
that the states of the parts add up and do not multiply.

*Bounds.* Sessions share nothing but the read-only route, so one connection shows
what any number do (the proofs are for any set of connections). Three requests make
a request with a predecessor and a successor; two responses per route make a
response follow another within a request; one failure suffices for a route that goes
on after one. For dispatch, three segments reach every end point of the trees, and
past it; segments outside the literals and an empty segment are included. For the
server, three connections over two descriptors exhaust them with a listener that has
one more to take, three threads leave two free beside any coroutine, and the second
call of `listen` meets the stopped io_context, or the listener a call that threw has
left in the queue. A pattern of five characters holds two
parameters side by side, with what can stand between and around them; three nodes
make a repetition between two others. Cookies of five characters have a "=" in the
value and several to choose from, "a=a=a" and "a==a" among them. Words of 2 and 4 bits are enough for the
scanner: what a word knows of the one before is three bits, texts of up to nine
characters have a full block of two words (of 2 bits) followed by another, strings
and runs of backslashes that start in one word and end in the next, and, with 4 bits,
words that hold two runs. Formats of 4, 7 and 10 bits with 1, 2 and 3 digits satisfy the
inequalities that 2^64 words and 19 digits do (`FormatsAssumption`): so many digits never
overflow the unsigned word, one more never fits the signed one.

*Fairness.* `FairSpec` of `Session` assumes that the io_context resumes a coroutine
whose operation has completed, that handlers end, and that a write to a client that
has neither stalled nor reset completes. Reads are not assumed to get anything:
`ReadError` is enabled only when the client hung up or sent something malformed.
`FairSpec` of `Server` assumes that threads inside `run()` are scheduled, that the
calling thread is, and that the kernel completes an accept that can be completed or
fails it; no client has to connect, and no session's operation has to complete.
`FairServiceSpec` assumes that the session goes on when its operation is complete
and that handlers end; clients are never obliged to send. In `Service` the client
reads what it is sent, or resets.

### Findings

1. `handle_request` calls the root without `match()`. In `examples/barebones.cpp`
   nothing else asks, and any request for another path fails `assert(m)`
   (`binding.hpp:46`); with `NDEBUG` the distance from the path to a null iterator is
   consumed (`DispatchAsserts`). `SurvivesOnlyServed` says which requests are survived.
2. A bound parameter takes the rest of the path, so the sub-routes of
   `bind<"/user/:userId">(...)`, in the README and in `examples/backend.cpp`, can
   never match: every request to them is answered 404 (`DispatchBackend`).
3. The accept loop means to report an error and go on (`server.cpp:144-145`), but
   `async_accept` throws: `do_listen` is over after one failed accept, and the server
   serves the sessions it has and accepts nobody (`ServerAccept`).
4. `object_body` stores string_views into the parser and returns a task that starts
   when the parser, a local, has been destroyed; simdjson.h:22697 says that strings
   are invalidated by that (`JsonViews`).

Also seen while modelling, without a statement in the repository to refute:

* The Connection header of a routed request is ignored, because `keep_alive()` is
  read from a moved-from message (`ReuseRule` states what follows).
* A handler that throws after it has answered makes `server_fault` send a second
  response; a group inside an outer `server_fault` can produce further 500s for the
  same request (`FaultContained` says that nothing else can follow).
* `cookie_parser` without a header leaves the client without an answer, and it stores
  a value with an inner `=` under the wrong key (`ValuesHaveNoEquals`).
* A `listen` after one that has returned returns at once. After one that threw because
  its first thread did not start, it runs that call's listener too (`ListensOnce`).
* In a pattern `.` matches any character, and a parameter whose name starts with a
  digit does not compile (`MeansPattern`); `\W+` in a pattern would not either, its
  point set being too small (`ctre.hpp:4926`; capacities are not modelled).
* `difference` is symmetric (`SetOperations`); the comment at `meta.hpp:312` describes
  another function.
* Lookups of JSON fields wrap around, so which of two equal keys is read depends on the
  member before, and nothing behind the last value read is ever validated.
* A control character behind a backslash is an error for the vectorised stage 1 only;
  a form feed is an operator for it and text for the fallback, and a quote right behind
  a letter begins a string for the one and not for the other (`Plain` excludes the last
  two, which no JSON text has).
* With the default body type, `std::string_view`, `object_body` calls an overload of
  `iterate` that is deleted; it is instantiated for bodies simdjson accepts, as
  `std::string` through `with_body`.

## 4. Proofs

For every set of connections and requests and every bound, from the `ASSUME`s of
`Session` (requests are well formed, bounds are naturals, tokens are tokens):

* `TypeCorrect`: `Spec => []TypeOK`. The strengthening is that a session that
  writes has `sends < MaxSends`, the bound having been tested when the write
  began.
* `LastAnswerIsDecisive`, `CloseIsFresh`, `ShutIsAnnounced`: from one invariant,
  `SafeInv`. The properties speak of moments when nothing is under way; `ConnInv` says what
  holds in between: `close` is false while reading and until the route sends,
  tells what the message in flight announces while writing, and afterwards the
  last response on the wire announces it, unless the client has reset. `Decided` says of
  every response that announced the close that the same route has sent another since
  (`Superseded`), or that it answers the current request, which then will end the session
  or is being answered again (`Pending`). Two
  framing lemmas, `StepLocal` and `ClientKeeps`, with `Untouched` reduce each step
  to its own connection.
* `PipelineIsAligned`, `CloseIsFinal`, `ReuseIsRuled`, under the contract
  `OneResponse` (and, for reuse, `PlainToken`): `Aligned` counts the responses due
  at each suspension point while the client has not reset; `LastWord` says that
  an announced close leaves only the way out; `Reused` carries the reusability of
  the current request from its message in flight to the next read.
* `SessionImplementsHttp`: `Spec => HttpPromise` under `OneResponse`. Initial states
  map to initial states; a completed write is an `Answer`, what a client sends an
  `Ask`, an end without announcement a `GiveUp`, everything else a stutter.

For every tree of routes and every set of requests, from the `ASSUME`s of `Routes`
and `Dispatch`:

* `TrueIsServed`, `FoldStops`: from the invariant `Yields`, a handler has returned
  exactly when "true" is on its way up or has arrived.
* `FaultsAreContained`, when `server_fault` is at the root of every application and
  handlers send at most one response: a second answer could only come from somebody who
  still holds the response after the first. `Spent` says that a group holds it
  only before its first route is called, `Answered` who else does, a handler that has
  used its one response and the copies of `server_fault`; `Covered` follows the frame of
  the root, which is at the bottom of the stack with a copy until its outcome is out.

For every pattern, text and tree, whatever `match()` computes:

* `LongestPrefix`: the search of `Cuts`, which backtracks over the captures of one
  pattern, finds a way to lay the pattern over a prefix exactly if there is one
  (`Lengths`, which just collects ends), and then over the longest. `Cuts`, `Lengths`,
  `Match` and `ServesRequest` are recursive functions. `Recursion` proves, from the
  fact that < on the naturals is well founded, that such a definition has a function
  behind it when its step only looks at smaller arguments (`RecursiveFunction`), and
  that a set of numbers closed under successors, or predecessors, has them all; both
  take sets and functions as values, so that they can be cited for any of them.
  From there each function has its equation (`CutsEquation`, `LengthsEquation`,
  `MatchEquation`, `ServesEquation`) and the facts follow by induction on the elements
  of a pattern or on the numbers of the nodes, children having larger ones.
* `FirstMatchIsServed`: `Spec => []FirstMatchWins`. The invariant `Placed` says how
  whoever holds the live request got it: nothing that serves it from there on fails to
  serve it from the root (`OnTheWay`), nothing that serves it from the root has been
  passed by (`NonePassed`), and `match()` has said yes, or the node is an entrance that
  will ask (`CalledRight`); a group in its fold has been told no by every route it has
  skipped (`FoldsRight`). It is the prefix being the longest that makes operator() cut
  the path where `match()` did.
* `SurvivesWhatIsServed`: `Spec => []SurvivesOnlyServed`. `Carried` says that the request
  stays live until it is handled, so that no fold ever asks a route on behalf of a
  request moved away, and `Watched` that `match()` holds wherever the request is behind
  a `not_found` or a first assert.
* `AnswersOnce`: `Spec => []AnsweredOnce`. `Accounted` gives, for each way the outcome can
  be on its way up, what has been sent, who serves the request, and which handlers have
  run; with `Reaches`, from `FaultsAreContained`, an exception cannot pass the root.
* `ParamsAreThePath`: `Spec => []ParamsRebuildPath`. `Rebuilt` says that while the request
  is live the elements consumed are laid over the path up to `off`, with what each
  parameter holds between its ends (`Spells`), and that no key still to come is among
  them. A handler runs at the end of the path, and what is laid end to end over all of
  it flattens to the path (`SpeltOut`).

These theorems suppose of a tree only what `Layout` defines. `InOrder`: nodes are numbered
as the routes are written. `Entrances(U)`: a root leads to `not_found`, a group or, when
asserts are compiled in, a binding, through middlewares. `Firm`, `Steadfast`: nothing
behind a binding or a group declines or catches. `RootFault`, `Plain`, `Answers`: as
`AnsweredOnce` says. `Distinct`: no key twice on one way. TLC evaluates them
on the trees of the runs (the `ASSUME`s of `MCDispatch`); where a tree does not satisfy
one, as `MCFallback` does not satisfy `Steadfast`, the property fails or is not claimed.

For every number of connections, threads, calls of `listen` and descriptors, from the
`ASSUME`s of `Server` (names are distinct):

* `TypeCorrect` of `Server`, `SessionsNeedNoLock`, `NothingIsCutOff`, `OnlyOneListens`:
  from one invariant. A coroutine is in the queue once, on one thread, or neither
  (`Queued`, `Threaded`), which the properties do not say and a step of `Take` needs;
  connections without a session are with the kernel, in the backlog of one listener, or
  in one accept that has completed (`Waiting`), and only while that listener's acceptor is
  open (`Listening`). One call is under way at most, and of two listeners that ran one is
  that of a call that threw (`Once`). `Stopping` is what makes leaving by an exception
  safe as well as returning: when the io_context has stopped, and also when no thread is
  in `run()` (`Idle`), all that is left are listeners in the queue that have never opened
  (`Drained`), and while a call is between `co_spawn` and `run()` its own thread is not in
  either.

For every such tree, every set of requests and every client, from the `ASSUME`s of
`Service` (requests are well formed) and the ones before:

* `AnswersBelong`: `ServiceSpec => []AnswersMatchRequests`. What is known of a tree that
  serves one request (`Steady`, `Accounted`) holds from any state in which the root has
  just been called (`Fresh`), not only from `Init`, and whatever leaves the tree alone
  keeps it (`RootedApart`); `Handled` adds that nobody has run but the first end point,
  and that a handler's message is sent by one. `Paired` is the invariant of the session:
  so many answers, each the right one, in each phase, and in the middle of a request one
  less until the tree has sent.
* `TreeKeepsContract`: `ServiceSpec => RouteKeepsContract`. `Session` is mapped onto a
  set of one connection; a step of the tree is the start of a message, the end of a
  write, or unseen (`Unseen`). That the tree sends once is `Accounted`, counted by
  `Counted`. That a request survives at most `Len(Tree)` failed writes needs `Deep`:
  frames lie on nodes of growing numbers, and each failed write has cost the frame of
  the `server_fault` that caught it.
* `ServiceKeepsPromise`: `ServiceSpec => S!HttpPromise`. `SessionImplementsHttp` is cited
  of the session as `Session` sees it (`R`), its `ASSUME`s being proved of the
  substituted constants; so a client is promised by server and tree together what
  `HttpConnection` says.

For every document and every body, from the `ASSUME`s of `JsonBody` (documents are
sequences of tokens, not empty; bodies are sequences of members):

* `TypeCorrect` of `JsonBody`, `AssumptionsAlwaysHold`: from one invariant, `CursorInv`.
  That the second scan may go without checks is a fact about the first. A `Way` to a
  place is a set of fields, from the first one in the object on, each with a comma
  behind its value and the next of them behind the comma. There is a way to the cursor
  while the first scan is on (`Scanning`), to the field whose value is being read
  (`Reading`), and to that field still when the next member is looked for
  (`Resuming`). The search begins behind that value, so the second scan follows this
  very way and stops at its end (`Rescanning`). That the cursor stays in the document
  needs only that the document ends in a brace, which is tested when it is opened, and
  that skipping a value fails or ends behind a token that closes it.
* `OwnFieldIsRead`: `Spec => []ReadsOwnField`. What an object is, `IsObject` says of any
  sequence of tokens: it is one brace, brackets match by their number (`OpenAt` counts
  those open before a token), and its `Fields` are the names one level deep, each with a
  colon and a value, with a comma between one and the next. The lookup does not count
  brackets; it keeps a depth, and skips a value by its first token. `SkipRestEnds` says
  that skipping to a depth ends behind the first token at which as many are open, and
  `FieldEnds` that skipping the value of a field therefore ends on the comma of the next
  (`Behind`) or on the last brace. The invariant is `OwnInv`: `Due` is the field the
  declarative reading gives the next member; the first scan has passed no field with the
  member's name between the one last read and the cursor (`Scans`), the second none from
  the first of the object on (`Rescans`), so the value being read is the one that is due
  (`ReadsDue`), and a refusal means that there is none, or that it has another type
  (`Refused`).

For every header, whatever its characters are (`Headers \in SUBSET Seq(S)`; for
`PairsAreReadBack` the names are such texts too), and all delimiters and spaces:

* `RunsAreCollected`, `KeysTakeEquals`, `PairsAreReadBack`: from one invariant,
  `CookieInv`. `Pointers` says that `first` is behind a delimiter, or at the beginning,
  and one past `second`; so a piece that is not empty begins where a run begins and
  ends where it ends (`PieceIsRun`), and no run begins between the two pointers.
  `Collected` counts the runs that begin before `first` and gives each its place, from
  which equality with the declarative `Runs` follows at the end. `Entered` says that the
  map holds one pair for a key, that of the first part scanned that has it, split at
  the last "=" that has something behind it.

For every set of names and every chain of bindings, whatever names it repeats, from the
`ASSUME` of `Objects` (names are numbers, in the order of their texts; bounds are
naturals):

* `SortLosesNothing`: `ObjectsSpec => []SortReversesTies`. (What is read does not depend on
  the order of ties, as `set` and `get` go by key: that is `GetsTheLatest`.) `Merge` and `SortList` are
  recursive functions, on pairs of places and on stretches of a list; each has its
  equation (`MergeEquation`, `SortEquation`, by `HeadsInduction` and the theorems of
  `Recursion`). A sorted list is described as an arrangement of the places of the list
  it was made from (`SortedAt`: as many places as there are, strictly ordered, so that
  none is lost or doubled), where of two elements with one key the later goes first
  (`Before`). `MergeArranges` shows that merging two arrangements of disjoint stretches
  arranges both, the left one lying before the right, and `SortArranges` follows by
  induction on the length.
* `SetsKeepCount`: `ObjectsSpec => []SetOperations`. `WalkFacts` says, of the rests of
  two sorted lists, that the walk over them is sorted and has each key as often as the
  kind of walk says (`Walked`; so it has no key smaller than the heads); by induction on
  the two places, one lemma for each branch (`WalkedEnd`, `WalkedEqual`, `WalkedLess`).
  `Times` counts with `Cardinality`, and `TimesFront` says what an element in front adds
  to it.
* `GetsTheLatest`: `ObjectsSpec => []GetReadsLatest`. It is inductive only together with
  `ObjectOK` (`ParamsInv`): the type is an ordered list that has exactly the keys of the
  chain, with a value for each member. `ConvertedFacts` needs the set operations: what
  is copied are the keys of the intersection, hence all of the old type; `SetEachFacts`
  says that setting keys one after another leaves the last text at the first member with
  the key and nothing elsewhere; `BindFacts` puts both together, and `BindKeeps` reads the
  latest off a chain that has become one longer.

For every set of patterns (texts of characters) and every engine, from the `ASSUME`s of
`PathPattern` (`SearchAssumption`):

* `PatternFits`: `Spec => []FitsExactly` of `PathPattern`. The two scans are separate, and the
  buffer is sized by the first. `IsScan` has the places of a scan one after another; where
  the first scan is, is the end of such a list (`Counted`). The second scan is somewhere in
  that list (`Copied`), so it ends where the first did, after as many parameters; it has
  written what it has passed and seven characters for each parameter (`WrittenLength`:
  the name without its colon, and eight more), and never passed the match at hand.

For every set of literals, whatever their lengths, and all machine words, from the
`ASSUME`s of `JsonNumber` (`FormatsAssumption`, which 2^64 words and 19 digits satisfy: the
number of words is even, and the power of 10 of the limit is no greater than it and greater
than its half):

* `IntegersAreExact`: `NumberSpec => []IntegersExactOrRefused`, for members of type `int64_t`. The folds of the digits, with
  and without the remainder, are brought to equations digit by digit (`WordEquation`,
  `MagnitudeEquation`), and the powers too (`PowerEquation`). As many digits as the limit
  allows say less than the power (`FewDigits`), so the word never overflows before the
  limit is tested (`NoOverflow`); one more, unless the first is 0, says at least the power
  (`ManyDigits`), so what the limit refuses would not have fitted. `WordIsExact` is the
  complement: the smallest integer, which has no positive counterpart, and minus zero.

For words of every even width and every set of texts, from `TextsAssumption` (texts are
sequences of characters):

* `SameTokensEverywhere`: `TextSpec => []SameOnEveryProcessor`, which speaks of `Plain`
  texts and excepts an escaped control character. Between the two algorithms
  stand sets of offsets that say of a text what a reader would: the escaped characters
  (`Escapes`, behind an odd run of backslashes), those inside strings (`Insides`, the parity
  of the quotes that count), the beginnings of tokens (`Starts`), the control characters
  (`Controls`). Bit by bit, a carry of the addition means that a run has begun at an odd place
  and goes on (`RunsCarry`), so the mask is that of the escaped characters
  (`EscapedAreFound`), and the prefix xor is the parity (`StringsAreFound`). `IsCarry` says
  of the three bits kept between two words what they mean of the text so far, and
  `BlockFacts` that a word read with them gives its part of the sets and again such bits.
  What is written is the list of a set in order, of which there is only one (`Lists`,
  `OneList`), and a word appends to it (`ListAppend`). `ScanInv` puts this together, with
  the step of two words, the last one padded with blanks, and the structurals written one
  word late. `Lexing` says how the fallback, going from token to token, has read a prefix of
  the same sets, where `Plain` makes a primitive end at the first character that is none
  (`RunFacts`). When both are done they hold the list of the same set (`BothAgree`).

Each invariant was first checked by TLC on the instances of the runs (with the function
behind `ServesRequest` given by recursion, where an invariant names it).

Only model-checked: liveness (`HangUpEnds`, `RequestSettles`, `ConnectionsServed`,
`ListenEnds`, `EveryRequestAnswered`), which is out of the prover's reach; and what
the engine does with expressions (`MeansPattern`, `LikeModulePattern`, `GreedyMatch`,
`CookieSplit`): `Regex`, `RegexReference` and `PathGrammar` have RECURSIVE operators, which
the prover does not take, and what they compute would need induction over the nodes of an
expression. The other modules have none.

## 5. Plan

Done: `Session` with its abstract specification and proofs; `Routes` and `Dispatch`;
`Server`; their composition; the parts of bindings and of inputs.

What is only model-checked (section 4) is out of the provers' reach.

### Not modelled

Text of logs and pages, header fields other than Connection and Cookie; the cut of the
port to 16 bits; a client that half-closes and also stops reading; the lvalue overloads of `with_params` and `with_body`, which nothing
calls; build and container files; the files of static_asserts.

Of the 50,000 lines of implementation 48,700 are the vendored simdjson and ctre, of
which v60 uses a sliver, so the share of lines that the map covers stays small while
every file of v60 itself that has behaviour is modelled. Modelled of simdjson is what
`object_body` runs: stage 1, in both algorithms, over ASCII; the lookup of fields; the
conversion to `int64_t`. Left out: the conversion to `uint64_t` (`parse_unsigned`), UTF-8 validation (table lookups over
neighbouring bytes), the unescaping of strings, floating point, and
what is never called: the DOM, document streams, serialisation, minification, and the
copies of the same code for other architectures. Of ctre, everything that v60's
expressions do not instantiate: Unicode tables, lookaround, back references, lazy
quantifiers, the rest of the grammar.

# Formal model of boost.taar

boost.taar is a header-only C++20 HTTP and MCP framework on Boost.Asio, Beast and
JSON. This directory holds TLA+ models of the parts where concurrency, failure and
time meet, the TLC configurations that check them on small instances, and TLAPS
proofs of what matters most for every size of instance. Paths below are relative to
`src/include/boost/taar/` unless they start with `src/`.

Run `tlc -config X.cfg M` for a run listed below and `tlapm M.tla` for a proof module.

## 1. The system: inventory

### Parts, state, operations

| part | source | state it keeps | operations |
|---|---|---|---|
| HTTP session | `session/http.hpp` | per connection: socket, read buffer, cancellation state, `shutting_down`, the current request and response; per session object: routes, interceptors, limits, timeouts, error handlers | `operator()` (the loop of one connection), `run_interceptors`, `install_handler` wrappers (buffered, streamed body, generator), raw handlers, `read_body`, `write_response`, `write_chunked_response`, `write_protocol_error`, close sequence |
| deadlines, body reader | `core/detail/io_deadline.hpp`, `core/body_reader.hpp` | a timer and an `expired` flag per read; what is left of a body and of its limit | arm, expire, cancel; read a piece, send `100 Continue` |
| servers | `server/tcp.hpp`, `server/tls.hpp` | acceptor, one strand per connection | resolve, listen, accept loop with backoff, spawn, TLS handshake with timeout |
| cancellation signals | `core/cancellation_signals.hpp` | a mutex, a list of bound slots and a list of plain signals | `slot(executor)`, `slot()`, `emit` from any thread, deregistration |
| context store | `core/context_store.hpp` | mutex, map key to entry, `last_sweep_`; per entry: activity stamp, in-flight count, `async_lock` | `create`, `find`, `find_or_create`, `peek`, `erase`, `sweep`, `lock`, guard release |
| session-bound handlers | `handler/with_session.hpp` | none of their own | mint or find the key, lock, run, release, relay a stream |
| channel | `core/async_channel.hpp` | mutex, queue of values, queue of waiters, `closed` | `push`, `trim`, `close`, `async_receive`, cancellation of a wait |
| generator, chunked response | `core/async_generator.hpp`, `core/chunked_response.hpp` | coroutine frame, pending consumer, cancellation forwarders, inner operation | `next`, `co_yield`, inner `co_await`, destruction |
| MCP endpoint | `mcp/endpoint.hpp` | tools, resources, prompts; per session: mailbox, history, pending server requests, subscriptions | `initialize`, calls, event stream with replay, `request`, `notify`, end of session, stdio loop |
| JSON-RPC | `jsonrpc/*.hpp` | methods; in-flight calls by scope and id | dispatch, batch, cancel |
| matchers, routing | `matcher/*.hpp` | none | pure predicates over a request |
| REST handlers, guards, htdocs | `handler/*.hpp` | none (htdocs: the file system, and two LRU caches, of metadata and of content, behind one mutex) | bind request parts to parameters, answer |
| algorithms, formats | `core/{byte_range, accept_encoding, entity_tag, cookies, http_date, cors, mime, base64, multipart, segmented_body, json_schema, response_*}.hpp`, `openapi/generator.hpp` | none | parse, negotiate, format |

### How they interact

* A server accepts on its own strand, makes one strand per connection, registers a
  bound slot in the pool (`cancellation_signals`) and spawns the session with it.
* A shutdown is `emit` on the pool, from any thread: it is *dispatched* to each strand
  and recorded there in the coroutine's cancellation state; asio then aborts the
  pending operation unless the coroutine is shielded, and makes every later unshielded
  `co_await` throw. The session consumes the recorded cancellation in several places
  (`observe_shutdown`) and carries on what it learnt in `shutting_down`.
* A handler may look up a context (`with_session`, MCP), wait for the entry's lock,
  and run with it; the store sweeps idle entries on any access.
* MCP pushes events into a session's channel from any thread; the session's event
  stream, itself a chunked response, receives from it.

### What is hard about it

* *Interleaving and atomicity*: `emit` copies and then dispatches; slots are registered
  before their handler is installed; the lock is granted in one step and counted in
  another; completions of the channel and of generators run after what caused them; a file
  is examined, opened and read in separate calls, and its cache entry is written later still.
* *Failure half-way*: a generator throws after the header went out; a body is only
  partly read when the handler answers; a write times out and closes the socket; a callable
  throws past the dispatcher while other calls wait for its lock.
* *Time*: a deadline fires beside the completion it bounds; the clocks of the store and of
  the file caches are read before their mutex is taken; a request to an MCP client times out
  while its answer arrives.
* *Shutdown at any moment*, in idle, half-read, running, streaming and closing sessions.
* *Order and place*: events replayed after a reconnection, inner generators spliced into
  outer ones, a boundary cut anywhere, arguments left behind by a route that did not match.
* *Termination*: silent clients, streams that never end, waiters that nobody wakes, a scanner
  that asks for more when there is none, `serve_stdio()` waiting for calls that ended.

`PROJECT.json` lists these, at their lines, under `hazards`, with the properties
that cover each, and a note for those no property covers.

### What makes each part correct

* Session: at most one answer per request and in order; a body's bytes are never parsed
  as a request; nothing is sent after an announced close or on a closed socket; a
  request that was begun is answered or reported; a shutdown spares plain handlers and ends
  the connection; a silent client is dropped.
* Server and pool: no emission to an installed handler is lost; whoever is told leaves;
  a stopped acceptor takes in at most the connection it already holds.
* Store: handlers of one key exclude each other, first come first served, all served;
  an entry in use, or used recently, is not swept.
* Channel: it is a FIFO stream; nobody waits beside a value or after a close; a `nullopt`
  has a reason; a close ends every receive.
* Generator, chunked response: the session writes what the bodies yielded, in place; a
  failure anywhere is not taken for the end; what is destroyed is not touched; a
  cancellation reaches the innermost wait; what the body says of the header is in it.
* MCP: events reach the client once, in order and without unannounced gaps; requests in
  either direction end; a call is left without an answer only if its own client cancelled it.
* Routing: the handler that runs is the first that fits, with its own arguments; `Allow` and
  the API document say what the server does.
* Static files: nothing is older than the options allow or than its own validators, and what
  is sent is as long as announced.
* Multipart: what the program is given does not depend on how the body was cut.

### What is modelled

| part | status | module |
|---|---|---|
| HTTP session; read deadlines, body reader | most of it | `HttpSession`, `Routing` |
| HTTPS session | not of its own | the `close_notify` in `HttpSession`'s close |
| servers, cancellation signals | all but plain slots | `Server` |
| context store, session-bound handlers | all; the carriers of keys left out | `ContextStore` |
| asynchronous channel | all | `AsyncChannel`, `FifoStream` |
| asynchronous generator, chunked response | all but the move of a handle; conversions of bodies left out | `AsyncGenerator`, `ChunkedResponse` |
| MCP endpoint over HTTP | sessions, calls, stream, requests to the client | `McpSession`, `McpHttp`, `McpDispatch` |
| MCP endpoint over stdio | reader, calls, writer; relay of notifications left out | `McpStdio`, `McpDispatch` |
| JSON-RPC endpoint | dispatch, failures, in-flight table; batches left out | `McpDispatch`, `McpHttp`, `McpStdio` |
| matchers, routing, REST handlers, guards | see section 7 for what is left out | `Matchers`, `Routing`, `RestArgs` |
| OpenAPI generator | operations and parameters; schemas left out | `ApiDocument` |
| static files, bodies, header algorithms | those a static file or an upload uses | `StaticFiles`, `Representation`, `Multipart` |
| MCP arguments and content, JSON schema, dates, cookies' text, CORS, MIME, base64 | no | |

## 2. Modules

| module | models |
|---|---|
| `HttpSession` | one connection: `basic_http::operator()` and all it calls |
| `Server` | pool of cancellation slots, acceptor and connections, tcp and tls |
| `ContextStore` | store, entries' locks, sweeping, requests using them |
| `AsyncChannel` | the channel and its consumers |
| `FifoStream` | abstract: what a channel promises; `AsyncChannel` implements it |
| `AsyncGenerator` | generators that nest, await, fail, are cancelled and destroyed |
| `ChunkedResponse` | extends `AsyncGenerator`: status and headers yielded by the body |
| `McpDispatch` | pure: what becomes of one JSON-RPC message |
| `McpSession` | one stateful MCP session: events, stream, requests to the client, its end |
| `McpHttp` | extends `McpDispatch`: POST and DELETE of several clients |
| `McpStdio` | extends `McpDispatch`: `serve_stdio()` |
| `Matchers` | pure: templates and matcher expressions |
| `RestArgs` | extends `Matchers`, pure: arguments of REST handlers, status of failures |
| `ApiDocument` | extends `RestArgs`, pure: what the generator records of a route |
| `Routing` | extends `ApiDocument`: registration and serving through the table of routes |
| `Representation` | pure: preconditions, content coding, ranges |
| `StaticFiles` | extends `Representation`: htdocs, its caches and a changing directory |
| `Multipart` | scanner and reader of multipart bodies |
| `HttpSessionProofs`, `ServerProofs`, `ContextStoreProofs`, `AsyncChannelProofs`, `BodiesProofs` (`AsyncGenerator`, `ChunkedResponse`, `Multipart`), `McpSessionProofs`, `McpTransportProofs`, `StaticFilesProofs` | theorems |
| `MC...` | instances for TLC |

Definitions whose names start with `Defect` are not part of any specification: each
is a plausible mistake in the definition it stands beside, and shows that the property
it belongs to would notice that mistake.

### HttpSession

`pc` is a suspension point of the coroutine (an awaited read, write, timer or user
coroutine) or a piece of straight-line code between two; `op` says how the awaited
operation stands. Everything between two suspension points is atomic towards timers and
emissions because they run on the connection's strand. `CoAwait` and `TryAwait` are
asio's rule: while cancellation is recorded and the coroutine is not shielded, the next
wait throws `operation_aborted`. `Shield` is `shield_from_cancellation`, `ObserveShutdown`
is `observe_shutdown`. One action per stretch of code: `ResumeIdle`, `ResumeHeader`,
`ResumeIntercept`, `Dispatch`, `ResumeBody`, `Start`, `ResumeHandler`, `Unwind`,
`ResumeUpload`, ... `Closing`, `ResumeLinger`. The environment is the peer (sends,
stalls, closes, resets), the two kinds of timer (`ExpiryFires`, which closes the stream,
and `DeadlineFires`, which cancels a read), user code that returns, throws or lets an
abort escape, and `Emit`.

A handler that reads its body may answer with a typed response, which `finish_response`
aligns with whether the body was read (`UploadKeepAlive`), or with a `message_generator`, on
which `finish_response` does nothing (`AnswerUpload`): then the message keeps the connection
as its handler said, and `Leftover` says what of the body may lie in the buffer where the
next header is looked for. `BodyConsumed` excepts this path and no other;
`UnreadBodyCloses`, the sentence of the documentation, does not (section 4).

Abstractions: a body is the number of reads it takes; `wire` keeps, per answer, the
request it belongs to, whether it announced a close, and whether it is complete;
`buffered` says that bytes of the next request came along with the last read. HEAD is a
nondeterministic end after the header. The soft error handler is either the default one
(which hands on what does not map to a client error) or a user's that answers. TLS
`close_notify` is part of lingering. A generator is assumed to let a cancellation end its
wait, and the handler of a streamed body to let read failures escape. Response headers set
by the user that override `Connection` are not modelled, nor are websocket-style uses of
what a raw handler takes over.

### Server

A slot's life is `none`, `registered`, `spawned` (handler installed), running places,
`ended`, `gone` (deregistered). `emit` is `BeginEmit` (copy under the mutex), `DispatchTo`
per slot, `RunEmission` on the slot's strand, which has an effect only when the handler
is installed. Where the emission's strand and the installing thread race without
synchronisation the model takes either outcome. `async_resolve` ignores cancellation;
`async_accept`, the backoff timer and the handshake honour it. A session is a coroutine
that ends by itself or, once cancelled, eventually: that is the property
`HttpSession!ShutdownEnds`, assumed here as fairness. Run `session` shows it for
sessions without interceptors; section 4 says where it does not hold.

### ContextStore

Code under a lock's mutex is one step. The store's mutex (`holder`) keeps the operations on
the map apart from each other, but not from the requests that run: reading the clock (before
the mutex is taken), the posted resumption of a waiter, which counts itself in flight, and the
three parts of a release (stamp the activity, count down, hand the lock over) come at any
moment. So `find`, `emplace`, `create` and `sweep` are two steps each. `Look` takes the mutex,
reads the activity and the in-flight count of the entries as its thread sees them (`Views`) and
notes which keys are to go (`doomed`); the operation itself removes those, whatever happened
meanwhile, puts in what is new and leaves the mutex (`Publish`). One `Look` stands for all
the reads of an operation, because nothing else changes the map in between and what is
read of one entry does not depend on another. `erase` reads nothing and is one step. Keys are
drawn until a free one is found. `used` is the history variable the expiry properties
speak of: when an entry was really last used. `setting`, chosen at the start, says what
the environment may do:

* `prompt`: no time passes while a request has a step to make, i.e. the executor is fast
  compared with the idle timeout;
* `relaxed`: the relaxed writes of the activity stamp and of the in-flight count may be seen
  late, and independently of each other, by other threads (one replaced value of each is
  retained, a bound on what the memory model allows);
* `erasing`: keys are also erased explicitly.

What the store promises of expiry holds in a setting that is `Timely`, prompt and not relaxed,
for entries in use (`RunningKeepsEntry`), and in a `Calm` one, timely without erasures, for keys
(`KeyExclusive`, `OnlyIdleSwept`). Exclusion by the lock and service hold in all. In a setting that
is not timely a running request may lose its entry (`RunningNeverSwept`, section 4).

### AsyncChannel and FifoStream

A receive goes `idle`, `waiting`, `taken` (removed from the waiters under the mutex by a
push, close or cancellation whose thread has not completed it yet), `posted`, `idle`.
Any thread may push. A cancellation handler stays in the consumer's slot after its
receive is over and can run at any time; `slot` is the waiter id it remembers.
`FifoStream` has a queue, an open flag and, per reader, a request and an answer; the
refinement maps both `taken` and `posted` to an answered request, so that the order in
which completions run is not part of the promise, but the order of values is.

### AsyncGenerator and ChunkedResponse

Frame 1 is the generator a session drives, further frames are inner ones, each driven by a
coroutine of its own, as `flatten_awaiter` spawns it. `Run` is a resumed body: it yields,
awaits, splices a new inner generator in, throws or ends. Steps are the session's `next()`,
the delivery of a queued completion, the end of a driver (`DriverEnds`), the end of an awaited
operation, a cancellation (`Cancel`, which signals what `Reached` says the chain of forwarders
leads to) and `Leave`, which destroys the generator at any moment; completions that
were queued then still run and must notice. `ChunkedResponse` refines a body's run: before
its first value or inner generator it may yield a status and headers. Values are numbered as
they are yielded, so that order, loss and duplication can be told from the sequence taken.
`escaped` remembers that an exception left a body, or that the driver of a frame that still
exists was aborted before it started: in both cases the session must not see a normal end.
`HeldOnce` says where whoever waits for a frame is kept: in its promise, in a queued
completion or with the driver of its inner frame, and in one of them only.

### The MCP modules

`McpDispatch!Reply` is what a JSON-RPC message is answered, as a function of its shape,
method, parameters, how its callable ends, whether it was cancelled and where it is served;
`Throws` says when an exception passes the dispatcher, `ExpectsAnswer` whether the client
will look for an answer, and `HasScope` whether the call can be named by a cancellation. `McpHttp` and `McpStdio` add what is
concurrent: `McpHttp` has one action for what happens before a call starts waiting (`Post`
with `InitializeSession`, `Delete`, `CancelInSession`, `Serve`) and `FinishRequest` for its end,
the lock being a queue of calls per session; `McpStdio` has the reader (`ReadLine`), the calls it spawned
(`Lock` to `TellDrained`), the writer, and the end of the input (`EndOfInput`,
`LookInFlight`, `EndSession`, `Return`) with the counter and the drained flag they share.
On one thread a call's look at its cancellation, its leaving the table of requests, its reply
and its counting down are one step (`Finish`), because nothing of it is awaited. On several
threads they are steps between which the reader goes on: `Decide`, `LeaveTable`, `Answer`,
`TellDrained`. `Throw` is the end of a call whose exception passes the dispatcher.
`McpSession` numbers events by id, and `Between` is a run of consecutive ids, such as the
part of the history that is replayed. The mailbox is the queue of an `async_channel`, whose
waiter is woken atomically here (`AsyncChannel` shows that this is what it promises). A
stream goes `produce`, `waiting`, `handed` (a value is on its way), `writing`; whether the
peer still listens (`alive`) is not known to it. `waived` and `got` are history: what the
client skipped by its own `Last-Event-ID`, and what it received. The store appears as the entry
that DELETE erases (`DeleteErase`, a step after `end()`) and `Sweep` takes at any time it is
idle.

### Matchers, RestArgs, ApiDocument, Routing

The first three are functions. `ParseTemplate` is the automaton of `template_parser.hpp` run
over the characters of a template, `MatchTarget` the matching loop of `target.hpp`, `Eval` the
evaluation of an expression with the path arguments it leaves behind when it fails.
`Summary` and `Shape` are what `route_shape.hpp` says of an expression. `Routing` registers
up to a bounded number of routes and interceptors out of a pool, with the checks
`handler/path_arg_check.hpp` makes, and then serves one request: `Serve` is the whole dispatch,
interceptors, selection with the second try for HEAD, guard, arguments, handler, and 404 or
405 with `Allow`. A property compares this with a reading of the templates as a grammar
(`Spells`), which shares nothing with the matching loop.

### StaticFiles and Representation

A step is one call of the file system, or one stretch with the mutex of the caches held:
`Lookup`, `Status`, `Stamp`, `AddSibling` (one sibling each), `Remember`, `FindContent`, `Open`, `Load`,
`KeepContent`, `SendPiece`. Other programs overwrite a file in place, replace it by a rename,
remove it, or compress it, between any two of them; the clock advances at any moment.
`Status` and `AddSibling` stand for the few calls of the file system that examine one file,
compressing a file is one step, and the 500 of a small file that was opened but could not be
read (`handler/htdocs.hpp:1271`) is left out. A file's
content is a stamp; `history` keeps for each when its original ceased to have it, so that an
answer's age can be told. `Representation` holds what is decided without looking at the disk:
preconditions, the choice among precompressed siblings, and the ranges, coalesced.

### Multipart

Here characters matter: the module keeps the scanner's buffer and has one action per state of
the scanner (`ScanPreamble`, ..., `ScanFinished`), `Refill` for a read of any size in
`PieceSizes`, 0 among them, and the three calls a program may make. `Meaning` reads the same body
in one go, as the grammar has it. `CutShort` says that an empty read was taken for the end.

## 3. Runs that pass

| run | instance | states | shows |
|---|---|---|---|
| `session` | all seven kinds of route, with and without interceptors, 2 requests, bodies of 0 to 2 reads, 1 shutdown | 227,076 | no body taken for a request, but after the `message_generator` of a handler that reads its body (`BodyConsumed`); one answer each, in order (`OneAnswerEach`); nothing after the last (`NothingAfterTheLast`); answered or reported (`AnsweredOrReported`); a shutdown ends a connection without interceptors (`ShutdownEnds`); silent clients dropped (`SilentClientDropped`) |
| `server` | TLS, acceptor and 2 connections, 1 emitter, the spawner's slot | 195,222 | emissions arrive (`EmissionsArrive`); whoever is told leaves the pool (`ToldLeave`) |
| `store` | 2 requests, 2 keys, 2 entries, timeout 1, clock to 2; four settings: time that passes at any moment, or a prompt executor with writes seen late, with erasures, or with neither | 578,342 | the lock excludes (`MutualExclusion`) and serves everybody (`Served`); a key is exclusive across expiry and re-creation (`KeyExclusive`, the calm setting); nothing but `erase` drops an entry whose handler runs (`RunningKeepsEntry`, timely settings) |
| `channel` | 2 consumers, 3 values, 3 waits | 58,642 | nobody oversleeps (`NoMissedWakeup`), `nullopt` has a reason (`NullHasReason`), a close ends every receive (`CloseEnds`), and `ImplementsStream` |
| `generator` | 4 frames, 4 values, 2 pieces of metadata | 34,483 | values in place, none lost or twice (`Spliced`); no failure is taken for the end (`FailureIsNotTheEnd`); the header has all the body said of it (`HeaderIsComplete`); what is destroyed stays untouched (`DestroyedIsUntouched`); `CancellationReaches` |
| `mcp` | 2 connections of one client, 1 request to the client, 2 notifications, a history of 2 | 222,393 | what a client receives over all its streams is in order and not twice (`InOrderOnce`), and lacks only what was trimmed (`NothingSkipped`); requests to the client and streams end (`RequestsEnd`, `StreamEnds`) |
| `mcp_http` | stateful and stateless, 2 clients, 12 messages, 2 calls, 2 sessions | 68,650 | a request stays without answer only if its own client asked for that (`RequestsAreAnswered`, stateful endpoints); every POST ends unless a call before it in the session hangs (`PostsEnd`) |
| `stdio` | 4 lines out of 10 messages, 2 calls, 2 sessions, one or many threads, an output that may fail | 541,967 | calls are answered exactly once before the return unless cancelled (`AnsweredUnlessCancelled`, one thread); what was cancelled is not answered (`CancelledIsNotAnswered`, one thread); it returns (`StdioReturns`, unless a call threw) |
| `routing` | every table of up to 2 of 17 routes and 1 of 3 interceptors, every one of the pool's requests | 156,048 | the first route that fits, with arguments that spell the path (`RoutedByThePath`); all path arguments there (`PathArgsArePresent`); `Allow` is true (`AllowIsTrue`); so is the API document (`DocumentIsTrue`) |
| `files` | 2 threads (symmetric), 2 requests, 4 names, gzip siblings, 2 changes, 1 tick, 1 fault; caches of 1 entry and 1 byte | 1,758,276 | no answer older than `revalidate_after` allows (`StalenessIsBounded`) or than its validators (`NeverOlderThanTheTag`); what was announced is sent (`SentWhole`) |
| `multipart` | 128 bodies, pieces of 0, 1, 3 and 8 characters in every mixture, a header limit of 6, `read_some` of 2, `read_all` limited to 2 | 92,946 | data is the part's (`DataIsTheBodys`); the end is the body's unless an empty piece cut it short (`EndsAsTheBody`); every call returns (`CallsReturn`) |

Why these bounds are enough to be interesting. Two requests give keep-alive,
pipelining and every error path that ends or keeps a connection between them; two reads
give a body that is begun, partly read and finished; one emission can fall at every
suspension point. Two connections and one emission give one that is told, one that
is late and one that is being spawned. Two requests on two keys give a holder and a waiter
on one entry, or one key's old and new entry in use at once; the clock passes the timeout with
an entry in use, released, waited for and re-created, and one request resumes or releases
while the other sweeps (what three or more requests add, the
order of service, is proved). Two consumers and three values give two completions in flight
and a value behind them. Four frames give an inner generator inside an inner one, and a second
one after the first. A history of two with three events gives an event that was trimmed. Two
calls give a holder of the lock and a waiter; two sessions give a replaced one whose
call still runs. Two routes give an earlier one that almost matches, and its leftovers. Two
threads load the same file while it changes twice. Pieces of one and three characters cut
the four-character and five-character delimiters everywhere, and empty ones come at every
place. All bounds are constants named in
the modules; the theorems of section 5 do not depend on them.

Symmetry is used for the threads of `files` only, where no liveness is checked. The runs
that say `CHECK_DEADLOCK FALSE` are those whose system comes to its end: the last
request served, the client gone, the body read, `serve_stdio()` returned.

### Fairness

* `HttpSession`: the strand runs what is ready, armed timers fire, and interceptors, plain
  handlers and error handlers finish. Nothing is assumed of the peer, of generators or
  of raw handlers.
* `Server`: an emission that was begun is finished, strands run what is queued, names are
  resolved, the backoff timer fires, a cancelled session ends. Nothing of clients; the
  handshake timer is not needed.
* `ContextStore`: a request goes on with what it began. Executors run what is posted, and
  handlers finish. Time is not assumed to pass.
* `AsyncChannel`: completions that were taken are posted and delivered.
* `AsyncGenerator`: queued completions run, and an operation that was signalled ends;
  operations nobody cancels need not.
* `McpSession`: timers expire, completions run, writes end (the session's send timeout).
  Nothing of the client, of DELETE or of the sweep. `McpHttp`: a call that can end does.
  `McpStdio`: the executor runs what is ready, callables end, writes end.
* `Multipart`: the reader's loop goes on; a read of the body returns, with data or its end.

These are asio's guarantees for an `io_context` that is being run, plus the assumption
that user code which is documented not to be interrupted finishes by itself.

## 4. Where the code and its documentation differ

One run checks a sentence of the documentation of which TLC finds an execution
in which the code does otherwise; `PROJECT.json` quotes it under `findings`.

| run | sentence | what happens |
|---|---|---|
| `mcp_stateless` | the scope key of a request keeps equal ids of different clients from colliding | a stateless endpoint uses the empty key for everybody: the cancellation of one client silences the call of another with the same id |

The same models show more. These properties stand in the modules beside those that hold;
no run lists them, and checking one with the run's configuration yields the execution
described (`BodyReadsSpared`, `ShutdownAnswerAnnouncesClose`, `ShutdownCloses` with
`session.cfg`, and so on).

| property | sentence | what happens |
|---|---|---|
| `HttpSession!UnreadBodyCloses` | a body left unread closes the connection after the response (`session/http.hpp:890-892`) | a `message_generator` keeps the connection as it says (914, 217-228): the rest of the body is parsed as the next request |
| `HttpSession!ShutdownCloses` | streaming handlers stay cancellable, so that they do not hold the process up (`src/doc/05_design.qbk:268`) | the shutdown arrives while an interceptor runs; it is consumed there (`session/http.hpp:1907`) and the stream started afterwards never hears of it |
| `HttpSession!ShutdownAnswerAnnouncesClose` | keep-alive only if the server is not shutting down (`session/http.hpp:213`) | the answer made by the error handler is finished as if there were no shutdown (1360) |
| `HttpSession!BodyReadsSpared` | body reads are shielded from shutdown (729-738) | the buffered body is read before the shield goes up (953) |
| `Server!NobodyLeftBehind` | a single emit shuts the server down (`server/tcp.hpp:196`) | a connection accepted while the emission is being dispatched is never told (139) |
| `Server!AnyThreadMayEmit` | emit may be called from any thread (`core/cancellation_signals.hpp:40`) | the emission finds a registered slot that has no handler yet (`server/tcp.hpp:74`) |
| `ContextStore!RunningNeverSwept` | entries that are locked are never swept (`core/context_store.hpp:161`) | a request whose resumption comes late counts itself (450) after a sweep looked at the count (458) and before it removes the entry (477) |
| `ContextStore!NeverConcurrently` | two requests for the same key never run their callables concurrently (`core/context_store.hpp:158-160`) | a release stamps the entry and leaves it, both relaxed and outside the store's mutex (271-272), then hands the lock to a waiter that counts itself only when it resumes (449); a third request sees nobody in flight with the old stamp, or looks longer than the timeout after it, takes the entry for expired and makes a new one |
| `McpSession!TimeoutsAreTimely` | a request fails with `operation_canceled` if the session ends first | a swept session runs no code of the endpoint: the request times out (`mcp/endpoint.hpp:961`, 810) |
| `McpStdio!StdioReturnsAlways` | on end of input `serve_stdio` waits for running requests and returns | a callable that throws past the dispatcher skips the countdown (1240): the reader waits for ever |
| `McpStdio!FlushedOnManyThreads` | it flushes their replies | on an executor with several threads the last countdown can precede the push of a reply (1136) |
| `McpStdio!CancelledIsSilent` | the response of a cancelled request is suppressed (`jsonrpc/endpoint.hpp:369-370`) | on several threads the reader cancels a call after its look at the cancellation (302, `mcp/endpoint.hpp:2042`) and before it leaves the table (325): the reply is sent |
| `McpStdio!NotificationsSilent` | a notification is never answered | `logging/setLevel` sent as a notification with bad parameters gets an error (1843-1847) |
| `Multipart!WellFormedIsAccepted` | a read returns 0 bytes only when the body is done (`core/body_reader.hpp:57`) | a read that meets a chunk's header returns 0 (165-181), which is taken for the end (`core/multipart.hpp:519`): a well-formed body is called malformed |

Seen in the models or while writing them, and stated by no property:

* `RunningKeepsEntry`, `KeyExclusive` and `OnlyIdleSwept` of `ContextStore` are conditioned on
  `prompt`, because a grant is counted later (`core/context_store.hpp:449-450`) and `now_()` is read
  before the mutex is taken (323), and on `~relaxed`, because a sweep may see the decremented
  in-flight count with the old activity stamp (271-272). All are proved; the first two are
  checked by a run.
* A message whose method begins with `notifications/` is taken for a notification even if
  it has an id: such a request is never answered (`mcp/endpoint.hpp:1828-1835`).
* A cancellation that a wait outside a handler finds, such as the start of a write, leaves the
  loop as `operation_aborted` and is given to the hard error handler (`session/http.hpp:1839`),
  while an idle connection that a shutdown cancels is a clean close (205-213). An observer of
  completed requests that throws does so past the answer (1094-1096).
* Two plain slots taken from the pool before either is bound are the same slot
  (`core/cancellation_signals.hpp:160`, against the comment at 153).
* A cancellation that meets a completion already queued is lost if the body awaits again
  (`core/async_generator.hpp:204-228`, 588); `CancellationReaches` excepts it by `restarted`.
  `next()` on a generator with a stored exception rethrows it inside a posted function, on the
  executor and not to the caller (51-54, against 656-660).
* MCP calls that wait for a session's lock still run after the DELETE of their session was
  answered, and a cancellation that arrives while its call waits is lost
  (`mcp/endpoint.hpp:1470`): the call is looked up among those that run.
* Routing. `{*}` is refused although documented (`matcher/target.hpp:35`, 45). A greedy
  placeholder that is not last takes at least one segment and does not backtrack (43), hence
  the condition `GreedyOnlyLast`. The left side of an `||` that fails leaves its path arguments
  behind. The check of path arguments counts the placeholders of all templates of a route
  together and does not ask whether the route can be taken without them, hence the condition of
  `PathArgsArePresent`: one target, and the matcher such that it must have matched (the pool has
  routes with `||` that are accepted and lack an argument when they are taken). Constraints on the HTTP
  version are not in the API document. A body provider's content types never match if
  they are written in capitals. `with_default` wraps errors. Where a route takes the method
  and something else keeps it away, the answer is 404.
* Static files. Within `revalidate_after` an answer may carry older validators than its bytes
  (`handler/htdocs.hpp:282-286`). A rewrite that keeps size and modification time is not
  noticed; in the model no two contents share a stamp.
* Multipart. Whether a header is too large depends on how it was cut (`core/multipart.hpp:209`).

## 5. Theorems

TLAPS proves these for every value of the constants, from the assumptions named in
the modules, which only say what kind of thing a constant is: bounds are natural numbers (and
at least one where the code has at least one), `Routes` is a nonempty set of kinds of routes
(`SessionAssumption` of `HttpSession`), the acceptor is not a connection
(`ServerAssumption`), the requests are finitely many, `Nobody` is none of them, there is a key,
and a setting is three flags (`StoreAssumption`), a history holds at least one event
(`SessionAssumption` of `McpSession`), messages are well formed (`MessagesAssumption` of
`McpStdio`, `HttpMessagesAssumption` of `McpHttp`, `BoundsAssumption` of `McpStdio`), there is a frame (`GeneratorAssumption`), and,
for `StaticFiles`, the limits are natural numbers (`BoundsAssumption`), the codings of siblings
are not empty, as the constructor checks, there are finitely many files at first, sizes are 64-bit
numbers (`Sizes`, `DirectoryAssumption`), q-values lie between 0 and 1 in thousandths, and the ends
of a parsed range are 64-bit numbers (`RequestsAssumption`), and, for `Multipart`, bodies are finite
sequences of characters (`BodiesAssumption`) and limits and pieces are natural numbers
(`SizesAssumption`). `ChannelAssumption` is of the same kind.

* **`HttpSessionProofs`**: `TypeCorrect`, `BodyNeverMistaken`, `AtMostOneAnswer`,
  `ClosedStaysSilent`, `ShutdownSparesHandlers`, `LastIsLast`, `NothingDropped`.
  `BodyConsumed` speaks of two control points but is decided much earlier, so the
  inductive invariant `IInv` adds `BodyInv`: at which control points the body must have
  been consumed, and that an answer which keeps the connection (`answer.keep`) is only
  ever being written with the body consumed, but for the one path it excepts. `WireInv` says that what is being written is
  the last answer on the wire. `AtMostOneAnswer` needs, beside `IInv`, that an answer
  of the current request is on the wire only where no further answer can be started.
  The next two rest on `SocketInv`, where control may be once the socket is not open, and
  `ShieldInv`, where the coroutine is shielded. `LastIsLast` rests on `FinalInv`: wherever
  a further answer may start, every answer so far left the connection usable; and on
  `WriteInv`: however a write fails, what follows it is the end of the connection.
  `NothingDropped` follows from `ReportInv`: until there is a shutdown, wherever the
  session has done with a request it was answered, handed to a raw handler, or its failure
  is on the way to the error handler. Its proof needs one fact per step, `SettlesStep`: a
  step starts an answer, or enters such a place with a failure, or moves among them.
* **`AsyncChannelProofs`**: `TypeCorrect`, `NobodyOversleeps`, `WaitersCorrect`, `NullMeansIt`,
  `ChannelIsStream`. The inductive invariant `IInv` is their conjunction with the
  ids' bound: a waiter's id is below `nextId`, a consumer is queued, once, exactly when its
  receive is `waiting`, and there are waiters only while no value is queued and the channel
  is open. The refinement shows every action to be the abstract one or a stutter:
  a push to a waiter is `PushTo`, its later completion changes nothing, and the
  delivery is `Receive`. `NullMeansIt` adds `SlotsInv`: a waiter's id is in the slot of its
  consumer and in no other, so a cancellation handler that outlived its receive finds nobody.
* **`ServerProofs`**: `TypeCorrect`, `EveryEmissionArrives`, `OneLateConnection`. `Pool` ties
  the pool to control (who is registered, who has a handler), `Delivered` follows an
  emission from the copy over the queue to the strand, and `Lateness` says that a
  cancelled acceptor which already spawned its late connection is past the place where
  it could spawn another.
* **`ContextStoreProofs`**: `TypeCorrect`, `LockExcludes`, `NoHandOverLost`,
  `FirstComeFirstServed`, `SweepSparesRunning`, `KeysExclude`, `OnlyIdleIsSwept`. `LockInv` says who is in a queue (`Queues`:
  those that wait for that entry, each once), that a free lock is unwanted, and that
  `in_flight_` is one exactly while a request runs with the entry (`Counts`, which needs
  exclusion). `Room` bounds the entries made by those still reserved.
  The other three rest on `StoreInv`: a lock that
  is not free has an owner (`Owned`) and whoever waits is in its queue (`Queued`); an entry
  was made for one key (`Keyed`); and the store's mutex is held by whoever is in the middle of an
  operation (`Held`). `TimelyInv` says more of a timely setting: clocks that were read are
  right (`Current`), the stamp says when the entry was last used (`Stamped`), a
  request that is at a lock but not counted has just been stamped (`Fresh`), and what the holder
  of the mutex found expired still is when it removes it (`DoomedIdle`), although requests resume
  and release in between; the lemma behind that is `AtLockIsLive`: an entry somebody is at the lock
  of, or works with, is not idle. `SweepSparesRunning` is
  read off `DoomedIdle`: what a sweep or a look-up drops was doomed (`DroppedWasDoomed`), and what
  is in use is not idle. It is the part of "entries that are locked are never swept"
  that is true of the code. In a calm setting the map still holds the entry of any
  request at a lock (`Mapped`); then two requests at a lock for one key are at the same entry's
  lock, and `LockExcludes` ends the proof of `KeysExclude`.
* **`BodiesProofs`**, bodies written: `GeneratorTypes`, `ValuesInOrder`, `FailuresArrive`, `WaiterIsHeldOnce`,
  `DestroyedStays`, and `HeaderIsFinal` for the chunked response. The inductive invariant
  `GenInv` is stated of the frames `F`, so that it can be used in the middle of a step, too.
  `Standing`: the frames that exist are a chain, each the inner one of the one below
  (`Nested`), and all exist only as long as the session stays (`Rooted`); nothing moves in
  a frame that is not born, and a destroyed one has nothing left to be reached by
  (`Gone`); a driver works for a frame that waits (`Driven`); a body that is suspended has a
  handler exactly when it awaits (`Settled`); whoever waits is held somewhere (`HeldIn`);
  and control is at one frame at most (`OneBusy`). `Values`: what is on its way is the last
  value made, and all others were taken, in order. `Failures`: an exception that escaped is
  on its way to the session, at some frame, until the session has it. A step of the code may
  run through several frames - a completion resumes a driver, whose end resumes the outer
  body, which yields - so the proof has a predicate for each place control can be in
  (`Paused`, `Running`, `Asked`, `Giving`) and a lemma for each stretch between two
  (`RunKeeps`, `NextKeeps`, `GiveKeeps`, `DropKeeps`, `LeftKeeps`), and each action is
  put together from these. `ChunkedRefines` shows a chunked response to be a generator that
  says more, so that all of this holds for it; `HeaderInv` adds that,
  while the session waits, a header that was written is followed by data only: a value or an
  inner generator was yielded, after which the body may not yield metadata.
* **`BodiesProofs`**, bodies read: `FormsAreRead`, `DataIsAlwaysTheBodys`, `EndsAsTheBodyAlways`. The
  first is the inductive invariant `FormInv`, which compares the scanner with the grammar
  (`Meaning`) at the place it has reached. `BufferInv`: the buffer is a window of the body
  (`Windows`), so that what is found in it is the next one of its kind in the body (`FoundAhead`), and
  what is not found does not begin in what was read (`NotFoundAhead`); that is what `Hold` and
  `KeptFrom` must be large enough for. `ScannerInv` says per state what is left: between two parts,
  that the body means the parts handed on and those the grammar finds from here on (`Ahead`);
  within a part, where its data began and that no delimiter has begun since (`InPart`).
  `CurrentInv`: what the program has of the open part and what the reader still holds for it is,
  together, the body from there to where the scanner is; and all of the part once that is done. So
  a call that hands on only some of it, or none, loses nothing (`HandedOn`). The grammar is a
  recursive function, which is shown to exist and to have its values before it is used (`Recurs`,
  `FromIs`). There is one lemma per state of the scanner (`PreambleStep`, ..., `DataStep`), one for a
  read (`RefillStep`) and one per call. Both theorems hold for pieces of any size, empty ones included; that
  a well-formed body may be called malformed after an empty read (`CutShort`) is part of the second.
* **`McpSessionProofs`**: `TypeCorrect`, `ReceivedInOrderOnce`, `ResumedWithoutLoss`. The invariant
  `EventInv` follows every event from the queue to the client. `QueueInv`: the history is the
  end of the sequence of all events, and so is the mailbox while it is open.
  `StreamInv`: what a stream holds is older than its replay, that older than the mailbox,
  and all of it newer than what the client received; the first theorem needs no more.
  `TakenInv` and `UntakenInv` say where the events are that the client did not receive:
  waived, trimmed, on the living stream, or still queued. A stream that broke unnoticed
  carries nothing (`alive` is false), so that its loss is found by the replay of the next
  one.
* **`McpTransportProofs`**: `TypeCorrect`, `AnsweredBeforeReturn`, `CancelledStaysSilent`, and
  `RequestsGetAnswers` of `McpHttp`. For `McpStdio`, `IInv`: types
  (`ShapeInv`), the lock's holder is the call that is in `dispatch()` (`Holding`), the counter counts the
  calls that did not count themselves down (`Counting`), every line has one call and one reply
  at most (`LinesInv`, `OnceInv`), only calls that ended were answered (`RightInv`, `ToldInv`),
  and, on one thread, with what they may be answered with, the reader goes on only when
  all calls are over (`EndInv`) and a call that is over has sent its answer
  (`AnsweredInv`). `CancelledStaysSilent` is about one thread, too: on several the mark may come
  after the look (section 4). A call that throws stays counted for ever, which is why the reader then
  never returns (`StdioReturnsAlways` above) and the theorem needs no condition for it.
  `TypeCorrect` says more than types: a lock has at most one holder, and the counter is right.
  `McpHttp` is in the same module, because it answers with the same dispatch and one lemma
  about replies (`CallReplies`) serves both. Its `HttpInv`: a session id is given to one client and never again (`SessionsInv`); a call is in
  the session of the client that sent it (`OwnSession`), so that a cancellation under a session's
  id reaches only calls of whoever asked; and what was acknowledged without an answer was
  cancelled or expects none (`SilentWhenCancelled`). The lock plays no part in it, nor whether
  the session still exists. A stateless endpoint has no such invariant: see `mcp_stateless`.
* **`StaticFilesProofs`**: `FilesInv` (the inductive invariant itself), `AnswersAreFresh`,
  `TagsAreNotAhead`, `CoalescedRanges`, `AnswersAreWhole`. `IInv` speaks of the directory, the caches and the threads.
  `DirectoryInv`: an inode has one name and a stamp one content (`DirectoryShape`), and the content
  of an original is not superseded, while a sibling in place was made from it or is older
  (`OriginalsCurrent`). A cached or remembered piece of metadata is `Known` as of the time the clock was
  read: it was current then, and whatever is in the file now `Follows` it. The bytes in a
  content entry follow the stamp they are filed under (`ContentEntry`). Of a thread,
  `StageInv` says per stage of `serve` what it holds (siblings found so far, an opened handle),
  and `AnswerInv` what was sent. The argument has three layers. `Later` says what any
  step may do to the directory: stamps are only added, and a file moves on to newer ones;
  `StepIsLater` shows it of every step, since each change of another program
  `Rewrites` one file at most. Whatever is known survives `Later` (`LaterKnown`,
  `LaterEntries`, `LaterThread`), so a thread is not disturbed by what others do. Then there is one
  lemma for each step of a thread (`LookupStep`, `StampStep`, ...), of which only the sender's
  own record matters. Freshness and order are then read off `AnswerInv`. Clocks that were read
  before the mutex was taken, and entries written after a file changed, are covered: the
  age is counted from the reading.
  `AnswersAreWhole` is `SentWhole`, with a second invariant on top (`SendsInv`): of a file that is open
  and being sent, the bytes left and the bytes sent are together those asked for, and what
  was sent is of the content the inode had when it was opened, unless the inode has another
  one by now (`Unmixed`, which survives `Later` because a new content has a stamp no file was
  opened with). It begins when the file is opened, and there it is a fact about data
  (`OffsetsAreWanted`): the offsets that are put down are as many as the bytes the request's ranges
  cover, whatever their order and overlap. That is proved along the code of `coalesce_ranges`.
  Any ranges can be put in the order of their first bytes (`CanBeOrdered`); merging keeps the bytes
  covered and the ranges done apart from each other (`MergeIs`), so the result covers the same bytes in
  ranges that neither overlap nor adjoin (`CoalescedRanges`); the offsets of such ranges ascend
  strictly (`RisingOn`), so each occurs once, and are as many as the bytes (`RisingCounts`).
  The inductions are over sets of numbers (`SetInduction`, from the least number of a nonempty set), and
  a recursive function is shown to exist before it is used (`Iterates`).

Only model-checked: every liveness property (`SilentClientDropped`, `ShutdownEnds`,
`ToldLeave`, `Served`, `CloseEnds`, `CancellationReaches`, `RequestsEnd`, `StreamEnds`,
`PostsEnd`, `StdioReturns`, `CallsReturn`), because fairness and ENABLED are out of the
prover's reach; the properties of `Routing`, whose module recurses over data with RECURSIVE operators
(templates, expressions), which cannot be proved about with the installed backends.

## 6. Plan

The parts of the plan that were modelled are described above. What is left, most
valuable first:

1. Proofs: what of `Routing` does not rest on recursion over data, such as
   the choice of the first route that fits given what fits.
2. The relay of notifications over stdio, and batches of the JSON-RPC endpoint's own HTTP
   handler.
3. Plain slots of `cancellation_signals`, with the reuse of a signal that has no handler.

## 7. Not modelled

* HTTPS as a module of its own: it differs from the HTTP session in the handshake, which
  `Server` has, and in `close_notify`.
* Character-level parsers and formatters (dates, cookies' text, MIME tables, base64, CORS
  headers, JSON schemas, the text of the API document and of directory listings), query and
  fragment templates, and the template metaprogramming that binds parameters
  (`handler/rest*.hpp`, `jsonrpc/bind.hpp`, `mcp/arg.hpp`): no state that outlives a call, and
  no interleaving. Whether an argument is found and fits is modelled.
* Of MCP: registration while serving, capabilities, the contents of the requests to the
  client (sampling, elicitation, roots), progress, pagination beyond a bad cursor.
* Of a session: headers set by the user that override `Connection`, and what a raw handler
  does with the stream it takes over.
* Of static files: links that change while they are followed; an in-place rewrite is one step.
* Moving a generator: its handle changes owner, the frame and what refers to it do not.
* Asio, Beast, TLS, the operating system's files and timers are external: they appear as the
  nondeterministic outcome of an operation, with the cancellation rule above.

# A verification development for arri

arri is an RPC framework: server libraries for TypeScript and Go describe their
procedures in an *app definition*, a CLI runs code generators over it, and client
libraries for TypeScript, Dart, Rust, Swift and Kotlin call the procedures over
HTTP and read their event streams (server sent events). This directory holds TLA+
modules of the parts of it that keep state across callbacks, goroutines, processes
and connections, and of the codecs whose ends have to agree on what a message
means, the TLC configurations that check them on small instances, and TLAPS proofs
of what matters most for every value of the constants.

Line numbers refer to `src/` of the repository. `PROJECT.json` lists the
components, the runs, the mutants that each property was seen to catch, the lines
each definition stands for, the hazards of the code and the theorems.

Contents: [the system](#1-the-system), [the modules](#2-the-modules),
[the runs](#3-the-runs), [what the code does not keep](#4-what-the-code-does-not-keep),
[the proofs](#5-the-proofs), [the plan](#6-the-plan),
[what is not modelled](#7-what-is-not-modelled), [running](#8-running-it).

## 1. The system

### Parts, their state and their operations

| Part | State it keeps | Operations |
| --- | --- | --- |
| Dart `EventSource` (`languages/dart/dart-client/lib/sse.dart`) | suspended calls of `_connect`, the tracked subscription, retry and heartbeat timers, `_retryCount`, `_closedByClient`, `lastEventId` | constructor, `_connect`, the three stream callbacks, `_handleError`, `_resetHeartbeatCheck`, `close`, `reconnect` |
| Go event streams (`languages/go/go-server/procedures_sse.go`) | a controller per request (`headersSent`, ticker, context), the response's buffer, a heartbeat goroutine | `Init`, `Push`, `Close`, `SetHeartbeat…`, the request pipeline around them |
| TypeScript event streams (`languages/ts/ts-server/src/eventStreamRpc.ts`) | an `EventStreamConnection` per request: stream writer, interval, `_isClosed`, callbacks | `send`, `push`, `close`, `onClosed`, the handler, `handleH3Error` |
| Go RPC and app (`procedures.go`, `app.go`) | none across requests; the registries of procedures and definitions | `Rpc`, `RegisterDef`, `GetAppDefinition`, `Run`, three request handlers |
| TypeScript RPC, routes and app (`rpc.ts`, `route.ts`, `app.ts`) | the registries; `useJitCompiler`, shared by the module | `rpc`, `route`, `use`, `registerDefinitions`, request handlers |
| TypeScript client (`languages/ts/ts-client/src/sse.ts`, `request.ts`) | a heartbeat interval and its duration, beside the state of the external event-source-plus | `arriSseRequest`, `arriRequest` |
| Rust client (`languages/rust/rust-client/src/sse.rs`) | retry count and interval, pending text | `listen`, `send_request`, the parser |
| Swift client (`ArriClient.swift`) | retry count and interval, `cancelled`, `lastEventId`, `pendingData` | `sendRequest`, `handleRetry`, `cancel`, the parser |
| Kotlin client (text in `languages/kotlin/kotlin-codegen/src/_index.ts`) | one nested frame per reconnection, `lastId`, back-off | `__handleSseRequest`, the parser |
| CLI dev servers (`tooling/cli/src/serverConfigs/goServer.ts`, `tsServer.ts`) | the held server process, watchers, the last definition | `devFn`, watch handlers, generator runs |
| CLI commands (`tooling/cli/src/commands`) | none, but for `codegen --watch` | build, codegen, dev, init, list, use, version |
| Schema library (`languages/ts/ts-schema`) | per schema: closures, or compiled functions; the context of a walk | validate, parse, coerce, serialize |
| Go definitions and codecs (`type_def.go`, `encode_json.go`, `decode_json.go`, `decode_url_query.go`) | the context of a walk: depth, enum values, key casing | `ToTypeDef`, `EncodeJSON`, `DecodeJSON`, `DecodeQueryParams` |
| Code generators (`languages/*/…-codegen`) | none; the *models* they write are read, written and turned into queries | read, write and query code of each schema form in five languages |

### How they interact

- An application's procedure is handed a stream object by the server library, and
  calls it whenever it likes; timers (TypeScript) or a goroutine (Go) write
  heartbeats to the same response meanwhile; the connection may be dropped by the
  client at any point and is noticed through a callback or a context.
- A client reads the response of a stream in chunks, remembers the last event id,
  and reconnects when the body ends, the request fails, or nothing arrives for the
  time announced in the `heartbeat-interval` header; the application may close it
  from inside any hook the client calls.
- A Go server publishes a definition of its types, from which the code of its peers
  is made; each end reads and writes by rules of its own, which have to agree. A
  TypeScript server does so by the closures of a schema or by compiled code.
- The CLI watches source files, restarts the server process, which writes the
  definition file as it starts, and watches that file to run the generators.

### What is hard

Nothing here takes locks, and only the Go server has threads. The difficulty is in
what may happen between two pieces of one operation: at an `await`, between a
timer's start and its firing, between a process's exit and the callback that
reports it, between two accesses of an unlocked buffer. A list of those places, at
their lines, is in `PROJECT.json` under `hazards`, with the properties that watch
them, or why none does.

### What makes each part correct

- *Dart source*: while nobody closed it, something is under way that will read
  events again; it has one connection, and one more only where two callbacks asked
  for one at once; it resumes after the last event it delivered; the retry limit is a
  limit; once closed it comes to rest.
- *Event streams of both servers*: what the procedure hands over arrives once, in
  order; an error response is nothing but the error; results of `push` are true;
  nothing (timer, goroutine, ticker) outlives the stream; the close callbacks run.
- *Dev servers*: every change leads to a server, a definition and clients of the
  latest sources; no restart hangs; no server process gets out of hand.
- *Request pipelines*: what is listed is served; one response per request, whose
  status is that of its body.
- *Parsers*: the events read do not depend on how the body was split.
- *Client loops*: a stop stops, an outage is not hammered, the stream resumes where
  it was, and a source that gives up or is cancelled ends.
- *Codecs*: what one end writes the other reads, as the same value; what the
  definition refuses is refused; a value comes back as it was.

## 2. The modules

| Module | Models | Its form |
| --- | --- | --- |
| `DartEventSource` | `class EventSource` of `sse.dart` | slots hold concurrent calls of `_connect`; one action per piece of code between two suspensions |
| `EventStream` | what a stream promises to the code that pushes | abstract: accepted, delivered, connection up |
| `GoSse` | one request to a Go event stream procedure | two goroutines over one buffer; implements `EventStream` when no heartbeat falls due |
| `TsEventStream` | one request to a TypeScript event stream procedure | one action per event-loop callback |
| `GoDevServer` | `devFn` of `goServer.ts`, with the server process as far as it writes the definition file and takes the port (`app.go`) | CLI loop, processes, generators and editor interleaved |
| `TsDevServer` | `startDevServer` of `tsServer.ts` | overlapping watch handlers over one entry file, one build, one bundle and one served app |
| `EventSources` | the loops of the Rust, Swift and Kotlin event sources | one action per request, chunk, end and exception |
| `SseParsers` | the parsers of the Dart, Kotlin, Rust and Swift clients with the decoding of chunks | a step per line or character, folded over a text that any cut of a stream feeds |
| `GoRpc`, `TsRpc`, `RpcServers` | registration and request handling of the two servers; both beside each other | a row of stages per kind of handler |
| `JsData` | values, landmarks of the integer types, schemas, JSON text | data |
| `TsSchema`, `TsCompiled`, `SchemaOps` | the closures of a schema; the code its compiler writes; a message that goes through either | recursive operators; a state machine of read, check, write, read |
| `GoTypes`, `GoCodec`, `GoWire` | Go types and the definition made of them; the JSON and query codecs; a Go server and a TypeScript peer | the same |
| `ClientData`, `TsClientCodec`, `DartClientCodec`, `RustClientCodec`, `SwiftClientCodec`, `KotlinClientCodec`, `ReferenceModels`, `ClientWire` | the models the generators write; the models of the reference client; a value that goes round between clients and a server | the same |
| `Subsequence`, `Maps` | what is kept of a sequence; a map with one key set | operators the provers can expand, in place of `SelectSeq` and `@@` |
| `MC…` | small instances for TLC; `MCClients` puts two modules beside each other | constants |
| `…_proofs` | TLAPS proofs about the modules they extend; `ClientStreams_proofs` about `EventSources` and `SseParsers` | |
| `SequenceFacts` | induction over numbers and over sequences, folds, least and greatest members, facts about `Subsequence` | lemmas the proofs share |

`RpcServers` is both servers' applications, `MCClients` the loops and the parsers: a
behaviour is of one of the two, which the initial state chooses.

Each mutant the runs were tried against is an operator next to the definition it
changes, marked as a mutant; no specification uses it.

### `DartEventSource`

A *slot* is one call of `_connect` or the subscription it left behind: nothing in
the code ties two calls together, so several may exist. `attempt[s]` says where it
is suspended: awaiting the headers callback (`headers`), cancelling the previous
subscription (`cancelling`), awaiting the response (`sending`), reading an error
body (`errorBody`), listening (`live`). `requestStream` is the slot the field
`_requestStream` refers to: `close` and the next `_connect` cancel only that one.
`HandleEvent` is one turn of the loop over the events of a chunk, a step of its own
because hooks run inside; while `loop` is not empty nothing else runs.
`HookMayClose` stands for a hook that calls `close()`.

`overlaps` is a history variable. `Work` counts what will ask for a stream: the calls
of `_connect` that have none yet (`Calls`) and the pending retry timers. Whenever a
callback adds to it while there is some, two callbacks that know nothing of each other
want a stream, and `NoteOverlap` counts that. `Connections` are the requests sent and
the responses being read. `SingleConnection` and `RetryBudget` say what an overlap
costs, and that nothing else costs anything. The count saturates at `OverlapCap`, a
bound of the model, where both stop speaking.

External: `package:http` (a request is answered, fails or hangs; a body ends, errs,
or goes on), the event loop. Left out: durations (a pending timer may fire), data of
events (kinds and ids only), the parser (a chunk *is* a sequence of events).

### `EventStream` and `GoSse`

`Check` is the list of early returns of `eventStreamRpc`'s handler; `stage` moves
through them into the procedure, which makes up to `MaxCalls` calls and returns a
value or an error, then `onAfterResponse`, then net/http's flush. `Fprintf` and
`Flush` on the response writer are not atomic and the heartbeat goroutine makes the
same calls without a lock, so each is a queue (`todo`) of accesses to the
`bufio.Writer` - copy, advance, send, reset - that the two goroutines interleave.
This is a data race in Go; the accesses are those of the standard library's code,
one frame to a cell. A goroutine that is still writing after the handler has
returned does so on a buffer the server has taken back (`StrayAccess`). `select` of
the heartbeat goroutine picks any ready case (`BeatTick`, `BeatDone`).

`EventStream` promises: frames reach the connection once and in order, and are not
withheld while it is up. The refinement maps `delivered` to `wire` and `up` to
`~clientGone`.

### `TsEventStream`

h3's request handler, the `EventStreamConnection`, and `handleH3Error`. A step is a
callback with its microtasks; between two, the procedure is waiting for something of
its own, and the client may drop the connection (`ResCloses`). `DropsFrom` says from
where on it may: from the `checks` on, or from the call of the procedure (`handler`),
so before `send()`, during the stream or after it. The procedure is assumed to follow the comment on `send()`: `send` first, once.

### `GoDevServer`

The CLI is an event loop; `HandleChange` and `Resume` are the watch handler before
and after `await closeChildProcess()`. `pending` counts the handlers begun and not
ended, `runnable` those whose await has settled; no event is taken before the
runnable ones are done, since they are microtasks. A server is a record: the edition
of the sources it was built from, its stage, whether it was told to exit, whether it
still has the listeners of `spawnProcess()`, and how many handlers listen for its
exit. `NoticeExit` is the `exit` and `close` events of one process: Node emits both
in one callback when the standard streams are inherited. Editing, processes and
generators step between any two pieces, also during the synchronous build, which is
why two handlers resumed by one exit may build different editions. `overlaps` is a history variable. One generator
stands for all: each writes a client of its own.

External: the editor, the operating system, the generators. Left out: `addDir`
events (nothing happens), spawn errors, a definition file read half written (the
file is read empty or whole), `buildFn` (a sequence of synchronous commands).

### `TsDevServer`

`handler` lists the watch handlers, the first being the start of the command; each
moves through the awaits of `createAppWithRoutesModule` (`glob`, `truncate`,
`write`), the build (`rebuild`), the import and the exchange of the app (`import`,
`swap`) and the generators (`generate`, `generated`). The entry file and the bundle
are written in two steps: a file being written is `Torn`. `disturbed` and `crossed`
are history: the last handler was not alone; reloads overlapped or a generator
failed. The properties are of behaviours without them; with them the code does not
keep what one expects, see section 4.

External: esbuild, whose `rebuild()` joins the build that is under way; the watcher,
which announces saves from the moment the start is done; `Date.now()` differs
between two reloads, so that an import is never that of an older bundle.

### `EventSources` and `SseParsers`

`EventSources` takes what a chunk holds as given: a sequence of events a user may
stop in, named or not, and `done`. `phase` is where the source waits; `level` counts
how often the delay has grown. The Kotlin source calls itself for each reconnection,
inside the block that reads the response it replaces or inside the handler of that
block's exception; `stack` holds those calls with the delay and the id each of them
was given, since an exception of an inner one makes an outer one start over with its
own. `escaped` is history: the user stopped where the code does not look.

`SseParsers` finds the events. The wire is a sequence of symbols: line ends, field
names, words and the two bytes of one longer character. A chunk ends anywhere,
also inside that character or between the two characters of a line end. A client
decodes, puts the text behind what it kept, parses and keeps a rest. The properties
are of the *whole* stream: the events found are those sent, for every cut but the
ones `Safe` names for each language. `LineStep` is one turn of the loop over lines (Dart,
Kotlin), `CharStep` one of the loop over characters (Rust, Swift); `Parsed` and
`Scanned` are the loops, functions of how far they have come.

What a stream may be is `WellFormed`, which the module assumes of every member of
`Streams` (`StreamsAssumption`): a block after the other, each of lines that begin with
the name of a field and one empty line at its end, and with it the event that its
fields say, said without any parser (`SaysEvent`). The servers write no other: an event
is a few fields, each on a line of its own (`procedures_sse.go:89`, 106, 118, 128; h3 for
`eventStreamRpc.ts`), and the JSON of the data holds no line end. That an id or an event name is not empty is
assumed as well; the Swift client takes an empty one for none.

External: the HTTP libraries, the delays, and in the TypeScript client the package
event-source-plus.

### `GoRpc` and `TsRpc`

An application is registered in any order - procedures with one name, one path, one
name for two models - then requests come. `Stages` is the row of hooks, checks and
writes of a handler; `Pass` and `FailStage` take one of them, the application's hooks
being free to fail or, in TypeScript, to answer by themselves. A TypeScript route with
schemas (`Validates`) is mounted as one that checks its input, a path that nothing is
mounted at goes to the fallback, whose status is 404 before its hook is asked. `RpcServers` puts the two
servers side by side and states their properties. `HandleError` and
`HandleH3Error` are the error handlers with the code that may run after something was
sent. Left out: CORS, logs, web sockets, the sockets the servers listen on.

### The codecs

A value is a tagged record; a number is a *landmark*, one of the values at the edges
of the integer types, a fraction, NaN or infinity, or `rounded`, whatever other number a
32-bit float makes of one it cannot hold; a text is a token or the JSON of a value. So a range check, a wrap or a lost sign shows, and
escapes do not. A schema
is a record of its form. `TsSchema` reads, coerces, validates and writes with the
closures; `TsCompiled` evaluates what the templates of `compiler/` write, over the
expressions of the text (a variable that is shadowed or not declared shows). The
closures carry the depth and stop at `DepthLimit`, 500 in the code; the compiled code
has no limit and is compared with closures whose limit no input reaches
(`Bottomless`), and those with the limited ones.
`GoCodec` threads the context that the Go code changes in place: depth (an unsigned
counter, modulo `DepthSpan`), the enum values in force, the casing. The five client
codecs are the read, write and query code that the generators write for a schema; a
client's value has `JsData`'s form whatever its language, and `Thrown` is an exception.
`Single` is what Rust, Swift and Kotlin make of a number in a `float32`.

`SchemaOps`, `GoWire` and `ClientWire` put ends together: every step of a message may
be taken by either of two readers or writers, and the properties say what survives.
The definitions recurse over schemas and values with `RECURSIVE` operators; no
theorem is about them.

## 3. The runs

Every run finishes in well under five minutes on two cores. `CHECK_DEADLOCK FALSE`
is set throughout: a closed source, a finished request, a dev server at rest stop.

| Run | Checks | Bounds |
| --- | --- | --- |
| `dart_full` | `TypeOK`, `NeverStranded`, `ResumesFromLatest`, `ClosedComesToRest`, `KeepsReconnecting` | two slots, two ids, chunks with messages, raw events and `done` in all positions, limit 1, heartbeats, body errors, `reconnect()`, late bytes |
| `dart_retries` | `SingleConnection`, `RetryBudget` | four slots, limit 2, heartbeats, body errors, late bytes, a headers callback that may throw; no `reconnect()`, no ids; overlaps counted up to 3 |
| `go_sse_beats` | `ErrorResponseIsPure`, `HeartbeatGoroutineEnds` | one message, two calls, a ticking heartbeat, the racing buffer with three cells |
| `go_sse_quiet` | `KeepsThePromise` | three messages (one not encodable), four calls, no tick falls due |
| `ts_stream_drops` | `WireWellFormed`, `PushesAreHonest`, `HeartbeatStops`, `ClosedCallbacksFire`, `AnsweredComesToRest` | batches of valid, invalid and mixed items, two pushes, two heartbeats, drops at any time from the call of the procedure on |
| `go_dev` | `NoHandlerForgotten`, `NoOrphan`, `FreshAtRest`, `ComesToRest` | four editions, one that does not compile, two definitions, one crash, files left from a former session |
| `ts_dev` | `FreshAtRest`, `ClientFollows`, `ComesToRest` | five editions: a procedure file is added, registered, a mistake is made, the file is removed |
| `clients` | `StopsAtOnce`, `SparesTheServer`, `GoesBackNoFurther`, `ComesToAnEnd` of the loops, `FindsWhatWasSent`, `KeepsAPart` of the parsers | limit 4, patience 2, three levels of delay, two ids, five nested calls; streams of two or three events with each kind of line end, in up to three chunks |
| `handlers` | `ListedIsServed`, `OneAnswer` | four Go functions, three TypeScript procedures with clashing names, paths and models, two routes with schemas; fifteen requests, of every mount, with good and bad input, and of unknown paths |
| `schema_wire` | `CompiledAgrees`, `RoundTrip` | every scalar, plain and nullable, thirty compound schemas, each with values at the edges of each type and deeper than the limit, which is 3 here (500 in the code) |
| `go_wire` | `PeersRead`, `ReadersAgree`, `GoRoundTrip` | types of every kind, three casings, both outcomes of the machine's conversion of negative numbers; depth 6 of a counter modulo 32 |
| `client_wire` | `ReadsAnyAnswer`, `ModelIsTaken`, `BodyKeeps`, `QueryKeeps` | five languages, the models of the reference client and some it lacks; of each a good document and that with each part missing, null or replaced |

What they show, each in a sentence:

- `dart_full`, `dart_retries`: an open Dart source always has something under way and,
  if the server answers in the end, gets through; a lone request resumes after the
  last event; with heartbeats that run out, bodies that fail and callbacks that throw,
  a second connection or a retry too many needs an overlap of its own.
- `go_sse_*`: an error response stands alone and no goroutine outlives its request,
  even with both goroutines in one buffer; while no heartbeat falls due the stream
  implements `EventStream`.
- `ts_stream_drops`: what a client sees is one error or one well-formed stream, with
  the results of `push` true, its callbacks run and, if it was sent anything, its timer
  stopped, whenever the connection was dropped.
- `go_dev`, `ts_dev`: no handler hangs; a handler that was alone leaves the latest
  sources served; the clients are of the served app as long as reloads do not overlap.
- `clients`: where the code looks for a stop, nothing is called after it; retries and
  delays are bounded as the options say; an exception takes the Kotlin source back to
  an outer call's id and no further; whatever the cut, apart
  from those named, no event is lost, doubled, torn or left in the kept text.
- `handlers`: of both servers, a request that ends has one answer, under its status
  (404 for an unknown path), and the definition tells the truth about paths, methods
  and models.
- `schema_wire`, `go_wire`, `client_wire`: the readers and writers of one message
  agree, outside the differences that the properties name one by one (section 4).

Why the bounds are enough: the defects these properties are about need two actors of
a kind (two calls of `_connect`, two handlers, two goroutines), one object left over
from before, and one event in between; two slots, four editions (a running server,
two overlapping changes, a change after them) and two calls give each of those. In
`dart_retries` four slots, of which the pending timers keep one each, leave room for two
overlaps and for the connection beyond them that the code must not open.
Counters that only grow (`retryCount` above its limit, calls, pushes, beats, crashes)
are capped by named constants in the guards. In `clients`, the limit 4 lies above the
patience 2, so that delays begin before the retries end, and five nested Kotlin calls
leave an exception an outer call of each kind to be caught by; three chunks give two
cuts, one in an event and one in the next, and a defect of a parser is about one cut
and what it left behind. A codec walks its schema, so one schema of each form, one
nested in each other that the code treats differently, and landmarks on both sides of
each limit meet every branch; deeper nesting repeats them, but for the Go depth
counter, which has a bound of its own small enough to be passed.

### Fairness

- `DartEventSource`: callbacks that are due run, timers fire, and a request is
  answered or fails - for the body of an error response this assumes that it ends,
  since the code reads it without a timeout. The sockets of a *closed* HTTP client
  end (strong fairness of `StreamEnds` only then: `close` of the client is forced).
  Nothing is assumed of an open stream or of the application. `KeepsReconnecting`
  has its premise in the property: `ServerUp`, a server that does not refuse for ever.
- `GoSse`: goroutines keep running (weak fairness of each one's steps, and of what
  net/http does when a handler returns); strong fairness of `BeatDone`, because
  `select` chooses among ready cases at random. The procedure may never return.
- `TsEventStream`: a response that was ended is closed in the end. The procedure's
  promise may stay pending.
- `GoDevServer`: the loop does not idle with an event due; processes told to exit
  do, generators end. Nothing is assumed of the editor; crashes are not fair.
- `TsDevServer`: the promises the code awaits settle, which is to say that files can
  be written, builds and generators end. No save has to come.
- `EventSources`: the server answers or the connection breaks, and the runtime
  resumes a task that was cancelled or threw. The Kotlin source is under no fairness
  but that: it never gives up.

## 4. What the code does not keep

What one might expect and the code does not do. None of it is a run: where it
bears on a property, the property leaves it out by name or by its run's bounds, and
each exception named in a property of the `clients`, `handlers`, `ts_dev` and codec
runs is one without which TLC refutes it.

Event streams of the servers
- Go: a heartbeat and a `Push` race on the response's buffer; a message may be
  overwritten or sent twice while `Push` reports success (`procedures_sse.go:89`). The
  goroutine can write after `done`, and after its handler has returned: `select` may
  pick the tick. An error after the first event is JSON at the end of a 200 event
  stream (line 281). `SetHeartbeatEnabled(false)` has no effect after the first event.
- TypeScript: a connection dropped while the procedure awaits, before `send()`:
  `send()` then starts an interval that nobody clears (`eventStreamRpc.ts:128`). This is
  the one exception of `HeartbeatStops`: nothing was written to that client. The
  `onClosed` callbacks never run when it is dropped during the checks. The heartbeat
  header is sent although heartbeats are disabled.

Event sources of the clients
- Dart: after `close()` in `onMessage` the remaining messages of the same chunk are
  still delivered (`sse.dart:214`); `close()` may report twice; `reconnect()` after it
  uses an HTTP client that is closed for good; a headers callback that throws leaves
  the source stranded (line 169). With heartbeats or body errors two connections may
  be open, and stay open: `SingleConnection` allows one for each overlap, and TLC
  refutes it without that.
- Rust: a stop in an event without a name is not looked at (`sse.rs:273`); the delay is
  a busy wait (67) and is not reset by a success.
- Swift: the request is made with a second call of `headers()`, so `Last-Event-Id` is
  never sent (`ArriClient.swift:784`); one reconnection more than the maximum is made
  (909), without `onClose` at the end; `pendingData` outlives its connection (851).
- Kotlin: the source never gives up; a cancellation where it waits for the server is
  caught as a failure (`kotlin-codegen/src/_index.ts:702`), as is an exception of an
  error callback, which makes an *outer* call start over with an older id, and events
  are heard twice; `GoesBackNoFurther` bounds how far back.
- Parsers: Dart forgets a line break at the end of a chunk; Kotlin takes the empty text
  after it for an empty line, which ends the event early; Rust drops a chunk that is
  not UTF-8 by itself (`sse.rs:281`), parses only when a chunk ends in two line feeds
  (250), and cuts a text at a byte by an index of characters (399); Swift never finds
  an event in a stream with CR LF, and stops on two CRs at the end of its text.

Dev servers
- Go: two files saved at once restart the server twice on one exit; the process the
  CLI loses hold of may keep the port with old sources, and every later restart fails
  (`goServer.ts:97`). Overlapping generator runs may leave the older client.
- TypeScript: the same of handlers that overlap, for the served app as well; `add`
  events are ignored, so a new file counts from the next change; a definition counts
  as generated although a generator failed.

Requests
- Go: 200 is written before the response is encoded, an error of the encoding is a body
  under 200 (`procedures.go:190`); the definition's handler goes on after `onRequest`
  failed (`app.go:260`); functions of one name overwrite each other's listing.
- TypeScript: one procedure object under two names tells middleware the last of them;
  the first schema that does not compile turns the compiler off for good (`rpc.ts:384`).
  An event stream that says no method is listed under "get" (`rpc.ts:162`) and mounted
  under "post" (`eventStreamRpc.ts:229`); no route or second procedure is kept from
  taking a path that is taken. A hook that answers a request of an unknown path itself
  does so under 404 (`app.ts:142`).

Schemas and codecs
- `CompiledAgrees`: the compiled code does not limit 64 bit integers inside a document
  and takes any text for a date there; it knows a recursive schema only at the top; an
  inner record shadows the key of the outer one and cannot be written; an array of a
  recursive schema is read as `undefined`. Strict variants of a union are refused by
  the closures. `extend` stores `isStrict` as `isNullable` (`object.ts:528`). When a
  picked schema coerces, its closures parse the fields without coercion
  (`object.ts:354`; those of `omit` coerce, 444), the compiled code coerces them.
  The compiled code has no limit to the depth. Of the closures `parse` counts a
  reference as a level (`recursive.ts:90`), `coerce` and `serialize` do not: a
  recursive value near the limit is written and not read back.
- `PeersRead`, `ReadersAgree`, `GoRoundTrip`: the Go decoder raises the depth once for a
  list and lowers it for each element (`decode_json.go:561`); a nil slice is never
  left (`encode_json.go:348`); an error in a required field ends the object as it is,
  without its brace (253); a struct without fields cannot be written; a time is
  written with the letter Z whatever its zone (173); fractions are cut; the query
  decoder ignores the tag `key`; a missing pointer is nil.
- `ReadsAnyAnswer` … `QueryKeeps`: in Dart and Kotlin a text that is no date throws, in
  TypeScript and Dart one that is no large integer; a TypeScript record of records
  throws (`record.ts:57`); the TypeScript `INT64_MIN` lacks its sign
  (`request.ts:202`); null in an optional field is lost but in TypeScript; a
  nullable timestamp that is null is "undefined" in a TypeScript query; a camel cased
  union key does not match; Rust reads the optional fields of a variant as required
  ones, invents them and leaves them out of a query
  (`rust-codegen/src/discriminator.ts:156`); Dart, Kotlin and Rust do not encode query
  values; the text `null` of a nullable string in a query is null. Rust, Swift and
  Kotlin round a `float32`, which a TypeScript server answers with as a double, and send
  the rounded number back; beyond the range it is an infinity, which Rust and Swift
  cannot put into a body and Kotlin writes into the query, so that the server's own
  answer is no JSON. Dart reads a number in the place of a date as milliseconds and
  throws where there are too many (`parsing.dart:132`). A union whose key is not in camel
  case is invalid for the generated `Validate` and cannot be sent by a TypeScript client
  (`ts-codegen/src/discriminator.ts:97`).

## 5. The proofs

TLAPS checks every obligation with Z3, Zenon and LS4. No theorem assumes more than
the `ASSUME`s of the module, which TLC evaluates for every instance, and what is
written in the statement.

`DartEventSource_proofs`
- `TypeCorrect`: `TypeOK` is inductive as it stands.
- `NeverStrandedCorrect`, if the headers callback does not throw: inductive together
  with `TypeOK`. The step lemma goes through the actions: a slot becomes idle only
  in a step that closes the source, starts a timer, or belongs to a call that took
  over. With a callback that throws the statement is false: `_connect` awaits it
  outside its `try`.
- `ResumesFromLatestCorrect`, under the same condition. That the id of the request is
  the latest is no invariant while calls overlap; `ResumeInv` says instead that
  whoever asks with an older id is not alone (`BehindIsNotAlone`), and that the events
  of a chunk are handed over while their stream lives (`LoopIsLive`).
- `SingleConnectionCorrect`, for any environment: heartbeats, body errors,
  `reconnect()` and callbacks that throw. `SingleConnection` is not inductive, since a
  connection is opened long after it was asked for. `OverlapInv` is a balance: `Surplus`,
  the streams nobody will cancel (those `_requestStream` has forgotten and, once a call
  is past its cancellation, the one it holds), and `Work` beyond the first call or timer
  are each paid for by an overlap. Almost every action keeps the balance by moving work
  along (`NoMoreWork`: a timer becomes a call, a call that fails becomes a timer) or by
  adding one and counting it (`OneMoreWork`); a response that arrives turns a call into a
  stream.
- `RetryBudgetCorrect`, without `reconnect()`, which makes a call whose retries nobody
  counted: `RetryInv` adds that the retries counted and those planned keep to the limit
  and the overlaps together.

`TsEventStream_proofs`
- `HeartbeatStopsCorrect`, without condition: the invariant `TimerInv` says that the
  hooks exist before the stream is sent and that the stream knows whether its writer is
  open (`Hooked`), and that the only timer is the one `_cleanup()` knows (`OneTimer`). With
  `WireInv` a `send()` that comes too late writes nothing, so nothing is claimed of its
  timer; one that comes in time is followed by the `_cleanup()` of whatever ends it.
- `ClosedCallbacksCorrect`, if it is not dropped during the checks.
- `WireWellFormedCorrect`, without condition: `WireInv` relates what is on the wire to
  how far the request is, whether the stream was sent and who answered.
- `PushesAreHonestCorrect`, without condition: the number of items reported against
  the positions of the wire that hold one. `WriteKeepsWire` and `HonestWrite` say what
  one write adds, whether the writer keeps it or drops it.

`GoSse_proofs`, about both goroutines
- `ErrorResponseIsPureCorrect`, with heartbeats or without: `PureInv` - a status that is
  not set means that nothing was written yet (`Untouched`), an error's that the error is
  all there is: the heartbeat goroutine has no access left to make, and the handler's
  only those that write the error out (`Answered`).
- `StreamIsEventStream`, if no heartbeat falls due and every frame is recorded: each
  step maps to a step of `EventStream` or to a stutter. `Flow` gives the buffer for
  every access the handler has still to make (to copy, to advance, to send, to
  reset), `Beginning` says that the wire is the beginning of what was handed over.
  Together with TLC's check of the fairness this is `KeepsThePromise`. With heartbeats
  it is false (section 4), and `go_sse_beats` does not ask it.
- `WireIsBeginning`: what it comes to for the client.

`GoDevServer_proofs`, without any further assumption
- `NoHandlerForgottenCorrect`: every watch handler under way is runnable or listens
  to the process in `childProcess`, whose exit is still to be reported. The property
  alone does not survive an exit, which touches whatever `childProcess` holds by
  then. `HandlerInv` adds: the process held has its listeners and has not been
  reported (`HeldIsHeard`), one not held has no listener or is over
  (`LostIsSilent`), and while handlers are runnable nobody waits (`DrainedFirst`,
  the microtasks of the event loop). So an exit that finds a `close` listener is
  that of the process held, and removing all listeners removes no waiting handler.
- `NoOrphanCorrect`: without overlapping restarts every running server is held. It
  needs `OneRestart`: one handler is under way, and when it is runnable nothing is
  held any more.
- `FreshAtRestCorrect`: `RestInv` - a process told to exit is waited for, the one
  held is of the latest sources but for the changes still to come, and one runs as
  long as nothing crashed - and `FileInv`: while restarts do not overlap, the
  definition on disk is that of any server that has written it (`FileOfHeld`) and, once
  the watcher has seen it, the one the CLI remembers (`FileSeen`); from that one the
  client is made, unless generators overlapped (`ClientOfCache`).

`TsDevServer_proofs`, for any number of handlers that overlap
- `FreshAtRestCorrect`: `LastIsFresh` follows the handler of the last save through its
  stages: what it globbed, wrote, what the build it waits for has read and bundled,
  what it imported and serves is the latest, while it is undisturbed. It needs that
  a build goes on as long as somebody waits for it (`Joined`).
- `ClientFollowsCorrect`: `ClientInv`, by the stage of the one handler that reloads
  (`OneReload`, while reloads do not cross).

`ClientStreams_proofs`, about the loops of three languages at once
- `StopsAtOnceCorrect`, `SparesTheServerCorrect`: `SourceInv` adds to the properties that
  a late callback follows a stop, that an exception is under way only if the user
  threw it where Kotlin does not look or the task was cancelled (`Unwinding`), and that
  between two requests the failures are those the source itself counts, with the limits
  on both and no failure while a stream is read (`Counted`). `OutcomeFacts` is
  what a chunk comes to, for every chunk.
- `GoesBackNoFurtherCorrect`, without condition: the ids of the nested calls do not fall
  from an outer one to an inner one (`Nested`), and the source is never behind the innermost. An
  exception goes to some outer call and drops those inside it, which keeps that.

`ClientStreams_proofs`, about the parsers, for any well-formed streams of any number of
events, any line ends, any alphabet, and any cut into any number of chunks
- `FindsWhatWasSentCorrect`, `KeepsAPartCorrect`, for the four languages. Neither property is
  inductive: the next chunk is read behind the kept text, of which they say too
  little. The proof is about texts first. Reading a text (`EventsIn`, `FieldsIn`, `RestIn`,
  `LineIn`, `Returned`) is one step per character (`ReadingLonger`, `ReadingCloses`), and
  a text `Follows` another if it was cut off behind an event. Then
  - `Resume`: whatever is put behind two such texts, they follow each other as before,
    unless one ends with a carriage return and a line feed comes next;
  - `KeptIsKept`: the text that a parser keeps is one that the whole text follows. So
    parsing the kept text with a chunk behind it finds what reading on would (`ReadOn`);
  - `ScannedReads`: where there are no returns, the loops of Rust and Swift find what
    reading finds, and the index where they cut is where the kept text begins;
  - `LossySplits`: bytes decode piece by piece, if no piece begins inside a character;
  - `BlockReads`, `EventsAtEnds`: at each end of an event, reading has found the events
    up to it and keeps nothing (induction over the events); between two ends it has
    found those up to the first, keeps what came since, and has met no empty line
    (`AtPosition`).

  The invariant `ParserInv` says that in a `Safe` behaviour the client has not crashed,
  and by language (`AsSent`): Dart has found and kept what reading the bytes it has
  decoded gives, a held half of a character aside; Kotlin the same, or it is one line
  feed ahead (`Early`); Rust has found the events up to one and keeps all that follows, up
  to the last if it was prompted; Swift is always up to the last. One lemma per `…Feed`
  action (`DartFeeds`, `KotlinFeeds`, `RustFeeds`, `SwiftFeeds`) shows that a chunk keeps
  it, `InvIsCorrect` that it implies both properties. TLC, asked separately, finds
  `ParserInv` to hold on the instance of `clients`. Each premise of `Safe` is used by a
  lemma about the cut it excludes (section 4).

`RpcServers_proofs`, for any procedures, models, routes and requests
- `ListedIsServedCorrect`. Go: `GoMounts` ties a name in the listing to the function
  under its path, `GoResolves` the name of a model to its shape; both hold until the mux
  panics, and a panic is for good. TypeScript: `Sound` says the same of what calls of `rpc`
  made of an application, as long as they were not in each other's way; one more call
  keeps it (`RpcKeepsSound`), so does using a service, which is a call for every
  object it collected (`UseServiceKeeps`, by induction over them: `BuiltExists`), and a
  route that takes nobody's place. The theorem assumes that streams say their method,
  without which it is false (section 4).
- `OneAnswerCorrect`: `GoExchange` and `TsExchange` say for every stage of every row
  what was written before it; a stage that passes leaves what the next expects, one
  that fails ends the request with the one answer it has. Which of them answers under 404
  depends on the mount alone, which does not change while a request is served.

`SequenceFacts` holds what these need of numbers and sequences. Induction over numbers
is proved there with sets (`LeastMember`, `SetInduction`), from the fact that finite
subsets are well ordered by inclusion, and with it induction over sequences
(`SeqInduction`): a set of sequences that holds the empty one, and with each member
every longer one, holds all. A property to be proved becomes the set of the sequences
that have it, so no operator is passed to a theorem. `FoldExists` does the same for a
loop that is a function of how far it has come: it computes the fold of its step.
So `Subsequence`, the fold of `UseService` and the loops of the parsers can be reasoned about.

Only model-checked: liveness (`ClosedComesToRest`, `KeepsReconnecting`,
`HeartbeatGoroutineEnds`, `AnsweredComesToRest`, `ComesToRest`, `ComesToAnEnd`) and with it the fairness in the refinement `KeepsThePromise`:
outside what TLAPS can do with the provers at hand. The properties of the codecs
(`CompiledAgrees`, `RoundTrip`, `PeersRead`, `ReadersAgree`, `GoRoundTrip`, `ReadsAnyAnswer`,
`ModelIsTaken`, `BodyKeeps`, `QueryKeeps`) are about operators that are declared
`RECURSIVE`, which TLAPS has no provers for; what they compute would need induction over
the nesting of schemas besides. Every other safety property of the runs is proved.

## 6. The plan

The modules of section 2 stand, and every safety property but those of the codecs is
proved. What would be proved next, in this order:

1. `GoSse` with heartbeats: which accesses of the two goroutines can meet, and that
   outside those `EventStream` is kept.
2. The step of a message of `SchemaOps`, `GoWire` and `ClientWire` with the codecs as
   constants that are assumed to agree.

What would be modelled next: `arriSseRequest` of the TypeScript client, once the
reconnection of event-source-plus can be read; `codegen --watch`.

## 7. What is not modelled

The components of `PROJECT.json` give their reasons. In short:

- the CLI's other commands are sequences of prompts and file operations; `codegen
  --watch` runs the generators on overlapping events, as `GoDevServer` has them;
- `arriSseRequest` of the TypeScript client drives event-source-plus, whose loop and
  whose `reconnect()` are not in the repository; modelling its watchdog would be
  modelling a guess at the package;
- the generators' output as text: type declarations, names, imports, procedures'
  signatures; lint rules, schema adapters and the utilities of the generators, which
  are pure conversions of definitions;
- the plain request functions of the clients, which are one awaited call;
- CORS, debug logs and web sockets of the TypeScript server.

Of the parts that are modelled, escapes and encodings of text, wording, durations and
the order of keys are left out, except where a property is about them.

## 8. Running it

    tlc -workers 2 -config GoDevServer_dev.cfg MCGoDevServer
    tlapm GoDevServer_proofs.tla

and so on for the other modules; `PROJECT.json` pairs each run with its module and
configuration.

# Verification of shiftapi

shiftapi is a Go framework for typed HTTP, SSE and WebSocket APIs, with a
TypeScript client generated from the server's OpenAPI and AsyncAPI documents and
dev-mode plugins for Vite and Next.js that run the Go server. This directory
holds TLA+ models of the parts with state of their own, TLC configurations that
check them on small instances, and TLAPS proofs of the most important results.

    tlc -workers 2 -config MCWSClient.cfg MCWSClient     # one of the runs
    tlapm WSClientProofs.tla                             # one of the proof modules

`PROJECT.json` lists the runs, the code each definition stands for, the hazards,
and, for every property, a plausible bug of the code that breaks it.

## Inventory

| component | code | state | hard behaviour |
|---|---|---|---|
| WebSocket client | `packages/shiftapi/src/websocket.ts` | current socket, `closed`, `fatalError`, `retryCount`, `retryTimer`, `firstOpen`, `recvQueue`, `recvBuffer` | browser events, a reconnect timer, code after an `await`, and user code inside `onopen`/`onclose` share it |
| WebSocket server | `ws.go`, `handler.go` (`parseInputForWS`, `adaptWSMessages`, `resolveError`) | a goroutine per connection, the connection's close handshake, the sender | user goroutines send and close beside the dispatch loop; errors at every stage; the peer leaves at any time |
| both over a network | the two above | frames in flight | a server goroutine outlives the client's use of its connection; loss at any time |
| HTTP handlers | `handler.go` (`adapt`, `adaptRaw`, `resolveError`, `matchError`), `handlerFuncs.go`, `responseheader.go` | response status and header, what was written | an error after the response began; documents computed apart from the code that answers |
| server-sent events | `sse.go`, `handler.go` (`adaptSSE`), `packages/shiftapi/src/sse.ts` | stream started, parse buffer | events split over chunks; failures mid-stream; leaving the loop |
| registration | `server.go`, `group.go`, `router.go`, `options.go`, `handlerFuncs.go` | lists of errors, headers, middleware | slices that share arrays, read long after registration |
| parameter parsing, validation | `path.go`, `query.go`, `header.go`, `form.go`, `validate.go` | none | order of the parts and resets |
| documents | `schema.go`, `asyncapi.go`, `docs.go`, `templates.ts` (`buildWSChannelsType`) | operations, channels, components of the two documents | components shared by all routes, under names that may coincide; references from one document into the other |
| dev server | `packages/shiftapi/src/goServer.ts`, `serve_dev.go` | `goProcess` and the processes themselves | exit events, kill timeout, signals |
| plugins | `packages/vite-plugin/src/index.ts`, `packages/next/src/index.ts`, `codegen.ts`, `extract.ts` | debounce timer, generated types, files | overlapping reloads, edits and signals at any point |
| Next.js upgrade proxy | `packages/next/src/index.ts` 61-124 | two sockets per connection | either half fails while the other connects |
| tools | the rest of `templates.ts`, `generate.ts`, `prepare.ts`, `config.ts`, `ports.ts`, `create-shiftapi` | files | none (sequential) |

What makes them correct:

* client: one connection attempt at a time; every frame goes to exactly one
  caller, in order; everybody who waits is told when the connection ends; a
  closed client stays closed; no message crosses to another connection.
* server: one verdict per connection, which reaches the client unless user code
  closed first or the network broke; handlers run in order and never after a
  failure; no user code runs for rejected input; the goroutine ends.
* together: a verdict the client saw is final; nobody waits on a dead connection
  that user code did not abandon.
* HTTP: a response is one thing, the one the document describes (but for what the
  document cannot know); an error before anything was sent is the response, an error
  after that adds nothing to it.
* events: the reader yields what was sent, once, in order, however the bytes are
  cut, and yields all of it while the connection lasts.
* input: each field is filled from the place its tag names and from no other; the
  document and the parser, which read the tags separately, agree.
* registration: what is declared at one place is seen exactly below it.
* documents: what an entry refers to is there, in whichever document it is followed; a
  route's entry shows the types, errors and messages of that route, whatever is
  registered before and after it.
* dev mode: the last edit is what runs and what the types describe; no process
  is left behind.

Where the code does less than this, the property names the case it leaves out, and
"What the properties leave out" lists them.

## Modules

### WSClient

One connection object. `sock` holds the ready state of each socket created by
`connect`, the last one being `ws`; the other variables carry the names of the
code's (`retryTimer` is the number of the last timer armed, `timers` those that
will fire). JavaScript runs one callback at a time: `frame` says which user
callback is on the stack, and browser events, timers and microtasks need it to
be `"idle"`. User calls are possible at any time: between events they are other
code of the page, inside a callback they are re-entrant calls. So
`SocketClose` runs up to `onclose`, user calls may follow, and `OnCloseReturns`
does the rest (`scheduleReconnect`). `send` suspends at `await firstOpen`;
`SendResumes` is the microtask. `sends`, `receives`, `opened` and `arrived` are
histories that the properties speak of. The delay of the timer is left out: it
may fire at any time.

`Mailbox` is the abstract specification of `receive()`: numbered frames, callers
in turn, and an end. `WSClient` implements it (`ImplementsMailbox`) with every
socket, retry, callback and `send` step hidden.

### WSServer

One goroutine per connection; `pc` names the place in `adaptWSMessages`,
`runWSDispatchLoop` and `writeWSError`, cut where another party can act:
between reading a message and the end of its handler, between the error frame
and the close, inside `Close`. An action for each outcome of a read or of user
code. coder/websocket is modelled by how it is used (see the module's header).
User code that holds the sender is `Send` and `SenderClose`, at any time from
`setup` until the goroutine returns. User code may also panic, or return the close
error of another connection, which the loop takes for a close of its own
(`HandlerReturnsCloseError`): both leave the connection open and unserved. A client message is one of the kinds the
loop tells apart.

### WSSession

Instances of both, joined: socket s of the client is connection s of the server;
`out` and `got` are the ordered channel to the client, `msgs` and `nread` the
one to the server; losing a connection loses what is in flight. Each action is
an action of one side with the frames it moves. Invisible steps of the server's
goroutine are taken first (`Private`), which is sound since they commute with
all others and no property mentions the values they change.

### HttpExchange

One request to a route of `Handle`, `HandleRaw` or `HandleSSE`, with the fetch and
the event reader of the generated client at the other end. `header` is
`w.Header()` (the Content-Type and which other names are set), `resp` what
net/http has committed, `written` and `started` the flags of `writeTracker` and
`SSEWriter`. User code of a raw handler calls `WriteHeader`, `Write` or, through
`Unwrap`, `Flush`; that of a stream calls `Send`, an action for each place where
`Send` returns; both may return an error at any time (`HandlerFails`). An error
is a tree, of which `matchError` searches the errors that are wrapped or joined;
`Reports` says independently, by the paths through the tree, which error comes
first. A body is a sequence of units (for an event its
two lines and three line ends), of which a chunk may hold any number: `ReadChunk`
is the loop of `sse.ts` up to the split (`PartsOf`, `RestOf`: the text between the
blank positions in order, `Ordered`), `Yield` one part, of which `EventOf` takes the
event line and the data lines joined. The connection may
break, the consumer leave the loop or call `close()`. `documentedErrors`,
`documentedHeaders` and `documentedFields` are what `updateSchema` puts into the
document for the same route: only errors whose type is a struct (`Structs`), and none of
the headers a stream sets for itself (`StreamHeaders`). Input is refused with a
`ValidationError`, or with the error of a validator that does not take the input for
a struct (`NotAStruct`), which may be declared like any other. A returned error ends in one of three ways
(`ErrorsReported`): it is reported, or user code had begun the body, by bytes or by an
event, and no error is added to it, or user code had called `WriteHeader` and written
nothing. Left out: values of headers, a nil pointer as the
response (no header fields, body `null`), types with their own `MarshalJSON`, and,
since the code does not do what its documentation says there, what a raw handler
gets that flushes before it writes and then fails (`bypassed`, see the findings).

### InputContract

The input of a route. An input struct is a sequence of fields; registration
derives from its tags the `handlerConfig` (`partitionFields`, `handlerCfg`) and,
by other code, the parameters and the request body of the document
(`updateSchema`). A request carries texts that are empty, zero (they
convert to 0 or false), good or bad for their field, and a body with some of the keys,
some of these with a zero value; the parsers run in the order of
`parseInputForWS`. `in` records the place each field's value came from; `hasValue` is the validator's rule
`required`, for which a zero that was sent is as good as none.
`Registrable` holds the panics of registration. Left out: several tags on one
field, embedded structs, `omitempty`, rules other than `required`.

### RouteRegistry

Go slices with their backing arrays (`GoAppend`), the API's options, `Group` and
`prepareRoute`, in every order the program may call them. A declaration is a
number, so a property can say whose it is.

### ApiDocument

Extends RouteRegistry: each registration also writes the two documents. An
endpoint is the route's kind (`handle`, `raw`, `sse`, `ws`), method and path, and
the types it reads, shows, sends and receives; `updateSchema` and `addWSChannel`
add its operation or channel, and its schemas to the components of the documents,
which are maps that a later write overwrites. A type is an object with a name and
fields of three sorts, a list, or a scalar; a schema says of which type it is and
which of the fields it has, so that a stripped schema differs from a whole one, and which
named objects are nested in it (`bare`): the code leaves a bare Ref of these, and
gives them no component.
`register` is the whole of a registration: the panics (`Registrable`), what the
route inherits (`prepareRoute`), and the documents. `buildWSChannelsType` is what the client
generator makes of a channel: two unions of messages, of which it takes what the
server sends for what the client sends.

Names are sequences of words, since `_` both joins message and payload in the name of
an envelope and may occur in either: `a_b` with `c` is `a` with `b_c`. `NoClash`
excludes from `DescribesItsTypes` and `ClientTypesFollowServer` the programs in which
two types, or two uses of one type, want one component; there the last write wins,
silently (findings). Payloads of messages are named objects. Left out: keywords of
single fields (InputContract has the parameters, HttpExchange the headers), forms in
components, operation ids, `info`.

### DevReload

The process manager (`goServer.ts`) with the reload, signal and exit handlers of
either plugin. A process stands for a `go run` and the server it starts, which form a
group: it is spawned, builds the sources as they are then, listens if the port is free,
and ends when it crashes or is told to; the exit event comes later. A `go run` may also
be gone before its server (`Left`): then nobody waits for the server or kills it any
more. A signal that finds no group makes `stop()` resolve at once (`KillFails`). `jobs`
are the reloads, each at a point where the event loop may run something else. Next.js
installs its signal handlers only after the first generation (`HandlersOn`); a signal
before that is `EarlySignal`.

Several properties hold only at a *calm* pace, which the variable `calm` says and the
constant `Paces` adds next to the unrestricted one. Calm means: a reload ends before the
next begins; a signal sent to a group finds it; a server that was told to end is gone when
its `go run` is, and that is noticed within five seconds. Nothing else is
restricted: edits, crashes, Ctrl-C, early signals and the end of Vite's HTTP server come
at any point. `RestartsServer` is what is left of the goal without it, and fails.

## What the properties leave out

Cases in which the code does not do what one would expect of it; each is a step of the
model, named in the property, and most are findings in `PROJECT.json`.

| property | leaves out |
|---|---|
| `NoneLeftWaiting`, `ReceivesNotStranded`, `SendsSettle`, `ImplementsMailbox` | a user callback or `close()` that throws half-way (`UserThrows`) |
| `FailureDelivered` | a connection that was lost; one user code had closed with 1000 (`WSSender.Close`) |
| `WaitsOnlyForALiveServer` | a connection user code abandoned: it panicked, or a handler returned a foreign close error (`Abandoned`) |
| `OneResponse`, `ErrorsReported` | a raw handler that flushes through `Unwrap` before it writes (`bypassed`) |
| `ResponsesDocumented` | the headers Cache-Control and Connection of a stream; declared errors that are no structs; statuses that several error types share |
| `EventsArrive` | a consumer that leaves the loop, a connection that breaks |
| `ConformingAccepted` | a zero sent for a required field: 422; a required field that is in no place (`Settable`) |
| `RefsResolve` | the bare Ref of a named object inside another |
| `DescribesItsTypes`, `ClientTypesFollowServer` | programs in which two schemas want one component (`NoClash`); entries that a later route or an error replaces (`OwnEntry`) |
| `ErrorsDocumented` | nothing: it says which errors are *not* documented too |
| `NoOrphans`, `ServerFollowsSources`, `OpenAPITypesFollow` | what is not calm; `NoOrphans` a signal before Next.js has its handlers; the other two an edit during the first generation (`missed`) |
| `OpenAPITypesFollow` | types of WebSocket messages, written only when the OpenAPI types change |
| `RestartsServer` | a server that outlives its `go run` (`sig = "left"`) |

## Runs

| run | question | bounds |
|---|---|---|
| `ws_client` | safety of the client, with callbacks and `close()` that may throw | 4 sockets, 2 of which open, 2 frames, 2 receives, 2 sends: two reconnects after an open, two callers and frames in any relation; retries off, limited to 1, and unlimited |
| `ws_client_live` | liveness, refinement of `Mailbox`, and nobody left in the queue of an ended client (the other run's callbacks may throw, which `NoneLeftWaiting` exempts) | callbacks do not throw, finite retries; 9 sockets, enough for every attempt that 2 opens and 2 retries allow, so the bound never stops the client |
| `ws_server` | safety and liveness of a connection | 3 client messages of 5 kinds, 2 frames of user code, four kinds of failure; connections share nothing, so one is enough |
| `ws_session` | safety over the network | 2 sockets, one open; 2 frames received, 1 receive, 1 send, an error that is told and one that is not |
| `ws_session_live` | liveness of both sides | 3 sockets, one open, one receive, no client messages and no data frames (so of what abandons a connection only a panic of `setup` occurs here, not a handler's close error); the server's user code may close the first connection, fail or panic |
| `http_exchange` | the responses of the three wrappers, and the events at the reader | 3 uses of the response by user code, so 3 events of 5 units in every division into chunks; errors declared once, twice, with one status, with a status of the framework, as a type that is no struct, and as the validator's own; input that is refused either way; returned errors plain, wrapped, joined, and joined errors in joined errors; a static header that is also a field, or is not |
| `input_contract` | parsing and the document | two fields of 12 shapes with equal or distinct names, a pointer or value input, a body that is forced or not; all requests that use the names, with two query values and with zeros in any of the places. Fields interact only through the body's keys, names and the panics, that is in pairs |
| `route_registry` | inheritance, and the two documents with the unions generated for a channel | 5 declarations, one of a kind at one place, 1 group, 2 routes out of 9 endpoints: 3 declarations leave room in an array for 2 routes to share; two routes are enough for one to overwrite what another refers to. The endpoints share a name between two types, use one type with and without its header and parameter fields, and have envelopes whose names coincide, and two sockets have one path; errors share a status with each other and with a built-in one, and one is no struct |
| `route_registry_headers` | headers of one route; fails | registration alone: 5 declarations, 2 of a kind at one place, 2 groups (nested), 2 routes |
| `ws_channel_types` | the client's types of a channel have its directions; fails | the endpoints of `route_registry`, 2 routes |
| `dev_reload` | processes and types | 2 edits (a reload, and one that overlaps it), three states of the sources: two that build and differ in both kinds of types, and one that does not build; each edit spawns one process, so 3 processes |
| `dev_reload_stale` | an edit restarts the server; fails | the same sources |

`CHECK_DEADLOCK FALSE` everywhere: a client whose user is done, a server whose
clients left, a registered API and an editor at rest all stop rightly.

The runs that fail show disagreements of code and documentation; `findings` in
`PROJECT.json` quotes both sides, with some that need no run.

### Fairness

* Client: the event loop runs what is ready, and an attempt or a closing
  handshake ends (browsers time both out). Nothing is assumed of the user or of
  the server: no frame has to come.
* Server: each goroutine is scheduled, user code returns, `Close` gives up on a
  silent peer after five seconds (coder/websocket).
* Session: only that *some* server step and *some* client step happens while one
  can; each side has finitely many within the bounds.
* HttpExchange: the reader goes on while it can (`WF(Reader)`): a chunk that was
  written arrives, unless the connection breaks. Nothing obliges the handler.
* InputContract and RouteRegistry have no liveness: they run to their end.
* DevReload has safety properties only; "in the end" is said of quiet states.

## Proofs

`WSClientProofs`, `WSServerProofs`, `WSSessionProofs`, `HttpExchangeProofs`,
`InputContractProofs`, `RouteRegistryProofs`, `ApiDocumentProofs` and
`DevReloadProofs` prove, for all values of the constants, every safety property that
a passing run checks:

| theorem | from |
|---|---|
| `WSClientProofs`: `TypeCorrect` | induction over the actions; one step per action |
| `OneAttemptCorrect` | `SocketInv`: `OneAttempt` with: while `onclose` runs or a timer is armed the current socket is closed, and no timer is armed while `onclose` runs. `OneAttempt` alone is not inductive, since `OnCloseReturns` arms a timer without looking at the others |
| `NoResurrectionCorrect` | `TypeOK` and the guard of `TimerFires` |
| `GivesUpCorrect` | `RetryInv` (below) and `SocketInv` |
| `SendsDoNotCrossCorrect` | `SendInv`: the attempt on which a waiting `send()` was called is the current one, or none up to it opened or ever will |
| `NoneLeftWaitingCorrect` | `QueueInv`: the queue holds exactly the pending calls, in order, and is empty when anything is buffered or the client has ended |
| `ExactlyOnceInOrderCorrect` | `QueueInv` and `OrderInv`, which says of every delivered frame which call has it |
| `MailboxImplemented` | `QueueInv`: each step is a `Put`, `Ask` or `End` of the mailbox or leaves it alone. Assumes `~UserThrows`: a `close()` that throws sets `closed` and rejects nobody |
| `InputContractProofs`: `OwnSourceCorrect` | `InputInv` (below) |
| `BodyAsDocumentedCorrect` | `InputInv`, and that `handlerCfg` and `requestBody` decide alike about forms and bodies |
| `ConformingAcceptedCorrect` | `FollowerInv` (below) |
| `RouteRegistryProofs`: `SpecTypeOK`, `SpecRouterListsStable`, `SpecErrorsApplyToTheirRoute`, `SpecInheritedHeadersFirst` | `RInv` (below) |
| `ApiDocumentProofs`: `Registers`, `DocRouterListsStable`, `DocErrorsApplyToTheirRoute`, `DocInheritedHeadersFirst` | each step of the documented API is one of RouteRegistry or leaves its variables alone |
| `ApiDocumentProofs`: `DocRefsResolve` | `RInv` and `DocInv` (below) |
| `ApiDocumentProofs`: `DocErrorsDocumented`, `DocDescribesItsTypes` | `PagesInv` (below) |
| `HttpExchangeProofs`: `OneResponseCorrect` | `RespInv` (below) |
| `HttpExchangeProofs`: `ErrorsReportedCorrect`, `ResponsesDocumentedCorrect` | `AnswerInv` and the search through an error (below) |
| `HttpExchangeProofs`: `YieldsFollowSendsCorrect` | `YieldInv` (below) |
| `WSServerProofs`: `SpecTypeOK`, `SpecOneVerdict`, `SpecHandledInOrder`, `SpecOnlyFaultsEndConnection`, `SpecRejectedBeforeUserCode` | `SInv` (below) |
| `WSSessionProofs`: `SpecSessionInv`, `VerdictIsFinalCorrect`, `ErrorAfterDataCorrect` | `SessionInv` (below) |
| `WSSessionProofs`: `SessionImplementsClient`, `SessionKeepsClient`, `PromisesKept` | each step of a session is a step of a client alone or leaves it as it is; one of the server's connections likewise. So what was proved of the two holds in a session |
| `DevReloadProofs`: `TypeCorrect`, `StopsDoNotMeet`, `NobodyOrphaned` | `IInv` (below) |
| `DevReloadProofs`: `ServerIsCurrent`, `TypesAreCurrent` | `IInv` and `Follows` (below) |

`DeliverySteps` reduces the fourteen actions of the client to what `receive()`
can see of them, so that the three theorems about it have five cases each.

`RetryInv` says what `retryCount` counts: the last attempts in a row that did not
open, without the very first and with the one whose timer is armed. That holds until
closing clears the timer but not the count, which is why giving up is stated of
the attempts and not of the counter.

`RespInv` says that until the wrapper's own end nothing but user code wrote, that a
response the tracker calls unwritten is untouched (unless user code went around
the tracker), and that a stream commits its label with the first write. An error
is then written alone, since `written` is asked first.

`AnswerInv` is `RespInv`, `WaysInv` and the two properties. `WaysInv` is what an answer
follows from: which header names are set at each point, that `written` means that a
status is committed, and by what user code began. `ErrorsReported` then compares
the search of `matchError` with the paths through the error. `matchError` is a
recursive function, in TLA+ a choice among the functions that solve its equation;
that there is one and only one (`SearchFacts`) is shown by the depth of errors, of which
`ErrorsAssumption` says that it has a bound. By the same depth the search
returns the type at the first path, in the order `Before`, that has a type it looks
for, and the lookup built from the declarations has the last status of each type.

`YieldInv` cuts the body into frames of five units, one for each event that was sent
(`Framed`). The reader has some number of frames behind it; the events of these
that it has not yielded are in `parts`, and less than a frame is in `buf`
(`Reading`). So the text it splits begins with whole frames and ends in less than one,
and has its empty lines at the positions 5j - 1 (`BlankLines`):
a chunk that ends between the two line ends of an event delays it and loses nothing. A stream whose input was refused has one JSON
document for a body, in which the reader finds no event (`Refusal`).

`OwnSource` and `BodyAsDocumented` speak of accepted requests only, so the induction
carries what holds on the way (`InputInv`): a field of a place is zero until that
place is parsed and then holds what the place carries (`PlaceInv`); fields without
a place are set by the body only (`BodyInv`); after the body, exactly its keys among
the documented properties are set (`KeysInv`). `PlaceInv` needs `resetFields`, and
the order of the parts (`AfterPart`): a place that has fields is never skipped.

`ConformingAccepted` asks that nothing but a required zero refuses a request on the way,
so its induction keeps that (`NotRefused`), with the texts a request may carry and the
panics the struct got past (`SentInv`), and that the form has filled each field it has
a text for (`FormInv`), which the rule `required` looks at. An attempt without
`Settable` failed, rightly: a required field that no tag places and `encoding/json` does
not see is in no part of the document, and whatever a client sends is refused with 422.

`RInv` says of every slice that it lies within its array, and of the two kinds of
slices which arrays they may share: a router owns the arrays of its lists (it
made them with `slices.Clone` or by declaring options), so nothing but the router
itself writes into the part of an array that its lists, or the inherited part of a
route's list, can see. A route may write only behind that part. That is what fails
without the clone, and it holds for groups of groups and any number of
declarations, where the run has one group.

`DocInv` is `RefsResolve` and that the built-in errors have components: an operation
refers to those without writing them. A registration writes every component it
refers to and removes none, whatever name it is under, so a clash of names may change
what a reference means (`DescribesItsTypes`, which excludes clashes) but never leaves
it open. The proof takes the writes as the code orders them, the last one to a name
winning; that the errors of a route are a list of known length, so that a last one exists,
comes from `RInv`.

`PagesInv` adds to it the history of the endpoints that were served (`ServedInv`: one
for each route, no pattern twice), that each route's operation or channel is the one
its own registration wrote, with the errors and headers it captured (`PlacesInv`), and
that every component has the schema that each of its users writes, as long as no two
of them differ (`NamesInv`). `PlacesInv` leans on `ErrorsApplyToTheirRoute` and
`InheritedHeadersFirst`, for the slices of a route are read again after others were
registered. What the attempts ran into is now said by the model: WebSockets of one
path with different methods share a channel, of which the last one remains, and a
success status that is also the status of an error loses its entry (`OwnEntry`);
a WebSocket writes the schemas of errors that are no structs, an HTTP route
does not (`Needs`); the envelope of a message can take the name of a built-in error
(`NoClash`).

`SInv` ties the program counter of a goroutine to what it has written and handled:
before the error frame nothing but data (and user code's own close) is on the wire,
afterwards one error frame with the code of `failure`, and the close only as the last
frame; handlers ran exactly for the good messages read so far, and all but the last
returned no error. None of the four properties is inductive without the counter.

`SessionInv` is `ClientInv` (the inductive invariants of the client), `SInv` and
`LinkInv`. `LinkInv` says that the client has `fatalError` exactly when an error frame
was delivered to it, that this was on its last connection, and that when a `receive()`
was rejected with the error every message that arrived before had been taken. To
keep it, `VerdictIsFinal` needs that a client with `fatalError` makes no
connection, which is the client's part, and `ErrorAfterData` that no second error
frame can come on the same connection, which is the server's (`OneVerdict`).

`IInv` of DevReload has a part for every pace and one for the calm one. `Apart`
strengthens `StoppedOnce` by what the exit event and the timeout rely on: a process
that someone waits for was told to end and its exit was not handled, so the known one
is never among them. `OneAtATime` strengthens `NoOrphans`: `start()`'s exit listener
forgets whichever server is known, and that orphans nobody only because, while one is
ending, no other is known, and at most one is ending. That in turn needs a reload,
a signal handler or the closed HTTP server to stand behind every process that is
ending, so that the next debounce cannot start a server beside it. The fourteen
actions reduce to ten kinds of steps (`StepKinds`), and each part has a case per kind.

`Follows` says what stands in for the goal while something is going on. An edit arms
the timer or is missed; only a debounce brings back the state `Followed`, and begins a reload
(`FollowedBefore`, `DebounceBegins`). From there the types are on disk, or a reload
that has not extracted them yet will, or one is about to write exactly these: it knows
the types on disk, so that it may skip the write. The last server is
spawned, or of the sources, or has a reason to be gone; it is the only one there
(`OneAtATime` again), so nobody stops it and its port is free.

Induction over numbers and data is done by least elements: the set of counterexamples
has a smallest one (`WFMin`, `NatLessThanWellFounded`), the step excludes it.

The assumptions of the proofs are those of the models, which TLC evaluates in every
run. `ClientAssumption`, `ServerAssumption`, `SessionAssumption`, `DevAssumption`,
`RegistryAssumption` and `BoundsAssumption` give the types of constants. Some say what Go
or net/http guarantees: `StructsAssumption` that only a form field is a file
(`form.go` alone treats file headers in a way of their own); `EndpointAssumption` that
messages and response types come in lists and a route has at most one body; `RoutesAssumption` that a status
is one net/http accepts for a response, 200 to 999 (it panics below 100
and above 999, and 1xx begin no response), and that only a `Handle` route has a
response type. `ErrorsAssumption` says that errors are finite trees of bounded depth and
that no type has one of two names which the model gives to no error and to the response.
Where a theorem needs more it says so: `MailboxImplemented` assumes `~UserThrows`,
which a session meets.

Model-checked only: liveness (`SendsSettle`, `ReceivesNotStranded`, `ServingEnds`,
`FailureDelivered`, `WaitsOnlyForALiveServer`, `LeftConnectionsEnd`, `EventsArrive`),
which is out of reach of the prover here, and of course the properties of the three
runs that fail, each of which has a counterexample.

## Not modelled

The upgrade proxy of the Next.js plugin (`setupWSUpgradeProxy`) pipes two sockets into
each other; whether an end or an error of one reaches the other while it connects is
decided by Node's streams, which a model would have to assume. The choice of a free
port races with other programs only.

URL building, JSON, values of headers and wording; the conversion of a text to a
Go type and of `validate` rules to schema keywords; the other templates and
scaffolding: sequential conversions, where a model would repeat the code.
Middleware is a wrapper of the application's own and may do anything. A frame that is not JSON makes
the client's message listener throw before it changes anything. Backpressure and
partial writes of a WebSocket are left to the library.

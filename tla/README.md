# A verification project for luwes

luwes is a Go SDK for Envoy dynamic modules. Envoy calls exported C functions
(`abi_impl`), these find the Go object behind an opaque pointer and call the
plugin; `sahl` is a framework on top of that interface that turns "write a
handler" into the right sequence of callback statuses, continuations and
mutations. This directory holds TLA+ models of that machinery, the TLC runs
that check them and TLAPS proofs about them.

Paths below are relative to the repository. `internal.go`, `network.go` and
`access_logger.go` are in `src/abi_impl/`, `filter.go`, `writer.go`,
`callout.go`, `stream.go`, `do.go`, `response.go`, `sahl.go` in `src/sahl/`, `api.go` and `base.go` in `src/shared/`,
`buffer.go` in `src/buffer/`.

## 1. Inventory

| Component | State | Operations | Interacts with |
|---|---|---|---|
| sahl filter (`filter.go`) | the request's `Writer` and `Request`, buffered body, `streamDone` | the HTTP filter callbacks; callout, stream and scheduled callbacks | the HTTP handle (calls), the Writer (same goroutine, shared struct), the author's handler |
| sahl Writer (`writer.go`, `callout.go`, `stream.go`) | queued mutations, `responded`, local response, `goStarted`, `calloutStarted`, `streamStarted`, stored functions | `Set*`, `Send*`, `Go`, `HTTPCallout`, `HTTPStream`, `flush` | called from the worker thread and from the goroutine of `Go` |
| Response handling (`response.go`, `filter.go:190-208, 296-340`) | pooled chunk, `Context`, local reply details | `onResponseHeaders`, `onResponseBody`, `OnLocalReply`, `SetResponseBody`, `AppendResponseBody` | the response handler, the Writer, Envoy's body buffer |
| Writer pool and `Do` (`do.go`, `writer.go:64-96`) | pooled filters and Writers, a result channel per call | get, `reset`, put, `Do` | scheduler, the callout callback, later requests |
| sahl registration and configuration (`sahl.go`, `filter.go:20-110`) | definitions by name; a handler per configuration | `Register*`, `Factories`, `Create` | SDK registries, Envoy's configurations |
| HTTP handle (`internal.go`) | plugin, scheduler, `streamCompleted`, `streamDestoried`, `localResponseSent`, callout and stream callbacks, watermark callbacks, recorded shared data | new, request and response callbacks, complete, destroy, callouts, streams, `SetData`, `GetData`, `GetScheduler` | Envoy (C calls both ways), a `sync.Pool` of handles shared by all worker threads |
| Scheduler (`internal.go:472-516`) | `nextTaskID`, `tasks`, a mutex | `Schedule` from any goroutine, `onScheduled` on the worker thread | Envoy's dispatcher |
| Managers (`internal.go:91-139`) | sharded address maps | record, search, remove, unwrap | handles, shared data |
| Network handle, configuration handles | as the HTTP handle, without pooling | new, events, destroy, callouts, scheduler | Envoy |
| Body buffers (`buffer.go`) | a slab and a ring of bytes, a position in each | write, head, tail, length, reset | filters, one worker thread |
| SDK registries (`src/sdk.go`, `src/filter.go`) | name maps | register, snapshot, look up | init functions, configuration hooks |
| Access logger (`access_logger.go`) | configurations and loggers | new, log, flush, destroy | Envoy, the registries |

What is hard here:

* **Several deciders of one request.** `flush` has five callers and `Continue`
  statuses release a request as well; the goroutine, a callout continuation, a
  stream end, a body chunk and the handler may each be the one.
* **Concurrency.** The goroutine of `Go` runs next to the worker thread;
  schedulers are used from any goroutine; handles move between worker threads
  through the pool.
* **Ordering and lateness.** Callouts, stream events and scheduled tasks may
  arrive after the stream completed, and a client may disconnect at any time.
* **Reuse.** Handles, Writers and filters are pooled; addresses of shared data
  are reused by the allocator.
* **Liveness.** A stopped request depends on exactly one later event, and a
  goroutine in `Do` on a result or on the end of its context.

What makes each part correct: a request is decided once, not before its handler
and its asynchronous work, with all of its mutations (sahl); a callback reaches
the filter of its own stream and none is dropped while the stream lives
(handles); a scheduled task runs at most once, never after completion, and does
run otherwise (scheduler); data set for a stream stays that stream's until it
completes (shared data); what a filter reads from a buffer is the beginning and
the end of its own stream, however the chunks fell (body buffers); nothing of
one request reaches another through a pooled filter or Writer, and no result of
`Do` the wrong call (Writer pool); a response handler is shown its own response,
all of it, and its edits reach the client (response handling);
the code that serves a request is the one registered under the configured name,
on that configuration's state (registration).

## 2. Modules

```
RequestOutcome   <--implements--  SahlFilter            one request through sahl
                                  SahlFilterProperties  its properties
                                  MCSahlFilter          profiles for TLC
                                  SahlFilterProofs      theorems
TaskBridge       <--implements--  FilterHandle          handles, pool, schedulers
                                  FilterHandleProperties
                                  MCFilterHandle        uses for TLC
                                  FilterHandleProofs      types, handles and pool
                                  FilterHandleDataProofs  shared data
                                  FilterHandleTaskProofs  callbacks, TaskBridge
                                  BodyBuffers           Ring and HeadTail
                                  BodyBuffersProofs     theorems
RequestOutcome   <--implements--  WriterPool            requests sharing filters,
                                                        Writers; Do
                                  WriterPoolProperties
                                  MCWriterPool          plans for TLC
                                  WriterPoolProofs      theorems
                                  ResponseObserver      responses of a pooled filter
                                  MCResponseObserver    responses for TLC
                                  ResponseObserverProofs
                                  Plugins               registries, configurations
                                  MCPlugins             symmetry for TLC
                                  PluginsProofs         theorems
```

`SahlFilter` follows one request in every detail; `WriterPool` follows several
with the detail of one request reduced to what a Writer carries from one to
another. Both implement `RequestOutcome`: the first shows that one request keeps
it whatever operations its author combines, the second that it is still kept when
the flags that decide (`goStarted`, `responded`, the local response) lie in an
object other requests used before. `ResponseObserver` follows the response side. `FilterHandle` is the
layer below all three and `Plugins` what happens before any of them.

### SahlFilter

One HTTP request. Its state is that of the Writer (`started`, `armed`,
`responded`, `localResp`, `queued`), of the stream and the threads (`stream`,
`status`, `worker`, `goroutine`, `cancelled`, `panicked`), what Envoy still has
to deliver (`chunks`, `trailers`, `pending`), and a history of effects
(`accepted`, `applied`, `forwards`, `sent`, `handled`).

| Action | Code |
|---|---|
| `OnRequestHeaders`, `OnRequestHeadersReturn` | `OnRequestHeaders` up to the handler, and after it returns |
| `OnRequestBody`, `OnRequestBodyReturn`, `OnRequestTrailers` | the body callback; trailers are inherited from `EmptyHttpFilter` |
| `Queue`, `Send`, `Go`, `HTTPCalloutE`, `HTTPStream`, `Panic` | the Writer calls of the author's code, one action each |
| `OnHttpCalloutDone(Return)`, `OnHttpStreamEvent(Return)`, `OnHttpStreamEnd(Return)` | asynchronous completions |
| `GoReturn`, `OnScheduled` | the end of the goroutine and the flush task it schedules |
| `OnResponse(Return)`, `OnStreamComplete`, `OnDestroy` | response observer and end of the stream |

A callback that runs author code is two actions, entry and return, and the
author's Writer calls happen between them: so the goroutine interleaves with a
handler, while the worker thread itself runs one callback at a time.

The author and the request are parameters: a *profile* says how the filter was
registered, which Writer calls its code may make, what the request looks like,
and how strictly the author follows the doc comments. `discipline = "none"`
allows everything, `"returns"` has the handler return after starting an
asynchronous operation, `"full"` starts only one per request. Two fields are
about the host, because the repository's own comments disagree about Envoy:
`bodyAfterStopAll` (do body callbacks follow `StopAllAndBuffer`? `filter.go:143-144`
counts on it, `api.go:20-23` says not) and `scheduledReplies` (is
`SendLocalResponse` honoured in a scheduled function? `writer.go:107-108` counts on
it, `do.go:33-36` says not). Supported profiles may have either answer. A request
that waits for what such a host never delivers is described by `NoBodyComes` and
`ReplyIgnored`; the liveness properties and `HeldHasDecider` except these two
cases and nothing else, and the comments that promise more are the properties
`StoppedHandlerRuns` and `SendIsDelivered`, checked by `sahl_body_aware` and (in
`GoWaitsOrSends`) by `sahl_go`.

`RequestOutcome` is the promise: a request is decided at most once, by its
release or by an answer, after its handler was entered and before its stream
completes. `WriterPool` implements it too, for every request of a shared pool.

### FilterHandle

Handles of four kinds: the pooled ones of HTTP filters, and those of network
filters, configurations and network configurations. A *stream* is whatever owns
a handle. `host`, `pointer`, `issued`, `inflight`, `calling` and `commits` are
Envoy's side; `handle`, `pool`, `registry`, `scheduler`, `posting` are the
module's; `reached`, `lost`, `runs`, `submitted` record what happened (`lost` with
whether it came inside the call that starts an operation: Envoy may complete a
callout inline, before the handle has recorded its callback). The code
repeats itself over the kinds with small differences in its guards, so each
exported function has its own action and the common part is an operator.

| Action | Code |
|---|---|
| `HttpNew`, `NetworkNew`, `ConfigNew`, `NetworkConfigNew` | `filter_new` and `config_new`; for HTTP the pool get and `reset`, with its corruption panics |
| `StreamComplete` | `stream_complete` with `clearData` |
| `HttpDestroy`, `NetworkDestroy`, `ConfigDestroy`, `NetworkConfigDestroy` | `destroy`, for HTTP with the pool put |
| `Request`, `Response`, `LocalReply`, `ConnectionEvent`, `ConnectionWatermark` | the guarded callbacks |
| `SendLocalResponse` | `SendLocalResponse` of the handle |
| `SetDownstreamWatermarkCallbacks`, `ClearDownstreamWatermarkCallbacks`, `Watermark` | watermark callbacks |
| `HttpStart`, `NetworkStart`, `ConfigStart`, `StartReturn` | `HttpCallout` and `StartHttpStream`: Envoy's call, then the record of the callback |
| `HttpStreamEvent`, `ConfigStreamEvent`, `HttpDone`, `NetworkDone`, `ConfigDone` | stream headers, data, trailers; completion of a callout or stream, its reset |
| `SetData` (and `GetData`) | shared data: an address in the stream's metadata |
| `HttpGetScheduler`, `NetworkGetScheduler`, `ConfigGetScheduler`, `NetworkConfigGetScheduler` | lazy creation of the scheduler |
| `Schedule`, `Commit` | `Schedule`, split where it releases its mutex |
| `HttpScheduled`, `NetworkScheduled`, `ConfigScheduled`, `NetworkConfigScheduled` | `on_scheduled` |

Different streams interleave at every action, which is what several worker
threads do. Values of shared data are named by the stream that set them and the
address Go gave them; a free address may be given out again, as the allocator
does. A *use* says which operations the filters of a run perform.

`TaskBridge` is the promise of `shared.Scheduler` (`base.go:330-339`).

### BodyBuffers

One `HeadTail` that serves stream after stream: `head` and `headN`, the ring's
`data`, `pos` and `full`, and `rest`, what the loop of `Ring.Write` has still to
copy. `written` and `since` count the bytes of all streams and of those before
the current one, `from` those before the ring was last emptied, by `Reset` or by a
`Tail` that found it full; `tail` is what `Tail` returned.

| Action | Code |
|---|---|
| `Write` | `HeadTail.Write` up to the call of `Ring.Write` |
| `CopyRound` | one round of that function's loop |
| `Tail` | `HeadTail.Tail`, which is `Ring.Bytes` with its three reversals |
| `Reset` | `HeadTail.Reset` |
| `Head`, `Len` | operators: these calls change nothing |

The code never looks at a byte, so a byte is named by its place among all bytes
ever written. The properties can then say where each byte must be, and a byte
left from the stream before a `Reset` is told from one of the current stream.
`Tail` hands out the ring's own memory: what it returned is forgotten at the
next `Write`. It may be called at any point of a stream and any number of times.

### WriterPool

Several requests, each on its worker thread and perhaps with a goroutine, that
take filters and Writers from pools. A *plan* says what each request's code
does: which of the pieces handler, goroutine and observer queue a mutation,
whether the handler or the goroutine answers, whether it calls `Go` and `Do`. A
mutation is named by the request and the piece that made it, so that one applied
to another stream is visible. A handler may queue after it called `Go`, and an
observer runs when Envoy answers while the goroutine works, so in some plans two
or three pieces of code append to one queue at the same time. `alone` records the
mutations whose call met no other: none returned during it, none was under way
at its end.

| Action | Code |
|---|---|
| `newSahlFilter` | `newSahlFilter` with its pool corruption panic |
| `OnRequestHeaders` | Writer from the pool, `reset`, up to the handler |
| `OnRequestHeadersReturn`, `RunFlush` | `flush`, after a synchronous handler and as the task of `Go` |
| `OnResponse(Return)` | the response callbacks of an observer |
| `OnStreamComplete`, `OnDestroy` | mutations flushed for an observer, `goCancel`; both objects returned |
| `Add`, `AddReturn` | a Writer setter: an `append` reads the slice, then stores it |
| `Send`, `Go`, `GoReturn` | `SendBytes` in both modes; `Go`; the end of `fn` |
| `Do`, `RunCallout`, `OnHttpCalloutDone`, `DoResult`, `DoGivesUp` | the schedule, the scheduled callout, its completion, the two branches of the select |
| `DropTask` | a task of a completed stream |

What reached Envoy is kept in sets (`applied`, `answered`, `released`), so that a
request with two answers in `answered` would look like one with one. "Once" comes
from the counters of `SahlFilter`, and here from `ReleasedIsLast` and from the
steps of `RequestOutcome`, none of which decides a decided request.

`Outlives` is the question whether a goroutine may still use its Writer when
Envoy has destroyed its filter. Go's garbage collection keeps the Writer valid,
and nothing in the code waits for the goroutine, so the answer depends on the
author; the run `writer_go` shows what follows from "yes", everything else
about this module is for "no".

### ResponseObserver

One filter object serves request after request; a *response* says what Envoy
will deliver (headers, slices of each body callback, how it ends), whether a
local reply or an early one, and what the handler does. `chunk`, `ctx`,
`details` and `writer` are the pooled fields of `responseState` and Writer,
`buffered` what Envoy keeps for the filter, `calls` what the handler was shown
and `forwarded` what the client got. `Refused` is Envoy's answer to an edit of a
body it does not hold.

| Action | Code |
|---|---|
| `NewFilter`, `OnRequestHeaders` | filter and Writer from their pools |
| `OnLocalReply`, `OnResponseHeaders`, `OnResponseBody` | the callbacks, with `onResponseHeaders`, `onResponseBody` and the handler's `SetResponseBody` or `AppendResponseBody` |
| `OnResponseTrailers` | inherited: Continue |
| `OnStreamComplete`, `OnDestroy` | the end, with `responseState.reset` |

### Plugins

A registration is named by its place in the order of registrations, a
configuration by its place in the order Envoy loaded them, so "whose code, on
whose state" is a triple in `ran`. A registration's *style* says what the plugin
passed: a handler, a factory, something that yields nil at a later stage, or nil
itself (`nil`, `nilConfig`, where the code takes it); a configuration keeps in its
`status` what became of it.

| Action | Code |
|---|---|
| `Register` | every `Register*` of sahl (`mustAdd`), of the root package, of access loggers |
| `Wire` | `Factories` and the SDK's registration of a snapshot |
| `RegisterNetwork` | `RegisterNetworkFilterConfigFactories` |
| `Start` | the init functions are done |
| `ConfigNew`, `ConfigDestroy` | the configuration hooks of the three kinds, `configFactory.Create` with its failures |
| `InstanceNew`, `Callback`, `InstanceDestroy` | filters and loggers; a nil one |

## 3. Runs

The configurations say `CHECK_DEADLOCK FALSE`, except that of `BodyBuffers`: a
request, a stream and a process's registrations really end, and nothing happens
after.

| Run | Result | What it shows |
|---|---|---|
| `sahl_supported` | passes, 4.2 thousand states | all of section 1's sahl properties, `HeldHasDecider`, `ImplementsOutcome` and three liveness properties, over twelve supported profiles, hosts of either kind among them, and three of authors who start an operation again and again |
| `handles` | passes, 244 thousand | callbacks, shared data, pool and schedulers over nine uses, with completions inside and outside the starting call; what is dropped and what never is; a scheduler holds exactly what is still to run |
| `buffers` | passes, 15.0 thousand | `Head`, `Tail` and `Len` for every small capacity and every cut into chunks, any number of reads, over several streams; `Write` returns |
| `writer_pool` | passes, 134 thousand | requests that share filters and Writers affect only themselves and each implements `RequestOutcome`; of appends that meet, which mutations survive; `Do` returns its own result, never blocks a worker thread, always returns |
| `response` | passes, 892 | sixteen kinds of response through one pooled filter: the handler sees its own response and all of it, and what each edit makes of the body, whatever the response ends with |
| `plugins` | passes, 3.6 million | all orders of registrations, configurations, filters and loggers: code and state of the right name; which nils bring a serving process down |
| `sahl_observer` | violates `MutationsAtMostOnce` | a counter queued by the handler of a filter with an observer is applied twice |
| `sahl_body_aware` | violates `StoppedHandlerRuns` | a body-aware filter holds a request that ends with its headers, and its handler never runs: `OnRequestHeaders` does not look at `endOfStream` |
| `sahl_go` | violates `GoWaitsOrSends` | a body chunk releases a request whose goroutine is not through, and a host that ignores a local reply from a scheduled function never delivers its `Send` |
| `handles_inline` | violates `NothingLost` | a callout completed inside the starting call is not recorded yet and its completion is dropped |
| `writer_go` | violates `SafeFromGo` | of the appends of a goroutine and of an observer that meet one is lost; then the goroutine, which outlives its filter, answers the next request of its Writer |
| `response_early` | violates `CallsAsDocumented` | after a response of a filter in front, the Writer call a comment recommends dereferences nil; the body call shows one slice of two, and the status of the headers call |

The type invariants of `SahlFilter`, `FilterHandle`, `WriterPool`,
`ResponseObserver` and `Plugins` are proved for all values (section 4) and not
repeated by the runs; `buffers` does check its own, which says that no index
leaves the slab or the ring, and `ImplementsOutcome` stands for `DecidedOnce`,
which it implies.

PROJECT.json quotes the comments that each violation run contradicts. `Supported`,
in `SahlFilterProperties`, and the plans and responses of the passing runs are the
ground on which everything else holds; `sahl_observer`, `sahl_go`, `writer_go` and
`response_early` leave it, `handles_inline` states a promise for a case that
`handles` has too, where `LostOnlyInline` says what does hold.

`GoWaitsOrSends`, `SafeFromGo` and `CallsAsDocumented` are disjunctions of promises
that are made of the same calls. A behaviour that refutes the disjunction refutes
every promise in it, so one trace shows that none of them holds. With one of the
disjuncts in its place each of these runs violates that one.

`sahl_body_aware` has three profiles and TLC reports the shortest trace. With
`Profiles <- TrailerProfiles` in its configuration the trace is that of a request
with trailers, which continue it past its handler; with `StopAllProfiles` that of
a host that delivers no body after `StopAllAndBuffer`, as `api.go:19-25` has it.

Four comments say more than the properties of the passing runs. The promise
is a definition of its module, and a line added to a configuration, `INVARIANT` and
its name, shows that it is violated:

| Promise | Add to | Comment | What happens | What holds |
|---|---|---|---|---|
| `TailIsLast` | `MCBodyBuffers.cfg` | `buffer.go:71-72,105-106` | reading a full ring marks it empty: the next `Tail` lacks what was read | `TailIsRecent` |
| `DeliveredAsEdited` | `MCResponse.cfg` | `writer.go:254`, `sahl.go:168-172` | an edit in a last callback with data changes what was buffered before it; the old data follows the new body | `KeptIsEdited` |
| `FinalCallEndsStream` | `MCResponse.cfg` | `response.go:17` | trailers end the response, no call has `EndStream`, an edit is never made | `KeptIsEdited` |
| `StatusOnHeadersOnly` | `MCResponse.cfg` | `response.go:21-22` | a body call shows the status of the headers call | `OwnResponseOnly` |

Why the author must follow the comments strictly (`"full"`): with a profile of
`Go` and `HTTPCallout` and the discipline `"returns"`, TLC violates
`ImplementsOutcome`, since `Go` in a callout continuation continues the request
twice. Comments leave that to the author, so it is not a run.

### Bounds

* `MaxQueued = 2`: two mutations of a kind tell "once" from "twice" and from
  "some lost". `MaxEvents = 2`: an event after an event; more change nothing,
  since a stream event has no state beyond the Writer's.
* Up to two body chunks: one that does not end the body and one that does.
* `FilterHandle`: three handles and three streams, so that a stream may get a
  used handle, or a fresh one although the pool is not empty. Shared data needs
  three streams (one that leaves its handle, one that takes the handle, one that
  takes the address); elsewhere two are enough, one after and one beside
  another. Two addresses, two tasks, two callouts and two HTTP streams per
  stream (`MaxIds`): the least that can be confused.
* `BodyBuffers`: slabs of 0, 1 and 3 bytes, rings of 1 to 3, so that a slab is
  smaller than, as large as and larger than the ring; chunks of up to 5 bytes
  (`MaxChunk`), which wrap the largest ring once and the smallest five times; 10
  bytes in all (`MaxWritten`), three fillings of the largest ring.
* `WriterPool`: two filters and two Writers, so that a request gets a used one,
  or a fresh one although one is pooled; two requests, three where an object must
  be used twice and returned in between. One plan has a handler that answers and
  then calls `Go`, so that `responded` and `goStarted` are both set. `MaxCallouts = 2`: a call of `Do` that
  was given up and the next one.
* `ResponseObserver`: three requests through one filter (`MaxServed`), so that
  what one leaves may show in the next but one; bodies of up to three callbacks,
  one that begins, one that continues and one that ends, with data or empty;
  trailers too.
* `Plugins`: two names (interchangeable, hence the symmetry), three registrations,
  two configurations and one filter or logger: two that may be confused, a third
  registration that may displace one, and an instance that shows what code and
  state its configuration runs. Instances do not touch one another.

### Fairness

* `SahlFilter`: Envoy delivers what it owes an open stream (headers, body,
  trailers, callout and stream completions, committed tasks), callbacks return,
  and the goroutine returns **once its context is cancelled**, not before. No
  fairness for a client's disconnect, for the response, or for the author's
  Writer calls.
* `FilterHandle`: a goroutine inside `Schedule` gets to its commit, a starting
  call returns, and Envoy delivers committed tasks of a live stream
  (`HttpScheduled` and its kin). No fairness for anything a plugin or a client
  decides.
* `BodyBuffers`: `Ring.Write`'s loop runs on. Nothing makes a filter write, read
  or reset.
* `WriterPool`: Envoy's event loop gets to scheduled functions and completed
  callouts however often it serves the same stream meanwhile: strong fairness,
  since an observer's callbacks disable them for a moment again and again.
  Callbacks return and `select` notices a ready channel or a cancelled context:
  weak fairness. No deadline, disconnect or `OnStreamComplete` is assumed, so
  `DoReturns` says that a stream which stays open answers `Do`, and that one
  which completes ends it through the context.

## 4. Proofs

`SahlFilterProofs` proves for **all** profile sets and bounds:

| Theorem | Statement |
|---|---|
| `TypeCorrect` | `Spec => []TypeOK` |
| `EffectsEndWithStream` | `Spec => NothingAfterComplete`, for any profile at all |
| `RequestDecidedOnce`, `RequestPaused`, `HandlerFirst`, `AppliedAtMostOnce`, `AnsweredStaysUntouched` | `DecidedOnce` (part of what `Outcome!Spec` says) and the four safety invariants of the run, for supported profiles |
| `ReleaseIsComplete` | the step that releases a request has applied every accepted mutation |
| `FilterImplementsOutcome` | `Spec => Outcome!Spec` |
| `NoWakeUpIsLost` | `Spec => []HeldHasDecider`, for supported profiles and hosts of either kind |

The assumptions are those of the modules (`ProfilesAssumption`,
`BoundsAssumption`) and, except for the first two theorems, `AllSupported`.
`NoWakeUpIsLost` says that a held request always has something to come, but in
the two cases that are visible in its statement: no body is delivered to a
body-aware filter, or a reply is ignored in the flush task. The runs
`sahl_body_aware` and `sahl_go` show both.

None of the invariants is inductive alone: whether a second flush can happen
depends on what is still in flight, that on what was started, and that on where
the handler is. `IInv` adds what connects them:

* `IdleWhenClosed`, `GoroutineMarked`: no author code of an ended stream runs on
  the worker thread, and `Send` in a goroutine always sees `goStarted`;
* `OneOperation`: at most one asynchronous operation, whose completion is owed
  by Envoy, owed by the goroutine, or being handled;
* `HandlerPhase`: where a request can be before, in and after its handler;
* `Decision`: while code that may still decide runs, nothing is released, and
  `responded` is backed by a waiting or a sent response;
* `MutationPhase`: until the release nothing is applied and the queues hold all
  that was accepted.

`Invariance` proves `IInv` with one lemma per conjunct and one step per action.
`NoWakeUpIsLost` adds `WakeUpPending`, which speaks of the operation and not of
what holds the request: one that was started is in flight, being completed, or
has decided; a body-aware filter still has chunks to get, is in its body
callback, or has decided. `OneOperation` and `Decision` are what it needs to go
through a flush.

`BodyBuffersProofs` proves for **all** capacities (a ring of at least one byte),
chunk sizes and numbers of streams:

| Theorem | Statement |
|---|---|
| `TailCorrect` | `Spec => TailIsRecent`, after any number of reads |
| `LenCorrect` | `Spec => []LenIsStored`, likewise |
| `HeadCorrect` | `Spec => []HeadIsFirst` |
| `BuffersTypeCorrect` | `Spec => []TypeOK`: no index leaves the slab or the ring |

What `Tail` returns says nothing of the ring before it is called, so the
invariant describes the ring at every round of a write: `RingHolds` says which
byte is in front of `pos` and, once the ring is full, which is behind it;
`SlabHolds` does the same for the slab. `LinearRotates` proves that the three
reversals are a rotation, and with `RingHolds` that is the answer.

`FilterHandleProofs`, `FilterHandleDataProofs` and `FilterHandleTaskProofs`
prove for **all** numbers of streams, handles, addresses, tasks and ids and all
four kinds of handle:

| Theorem | Statement |
|---|---|
| `TypeCorrect` | `Spec => []TypeOK` |
| `CallbacksAreOwn`, `PoolIsSound` | `OwnCallbacksOnly`, `NoPoolCorruption` |
| `DataIsKept`, `DataIsReleased` | `DataKept`, `DataReleased` |
| `LiveStreamsLoseNothing` | `LostOnlyInline`: what is dropped came inside the starting call |
| `SchedulersImplementBridge` | `Spec => ImplementsBridge`, the refinement of `TaskBridge` by every stream's scheduler |
| `SchedulersKeepTasks` | `Spec => []TasksKept` |

* `OwnHandles`: a stream Envoy still calls back has a handle of its own, outside
  the pool, in which everything is about that stream; a pooled or fresh handle is
  not in use. `CallbacksAreOwn` and `PoolIsSound` follow.
* `DataAgrees`: what a live stream's handle recorded is what the registry holds
  for it, in both directions; without the second a reused address could be
  removed under its new owner.
* `StreamsInv`: the callback of every outstanding callout is recorded or will be
  when the starting call returns; committed ids name recorded tasks, each once. It
  is about one stream, and `Locality` proves that a step of one stream leaves
  all that it mentions of another alone, so each action is treated for its own
  stream only.
* `KeptInv`: a submitted function that has not run is recorded, and every
  recorded id is between `Schedule`'s two halves or committed. With `RecordedOnce`
  of `StreamsInv` (what is recorded has still to run) it gives `TasksKept`. It
  says nothing of a completed stream: its recorded functions stay where they are
  until the scheduler is dropped (`internal.go:2225-2228`).

`WriterPoolProofs` proves for **all** requests, plans, filters and Writers,
under `~Outlives` except where the table says otherwise:

| Theorem | Statement |
|---|---|
| `TypeCorrect` | `Spec => []TypeOK` |
| `EffectsAreOwn`, `PoolsNeverPanic` | `OwnEffects`, `NoPanic` |
| `ObjectsAreExclusive` | `Exclusive`, also with `Outlives` |
| `GoroutinesEndWithOwnRequest` | `CancelledByOwnEnd` |
| `WorkersGoOn`, `ResultsMatchCalls` | `WorkerNeverBlocks`, `DoAnswersItsCall` |
| `LoneMutationsAreNotLost` | `LoneAppendsAreApplied`, for any plans, those whose appends meet among them |
| `NothingFollowsRelease` | `ReleasedIsLast` |
| `RequestsImplementOutcome` | `Spec => ImplementsOutcomes`, the refinement of `RequestOutcome` by every request |
| `WaitersAreWoken` | `DoCanReturn` |

`Inv` says that a filter and its Writer know the one request they serve
(`PoolInv`), that what is in that Writer is the request's own (`ContentInv`), and
the same of the slice an `append` holds (`AddingInv`); `writer_go` shows
why the last needs `~Outlives`. For `Do`, `CalloutInv` follows one call as a
token: it is a scheduled task, a callout in flight, or a result in its channel,
never two of them, so the channel of one place always has room.
`FlushInv` adds that the queue of an open stream, and the slice of every `append`
under way, hold the mutations of lone appends, and that nothing which may still
queue has released its request. The part about slices is the point: a lone append
left no other under way when it returned, so whoever appends after it read the
slice after it too. Of all mutations it is false, as `writer_go` shows.

`ObjectsAreExclusive` has an invariant of its own, `SharedInv`: `PoolInv` with the
few types it needs and with the fact that a Writer's `handle` is that of the
request it serves. Only `newSahlFilter`, `OnRequestHeaders` and `OnDestroy` write
what it mentions, all on the worker thread, so a goroutine that outlives its
filter cannot break it. What such a goroutine does (run `writer_go`) it
does through the contents of the Writer.

`OutcomeInv` says for one request what its flags mean: a released request has
neither a running handler or goroutine nor a flush to come, a decided one has
entered its handler, an answered one has `responded` set, and a deferred local
response waits for the flush of its goroutine, once. `RequestsImplementOutcome`
then takes each action to a step of `RequestOutcome` for the request it serves and
to a stutter for the others.

`DoInv` follows the two ways out of `Do`: `Told` says that a Writer whose request
has a goroutine knows whom to cancel and that the end of the stream did cancel
it, `CanReturn` is the property for one request. The step that needs care is a
callout whose task is dropped (`DropTask`): that happens on a completed stream
only, and then `Told` has the context ended.

`ResponseObserverProofs` proves `TypeCorrect`, `ObserverSeesOwnResponse`
(`OwnResponseOnly`) and `WriterIsThere`: the nil Writer of the run
`response_early` needs a response that both is early and asks for a Writer call.
The invariant says what the pooled structs hold before and during a response.
Two theorems are about bodies. `WholeBodyIsShown` (`ObservesWholeBody`) assumes
`OneSlice`, that a body callback brings one slice at most: `response_early` shows
what happens otherwise. `KeptBodyIsEdited` (`KeptIsEdited`) assumes nothing of the
responses: an edit is made of what the callbacks before the last brought, what
the last one brings follows it, and trailers leave no edit at all.
`DeliveredAsEdited` and `FinalCallEndsStream` (section 3) are what the comments
say, which is more. `DeliveredInv` says where each piece is, in
Envoy's buffer or sent on. It also carries `FlatDefined`: the library's
`FlattenSeq` chooses a recursive function, and each body callback extends the
only one there is by one place, so no induction is needed to know its value.

`PluginsProofs` proves `TypeCorrect`, `NamesSelectOwnCode` (`OwnCode`) and `OnlyUncheckedNilsPanic`
(`PanicsAreUncheckedNils`) for all names and bounds. The invariant follows a name from
the packages' registries to the SDK's, from there to configurations, and from
these to what ran.

Model-checked only: the liveness properties (`HeldIsResolved`,
`BodyAwareHandlerRuns`, `DisconnectEndsGoroutine`, `TasksRun`, `WriteReturns`,
`DoReturns`), which need fairness and `ENABLED`, out of the prover's reach. Where
a wake-up could be lost, the half of the promise that is an invariant is stated
and proved: `HeldHasDecider` for the first two, `TasksKept` for `TasksRun`,
`DoCanReturn` for `DoReturns`. What remains to TLC is that what is still to come
does come, which is fairness.

## 5. What is not modelled

Inside the modelled components:

* In `SahlFilter` Writer calls are atomic; `WriterPool` splits the setters into
  the read and the store of `append`. What else a data race may do (a torn slice
  header) is not modelled. Two appends that overlap may also write the same place
  of a shared backing array, so that either is lost; `alone` counts neither.
* `WriterPool` keeps one of the Writer's queues, `metaMuts`, the one both flushes
  apply, and no header or route mutations. `Request` objects are pooled like
  Writers and keep nothing asynchronous. The Envoy buffers in a result of `Do`
  are valid during the callback only (`abi.h:1000-1001`), and the goroutine reads
  them later (`do.go:77`); their lifetime is not modelled.
* `OnStreamComplete` nested inside `SendLocalResponse` is left out, and Envoy
  delivers no body or trailers after a local reply.
* A panic stops the process (and the model).
* In `FilterHandle` a filter uses its handle during callbacks of a live stream;
  refused callouts change nothing and are left out; there is one metadata key. A
  creation that fails leaves no state and is in `Plugins`.
  Envoy's contract is taken from `src/abi/abi.h`: `stream_complete` precedes
  `destroy` (line 964), and `destroy` comes once.
* In `BodyBuffers` a ring of no bytes is excluded: `Write` on one never returns
  (`buffer.go:47-55`), and no caller makes one. `WriteChunks` is a sequence of
  writes.
* In `ResponseObserver` `EndStream` comes from the body callbacks alone:
  `onResponseHeaders` drops the `endOfStream` it is given and the filter has no
  `OnResponseTrailers`, so a handler of a header-only response is never told of
  the end either. A body that Envoy replays because a filter before this one
  buffered it (`ReceivedBufferedResponseBody`, `base.go:672-677`) is not modelled.
* In `Plugins` the accessors of loggers, `Flush`, `StartPprof`, `Chain` and
  `Middleware` are left out. `http_filter_new` records the nil filter of a plugin
  and dispatches nothing to it, although `abi.h:857-858` has nullptr close the
  stream. A nil filter inside a `Chain` is one of those left out with it.

Header maps, Envoy's body buffers, attributes, metrics, socket options and
logging pass straight through to Envoy; formatting and parsing are left out.
Examples, fakes, mocks, benchmarks and end-to-end tests are not modelled.

`src/abi/abi.h` is Envoy's header, kept as it comes: declarations of what a
module exports and may call, in 12 thousand lines, of which more than half
is for extension points this repository does not implement (listener and UDP
filters, bootstrap, clusters, load balancers, certificate validation, bridges,
tracers, resolvers, transport sockets) and most of the others are accessors
without state here. The models translate the parts that say when Envoy calls
what: `Arrives`, `Live`, `Deliverable`, `Decoding`, `ChunkDue`, `Answered`.

## 6. Plan

Done: all components of section 1 as far as the table of PROJECT.json says, with
theorems for every safety property and every refinement of the passing runs.

Open, in this order:

1. What holds of effects and contexts when a goroutine outlives its filter
   (`Outlives`): which request can be harmed, and until when.
2. An abstract head and tail of a stream, implemented by `BodyBuffers`.
3. The lifetime of Envoy's buffers: results of `Do` and body slices kept by a
   handler beyond its callback.
4. Access logger accessors and metrics, once they keep state in the module.
5. Per-route configurations, which the handles pass through today.

----------------------------- MODULE SahlFilter -----------------------------
(***************************************************************************)
(* One HTTP request going through a sahl filter: sahlFilter (filter.go),   *)
(* its per-request Writer (writer.go, callout.go, stream.go) and, as its   *)
(* environment, the Envoy worker thread that delivers callbacks and the    *)
(* goroutine started by Writer.Go.                                         *)
(*                                                                         *)
(* Worker-thread callbacks that run the filter author's code are split in  *)
(* two: the action that enters the callback and the one that returns from  *)
(* it.  In between the author's code makes Writer calls, one action each,  *)
(* and the goroutine and (until the callback returns) nothing else of the  *)
(* worker thread interleaves with them.                                    *)
(***************************************************************************)
EXTENDS Naturals

CONSTANTS
    Profiles,   \* the filters, requests and hosts considered (see Profile)
    MaxQueued,  \* bound: mutations of one kind queued at a time
    MaxEvents   \* bound: stream events and response callbacks delivered

(* What the Writer queues: request headers, metadata, counters, route flag *)
Kinds == {"header", "meta", "counter", "route"}

Async == {"Go", "HTTPCallout", "HTTPStream"}

Calls == Kinds \union {"Send"} \union Async

(* bodyAware, observer: how the filter was registered (filterDef.bodyAware *)
(* and filterDef.responseFn # nil).  calls, observes: the Writer calls its *)
(* request-side code and its response observer may make.  chunks,          *)
(* trailers: the shape of the request.  discipline: how closely the author *)
(* follows the doc comments.  "returns": the handler returns once it has   *)
(* started an asynchronous operation; "full": and no later callback starts *)
(* another.                                                                *)
(* bodyAfterStopAll, scheduledReplies: two answers about Envoy on which the*)
(* repository disagrees with itself.  Does a filter that returned          *)
(* HeadersStatusStopAllAndBuffer get body callbacks (filter.go counts on   *)
(* it, api.go says not)?  Is SendLocalResponse honoured when a scheduled   *)
(* function calls it (writer.go counts on it, do.go says not)?             *)
Profile ==
    [bodyAware : BOOLEAN, observer : BOOLEAN, calls : SUBSET Calls,
     observes : SUBSET Calls, chunks : Nat, trailers : BOOLEAN,
     discipline : {"none", "returns", "full"},
     bodyAfterStopAll : BOOLEAN, scheduledReplies : BOOLEAN]

ASSUME ProfilesAssumption == Profiles \subseteq Profile
ASSUME BoundsAssumption == MaxQueued \in Nat /\ MaxEvents \in Nat

VARIABLES
    profile,     \* chosen initially, never changed
    \* Envoy and the request
    stream,      \* new, open, complete (streamDone), destroyed
    status,      \* what OnRequestHeaders returned
    chunks,      \* body chunks Envoy has still to deliver
    trailers,    \* request trailers Envoy has still to deliver
    pending,     \* callouts and streams in flight in Envoy
    response,    \* none, upstream, local: the response being encoded
    events,      \* stream events and response callbacks delivered so far
    \* the threads
    worker,      \* the callback whose author code the worker thread runs
    goroutine,   \* none, running, scheduled (flush task committed), done
    cancelled,   \* the goroutine's context is cancelled
    panicked,    \* an sahl BUG panic has brought the process down
    \* the Writer
    started,     \* goStarted, calloutStarted, streamStarted
    armed,       \* calloutFn, streamEventFn not nil
    responded,   \* Send was called
    localResp,   \* a local response waits for flush
    queued,      \* reqMuts, metaMuts, counterMuts, routeCleared
    \* what happened so far
    handled,     \* the request handler has been entered
    accepted,    \* mutations the Writer accepted, by kind
    applied,     \* mutations applied to Envoy, by kind
    forwards,    \* times the request was released towards the upstream
    sent         \* local responses handed to Envoy

request == <<chunks, trailers, status>>
threads == <<worker, goroutine, cancelled, panicked>>
asyncOps == <<started, armed, pending>>
mutations == <<queued, accepted>>
reply == <<responded, localResp>>
effects == <<applied, forwards, sent>>
observed == <<response, events>>
vars == <<profile, stream, request, threads, asyncOps, mutations, reply,
          effects, observed, handled>>

TypeOK ==
    /\ profile \in Profiles
    /\ stream \in {"new", "open", "complete", "destroyed"}
    /\ status \in {"none", "Continue", "Stop", "StopAllAndBuffer"}
    /\ chunks \in Nat /\ trailers \in BOOLEAN
    /\ pending \subseteq {"HTTPCallout", "HTTPStream"}
    /\ response \in {"none", "upstream", "local"}
    /\ events \in 0..MaxEvents
    /\ worker \in {"idle", "headers", "body", "callout", "event", "end", "response"}
    /\ goroutine \in {"none", "running", "scheduled", "done"}
    /\ cancelled \in BOOLEAN /\ panicked \in BOOLEAN
    /\ started \subseteq Async
    /\ armed \subseteq {"HTTPCallout", "HTTPStream"}
    /\ responded \in BOOLEAN /\ localResp \in BOOLEAN
    /\ queued \in [Kinds -> Nat] /\ accepted \in [Kinds -> Nat]
    /\ applied \in [Kinds -> Nat]
    /\ handled \in BOOLEAN
    /\ forwards \in Nat /\ sent \in Nat

None == [k \in Kinds |-> 0]

Init ==
    /\ profile \in Profiles
    /\ stream = "new" /\ status = "none"
    /\ chunks = profile.chunks /\ trailers = profile.trailers
    /\ pending = {} /\ response = "none" /\ events = 0
    /\ worker = "idle" /\ goroutine = "none"
    /\ cancelled = FALSE /\ panicked = FALSE
    /\ started = {} /\ armed = {}
    /\ responded = FALSE /\ localResp = FALSE /\ queued = None
    /\ handled = FALSE /\ accepted = None /\ applied = None
    /\ forwards = 0 /\ sent = 0

(* The worker thread runs one callback at a time, and only for a live      *)
(* process.                                                                *)
WorkerFree == worker = "idle" /\ ~panicked

(* The request headers stopped at this filter and nothing has decided the  *)
(* request: any Continue status returned now releases it (api.go).         *)
Held == status \in {"Stop", "StopAllAndBuffer"} /\ forwards = 0 /\ sent = 0

(* Envoy keeps decoding the request through this filter.                   *)
Decoding ==
    /\ stream = "open" /\ sent = 0 /\ response # "local"
    /\ status # "none"
    /\ status = "StopAllAndBuffer" => profile.bodyAfterStopAll

(* The stream has completed: sahl's guard on late callbacks, and the one in*)
(* front of every filter callback of the host side.                        *)
streamDone_Never == FALSE

streamDone_Early == stream # "new"

streamDone == stream \in {"complete", "destroyed"}

-----------------------------------------------------------------------------
(* What flush leaves alone: nothing is applied once Send was called.       *)
Suppressed_Never == FALSE

Suppressed == responded

Apply_NoCounters ==
    applied' = [k \in Kinds |-> applied[k] + IF k = "counter" THEN 0 ELSE queued[k]]

Apply == applied' = [k \in Kinds |-> applied[k] + queued[k]]

(* Writer.flush and its two forms of releasing the request: ContinueRequest*)
(* when called with true, and the Continue status its synchronous callers  *)
(* return.  releases is how many times the request is released.            *)
flush(releases) ==
    \/ localResp /\ sent' = sent + 1 /\ UNCHANGED <<applied, forwards>>
    \/ ~localResp /\ Suppressed /\ UNCHANGED effects
    \/ /\ ~localResp /\ ~Suppressed
       /\ Apply
       /\ forwards' = forwards + releases
       /\ UNCHANGED sent

(* Writer.flushResponseMutations: metadata and counters, then cleared.     *)
flushResponseMutations ==
    LET now == {"meta", "counter"} IN
    /\ applied' = [k \in Kinds |-> applied[k] + IF k \in now THEN queued[k] ELSE 0]
    /\ queued' = [k \in Kinds |-> IF k \in now THEN 0 ELSE queued[k]]

-----------------------------------------------------------------------------
(* Request side, delivered by Envoy                                        *)

(* OnRequestHeaders, up to the handler; a body-aware filter returns at once*)
OnRequestHeaders ==
    /\ stream = "new" /\ WorkerFree
    /\ stream' = "open"
    /\ \/ /\ profile.bodyAware
          /\ status' = "StopAllAndBuffer"
          /\ UNCHANGED <<worker, handled>>
       \/ /\ ~profile.bodyAware
          /\ worker' = "headers" /\ handled' = TRUE
          /\ UNCHANGED status
    /\ UNCHANGED <<profile, chunks, trailers, goroutine, cancelled, panicked,
                   asyncOps, mutations, reply, effects, observed>>

(* The handler left an asynchronous operation behind.                      *)
Asynchronous_NoStream == started \ {"HTTPStream"} # {}

Asynchronous == started # {}

(* OnRequestHeaders, from the return of the handler                        *)
OnRequestHeadersReturn ==
    /\ worker = "headers" /\ ~panicked
    /\ worker' = "idle"
    /\ \/ /\ Asynchronous \/ responded
          /\ status' = "Stop" /\ UNCHANGED effects
       \/ /\ ~Asynchronous /\ ~responded
          /\ status' = "Continue" /\ flush(1)
    /\ UNCHANGED <<profile, stream, chunks, trailers, goroutine, cancelled,
                   panicked, asyncOps, mutations, reply, observed, handled>>

(* OnRequestBody: a body-aware filter keeps the chunks and runs its handler*)
(* on the one that ends the stream; any other filter returns Continue.     *)
EndsStream_Late == chunks = 0 /\ ~trailers

EndsStream == chunks = 1 /\ ~trailers

Buffers_Never == FALSE

Buffers == profile.bodyAware /\ ~EndsStream

ChunkDue == Decoding /\ chunks > 0

OnRequestBody ==
    /\ ChunkDue /\ WorkerFree
    /\ chunks' = chunks - 1
    /\ \/ /\ profile.bodyAware /\ EndsStream
          /\ worker' = "body" /\ handled' = TRUE
          /\ UNCHANGED forwards
       \/ /\ Buffers
          /\ UNCHANGED <<worker, handled, forwards>>
       \/ /\ ~Buffers /\ ~(profile.bodyAware /\ EndsStream)
          /\ forwards' = forwards + IF Held THEN 1 ELSE 0
          /\ UNCHANGED <<worker, handled>>
    /\ UNCHANGED <<profile, stream, trailers, status, goroutine, cancelled, panicked,
                   asyncOps, mutations, reply, applied, sent, observed>>

(* OnRequestBody, from the return of a body-aware handler: Continue always *)
OnRequestBodyReturn ==
    /\ worker = "body" /\ ~panicked
    /\ worker' = "idle"
    /\ LET releases == IF Held THEN 1 ELSE 0 IN
       \/ ~responded /\ flush(releases)
       \/ responded /\ forwards' = forwards + releases /\ UNCHANGED <<applied, sent>>
    /\ UNCHANGED <<profile, stream, request, goroutine, cancelled, panicked,
                   asyncOps, mutations, reply, observed, handled>>

(* EmptyHttpFilter.OnRequestTrailers: Continue                             *)
OnRequestTrailers ==
    /\ Decoding /\ WorkerFree
    /\ chunks = 0 /\ trailers
    /\ trailers' = FALSE
    /\ forwards' = forwards + IF Held THEN 1 ELSE 0
    /\ UNCHANGED <<profile, stream, chunks, status, threads, asyncOps, mutations,
                   reply, applied, sent, observed, handled>>

-----------------------------------------------------------------------------
(* Writer calls made by the author's code, on the worker thread or in the  *)
(* goroutine                                                               *)

ByWorker(call) ==
    \/ /\ worker \in {"headers", "body", "callout", "event", "end"}
       /\ call \in profile.calls
       /\ profile.discipline # "none" /\ worker \in {"headers", "body"} => started = {}
    \/ worker = "response" /\ call \in profile.observes

ByGoroutine(call) == goroutine = "running" /\ call \in profile.calls

MayCall(call) == ~panicked /\ (ByWorker(call) \/ ByGoroutine(call))

(* A fully disciplined author starts one operation, on the worker thread.  *)
MayStart(op) ==
    /\ MayCall(op)
    /\ profile.discipline = "full" => ByWorker(op) /\ started = {}

(* SetRequestHeader, SetMetadata, IncrementCounter, RecordHistogram and    *)
(* ClearRouteCache                                                         *)
Queue(kind) ==
    /\ MayCall(kind)
    /\ kind \in {"header", "meta"} => ~responded
    /\ queued[kind] < IF kind = "route" THEN 1 ELSE MaxQueued
    /\ queued' = [queued EXCEPT ![kind] = @ + 1]
    /\ accepted' = [accepted EXCEPT ![kind] = @ + 1]
    /\ UNCHANGED <<profile, stream, request, threads, asyncOps, reply, effects,
                   observed, handled>>

(* SendBytes: at once, or left for flush once Go was called.  A second call*)
(* is a no-op.                                                             *)
Send ==
    /\ MayCall("Send")
    /\ ~responded
    /\ responded' = TRUE
    /\ \/ "Go" \in started /\ localResp' = TRUE /\ UNCHANGED sent
       \/ "Go" \notin started /\ sent' = sent + 1 /\ UNCHANGED localResp
    /\ UNCHANGED <<profile, stream, request, threads, asyncOps, mutations,
                   applied, forwards, observed, handled>>

(* Go checks only itself                                                   *)
Go ==
    /\ MayStart("Go")
    /\ "Go" \notin started
    /\ started' = started \union {"Go"}
    /\ goroutine' = "running"
    /\ UNCHANGED <<profile, stream, request, worker, cancelled, panicked, armed,
                   pending, mutations, reply, effects, observed, handled>>

(* HTTPCalloutE: initiated, or refused by Envoy and nothing changes        *)
HTTPCalloutE ==
    /\ MayStart("HTTPCallout")
    /\ started \intersect {"HTTPCallout", "Go"} = {}
    /\ \/ /\ started' = started \union {"HTTPCallout"}
          /\ armed' = armed \union {"HTTPCallout"}
          /\ pending' = pending \union {"HTTPCallout"}
       \/ UNCHANGED asyncOps
    /\ UNCHANGED <<profile, stream, request, threads, mutations, reply, effects,
                   observed, handled>>

(* HTTPStream: likewise, and it excludes both others                       *)
HTTPStream ==
    /\ MayStart("HTTPStream")
    /\ started = {}
    /\ \/ /\ started' = {"HTTPStream"}
          /\ armed' = armed \union {"HTTPStream"}
          /\ pending' = pending \union {"HTTPStream"}
       \/ UNCHANGED asyncOps
    /\ UNCHANGED <<profile, stream, request, threads, mutations, reply, effects,
                   observed, handled>>

(* The three BUG panics                                                    *)
Panic ==
    /\ \/ MayStart("Go") /\ "Go" \in started
       \/ MayStart("HTTPCallout") /\ started \intersect {"HTTPCallout", "Go"} # {}
       \/ MayStart("HTTPStream") /\ started # {}
    /\ panicked' = TRUE
    /\ UNCHANGED <<profile, stream, request, worker, goroutine, cancelled, asyncOps,
                   mutations, reply, effects, observed, handled>>

-----------------------------------------------------------------------------
(* Asynchronous completions                                                *)

(* OnHttpCalloutDone: dropped when the stream is done, else the stored fn  *)
OnHttpCalloutDone ==
    /\ "HTTPCallout" \in pending /\ WorkerFree /\ stream # "destroyed"
    /\ pending' = pending \ {"HTTPCallout"}
    /\ \/ ~streamDone /\ worker' = "callout" /\ armed' = armed \ {"HTTPCallout"}
       \/ streamDone /\ UNCHANGED <<worker, armed>>
    /\ UNCHANGED <<profile, stream, request, goroutine, cancelled, panicked, started,
                   mutations, reply, effects, observed, handled>>

OnHttpCalloutDoneReturn ==
    /\ worker = "callout" /\ ~panicked
    /\ worker' = "idle"
    /\ flush(1)
    /\ UNCHANGED <<profile, stream, request, goroutine, cancelled, panicked, asyncOps,
                   mutations, reply, observed, handled>>

(* OnHttpStreamHeaders, OnHttpStreamData, OnHttpStreamTrailers; the host   *)
(* side drops them once the stream is complete                             *)
OnHttpStreamEvent ==
    /\ "HTTPStream" \in pending /\ WorkerFree /\ ~streamDone
    /\ "HTTPStream" \in armed
    /\ events < MaxEvents /\ events' = events + 1
    /\ worker' = "event"
    /\ UNCHANGED <<profile, stream, request, goroutine, cancelled, panicked, asyncOps,
                   mutations, reply, effects, response, handled>>

OnHttpStreamEventReturn ==
    /\ worker = "event" /\ ~panicked
    /\ worker' = "idle"
    /\ UNCHANGED <<profile, stream, request, goroutine, cancelled, panicked, asyncOps,
                   mutations, reply, effects, observed, handled>>

(* OnHttpStreamComplete and OnHttpStreamReset: the last event, then flush. *)
(* Reset passes !responded to flush, which then never reads it.            *)
OnHttpStreamEnd ==
    /\ "HTTPStream" \in pending /\ WorkerFree /\ stream # "destroyed"
    /\ pending' = pending \ {"HTTPStream"}
    /\ \/ ~streamDone /\ worker' = "end"
       \/ streamDone /\ UNCHANGED worker
    /\ UNCHANGED <<profile, stream, request, goroutine, cancelled, panicked, started,
                   armed, mutations, reply, effects, observed, handled>>

OnHttpStreamEndReturn ==
    /\ worker = "end" /\ ~panicked
    /\ worker' = "idle"
    /\ armed' = armed \ {"HTTPStream"}
    /\ flush(1)
    /\ UNCHANGED <<profile, stream, request, goroutine, cancelled, panicked, started,
                   pending, mutations, reply, observed, handled>>

(* fn of Writer.Go returned: the flush task is committed to the scheduler  *)
GoReturn ==
    /\ goroutine = "running" /\ ~panicked
    /\ goroutine' = "scheduled" /\ cancelled' = TRUE
    /\ UNCHANGED <<profile, stream, request, worker, panicked, asyncOps, mutations,
                   reply, effects, observed, handled>>

(* The flush task on the worker thread; the host side drops it once the    *)
(* stream is complete.  A local response Envoy ignores there answers nobody*)
(* and releases nothing.                                                   *)
OnScheduled ==
    /\ goroutine = "scheduled" /\ WorkerFree /\ stream # "destroyed"
    /\ goroutine' = "done"
    /\ LET honoured == localResp => profile.scheduledReplies IN
       \/ ~streamDone /\ honoured /\ flush(1)
       \/ (streamDone \/ ~honoured) /\ UNCHANGED effects
    /\ UNCHANGED <<profile, stream, request, worker, cancelled, panicked, asyncOps,
                   mutations, reply, observed, handled>>

-----------------------------------------------------------------------------
(* Response side and end of the stream                                     *)

(* The handle has been asked for a local response, honoured or not.        *)
localResponseSent == sent > 0 \/ (localResp /\ goroutine = "done")

(* OnResponseHeaders and OnResponseBody: the observer sees every callback  *)
(* of a response that is not the filter's own Send.                        *)
OnResponse ==
    /\ stream = "open" /\ WorkerFree /\ profile.observer
    /\ ~localResponseSent /\ status # "none"
    /\ events < MaxEvents /\ events' = events + 1
    /\ response' = IF response # "none" THEN response
                   ELSE IF forwards > 0 THEN "upstream" ELSE "local"
    /\ worker' = "response"
    /\ UNCHANGED <<profile, stream, request, goroutine, cancelled, panicked, asyncOps,
                   mutations, reply, effects, handled>>

OnResponseReturn ==
    /\ worker = "response" /\ ~panicked
    /\ worker' = "idle"
    /\ UNCHANGED <<profile, stream, request, goroutine, cancelled, panicked, asyncOps,
                   mutations, reply, effects, observed, handled>>

(* OnStreamComplete: flush what the observer queued, cancel the goroutine  *)
Flushes_Always == TRUE

Flushes == profile.observer

goCancel_Missing == cancelled

goCancel == cancelled \/ "Go" \in started

OnStreamComplete ==
    /\ stream \in {"new", "open"} /\ WorkerFree
    /\ stream' = "complete"
    /\ \/ Flushes /\ flushResponseMutations
       \/ ~Flushes /\ UNCHANGED <<applied, queued>>
    /\ cancelled' = goCancel
    /\ UNCHANGED <<profile, request, worker, goroutine, panicked, asyncOps, accepted,
                   reply, forwards, sent, observed, handled>>

(* OnDestroy: Request, Writer and filter go back to their pools            *)
OnDestroy ==
    /\ stream = "complete" /\ WorkerFree
    /\ stream' = "destroyed"
    /\ UNCHANGED <<profile, request, threads, asyncOps, mutations, reply, effects,
                   observed, handled>>

-----------------------------------------------------------------------------
WriterCall ==
    \/ \E kind \in Kinds : Queue(kind)
    \/ Send \/ Go \/ HTTPCalloutE \/ HTTPStream \/ Panic

HostCallback ==
    \/ OnRequestHeaders \/ OnRequestBody \/ OnRequestTrailers
    \/ OnHttpCalloutDone \/ OnHttpStreamEvent \/ OnHttpStreamEnd
    \/ OnScheduled \/ OnResponse \/ OnStreamComplete \/ OnDestroy

CallbackReturn ==
    \/ OnRequestHeadersReturn \/ OnRequestBodyReturn
    \/ OnHttpCalloutDoneReturn \/ OnHttpStreamEventReturn \/ OnHttpStreamEndReturn
    \/ OnResponseReturn

Next == HostCallback \/ CallbackReturn \/ WriterCall \/ GoReturn

Spec == Init /\ [][Next]_vars

(* Envoy delivers what it owes an open stream; callbacks return; the       *)
(* goroutine is only known to return once its context is cancelled.  The   *)
(* client need not ever disconnect and the response need not ever come.    *)
Fairness ==
    /\ WF_vars(OnRequestHeaders) /\ WF_vars(OnRequestBody) /\ WF_vars(OnRequestTrailers)
    /\ WF_vars(OnHttpCalloutDone) /\ WF_vars(OnHttpStreamEnd) /\ WF_vars(OnScheduled)
    /\ WF_vars(CallbackReturn)
    /\ WF_vars(GoReturn /\ cancelled)

FairSpec == Spec /\ Fairness

=============================================================================

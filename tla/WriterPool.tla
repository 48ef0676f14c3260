----------------------------- MODULE WriterPool -----------------------------
(***************************************************************************)
(* What several requests share in sahl: the pools of sahlFilter and Writer *)
(* objects (filter.go, writer.go), and Writer.Do (do.go), by which the     *)
(* goroutine of Writer.Go has the worker thread make a callout and waits   *)
(* for its result.  Requests on different worker threads interleave, and a *)
(* goroutine keeps its Writer for as long as it runs, also when Envoy has  *)
(* long destroyed the filter and the Writer serves another request.        *)
(*                                                                         *)
(* A mutation is named by the request and the piece of author code that    *)
(* made it; each piece makes one.  Of the Writer's queues the model keeps  *)
(* metaMuts, which both flushes apply.                                     *)
(***************************************************************************)
EXTENDS Naturals, Sequences, SequencesExt

CONSTANTS
    Requests, Filters, Writers,
    Plans,        \* what the author's code does for each request
    Outlives,     \* whether a goroutine may use its Writer after Envoy has
                  \* destroyed the filter of its request
    MaxCallouts,  \* bound: calls of Do per goroutine
    None

Codes == {"handler", "goroutine", "observer"}

Calls == {"handler", "goroutine", "observer", "Send", "Go", "GoSend", "Do"}

(* handler, goroutine, observer: that code queues a mutation; Send: the    *)
(* handler answers; GoSend: the goroutine does; observer also says that the*)
(* filter was registered with a response observer.                         *)
(* A request outside a plan's domain never arrives.                        *)
ASSUME PlansAssumption ==
    \A p \in Plans : DOMAIN p \subseteq Requests /\ p \in [DOMAIN p -> SUBSET Calls]
ASSUME BoundAssumption == MaxCallouts \in Nat /\ Outlives \in BOOLEAN
ASSUME ValuesAssumption == None \notin Requests \union Filters \union Writers

Mutations == Requests \X Codes

Callouts == Requests \X (1..MaxCallouts)

VARIABLES
    plan,        \* chosen initially, never changed
    phase,       \* none, created (filter_new), open, complete, destroyed
    filterOf,    \* the filter Envoy holds for a request
    filter,      \* handler (whose definition), writer
    writer,      \* handle and scheduler (whose), queue, reply, Go state
    filterPool, writerPool,  \* how often an object lies in its pool
    used,        \* objects that exist; the others are still to be allocated
    code,        \* the author code a request's worker thread is running
    goroutine,   \* none, running, waiting (in Do), done
    given,       \* the Writer the handler of a request was given
    cancelled,   \* the context of the request's goroutine is cancelled
    adding,      \* append begun: the slice it read, or None
    asked,       \* calls of Do so far
    channel,     \* results in the channel of each call of Do
    tasks,       \* functions scheduled and not run
    inflight,    \* callouts Envoy has to complete: <<stream, call of Do>>
    blocked,     \* requests whose worker thread waits for a channel
    panicked,
    \* what happened so far
    added,       \* mutations whose Writer call returned
    alone,       \* those of them whose call met no other of the same Writer:
                 \* none returned during it and none was under way at its end
    applied,     \* <<request, mutation>>
    answered,    \* <<request, request whose code called Send>>
    released,    \* requests whose queue was flushed before they went on
    results      \* <<call of Do, call whose result it returned>>

envoy == <<phase, filterOf, code>>
pools == <<filterPool, writerPool, used>>
goroutines == <<goroutine, given, cancelled>>
callouts == <<asked, channel, tasks, inflight, blocked, results>>
effects == <<applied, answered, released>>
vars == <<plan, envoy, filter, writer, pools, goroutines, adding, callouts,
          panicked, added, alone, effects>>

Writer ==
    [handle : Requests \union {None}, queued : Seq(Mutations),
     responded : BOOLEAN, localResp : Requests \union {None},
     goStarted : BOOLEAN, goCancel : Requests \union {None}]

TypeOK ==
    /\ plan \in Plans
    /\ phase \in [Requests -> {"none", "created", "open", "complete", "destroyed"}]
    /\ filterOf \in [Requests -> Filters \union {None}]
    /\ filter \in [Filters -> [handler : Requests \union {None},
                               writer : Writers \union {None}]]
    /\ writer \in [Writers -> Writer]
    /\ filterPool \in [Filters -> 0..1] /\ writerPool \in [Writers -> 0..1]
    /\ used \subseteq Filters \union Writers
    /\ code \in [Requests -> {"idle", "handler", "observer"}]
    /\ goroutine \in [Requests -> {"none", "running", "waiting", "done"}]
    /\ given \in [Requests -> Writers \union {None}]
    /\ cancelled \subseteq Requests
    /\ DOMAIN adding = Mutations
    /\ asked \in [Requests -> 0..MaxCallouts]
    /\ \A c \in Callouts : Len(channel[c]) <= 1
    /\ inflight \subseteq Requests \X Callouts
    /\ blocked \subseteq Requests /\ panicked \in BOOLEAN
    /\ alone \subseteq added /\ added \subseteq Mutations
    /\ applied \subseteq Requests \X Mutations
    /\ answered \subseteq Requests \X Requests
    /\ released \subseteq Requests
    /\ results \subseteq Callouts \X Callouts

(* The zero values of &sahlFilter{} and &Writer{}                          *)
BlankFilter == [handler |-> None, writer |-> None]

BlankWriter ==
    [handle |-> None, queued |-> << >>, responded |-> FALSE,
     localResp |-> None, goStarted |-> FALSE, goCancel |-> None]

Init ==
    /\ plan \in Plans
    /\ phase = [r \in Requests |-> "none"]
    /\ filterOf = [r \in Requests |-> None]
    /\ filter = [f \in Filters |-> BlankFilter]
    /\ writer = [w \in Writers |-> BlankWriter]
    /\ filterPool = [f \in Filters |-> 0] /\ writerPool = [w \in Writers |-> 0]
    /\ used = {}
    /\ code = [r \in Requests |-> "idle"]
    /\ goroutine = [r \in Requests |-> "none"]
    /\ given = [r \in Requests |-> None] /\ cancelled = {}
    /\ adding = [m \in Mutations |-> None]
    /\ asked = [r \in Requests |-> 0]
    /\ channel = [c \in Callouts |-> << >>]
    /\ tasks = {} /\ inflight = {} /\ blocked = {} /\ panicked = FALSE
    /\ added = {} /\ alone = {}
    /\ applied = {} /\ answered = {} /\ released = {} /\ results = {}

-----------------------------------------------------------------------------
(* Pools                                                                   *)

(* The worker thread of a request can take a callback.                     *)
Free(r) == code[r] = "idle" /\ r \notin blocked /\ ~panicked

(* sync.Pool.Get: any pooled object, or New although there is one          *)
Gettable(objects, pool) ==
    {o \in objects : pool[o] > 0} \union
    (IF objects \subseteq used THEN {} ELSE {CHOOSE o \in objects : o \notin used})

Taken(pool, o) == [pool EXCEPT ![o] = IF @ > 0 THEN @ - 1 ELSE 0]

(* newSahlFilter                                                           *)
newSahlFilter(r) ==
    /\ r \in DOMAIN plan /\ phase[r] = "none" /\ ~panicked
    /\ \E f \in Gettable(Filters, filterPool) :
         \/ /\ filter[f].handler # None
            /\ panicked' = TRUE
            /\ UNCHANGED <<phase, filterOf, filter, filterPool, used>>
         \/ /\ filter[f].handler = None
            /\ phase' = [phase EXCEPT ![r] = "created"]
            /\ filterOf' = [filterOf EXCEPT ![r] = f]
            /\ filter' = [filter EXCEPT ![f].handler = r]
            /\ filterPool' = Taken(filterPool, f)
            /\ used' = used \union {f}
            /\ UNCHANGED panicked
    /\ UNCHANGED <<plan, code, writer, writerPool, goroutines, adding, callouts, added, alone,
                   effects>>

(* Writer.reset                                                            *)
reset_KeepsQueue(w, r) == [BlankWriter EXCEPT !.handle = r, !.queued = writer[w].queued]

reset_KeepsGo(w, r) == [BlankWriter EXCEPT !.handle = r, !.goStarted = writer[w].goStarted]

reset(w, r) == [BlankWriter EXCEPT !.handle = r]

(* OnRequestHeaders, up to the handler                                     *)
OnRequestHeaders(r) ==
    /\ phase[r] = "created" /\ Free(r)
    /\ \E w \in Gettable(Writers, writerPool) :
         /\ writer' = [writer EXCEPT ![w] = reset(w, r)]
         /\ filter' = [filter EXCEPT ![filterOf[r]].writer = w]
         /\ writerPool' = Taken(writerPool, w)
         /\ used' = used \union {w}
         /\ given' = [given EXCEPT ![r] = w]
    /\ phase' = [phase EXCEPT ![r] = "open"]
    /\ code' = [code EXCEPT ![r] = "handler"]
    /\ UNCHANGED <<plan, filterOf, filterPool, goroutine, cancelled, adding, callouts,
                   panicked, added, alone, effects>>

(* OnDestroy: the Writer, if there is one, and the filter go back.         *)
left_KeepsWriter(f) == [filter[f] EXCEPT !.handler = None]

left(f) == BlankFilter

OnDestroy(r) ==
    LET f == filterOf[r] IN
    /\ phase[r] = "complete" /\ Free(r)
    /\ Outlives \/ adding[<<r, "goroutine">>] = None
    /\ phase' = [phase EXCEPT ![r] = "destroyed"]
    /\ writerPool' = [w \in Writers |-> writerPool[w] + IF w = filter[f].writer THEN 1 ELSE 0]
    /\ filterPool' = [filterPool EXCEPT ![f] = @ + 1]
    /\ filter' = [filter EXCEPT ![f] = left(f)]
    /\ UNCHANGED <<plan, filterOf, code, writer, used, goroutines, adding, callouts,
                   panicked, added, alone, effects>>

-----------------------------------------------------------------------------
(* flush and flushResponseMutations                                        *)

(* What a loop over the queue of w applies, and to whose stream            *)
Applied_ButLast(w) ==
    {writer[w].handle} \X {writer[w].queued[i] : i \in 1..(Len(writer[w].queued) - 1)}

Applied(w) == {writer[w].handle} \X ToSet(writer[w].queued)

flush_NoReturn(w) ==
    LET replies == IF writer[w].localResp # None
                   THEN {<<writer[w].handle, writer[w].localResp>>} ELSE {} IN
    /\ answered' = answered \union replies
    /\ applied' = applied \union Applied(w)
    /\ released' = released \union {writer[w].handle}

flush(w) ==
    \/ /\ writer[w].localResp # None
       /\ answered' = answered \union {<<writer[w].handle, writer[w].localResp>>}
       /\ UNCHANGED <<applied, released>>
    \/ /\ writer[w].localResp = None /\ writer[w].responded
       /\ UNCHANGED effects
    \/ /\ writer[w].localResp = None /\ ~writer[w].responded
       /\ applied' = applied \union Applied(w)
       /\ released' = released \union {writer[w].handle}
       /\ UNCHANGED answered

(* The handler neither left the request to its goroutine nor answered it.  *)
Undecided_IgnoresGo(w) == ~writer[w].responded

Undecided(w) == ~writer[w].goStarted /\ ~writer[w].responded

(* OnRequestHeaders, from the return of the handler                        *)
OnRequestHeadersReturn(r) ==
    LET w == given[r] IN
    /\ code[r] = "handler" /\ adding[<<r, "handler">>] = None /\ ~panicked
    /\ code' = [code EXCEPT ![r] = "idle"]
    /\ \/ ~Undecided(w) /\ UNCHANGED effects
       \/ Undecided(w) /\ flush(w)
    /\ UNCHANGED <<plan, phase, filterOf, filter, writer, pools, goroutines, adding,
                   callouts, panicked, added, alone>>

(* OnResponseHeaders and OnResponseBody of a filter with an observer, also *)
(* of a request Envoy answers while its goroutine works (a timeout), but   *)
(* not of the filter's own answer                                          *)
OnResponse(r) ==
    /\ phase[r] = "open" /\ Free(r)
    /\ "observer" \in plan[r] /\ \A a \in answered : a[1] # r
    /\ code' = [code EXCEPT ![r] = "observer"]
    /\ UNCHANGED <<plan, phase, filterOf, filter, writer, pools, goroutines, adding,
                   callouts, panicked, added, alone, effects>>

OnResponseReturn(r) ==
    /\ code[r] = "observer" /\ adding[<<r, "observer">>] = None /\ ~panicked
    /\ code' = [code EXCEPT ![r] = "idle"]
    /\ UNCHANGED <<plan, phase, filterOf, filter, writer, pools, goroutines, adding,
                   callouts, panicked, added, alone, effects>>

(* OnStreamComplete: whatever Writer the filter holds, its queue is flushed*)
(* for an observer and its goroutine cancelled.                            *)
Cancels_Missing(w) == {}

Cancels(w) == IF writer[w].goCancel = None THEN {} ELSE {writer[w].goCancel}

OnStreamComplete(r) ==
    LET w == filter[filterOf[r]].writer
        flushes == "observer" \in plan[r] /\ w # None IN
    /\ phase[r] \in {"created", "open"} /\ Free(r)
    /\ phase' = [phase EXCEPT ![r] = "complete"]
    /\ applied' = applied \union IF flushes THEN Applied(w) ELSE {}
    /\ writer' = IF flushes THEN [writer EXCEPT ![w].queued = << >>] ELSE writer
    /\ cancelled' = cancelled \union IF w = None THEN {} ELSE Cancels(w)
    /\ UNCHANGED <<plan, filterOf, code, filter, pools, goroutine, given, adding, callouts,
                   panicked, added, alone, answered, released>>

-----------------------------------------------------------------------------
(* Writer calls of the author's code                                       *)

(* The code that may make the call c of its Writer now: also a handler that*)
(* has called Go, or an observer, while the goroutine runs                 *)
MayUse(r, c) ==
    /\ ~panicked
    /\ \/ c \in {"handler", "observer"} /\ code[r] = c
       \/ c = "goroutine" /\ goroutine[r] = "running"
          /\ (Outlives \/ phase[r] # "destroyed")

(* SetMetadata: an append, which reads the slice ...                       *)
Add(r, c) ==
    /\ MayUse(r, c) /\ c \in plan[r]
    /\ adding[<<r, c>>] = None /\ <<r, c>> \notin added
    /\ ~writer[given[r]].responded
    /\ adding' = [adding EXCEPT ![<<r, c>>] = writer[given[r]].queued]
    /\ UNCHANGED <<plan, envoy, filter, writer, pools, goroutines, callouts, panicked,
                   added, alone, effects>>

(* ... and stores it with the new element                                  *)
AddReturn(r, c) ==
    LET m == <<r, c>> IN
    /\ MayUse(r, c) /\ adding[m] # None
    /\ writer' = [writer EXCEPT ![given[r]].queued = Append(adding[m], m)]
    /\ adding' = [adding EXCEPT ![m] = None]
    /\ added' = added \union {m}
    /\ alone' = alone \union
                  IF /\ writer[given[r]].queued = adding[m]
                     /\ \A d \in Codes \ {c} : adding[<<r, d>>] = None
                  THEN {m} ELSE {}
    /\ UNCHANGED <<plan, envoy, filter, pools, goroutines, callouts, panicked, effects>>

(* SendBytes: at once to the Writer's handle, or left for flush            *)
Send(r, c) ==
    LET w == given[r] IN
    /\ MayUse(r, c) /\ adding[<<r, c>>] = None
    /\ \/ c = "handler" /\ "Send" \in plan[r]
       \/ c = "goroutine" /\ "GoSend" \in plan[r]
    /\ ~writer[w].responded
    /\ \/ /\ writer[w].goStarted
          /\ writer' = [writer EXCEPT ![w].responded = TRUE, ![w].localResp = r]
          /\ UNCHANGED answered
       \/ /\ ~writer[w].goStarted
          /\ writer' = [writer EXCEPT ![w].responded = TRUE]
          /\ answered' = answered \union {<<writer[w].handle, r>>}
    /\ UNCHANGED <<plan, envoy, filter, pools, goroutines, adding, callouts, panicked,
                   added, alone, applied, released>>

(* Go, from the handler, which calls it once                               *)
Go(r) ==
    LET w == given[r] IN
    /\ MayUse(r, "handler") /\ adding[<<r, "handler">>] = None /\ "Go" \in plan[r]
    /\ goroutine[r] = "none"
    /\ \/ writer[w].goStarted /\ panicked' = TRUE /\ UNCHANGED <<writer, goroutine>>
       \/ /\ ~writer[w].goStarted
          /\ writer' = [writer EXCEPT ![w].goStarted = TRUE, ![w].goCancel = r]
          /\ goroutine' = [goroutine EXCEPT ![r] = "running"]
          /\ UNCHANGED panicked
    /\ UNCHANGED <<plan, envoy, filter, pools, given, cancelled, adding, callouts, added, alone,
                   effects>>

(* fn returned: flush is scheduled with the scheduler Go was called with   *)
GoReturn(r) ==
    /\ goroutine[r] = "running" /\ adding[<<r, "goroutine">>] = None /\ ~panicked
    /\ goroutine' = [goroutine EXCEPT ![r] = "done"]
    /\ cancelled' = cancelled \union {r}
    /\ tasks' = tasks \union {[stream |-> r, runs |-> "flush", by |-> <<r, 0>>]}
    /\ UNCHANGED <<plan, envoy, filter, writer, pools, given, adding, asked, channel,
                   inflight, blocked, results, panicked, added, alone, effects>>

-----------------------------------------------------------------------------
(* Do                                                                      *)

(* Up to the select: the callout is scheduled with the Writer's scheduler. *)
Do(r) ==
    LET w == given[r] IN
    /\ MayUse(r, "goroutine") /\ adding[<<r, "goroutine">>] = None
    /\ "Do" \in plan[r] /\ asked[r] < MaxCallouts
    /\ \/ ~writer[w].goStarted /\ panicked' = TRUE /\ UNCHANGED <<goroutine, asked, tasks>>
       \/ /\ writer[w].goStarted
          /\ goroutine' = [goroutine EXCEPT ![r] = "waiting"]
          /\ asked' = [asked EXCEPT ![r] = @ + 1]
          /\ tasks' = tasks \union {[stream |-> writer[w].handle, runs |-> "callout",
                                     by |-> <<r, asked[r] + 1>>]}
          /\ UNCHANGED panicked
    /\ UNCHANGED <<plan, envoy, filter, writer, pools, given, cancelled, adding, channel,
                   inflight, blocked, results, added, alone, effects>>

(* Each call makes a channel that holds one result.                        *)
ChannelOf_Shared(c) == <<c[1], 1>>

ChannelOf(c) == c

Capacity_None == 0

Capacity == 1

(* The goroutine is in the select of the call c.                           *)
Receiving(c) == goroutine[c[1]] = "waiting" /\ asked[c[1]] = c[2]

(* ch <- result of the call c, on the worker thread of r, which waits if   *)
(* the channel is full and nobody receives                                 *)
Deliver(r, c) ==
    LET ch == ChannelOf(c)
        room == Len(channel[ch]) < Capacity \/ Receiving(c) IN
    /\ channel' = IF room THEN [channel EXCEPT ![ch] = Append(@, c)] ELSE channel
    /\ blocked' = IF room THEN blocked ELSE blocked \union {r}

(* The two branches of the select.  The context may be one the author      *)
(* derived from Go's with a deadline, so it may end at any time.           *)
DoResult(r) ==
    LET c == <<r, asked[r]>> IN
    /\ goroutine[r] = "waiting" /\ ~panicked
    /\ channel[ChannelOf(c)] # << >>
    /\ results' = results \union {<<c, Head(channel[ChannelOf(c)])>>}
    /\ channel' = [channel EXCEPT ![ChannelOf(c)] = Tail(@)]
    /\ goroutine' = [goroutine EXCEPT ![r] = "running"]
    /\ UNCHANGED <<plan, envoy, filter, writer, pools, given, cancelled, adding, asked,
                   tasks, inflight, blocked, panicked, added, alone, effects>>

DoGivesUp(r) ==
    /\ goroutine[r] = "waiting" /\ ~panicked
    /\ goroutine' = [goroutine EXCEPT ![r] = "running"]
    /\ UNCHANGED <<plan, envoy, filter, writer, pools, given, cancelled, adding, callouts,
                   panicked, added, alone, effects>>

DoCancelled(r) == r \in cancelled /\ DoGivesUp(r)

(* A scheduled function runs, on the worker thread of the stream whose     *)
(* scheduler took it and while that stream is open, or is dropped.         *)
Deliverable(t) == phase[t.stream] = "open" /\ Free(t.stream)

RunFlush(t) ==
    /\ t \in tasks /\ t.runs = "flush" /\ Deliverable(t)
    /\ tasks' = tasks \ {t}
    /\ flush(given[t.by[1]])
    /\ UNCHANGED <<plan, envoy, filter, writer, pools, goroutines, adding, asked, channel,
                   inflight, blocked, results, panicked, added, alone>>

(* HttpCallout on the Writer's handle: initiated, or refused and the error *)
(* is the result                                                           *)
RunCallout(t) ==
    /\ t \in tasks /\ t.runs = "callout" /\ Deliverable(t)
    /\ tasks' = tasks \ {t}
    /\ \/ /\ inflight' = inflight \union {<<writer[given[t.by[1]]].handle, t.by>>}
          /\ UNCHANGED <<channel, blocked>>
       \/ Deliver(t.stream, t.by) /\ UNCHANGED inflight
    /\ UNCHANGED <<plan, envoy, filter, writer, pools, goroutines, adding, asked, results,
                   panicked, added, alone, effects>>

(* The host side drops what comes after stream_complete.                   *)
DropTask(t) ==
    /\ t \in tasks /\ phase[t.stream] \in {"complete", "destroyed"}
    /\ tasks' = tasks \ {t}
    /\ UNCHANGED <<plan, envoy, filter, writer, pools, goroutines, adding, asked, channel,
                   inflight, blocked, results, panicked, added, alone, effects>>

OnHttpCalloutDone(r, c) ==
    /\ <<r, c>> \in inflight /\ Free(r) /\ phase[r] # "destroyed"
    /\ inflight' = inflight \ {<<r, c>>}
    /\ \/ phase[r] = "open" /\ Deliver(r, c)
       \/ phase[r] = "complete" /\ UNCHANGED <<channel, blocked>>
    /\ UNCHANGED <<plan, envoy, filter, writer, pools, goroutines, adding, asked, tasks,
                   results, panicked, added, alone, effects>>

-----------------------------------------------------------------------------
HostStep(r) ==
    \/ newSahlFilter(r) \/ OnRequestHeaders(r) \/ OnRequestHeadersReturn(r)
    \/ OnResponse(r) \/ OnResponseReturn(r) \/ OnStreamComplete(r) \/ OnDestroy(r)
    \/ \E c \in Callouts : OnHttpCalloutDone(r, c)

AuthorStep(r) ==
    \/ \E c \in Codes : Add(r, c) \/ AddReturn(r, c) \/ Send(r, c)
    \/ Go(r) \/ GoReturn(r) \/ Do(r) \/ DoResult(r) \/ DoGivesUp(r)

Scheduled(t) == RunFlush(t) \/ RunCallout(t) \/ DropTask(t)

Next ==
    \/ \E r \in Requests : HostStep(r) \/ AuthorStep(r)
    \/ \E t \in tasks : Scheduled(t)

Spec == Init /\ [][Next]_vars

Return(r) ==
    \/ OnRequestHeadersReturn(r) \/ OnResponseReturn(r)
    \/ \E c \in Codes : AddReturn(r, c)

Delivery ==
    \/ \E t \in tasks : Scheduled(t)
    \/ \E r \in Requests, c \in Callouts : OnHttpCalloutDone(r, c)

(* Envoy's event loop gets to what was scheduled and to callouts that are  *)
(* done however often it calls the filter meanwhile; callbacks return, and *)
(* select notices that a channel or context is ready.  No client           *)
(* disconnects and no context's deadline passes of need.                   *)
Fairness ==
    /\ SF_vars(Delivery)
    /\ \A r \in Requests :
         WF_vars(Return(r)) /\ WF_vars(DoResult(r) \/ DoCancelled(r))

FairSpec == Spec /\ Fairness

=============================================================================

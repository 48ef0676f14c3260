---------------------------- MODULE FilterHandle ----------------------------
(***************************************************************************)
(* The handles Envoy's callbacks go through (internal.go, network.go): one *)
(* per HTTP filter instance, network filter or configuration of either,    *)
(* called a stream here.  A handle keeps the filter, its scheduler, the    *)
(* callbacks of its callouts and HTTP streams and the shared data it       *)
(* recorded.  HTTP handles are pooled: a handle serves one stream after    *)
(* another, while others serve streams on other worker threads.            *)
(*                                                                         *)
(* What the kinds of handle share is an operator; each kind's own action   *)
(* says what is particular to it, which is mostly the guard in front.      *)
(*                                                                         *)
(* Envoy's promises the code relies on: one callback at a time for a       *)
(* stream, none after destroy, and a commit to a scheduler is delivered    *)
(* once, unless the stream is destroyed first.                             *)
(***************************************************************************)
EXTENDS Naturals, Sequences

CONSTANTS
    Uses,          \* which parts of a handle the filters considered use
    Streams, Handles, Addresses, Tasks,
    MaxIds,        \* bound: callouts and HTTP streams started per stream
    NoStream, NoHandle, NoAddress

Kinds == {"http", "network", "config", "networkConfig"}

Ops == {"callout", "stream"}

Ids == 1..MaxIds

(* kind: what the handles are handles of; ops: what their filters do;      *)
(* streams: the streams that may arrive                                    *)
Use ==
    [kind : Kinds, ops : SUBSET (Ops \union {"task", "data", "reply", "watermark"}),
     streams : SUBSET Streams]

ASSUME UsesAssumption == Uses \subseteq Use
ASSUME BoundsAssumption == MaxIds \in Nat
ASSUME ValuesAssumption ==
    NoStream \notin Streams /\ NoHandle \notin Handles /\ NoAddress \notin Addresses

VARIABLES
    use,         \* chosen initially, never changed
    \* Envoy
    host,        \* none, live, complete, destroyed
    pointer,     \* the handle filter_new returned for a stream
    issued,      \* ids Envoy gave out, by stream and operation
    inflight,    \* callouts and HTTP streams Envoy has yet to complete
    calling,     \* the one whose starting call has not returned yet
    commits,     \* task ids committed and not delivered
    metadata,    \* the address SetData left in the stream's metadata
    \* the module
    handle, pool,
    panicked,    \* the pool corruption panic of reset
    registry,    \* sharedDataManager: whose data an address holds
    scheduler,   \* a stream's dymScheduler: nextTaskID and tasks
    posting,     \* tasks recorded by Schedule and not committed yet
    \* what happened so far
    submitted, runs,
    replied,     \* streams answered by SendLocalResponse
    reached,     \* <<s, p>>: a callback for stream s ran in the filter of p
    lost         \* <<s, when>>: a callback for the live stream s ran in no
                 \* filter, inside a call that starts an operation or outside

envoy == <<host, pointer, issued, inflight, calling>>
module == <<handle, pool, panicked>>
sharedData == <<registry, metadata>>
tasking == <<scheduler, posting, commits, submitted, runs>>
history == <<replied, reached, lost>>
vars == <<use, envoy, module, sharedData, tasking, history>>

Owner == Streams \union {NoStream}

Started == Ops \X Ids

Handle ==
    [plugin : Owner, scheduler : Owner, watermark : Owner,
     callbacks : [Started -> Owner], recorded : SUBSET Addresses,
     completed : BOOLEAN, destroyed : BOOLEAN, localResponse : BOOLEAN]

EnvoyType ==
    /\ host \in [Streams -> {"none", "live", "complete", "destroyed"}]
    /\ pointer \in [Streams -> Handles \union {NoHandle}]
    /\ \A s \in Streams : host[s] = "none" <=> pointer[s] = NoHandle
    /\ issued \in [Streams -> [Ops -> 0..MaxIds]]
    /\ inflight \in [Streams -> SUBSET Started]
    /\ calling \in [Streams -> SUBSET Started]

ModuleType ==
    /\ handle \in [Handles -> Handle] /\ pool \subseteq Handles
    /\ panicked \in BOOLEAN

SharedDataType ==
    /\ registry \in [Addresses -> Owner]
    /\ metadata \in [Streams -> Addresses \union {NoAddress}]

TaskingType ==
    /\ DOMAIN scheduler = Streams
    /\ \A s \in Streams :
         /\ DOMAIN scheduler[s] = {"next", "tasks"}
         /\ scheduler[s].next \in Nat
         /\ DOMAIN scheduler[s].tasks \subseteq 0..(scheduler[s].next - 1)
         /\ \A n \in DOMAIN scheduler[s].tasks : scheduler[s].tasks[n] \in Tasks
    /\ posting \subseteq Streams \X Nat
    /\ commits \in [Streams -> Seq(Nat)]
    /\ submitted \in [Streams -> SUBSET Tasks]
    /\ runs \in [Streams -> [Tasks -> Nat]]

HistoryType ==
    /\ replied \subseteq Streams /\ reached \subseteq Streams \X Streams
    /\ lost \subseteq Streams \X {"inside", "outside"}

TypeOK ==
    /\ use \in Uses
    /\ EnvoyType /\ ModuleType /\ SharedDataType /\ TaskingType /\ HistoryType

Blank ==
    [plugin |-> NoStream, scheduler |-> NoStream, watermark |-> NoStream,
     callbacks |-> [c \in Started |-> NoStream], recorded |-> {},
     completed |-> FALSE, destroyed |-> FALSE, localResponse |-> FALSE]

NoTasks == [n \in {} |-> NoStream]

Init ==
    /\ use \in Uses
    /\ host = [s \in Streams |-> "none"]
    /\ pointer = [s \in Streams |-> NoHandle]
    /\ issued = [s \in Streams |-> [op \in Ops |-> 0]]
    /\ inflight = [s \in Streams |-> {}] /\ calling = [s \in Streams |-> {}]
    /\ handle = [h \in Handles |-> Blank] /\ pool = {} /\ panicked = FALSE
    /\ registry = [a \in Addresses |-> NoStream]
    /\ metadata = [s \in Streams |-> NoAddress]
    /\ scheduler = [s \in Streams |-> [next |-> 0, tasks |-> NoTasks]]
    /\ posting = {} /\ commits = [s \in Streams |-> << >>]
    /\ submitted = [s \in Streams |-> {}]
    /\ runs = [s \in Streams |-> [t \in Tasks |-> 0]]
    /\ replied = {} /\ reached = {} /\ lost = {}

(* The handle of a stream, as manager.unwrap finds it                      *)
unwrap(s) == handle[pointer[s]]

Live(s) == host[s] = "live" /\ ~panicked

(* The stream's worker thread is not inside a call that starts an operation*)
Idle(s) == Live(s) /\ calling[s] = {}

(* A callback for s, let through and addressed to the filter of p, or not  *)
Dispatch(s, allowed, p) ==
    LET delivered == allowed /\ p # NoStream
        when == IF calling[s] = {} THEN "outside" ELSE "inside" IN
    /\ reached' = reached \union IF delivered THEN {<<s, p>>} ELSE {}
    /\ lost' = lost \union IF ~delivered /\ host[s] = "live" THEN {<<s, when>>} ELSE {}
    /\ UNCHANGED replied

-----------------------------------------------------------------------------
(* Life of a handle                                                        *)

(* reset, before it is given its filter                                    *)
reset_KeepsData(h) == [Blank EXCEPT !.recorded = handle[h].recorded]

reset_KeepsCompleted(h) == [Blank EXCEPT !.completed = handle[h].completed]

reset_KeepsWatermark(h) == [Blank EXCEPT !.watermark = handle[h].watermark]

reset(h) == Blank

Corrupt(h) == handle[h].plugin # NoStream \/ handle[h].scheduler # NoStream

Fresh(h) == \A s \in Streams : pointer[s] # h

(* A stream gets the handle h, made ready                                  *)
New(s, h, ready) ==
    /\ host' = [host EXCEPT ![s] = "live"]
    /\ pointer' = [pointer EXCEPT ![s] = h]
    /\ handle' = [handle EXCEPT ![h] = [ready EXCEPT !.plugin = s]]
    /\ pool' = pool \ {h}
    /\ UNCHANGED panicked

Arrives(s) ==
    /\ s \in use.streams /\ host[s] = "none" /\ ~panicked
    /\ UNCHANGED <<use, issued, inflight, calling, sharedData, tasking, history>>

(* A pooled handle, or a new one when the pool is or pretends to be empty  *)
HttpNew(s) ==
    /\ use.kind = "http" /\ Arrives(s)
    /\ \E h \in Handles :
         /\ h \in pool \/ Fresh(h)
         /\ \/ Corrupt(h) /\ panicked' = TRUE /\ UNCHANGED <<host, pointer, handle, pool>>
            \/ ~Corrupt(h) /\ New(s, h, reset(h))

NetworkNew(s) ==
    /\ use.kind = "network" /\ Arrives(s)
    /\ \E h \in Handles : Fresh(h) /\ New(s, h, Blank)

ConfigNew(s) ==
    /\ use.kind = "config" /\ Arrives(s)
    /\ \E h \in Handles : Fresh(h) /\ New(s, h, Blank)

NetworkConfigNew(s) ==
    /\ use.kind = "networkConfig" /\ Arrives(s)
    /\ \E h \in Handles : Fresh(h) /\ New(s, h, Blank)

(* clearData, before the filter's OnStreamComplete                         *)
clearData_Never(h) == registry

clearData(h) ==
    [a \in Addresses |-> IF a \in handle[h].recorded THEN NoStream ELSE registry[a]]

StreamComplete(s) ==
    /\ use.kind = "http" /\ Idle(s)
    /\ host' = [host EXCEPT ![s] = "complete"]
    /\ handle' = [handle EXCEPT ![pointer[s]].completed = TRUE]
    /\ registry' = clearData(pointer[s])
    /\ Dispatch(s, TRUE, unwrap(s).plugin)
    /\ UNCHANGED <<use, pointer, issued, inflight, calling, pool, panicked, metadata,
                   tasking>>

(* The plugin's last callback; left is what the handle is left with.       *)
Destroy(s, left) ==
    /\ ~panicked /\ calling[s] = {}
    /\ host' = [host EXCEPT ![s] = "destroyed"]
    /\ handle' = [handle EXCEPT ![pointer[s]] = left]
    /\ inflight' = [inflight EXCEPT ![s] = {}]
    /\ commits' = [commits EXCEPT ![s] = << >>]
    /\ Dispatch(s, TRUE, unwrap(s).plugin)
    /\ UNCHANGED <<use, pointer, issued, calling, panicked, sharedData, scheduler,
                   posting, submitted, runs>>

(* The next user of a pooled handle finds it as destroy left it.           *)
retired_KeepsScheduler(h) == [h EXCEPT !.plugin = NoStream, !.destroyed = TRUE]

retired(h) == [h EXCEPT !.plugin = NoStream, !.scheduler = NoStream, !.destroyed = TRUE]

(* Envoy completes an HTTP stream before it destroys the filter.           *)
HttpDestroy(s) ==
    /\ use.kind = "http" /\ host[s] = "complete"
    /\ pool' = pool \union {pointer[s]}
    /\ Destroy(s, retired(unwrap(s)))

NetworkDestroy(s) ==
    /\ use.kind = "network" /\ host[s] = "live"
    /\ Destroy(s, [unwrap(s) EXCEPT !.scheduler = NoStream, !.destroyed = TRUE])
    /\ UNCHANGED pool

ConfigDestroy(s) ==
    /\ use.kind = "config" /\ host[s] = "live"
    /\ Destroy(s, [unwrap(s) EXCEPT !.scheduler = NoStream])
    /\ UNCHANGED pool

NetworkConfigDestroy(s) ==
    /\ use.kind = "networkConfig" /\ host[s] = "live"
    /\ Destroy(s, [unwrap(s) EXCEPT !.scheduler = NoStream])
    /\ UNCHANGED pool

-----------------------------------------------------------------------------
(* Callbacks                                                               *)

Callback(s, allowed) ==
    /\ Idle(s)
    /\ Dispatch(s, allowed, unwrap(s).plugin)
    /\ UNCHANGED <<use, envoy, module, sharedData, tasking>>

(* Request headers, body and trailers                                      *)
Request(s) == use.kind = "http" /\ Callback(s, TRUE)

(* Response headers, body and trailers.  What the filter answered itself is*)
(* not shown to it.                                                        *)
Response(s) ==
    /\ use.kind = "http" /\ s \notin replied
    /\ Callback(s, ~unwrap(s).localResponse)

LocalReply(s) == use.kind = "http" /\ Callback(s, TRUE)

(* Connection, data read and written, events                               *)
ConnectionEvent(s) == use.kind = "network" /\ Callback(s, ~unwrap(s).destroyed)

ConnectionWatermark(s) == use.kind = "network" /\ Callback(s, ~unwrap(s).destroyed)

SendLocalResponse(s) ==
    /\ use.kind = "http" /\ "reply" \in use.ops /\ Idle(s)
    /\ handle' = [handle EXCEPT ![pointer[s]].localResponse = TRUE]
    /\ replied' = replied \union {s}
    /\ UNCHANGED <<use, envoy, pool, panicked, sharedData, tasking, reached, lost>>

(* The guards in front of callbacks that may come late; configurations have*)
(* none.                                                                   *)
Open_Always(s) == TRUE

Open(s) == ~unwrap(s).completed

NetworkOpen(s) == ~unwrap(s).destroyed

SetDownstreamWatermarkCallbacks(s) ==
    /\ use.kind = "http" /\ "watermark" \in use.ops /\ Idle(s)
    /\ handle' = [handle EXCEPT ![pointer[s]].watermark = s]
    /\ UNCHANGED <<use, envoy, pool, panicked, sharedData, tasking, history>>

ClearDownstreamWatermarkCallbacks(s) ==
    /\ use.kind = "http" /\ "watermark" \in use.ops /\ Idle(s)
    /\ handle' = [handle EXCEPT ![pointer[s]].watermark = NoStream]
    /\ UNCHANGED <<use, envoy, pool, panicked, sharedData, tasking, history>>

Watermark(s) ==
    /\ use.kind = "http" /\ host[s] \in {"live", "complete"} /\ ~panicked
    /\ calling[s] = {} /\ unwrap(s).watermark # NoStream
    /\ Dispatch(s, Open(s), unwrap(s).watermark)
    /\ UNCHANGED <<use, envoy, module, sharedData, tasking>>

-----------------------------------------------------------------------------
(* Callouts and HTTP streams                                               *)

(* HttpCallout and StartHttpStream, up to Envoy's successful return ...    *)
Start(s, op) ==
    /\ op \in use.ops /\ Idle(s)
    /\ issued[s][op] < MaxIds
    /\ LET started == <<op, issued[s][op] + 1>> IN
       /\ issued' = [issued EXCEPT ![s][op] = @ + 1]
       /\ inflight' = [inflight EXCEPT ![s] = @ \union {started}]
       /\ calling' = [calling EXCEPT ![s] = {started}]
    /\ UNCHANGED <<use, host, pointer, module, sharedData, tasking, history>>

HttpStart(s, op) == use.kind = "http" /\ Start(s, op)

NetworkStart(s) == use.kind = "network" /\ Start(s, "callout")

ConfigStart(s, op) == use.kind = "config" /\ Start(s, op)

(* ... and from there: the callback is recorded under the id Envoy chose,  *)
(* also when it was called for already.                                    *)
StartReturn(s) ==
    /\ Live(s) /\ calling[s] # {}
    /\ handle' = [handle EXCEPT ![pointer[s]].callbacks =
                    [c \in Started |-> IF c \in calling[s] THEN s ELSE @[c]]]
    /\ calling' = [calling EXCEPT ![s] = {}]
    /\ UNCHANGED <<use, host, pointer, issued, inflight, pool, panicked, sharedData,
                   tasking, history>>

(* Envoy has news of c, at any time after the call that starts it or, as   *)
(* sahl expects (callout.go, stream.go), inside that call.                 *)
Deliverable(s, c) ==
    /\ host[s] \in {"live", "complete"} /\ ~panicked
    /\ c \in inflight[s]
    /\ calling[s] \subseteq {c}

(* Headers, data and trailers of an HTTP stream                            *)
StreamEvent(s, c, open) ==
    /\ Deliverable(s, c) /\ c[1] = "stream"
    /\ Dispatch(s, open, unwrap(s).callbacks[c])
    /\ UNCHANGED <<use, envoy, module, sharedData, tasking>>

HttpStreamEvent(s, c) == use.kind = "http" /\ StreamEvent(s, c, Open(s))

ConfigStreamEvent(s, c) == use.kind = "config" /\ StreamEvent(s, c, TRUE)

(* A callout is done, an HTTP stream complete or reset                     *)
Done(s, c, open) ==
    /\ Deliverable(s, c)
    /\ inflight' = [inflight EXCEPT ![s] = @ \ {c}]
    /\ Dispatch(s, open, unwrap(s).callbacks[c])
    /\ handle' = [handle EXCEPT ![pointer[s]].callbacks[c] = IF open THEN NoStream ELSE @]
    /\ UNCHANGED <<use, host, pointer, issued, calling, pool, panicked, sharedData,
                   tasking>>

HttpDone(s, c) == use.kind = "http" /\ Done(s, c, Open(s))

NetworkDone(s, c) == use.kind = "network" /\ Done(s, c, NetworkOpen(s))

ConfigDone(s, c) == use.kind = "config" /\ Done(s, c, TRUE)

-----------------------------------------------------------------------------
(* Shared data: the value stays in Go, its address in the stream's metadata*)

SetData(s) ==
    /\ use.kind = "http" /\ "data" \in use.ops /\ Idle(s)
    /\ \E a \in Addresses :
         /\ registry[a] = NoStream
         /\ registry' = [registry EXCEPT ![a] = s]
         /\ metadata' = [metadata EXCEPT ![s] = a]
         /\ handle' = [handle EXCEPT ![pointer[s]].recorded = @ \union {a}]
    /\ UNCHANGED <<use, envoy, pool, panicked, tasking, history>>

(* Whose value GetData finds for a stream                                  *)
GetData(s) == IF metadata[s] = NoAddress THEN NoStream ELSE registry[metadata[s]]

-----------------------------------------------------------------------------
(* Schedulers                                                              *)

(* Called during the stream's callbacks; the result may be kept            *)
GetScheduler(s) ==
    /\ "task" \in use.ops /\ Idle(s)
    /\ unwrap(s).scheduler = NoStream
    /\ handle' = [handle EXCEPT ![pointer[s]].scheduler = s]
    /\ UNCHANGED <<use, envoy, pool, panicked, sharedData, tasking, history>>

HttpGetScheduler(s) == use.kind = "http" /\ GetScheduler(s)

NetworkGetScheduler(s) == use.kind = "network" /\ GetScheduler(s)

ConfigGetScheduler(s) == use.kind = "config" /\ GetScheduler(s)

NetworkConfigGetScheduler(s) == use.kind = "networkConfig" /\ GetScheduler(s)

(* Some goroutine may hold the scheduler of s, also after s is destroyed   *)
Held(s) == host[s] = "destroyed" \/ (host[s] # "none" /\ unwrap(s).scheduler = s)

(* Schedule, by any goroutine: under schedulerLock the task is recorded ...*)
nextTaskID_Stuck(s) == scheduler[s].next

nextTaskID(s) == scheduler[s].next + 1

Schedule(s, t) ==
    /\ "task" \in use.ops /\ Held(s) /\ ~panicked
    /\ t \notin submitted[s]
    /\ LET id == scheduler[s].next IN
       /\ scheduler' = [scheduler EXCEPT
                          ![s].next = nextTaskID(s),
                          ![s].tasks = [n \in DOMAIN @ \union {id} |->
                                          IF n = id THEN t ELSE @[n]]]
       /\ posting' = posting \union {<<s, id>>}
    /\ submitted' = [submitted EXCEPT ![s] = @ \union {t}]
    /\ UNCHANGED <<use, envoy, module, sharedData, commits, runs, history>>

(* ... and after it is released, its id is committed.  Envoy forgets it if *)
(* the stream is destroyed.                                                *)
Commit(s) ==
    /\ ~panicked
    /\ \E p \in posting :
         /\ p[1] = s
         /\ posting' = posting \ {p}
         /\ commits' = IF host[s] = "destroyed" THEN commits
                       ELSE [commits EXCEPT ![s] = Append(@, p[2])]
    /\ UNCHANGED <<use, envoy, module, sharedData, scheduler, submitted, runs, history>>

(* scheduled and, behind its guard, onScheduled                            *)
Scheduled(s, open) ==
    /\ host[s] \in {"live", "complete"} /\ ~panicked
    /\ calling[s] = {} /\ commits[s] # << >>
    /\ commits' = [commits EXCEPT ![s] = Tail(@)]
    /\ LET id == Head(commits[s])
           p == unwrap(s).scheduler
           found == p # NoStream /\ open /\ id \in DOMAIN scheduler[p].tasks IN
       /\ Dispatch(s, found, p)
       /\ \/ /\ found
             /\ runs' = [runs EXCEPT ![p][scheduler[p].tasks[id]] = @ + 1]
             /\ scheduler' = [scheduler EXCEPT ![p].tasks =
                                [n \in DOMAIN @ \ {id} |-> @[n]]]
          \/ ~found /\ UNCHANGED <<runs, scheduler>>
    /\ UNCHANGED <<use, envoy, module, sharedData, posting, submitted>>

HttpScheduled(s) == use.kind = "http" /\ Scheduled(s, Open(s))

NetworkScheduled(s) == use.kind = "network" /\ Scheduled(s, NetworkOpen(s))

ConfigScheduled(s) == use.kind = "config" /\ Scheduled(s, TRUE)

NetworkConfigScheduled(s) == use.kind = "networkConfig" /\ Scheduled(s, TRUE)

-----------------------------------------------------------------------------
HttpStep(s) ==
    \/ HttpNew(s) \/ StreamComplete(s) \/ HttpDestroy(s)
    \/ Request(s) \/ Response(s) \/ LocalReply(s) \/ SendLocalResponse(s)
    \/ SetDownstreamWatermarkCallbacks(s) \/ ClearDownstreamWatermarkCallbacks(s)
    \/ Watermark(s) \/ SetData(s) \/ HttpGetScheduler(s) \/ HttpScheduled(s)
    \/ \E op \in Ops : HttpStart(s, op)
    \/ \E c \in Started : HttpStreamEvent(s, c) \/ HttpDone(s, c)

NetworkStep(s) ==
    \/ NetworkNew(s) \/ NetworkDestroy(s) \/ ConnectionEvent(s) \/ ConnectionWatermark(s)
    \/ NetworkGetScheduler(s) \/ NetworkScheduled(s) \/ NetworkStart(s)
    \/ \E c \in Started : NetworkDone(s, c)

ConfigStep(s) ==
    \/ ConfigNew(s) \/ ConfigDestroy(s) \/ ConfigGetScheduler(s) \/ ConfigScheduled(s)
    \/ \E op \in Ops : ConfigStart(s, op)
    \/ \E c \in Started : ConfigStreamEvent(s, c) \/ ConfigDone(s, c)

NetworkConfigStep(s) ==
    \/ NetworkConfigNew(s) \/ NetworkConfigDestroy(s)
    \/ NetworkConfigGetScheduler(s) \/ NetworkConfigScheduled(s)

StreamStep(s) ==
    \/ HttpStep(s) \/ NetworkStep(s) \/ ConfigStep(s) \/ NetworkConfigStep(s)
    \/ StartReturn(s) \/ Commit(s)
    \/ \E t \in Tasks : Schedule(s, t)

Next == \E s \in Streams : StreamStep(s)

Spec == Init /\ [][Next]_vars

Delivery(s) ==
    \/ HttpScheduled(s) \/ NetworkScheduled(s)
    \/ ConfigScheduled(s) \/ NetworkConfigScheduled(s)

(* A goroutine inside Schedule finishes it, and Envoy delivers what was    *)
(* committed for a stream that lives.                                      *)
Fairness ==
    \A s \in Streams :
        WF_vars(Commit(s)) /\ WF_vars(StartReturn(s)) /\ WF_vars(Delivery(s))

FairSpec == Spec /\ Fairness

=============================================================================

-------------------------- MODULE SahlFilterProofs --------------------------
(***************************************************************************)
(* Theorems about SahlFilter, for every set of profiles, every bound and   *)
(* either behaviour of Envoy after StopAllAndBuffer.                       *)
(***************************************************************************)
EXTENDS SahlFilterProperties, TLAPS

(* The worker thread runs no author code for a stream that has ended.      *)
IdleWhenClosed == Closed => worker = "idle"

(* SendBytes takes the deferred path for every call the goroutine makes.   *)
GoroutineMarked == goroutine # "none" => "Go" \in started

(* At most one asynchronous operation; its completion is either still owed *)
(* by Envoy or the goroutine, or being handled by the worker thread.       *)
OneOperation ==
    /\ started \subseteq profile.calls
    /\ \A a, b \in started : a = b
    /\ armed \subseteq started /\ pending \subseteq started
    /\ "Go" \in started <=> goroutine # "none"
    /\ worker = "callout" => "HTTPCallout" \in started /\ pending = {}
    /\ worker \in {"event", "end"} => "HTTPStream" \in started
    /\ worker = "end" => pending = {}

(* Where the request can be before, in and after its handler.              *)
HandlerPhase ==
    /\ stream = "new" => status = "none" /\ worker = "idle" /\ ~handled
    /\ ~handled => /\ started = {} /\ worker \in {"idle", "response"}
                   /\ forwards = 0 /\ sent = 0 /\ ~responded
    /\ stream = "open" =>
         IF profile.bodyAware THEN status = "StopAllAndBuffer" ELSE handled
    /\ chunks <= profile.chunks /\ (trailers => profile.trailers)
    /\ worker = "headers" => ~profile.bodyAware /\ status = "none"
    /\ worker = "body" => profile.bodyAware /\ chunks = 0
    /\ profile.bodyAware /\ chunks > 0 => ~handled
    /\ status = "StopAllAndBuffer" => profile.bodyAware
    /\ status = "Stop" => started # {} \/ sent = 1

(* Code that may still release the request.                                *)
Deciding == InFlight \/ worker \in {"headers", "body", "callout", "event", "end"}

(* Nothing is decided while code that may still decide runs, except that   *)
(* author code on the worker thread may already have answered.             *)
Decision ==
    /\ Deciding => forwards = 0
    /\ forwards <= 1 /\ sent <= 1
    /\ responded => forwards = 0
    /\ responded => localResp \/ sent = 1
    /\ sent = 1 => responded
    /\ localResp => responded /\ "Go" \in started
    /\ localResp /\ sent = 1 => goroutine = "done"

(* What has been queued and applied, before and after the release.         *)
MutationPhase ==
    /\ ~Closed => queued = accepted
    /\ ~Closed /\ forwards = 0 => applied = None
    /\ \A k \in Kinds : applied[k] <= accepted[k] /\ queued[k] <= accepted[k]
    /\ profile.observer /\ ~Closed =>
         /\ applied["meta"] = 0 /\ applied["counter"] = 0
         /\ worker \in {"headers", "body"} => response = "none"
         /\ response = "none" => queued["meta"] = 0 /\ queued["counter"] = 0
    /\ profile.observer => started = {}
    /\ worker = "response" => profile.observer /\ response # "none"
    /\ response = "upstream" => forwards = 1
    /\ response # "none" => status # "none"
    /\ sent = 1 => applied["header"] = 0 /\ applied["route"] = 0

(* The inductive invariant.                                                *)
IInv ==
    /\ TypeOK /\ IdleWhenClosed /\ GoroutineMarked
    /\ OneOperation /\ HandlerPhase /\ Decision /\ MutationPhase


-----------------------------------------------------------------------------
LEMMA TypeInit == Init => TypeOK
<1> SUFFICES ASSUME Init PROVE TypeOK
  OBVIOUS
<1>1. profile \in Profile
  BY ProfilesAssumption DEF Init
<1>2. chunks \in Nat /\ trailers \in BOOLEAN
  BY <1>1 DEF Init, Profile
<1>3. None \in [Kinds -> Nat]
  BY DEF None
<1>4. queued \in [Kinds -> Nat] /\ accepted \in [Kinds -> Nat] /\ applied \in [Kinds -> Nat]
  BY <1>3 DEF Init
<1>5. profile \in Profiles /\ events \in 0..MaxEvents /\ forwards \in Nat /\ sent \in Nat
  BY BoundsAssumption DEF Init
<1> QED
  BY <1>2, <1>4, <1>5 DEF Init, TypeOK

LEMMA TypeStep == TypeOK /\ [Next]_vars => TypeOK'
<1> SUFFICES ASSUME TypeOK, [Next]_vars PROVE TypeOK'
  OBVIOUS
<1> USE BoundsAssumption DEF TypeOK, WorkerFree, request, threads, asyncOps,
    mutations, reply, effects, observed
<1>1. CASE OnRequestHeaders
  BY <1>1 DEF OnRequestHeaders
<1>2. CASE OnRequestBody
  <2>1. chunks' \in Nat
    BY <1>2 DEF OnRequestBody, ChunkDue, Decoding, Buffers, EndsStream
  <2>2. forwards' \in Nat
    BY <1>2 DEF OnRequestBody, ChunkDue, Decoding, Buffers, EndsStream
  <2>3. worker' \in {"idle", "body"} /\ handled' \in BOOLEAN
    BY <1>2 DEF OnRequestBody, ChunkDue, Decoding, Buffers, EndsStream
  <2> QED
    BY <1>2, <2>1, <2>2, <2>3 DEF OnRequestBody, ChunkDue, Decoding, Buffers,
       EndsStream
<1>3. CASE OnRequestTrailers
  <2>1. forwards' \in Nat
    BY <1>3 DEF OnRequestTrailers
  <2>2. trailers' \in BOOLEAN
    BY <1>3 DEF OnRequestTrailers
  <2>3. UNCHANGED <<profile, stream, chunks, status, worker, goroutine, cancelled,
                    panicked, started, armed, pending, queued, accepted, responded,
                    localResp, applied, sent, response, events, handled>>
    BY <1>3 DEF OnRequestTrailers
  <2> QED
    BY <2>1, <2>2, <2>3
<1>4. CASE OnHttpCalloutDone
  <2>1. worker' \in {"idle", "callout"}
    BY <1>4 DEF OnHttpCalloutDone, streamDone
  <2>2. armed' \subseteq {"HTTPCallout", "HTTPStream"}
    BY <1>4 DEF OnHttpCalloutDone, streamDone
  <2>3. pending' \subseteq {"HTTPCallout", "HTTPStream"}
    BY <1>4 DEF OnHttpCalloutDone, streamDone
  <2> QED
    BY <1>4, <2>1, <2>2, <2>3 DEF OnHttpCalloutDone, streamDone
<1>5. CASE OnHttpStreamEvent
  BY <1>5 DEF OnHttpStreamEvent, streamDone
<1>6. CASE OnHttpStreamEnd
  BY <1>6 DEF OnHttpStreamEnd, streamDone
<1>7. CASE OnScheduled
  BY <1>7 DEF OnScheduled, flush, streamDone, Suppressed, Apply
<1>8. CASE OnResponse
  BY <1>8 DEF OnResponse
<1>9. CASE OnStreamComplete
  BY <1>9 DEF OnStreamComplete, flushResponseMutations, Kinds, Flushes, goCancel
<1>10. CASE OnDestroy
  BY <1>10 DEF OnDestroy
<1>11. CASE OnRequestHeadersReturn
  BY <1>11 DEF OnRequestHeadersReturn, flush, Asynchronous, Suppressed, Apply
<1>12. CASE OnRequestBodyReturn
  BY <1>12 DEF OnRequestBodyReturn, flush, Suppressed, Apply
<1>13. CASE OnHttpCalloutDoneReturn
  BY <1>13 DEF OnHttpCalloutDoneReturn, flush, Suppressed, Apply
<1>14. CASE OnHttpStreamEventReturn
  BY <1>14 DEF OnHttpStreamEventReturn
<1>15. CASE OnHttpStreamEndReturn
  BY <1>15 DEF OnHttpStreamEndReturn, flush, Suppressed, Apply
<1>16. CASE OnResponseReturn
  BY <1>16 DEF OnResponseReturn
<1>17. CASE Send
  <2>1. sent' \in Nat
    BY <1>17 DEF Send
  <2>2. localResp' \in BOOLEAN
    BY <1>17 DEF Send
  <2> QED
    BY <1>17, <2>1, <2>2 DEF Send
<1>18. CASE Go
  BY <1>18 DEF Go, Async
<1>19. CASE HTTPCalloutE
  <2>1. started' \subseteq Async
    BY <1>19 DEF HTTPCalloutE, Async
  <2>2. armed' \subseteq {"HTTPCallout", "HTTPStream"}
    BY <1>19 DEF HTTPCalloutE
  <2>3. pending' \subseteq {"HTTPCallout", "HTTPStream"}
    BY <1>19 DEF HTTPCalloutE
  <2> QED
    BY <1>19, <2>1, <2>2, <2>3 DEF HTTPCalloutE
<1>20. CASE HTTPStream
  <2>1. started' \subseteq Async
    BY <1>20 DEF HTTPStream, Async
  <2>2. armed' \subseteq {"HTTPCallout", "HTTPStream"}
    BY <1>20 DEF HTTPStream
  <2>3. pending' \subseteq {"HTTPCallout", "HTTPStream"}
    BY <1>20 DEF HTTPStream
  <2> QED
    BY <1>20, <2>1, <2>2, <2>3 DEF HTTPStream
<1>21. CASE Panic
  BY <1>21 DEF Panic
<1>22. CASE GoReturn
  BY <1>22 DEF GoReturn
<1>23. CASE \E kind \in Kinds : Queue(kind)
  BY <1>23 DEF Queue
<1>24. CASE UNCHANGED vars
  BY <1>24 DEF vars
<1> QED
  BY <1>1, <1>2, <1>3, <1>4, <1>5, <1>6, <1>7, <1>8, <1>9, <1>10, <1>11,
     <1>12, <1>13, <1>14, <1>15, <1>16, <1>17, <1>18, <1>19, <1>20,
     <1>21, <1>22, <1>23, <1>24
  DEF Next, HostCallback, CallbackReturn, WriterCall

(* Every reachable state is well typed: the Writer's queues, the host's    *)
(* effects and the phases of the request stay in their ranges.             *)
THEOREM TypeCorrect == Spec => []TypeOK
<1> QED
  BY TypeInit, TypeStep, PTL DEF Spec

-----------------------------------------------------------------------------
LEMMA IdleStep ==
    IdleWhenClosed /\ GoroutineMarked /\ [Next]_vars
        => (IdleWhenClosed /\ GoroutineMarked)'
<1> SUFFICES ASSUME IdleWhenClosed, GoroutineMarked, [Next]_vars
             PROVE  (IdleWhenClosed /\ GoroutineMarked)'
  OBVIOUS
<1> USE DEF IdleWhenClosed, GoroutineMarked, Closed, WorkerFree, Decoding, threads,
    asyncOps
<1>1. CASE OnRequestHeaders
  BY <1>1 DEF OnRequestHeaders
<1>2. CASE OnRequestBody
  BY <1>2 DEF OnRequestBody, ChunkDue, Decoding, Buffers, EndsStream
<1>3. CASE OnRequestTrailers
  BY <1>3 DEF OnRequestTrailers
<1>4. CASE OnHttpCalloutDone
  BY <1>4 DEF OnHttpCalloutDone, streamDone
<1>5. CASE OnHttpStreamEvent
  BY <1>5 DEF OnHttpStreamEvent, streamDone
<1>6. CASE OnHttpStreamEnd
  BY <1>6 DEF OnHttpStreamEnd, streamDone
<1>7. CASE OnScheduled
  BY <1>7 DEF OnScheduled, streamDone
<1>8. CASE OnResponse
  BY <1>8 DEF OnResponse
<1>9. CASE OnStreamComplete
  BY <1>9 DEF OnStreamComplete, Flushes, goCancel
<1>10. CASE OnDestroy
  BY <1>10 DEF OnDestroy
<1>11. CASE OnRequestHeadersReturn
  BY <1>11 DEF OnRequestHeadersReturn, Asynchronous
<1>12. CASE OnRequestBodyReturn
  BY <1>12 DEF OnRequestBodyReturn
<1>13. CASE OnHttpCalloutDoneReturn
  BY <1>13 DEF OnHttpCalloutDoneReturn
<1>14. CASE OnHttpStreamEventReturn
  BY <1>14 DEF OnHttpStreamEventReturn
<1>15. CASE OnHttpStreamEndReturn
  BY <1>15 DEF OnHttpStreamEndReturn
<1>16. CASE OnResponseReturn
  BY <1>16 DEF OnResponseReturn
<1>17. CASE Send
  BY <1>17 DEF Send
<1>18. CASE Go
  BY <1>18 DEF Go
<1>19. CASE HTTPCalloutE
  BY <1>19 DEF HTTPCalloutE
<1>20. CASE HTTPStream
  BY <1>20 DEF HTTPStream
<1>21. CASE Panic
  BY <1>21 DEF Panic
<1>22. CASE GoReturn
  BY <1>22 DEF GoReturn
<1>23. CASE \E kind \in Kinds : Queue(kind)
  BY <1>23 DEF Queue
<1>24. CASE UNCHANGED vars
  BY <1>24 DEF vars
<1> QED
  BY <1>1, <1>2, <1>3, <1>4, <1>5, <1>6, <1>7, <1>8, <1>9, <1>10, <1>11,
     <1>12, <1>13, <1>14, <1>15, <1>16, <1>17, <1>18, <1>19, <1>20,
     <1>21, <1>22, <1>23, <1>24
   DEF Next, HostCallback, CallbackReturn, WriterCall

(* After OnStreamComplete nothing sahl does continues, answers or mutates  *)
(* the request, whoever is late: callout, stream, scheduled task.          *)
THEOREM EffectsEndWithStream == Spec => NothingAfterComplete
<1>1. Init => IdleWhenClosed /\ GoroutineMarked
  BY DEF Init, IdleWhenClosed, Closed, GoroutineMarked
<1>2. IdleWhenClosed /\ GoroutineMarked /\ [Next]_vars => (Closed => UNCHANGED effects)
  <2> SUFFICES ASSUME IdleWhenClosed, GoroutineMarked, [Next]_vars, Closed
               PROVE  UNCHANGED effects
    OBVIOUS
  <2> USE DEF IdleWhenClosed, GoroutineMarked, Closed, WorkerFree, Decoding, effects
  <2>1. CASE OnRequestHeaders
    BY <2>1 DEF OnRequestHeaders
  <2>2. CASE OnRequestBody
    BY <2>2 DEF OnRequestBody, ChunkDue, Decoding, Buffers, EndsStream
  <2>3. CASE OnRequestTrailers
    BY <2>3 DEF OnRequestTrailers
  <2>4. CASE OnHttpCalloutDone
    BY <2>4 DEF OnHttpCalloutDone, streamDone
  <2>5. CASE OnHttpStreamEvent
    BY <2>5 DEF OnHttpStreamEvent, streamDone
  <2>6. CASE OnHttpStreamEnd
    BY <2>6 DEF OnHttpStreamEnd, streamDone
  <2>7. CASE OnScheduled
    BY <2>7 DEF OnScheduled, streamDone
  <2>8. CASE OnResponse
    BY <2>8 DEF OnResponse
  <2>9. CASE OnStreamComplete
    BY <2>9 DEF OnStreamComplete, Flushes, goCancel
  <2>10. CASE OnDestroy
    BY <2>10 DEF OnDestroy
  <2>11. CASE OnRequestHeadersReturn
    BY <2>11 DEF OnRequestHeadersReturn, Asynchronous
  <2>12. CASE OnRequestBodyReturn
    BY <2>12 DEF OnRequestBodyReturn
  <2>13. CASE OnHttpCalloutDoneReturn
    BY <2>13 DEF OnHttpCalloutDoneReturn
  <2>14. CASE OnHttpStreamEventReturn
    BY <2>14 DEF OnHttpStreamEventReturn
  <2>15. CASE OnHttpStreamEndReturn
    BY <2>15 DEF OnHttpStreamEndReturn
  <2>16. CASE OnResponseReturn
    BY <2>16 DEF OnResponseReturn
  <2>17. CASE Send
    BY <2>17 DEF Send, MayCall, ByWorker, ByGoroutine
  <2>18. CASE Go
    BY <2>18 DEF Go
  <2>19. CASE HTTPCalloutE
    BY <2>19 DEF HTTPCalloutE
  <2>20. CASE HTTPStream
    BY <2>20 DEF HTTPStream
  <2>21. CASE Panic
    BY <2>21 DEF Panic
  <2>22. CASE GoReturn
    BY <2>22 DEF GoReturn
  <2>23. CASE \E kind \in Kinds : Queue(kind)
    BY <2>23 DEF Queue
  <2>24. CASE UNCHANGED vars
    BY <2>24 DEF vars
  <2> QED
    BY <2>1, <2>2, <2>3, <2>4, <2>5, <2>6, <2>7, <2>8, <2>9, <2>10,
       <2>11, <2>12, <2>13, <2>14, <2>15, <2>16, <2>17, <2>18, <2>19,
       <2>20, <2>21, <2>22, <2>23, <2>24
     DEF Next, HostCallback, CallbackReturn, WriterCall
<1> QED
  BY <1>1, <1>2, IdleStep, PTL DEF Spec, NothingAfterComplete

-----------------------------------------------------------------------------
(* No step starts a second operation: the handler has returned by the time *)
(* one is in flight, and the later callbacks of a supported filter start   *)
(* none.                                                                   *)
LEMMA OneOperationStep ==
    ASSUME TypeOK, Supported(profile), OneOperation, HandlerPhase, [Next]_vars
    PROVE  OneOperation'
<1> USE DEF TypeOK, Supported, OneOperation, WorkerFree,
    request, threads, asyncOps, mutations, reply, effects, observed
<1>1. CASE OnRequestHeaders
  BY <1>1 DEF OnRequestHeaders
<1>2. CASE OnRequestBody
  BY <1>2 DEF OnRequestBody, ChunkDue, Decoding, Buffers, EndsStream
<1>3. CASE OnRequestTrailers
  BY <1>3 DEF OnRequestTrailers
<1>4. CASE OnHttpCalloutDone
  BY <1>4 DEF OnHttpCalloutDone, streamDone
<1>5. CASE OnHttpStreamEvent
  BY <1>5 DEF OnHttpStreamEvent, streamDone
<1>6. CASE OnHttpStreamEnd
  BY <1>6 DEF OnHttpStreamEnd, streamDone
<1>7. CASE OnScheduled
  BY <1>7 DEF OnScheduled, streamDone
<1>8. CASE OnResponse
  BY <1>8 DEF OnResponse
<1>9. CASE OnStreamComplete
  BY <1>9 DEF OnStreamComplete, Flushes, goCancel
<1>10. CASE OnDestroy
  BY <1>10 DEF OnDestroy
<1>11. CASE OnRequestHeadersReturn
  BY <1>11 DEF OnRequestHeadersReturn, Asynchronous
<1>12. CASE OnRequestBodyReturn
  BY <1>12 DEF OnRequestBodyReturn
<1>13. CASE OnHttpCalloutDoneReturn
  BY <1>13 DEF OnHttpCalloutDoneReturn
<1>14. CASE OnHttpStreamEventReturn
  BY <1>14 DEF OnHttpStreamEventReturn
<1>15. CASE OnHttpStreamEndReturn
  BY <1>15 DEF OnHttpStreamEndReturn
<1>16. CASE OnResponseReturn
  BY <1>16 DEF OnResponseReturn
<1>17. CASE Send
  BY <1>17 DEF Send
<1>18. CASE Go
  BY <1>18 DEF Go, MayStart, MayCall, ByWorker
<1>19. CASE HTTPCalloutE
  BY <1>19 DEF HTTPCalloutE, MayStart, MayCall, ByWorker
<1>20. CASE HTTPStream
  BY <1>20 DEF HTTPStream, MayStart, MayCall, ByWorker
<1>21. CASE Panic
  BY <1>21 DEF Panic
<1>22. CASE GoReturn
  BY <1>22 DEF GoReturn
<1>23. CASE \E kind \in Kinds : Queue(kind)
  BY <1>23 DEF Queue
<1>24. CASE UNCHANGED vars
  BY <1>24 DEF vars
<1> QED
  BY <1>1, <1>2, <1>3, <1>4, <1>5, <1>6, <1>7, <1>8, <1>9, <1>10, <1>11, <1>12,
     <1>13, <1>14, <1>15, <1>16, <1>17, <1>18, <1>19, <1>20, <1>21, <1>22, <1>23, <1>24
  DEF Next, HostCallback, CallbackReturn, WriterCall

(* No step moves the request past its handler.                             *)
LEMMA HandlerPhaseStep ==
    ASSUME TypeOK, IdleWhenClosed, profile \in Profile, Supported(profile),
           OneOperation, HandlerPhase, Decision, [Next]_vars
    PROVE  HandlerPhase'
<1> USE DEF TypeOK, IdleWhenClosed, Closed, Supported, OneOperation, HandlerPhase,
    Decision, Deciding, InFlight, WorkerFree, Decoding,
    request, threads, asyncOps, mutations, reply, effects, observed
<1>1. CASE OnRequestHeaders
  BY <1>1 DEF OnRequestHeaders
<1>2. CASE OnRequestBody
  BY <1>2 DEF OnRequestBody, EndsStream, Profile, ChunkDue, Decoding, Buffers
<1>3. CASE OnRequestTrailers
  BY <1>3 DEF OnRequestTrailers
<1>4. CASE OnHttpCalloutDone
  BY <1>4 DEF OnHttpCalloutDone, streamDone
<1>5. CASE OnHttpStreamEvent
  BY <1>5 DEF OnHttpStreamEvent, streamDone
<1>6. CASE OnHttpStreamEnd
  BY <1>6 DEF OnHttpStreamEnd, streamDone
<1>7. CASE OnScheduled
  BY <1>7 DEF OnScheduled, streamDone
<1>8. CASE OnResponse
  BY <1>8 DEF OnResponse
<1>9. CASE OnStreamComplete
  BY <1>9 DEF OnStreamComplete, Flushes, goCancel
<1>10. CASE OnDestroy
  BY <1>10 DEF OnDestroy
<1>11. CASE OnRequestHeadersReturn
  BY <1>11 DEF OnRequestHeadersReturn, Asynchronous
<1>12. CASE OnRequestBodyReturn
  BY <1>12 DEF OnRequestBodyReturn
<1>13. CASE OnHttpCalloutDoneReturn
  BY <1>13 DEF OnHttpCalloutDoneReturn
<1>14. CASE OnHttpStreamEventReturn
  BY <1>14 DEF OnHttpStreamEventReturn
<1>15. CASE OnHttpStreamEndReturn
  BY <1>15 DEF OnHttpStreamEndReturn
<1>16. CASE OnResponseReturn
  BY <1>16 DEF OnResponseReturn
<1>17. CASE Send
  BY <1>17 DEF Send, MayStart, MayCall, ByWorker, ByGoroutine
<1>18. CASE Go
  BY <1>18 DEF Go, MayStart, MayCall, ByWorker, ByGoroutine
<1>19. CASE HTTPCalloutE
  BY <1>19 DEF HTTPCalloutE, MayStart, MayCall, ByWorker, ByGoroutine
<1>20. CASE HTTPStream
  BY <1>20 DEF HTTPStream, MayStart, MayCall, ByWorker, ByGoroutine
<1>21. CASE Panic
  BY <1>21 DEF Panic
<1>22. CASE GoReturn
  BY <1>22 DEF GoReturn
<1>23. CASE \E kind \in Kinds : Queue(kind)
  BY <1>23 DEF Queue, MayStart, MayCall, ByWorker, ByGoroutine
<1>24. CASE UNCHANGED vars
  BY <1>24 DEF vars
<1> QED
  BY <1>1, <1>2, <1>3, <1>4, <1>5, <1>6, <1>7, <1>8, <1>9, <1>10, <1>11, <1>12,
     <1>13, <1>14, <1>15, <1>16, <1>17, <1>18, <1>19, <1>20, <1>21, <1>22, <1>23, <1>24
  DEF Next, HostCallback, CallbackReturn, WriterCall

(* The Continue statuses of OnRequestBody and OnRequestTrailers release no  *)
(* held request of a supported profile.                                    *)
LEMMA PassThrough ==
    ASSUME TypeOK, profile \in Profile, Supported(profile), OneOperation, HandlerPhase,
           OnRequestBody \/ OnRequestTrailers
    PROVE  UNCHANGED effects
<1>1. status # "none" /\ sent = 0 /\ (chunks > 0 \/ trailers) /\ UNCHANGED <<applied, sent>>
  BY DEF OnRequestBody, OnRequestTrailers, Decoding, ChunkDue, Buffers, EndsStream
<1>2. ASSUME ~profile.bodyAware PROVE ~Held
  <2>1. profile.chunks > 0 \/ profile.trailers
    BY <1>1 DEF TypeOK, HandlerPhase, Profile
  <2>2. profile.calls \intersect Async = {}
    BY <2>1 DEF Supported
  <2>3. started = {}
    BY <2>2 DEF TypeOK, OneOperation
  <2> QED
    BY <1>1, <1>2, <2>3 DEF TypeOK, HandlerPhase, Held
<1>3. OnRequestTrailers => ~profile.bodyAware
  BY DEF OnRequestTrailers, HandlerPhase, Supported
<1>4. CASE profile.bodyAware
  BY <1>1, <1>3, <1>4 DEF OnRequestBody, effects, ChunkDue, Decoding, Buffers,
     EndsStream
<1>5. CASE ~profile.bodyAware
  <2>1. forwards' = forwards + IF Held THEN 1 ELSE 0
    BY <1>5 DEF OnRequestBody, OnRequestTrailers, ChunkDue, Decoding, Buffers,
       EndsStream
  <2> QED
    BY <1>1, <1>2, <1>5, <2>1 DEF TypeOK, effects
<1> QED
  BY <1>4, <1>5

(* No step decides the request twice.                                      *)
LEMMA DecisionStep ==
    ASSUME TypeOK, IdleWhenClosed, profile \in Profile, Supported(profile),
           OneOperation, HandlerPhase, Decision, [Next]_vars
    PROVE  Decision'
<1> USE DEF TypeOK, IdleWhenClosed, Closed, Supported, OneOperation, HandlerPhase,
    Decision, Deciding, InFlight, WorkerFree, Decoding,
    request, threads, asyncOps, mutations, reply, effects, observed
<1>1. CASE OnRequestHeaders
  BY <1>1 DEF OnRequestHeaders
<1>2. CASE OnRequestBody
  <2>1. UNCHANGED effects
    BY <1>2, PassThrough
  <2> QED
    BY <1>2, <2>1 DEF OnRequestBody, ChunkDue, Decoding, Buffers, EndsStream
<1>3. CASE OnRequestTrailers
  <2>1. UNCHANGED effects
    BY <1>3, PassThrough
  <2> QED
    BY <1>3, <2>1 DEF OnRequestTrailers
<1>4. CASE OnHttpCalloutDone
  BY <1>4 DEF OnHttpCalloutDone, streamDone
<1>5. CASE OnHttpStreamEvent
  BY <1>5 DEF OnHttpStreamEvent, streamDone
<1>6. CASE OnHttpStreamEnd
  BY <1>6 DEF OnHttpStreamEnd, streamDone
<1>7. CASE OnScheduled
  <2>1. forwards = 0 /\ pending = {}
    BY <1>7 DEF OnScheduled, streamDone
  <2>2. /\ UNCHANGED <<localResp, responded, started, worker>>
        /\ pending' = {} /\ goroutine' = "done"
    BY <1>7, <2>1 DEF OnScheduled, streamDone
  <2>3. CASE stream = "open" /\ localResp
    <3>1. (sent' = 1 \/ sent' = sent) /\ forwards' = 0
      BY <1>7, <2>1, <2>3 DEF OnScheduled, flush, streamDone, Suppressed, Apply
    <3> QED
      BY <1>7, <2>1, <2>2, <2>3, <3>1 DEF OnScheduled, streamDone
  <2>4. CASE stream # "open" \/ (responded /\ ~localResp)
    <3>1. UNCHANGED effects
      BY <1>7, <2>4 DEF OnScheduled, flush, streamDone, Suppressed, Apply
    <3> QED
      BY <1>7, <2>1, <2>2, <2>4, <3>1 DEF OnScheduled, streamDone
  <2>5. CASE stream = "open" /\ ~responded
    <3>1. sent' = 0 /\ forwards' = 1
      BY <1>7, <2>1, <2>5 DEF OnScheduled, flush, streamDone, Suppressed, Apply
    <3> QED
      BY <1>7, <2>1, <2>2, <2>5, <3>1 DEF OnScheduled, streamDone
  <2> QED
    BY <2>3, <2>4, <2>5
<1>8. CASE OnResponse
  BY <1>8 DEF OnResponse
<1>9. CASE OnStreamComplete
  BY <1>9 DEF OnStreamComplete, Flushes, goCancel
<1>10. CASE OnDestroy
  BY <1>10 DEF OnDestroy
<1>11. CASE OnRequestHeadersReturn
  <2>1. CASE started # {} \/ responded
    BY <1>11, <2>1 DEF OnRequestHeadersReturn, flush, Asynchronous, Suppressed,
       Apply
  <2>2. CASE started = {} /\ ~responded
    <3>1. forwards = 0 /\ sent = 0 /\ ~localResp
      BY <1>11, <2>2 DEF OnRequestHeadersReturn, Asynchronous
    <3>a. pending = {} /\ goroutine = "none"
      BY <2>2
    <3>2. sent' = 0 /\ forwards' = 1
      BY <1>11, <2>2, <3>1 DEF OnRequestHeadersReturn, flush, Asynchronous,
         Suppressed, Apply
    <3> QED
      BY <1>11, <2>2, <3>1, <3>a, <3>2 DEF OnRequestHeadersReturn, Asynchronous
  <2> QED
    BY <2>1, <2>2
<1>12. CASE OnRequestBodyReturn
  <2>1. forwards = 0 /\ ~localResp /\ goroutine = "none" /\ pending = {}
    BY <1>12 DEF OnRequestBodyReturn, Async
  <2>2. /\ UNCHANGED <<localResp, responded, started, goroutine>>
        /\ pending' = {} /\ worker' = "idle"
    BY <1>12, <2>1 DEF OnRequestBodyReturn
  <2>3. CASE responded
    <3>1. UNCHANGED effects
      BY <1>12, <2>1, <2>3 DEF OnRequestBodyReturn, flush, Held, Suppressed, Apply
    <3> QED
      BY <2>1, <2>2, <2>3, <3>1
  <2>4. CASE ~responded
    <3>1. sent' = 0 /\ forwards' \in {0, 1}
      BY <1>12, <2>1, <2>4 DEF OnRequestBodyReturn, flush, Held, Suppressed, Apply
    <3> QED
      BY <2>1, <2>2, <2>4, <3>1
  <2> QED
    BY <2>3, <2>4
<1>13. CASE OnHttpCalloutDoneReturn
  <2>1. forwards = 0 /\ ~localResp /\ goroutine = "none" /\ pending = {}
    BY <1>13 DEF OnHttpCalloutDoneReturn
  <2>2. /\ UNCHANGED <<localResp, responded, started, goroutine>>
        /\ pending' = {} /\ worker' = "idle"
    BY <1>13, <2>1 DEF OnHttpCalloutDoneReturn
  <2>3. CASE responded
    <3>1. UNCHANGED effects
      BY <1>13, <2>1, <2>3 DEF OnHttpCalloutDoneReturn, flush, Suppressed, Apply
    <3> QED
      BY <2>1, <2>2, <2>3, <3>1
  <2>4. CASE ~responded
    <3>1. sent' = 0 /\ forwards' \in {0, 1}
      BY <1>13, <2>1, <2>4 DEF OnHttpCalloutDoneReturn, flush, Suppressed, Apply
    <3> QED
      BY <2>1, <2>2, <2>4, <3>1
  <2> QED
    BY <2>3, <2>4
<1>14. CASE OnHttpStreamEventReturn
  BY <1>14 DEF OnHttpStreamEventReturn
<1>15. CASE OnHttpStreamEndReturn
  <2>1. forwards = 0 /\ ~localResp /\ goroutine = "none" /\ pending = {}
    BY <1>15 DEF OnHttpStreamEndReturn
  <2>2. /\ UNCHANGED <<localResp, responded, started, goroutine>>
        /\ pending' = {} /\ worker' = "idle"
    BY <1>15, <2>1 DEF OnHttpStreamEndReturn
  <2>3. CASE responded
    <3>1. UNCHANGED effects
      BY <1>15, <2>1, <2>3 DEF OnHttpStreamEndReturn, flush, Suppressed, Apply
    <3> QED
      BY <2>1, <2>2, <2>3, <3>1
  <2>4. CASE ~responded
    <3>1. sent' = 0 /\ forwards' \in {0, 1}
      BY <1>15, <2>1, <2>4 DEF OnHttpStreamEndReturn, flush, Suppressed, Apply
    <3> QED
      BY <2>1, <2>2, <2>4, <3>1
  <2> QED
    BY <2>3, <2>4
<1>16. CASE OnResponseReturn
  BY <1>16 DEF OnResponseReturn
<1>17. CASE Send
  BY <1>17 DEF Send, MayStart, MayCall, ByWorker, ByGoroutine
<1>18. CASE Go
  BY <1>18 DEF Go, MayStart, MayCall, ByWorker, ByGoroutine
<1>19. CASE HTTPCalloutE
  BY <1>19 DEF HTTPCalloutE, MayStart, MayCall, ByWorker, ByGoroutine
<1>20. CASE HTTPStream
  BY <1>20 DEF HTTPStream, MayStart, MayCall, ByWorker, ByGoroutine
<1>21. CASE Panic
  BY <1>21 DEF Panic
<1>22. CASE GoReturn
  BY <1>22 DEF GoReturn
<1>23. CASE \E kind \in Kinds : Queue(kind)
  BY <1>23 DEF Queue, MayStart, MayCall, ByWorker, ByGoroutine
<1>24. CASE UNCHANGED vars
  BY <1>24 DEF vars
<1> QED
  BY <1>1, <1>2, <1>3, <1>4, <1>5, <1>6, <1>7, <1>8, <1>9, <1>10, <1>11, <1>12,
     <1>13, <1>14, <1>15, <1>16, <1>17, <1>18, <1>19, <1>20, <1>21, <1>22, <1>23, <1>24
  DEF Next, HostCallback, CallbackReturn, WriterCall

(* No step applies a mutation a second time, and none is applied before the*)
(* release.                                                                *)
LEMMA MutationPhaseStep ==
    ASSUME TypeOK, IdleWhenClosed, profile \in Profile, Supported(profile),
           OneOperation, HandlerPhase, Decision, MutationPhase, [Next]_vars
    PROVE  MutationPhase'
<1> USE DEF TypeOK, IdleWhenClosed, Closed, Supported, OneOperation, HandlerPhase,
    Decision, Deciding, InFlight, WorkerFree, Decoding, MutationPhase, None, Kinds,
    request, threads, asyncOps, mutations, reply, effects, observed
<1>1. CASE OnRequestHeaders
  BY <1>1 DEF OnRequestHeaders
<1>2. CASE OnRequestBody
  <2>2. UNCHANGED effects
    BY <1>2, PassThrough
  <2>3. worker' = "body" => forwards = 0 /\ response # "local"
    BY <1>2 DEF OnRequestBody, ChunkDue, Decoding, Buffers, EndsStream
  <2> QED
    BY <1>2, <2>2, <2>3 DEF OnRequestBody, ChunkDue, Decoding, Buffers, EndsStream
<1>3. CASE OnRequestTrailers
  <2>1. UNCHANGED effects
    BY <1>3, PassThrough
  <2> QED
    BY <1>3, <2>1 DEF OnRequestTrailers
<1>4. CASE OnHttpCalloutDone
  BY <1>4 DEF OnHttpCalloutDone, streamDone
<1>5. CASE OnHttpStreamEvent
  BY <1>5 DEF OnHttpStreamEvent, streamDone
<1>6. CASE OnHttpStreamEnd
  BY <1>6 DEF OnHttpStreamEnd, streamDone
<1>7. CASE OnScheduled
  <2>1. UNCHANGED <<profile, stream, queued, accepted, response, status, started, worker>>
    BY <1>7 DEF OnScheduled
  <2>2. CASE UNCHANGED effects
    BY <2>1, <2>2
  <2>3. CASE ~UNCHANGED effects
    <3>1. stream = "open" /\ ~profile.observer /\ forwards = 0
      BY <1>7, <2>3 DEF OnScheduled, streamDone
    <3>2. CASE localResp
      <4>1. sent' = sent + 1 /\ UNCHANGED <<applied, forwards>>
        BY <1>7, <2>3, <3>2 DEF OnScheduled, flush, streamDone
      <4> QED
        BY <2>1, <3>1, <4>1
    <3>3. CASE ~localResp
      <4>1. ~responded /\ sent = 0
        BY <1>7, <2>3, <3>3 DEF OnScheduled, flush, streamDone, Suppressed
      <4>2. Apply /\ forwards' = 1 /\ sent' = 0
        BY <1>7, <2>3, <3>1, <3>3, <4>1 DEF OnScheduled, flush, streamDone
      <4>3. \A k \in Kinds : applied'[k] = queued[k]
        BY <3>1, <4>2 DEF Apply
      <4> QED
        BY <2>1, <3>1, <4>2, <4>3
    <3> QED
      BY <3>2, <3>3
  <2> QED
    BY <2>2, <2>3
<1>8. CASE OnResponse
  BY <1>8 DEF OnResponse
<1>9. CASE OnStreamComplete
  <2>1. CASE profile.observer
    <3>1. \A k \in Kinds : applied'[k] <= accepted'[k] /\ queued'[k] <= accepted'[k]
      BY <1>9, <2>1 DEF OnStreamComplete, flushResponseMutations, Flushes, goCancel
    <3>2. applied'["header"] = applied["header"] /\ applied'["route"] = applied["route"]
      BY <1>9, <2>1 DEF OnStreamComplete, flushResponseMutations, Flushes, goCancel
    <3> QED
      BY <1>9, <2>1, <3>1, <3>2 DEF OnStreamComplete, Flushes, goCancel
  <2>2. CASE ~profile.observer
    BY <1>9, <2>2 DEF OnStreamComplete, Flushes, goCancel
  <2> QED
    BY <2>1, <2>2
<1>10. CASE OnDestroy
  BY <1>10 DEF OnDestroy
<1>11. CASE OnRequestHeadersReturn
  BY <1>11 DEF OnRequestHeadersReturn, flush, Asynchronous, Suppressed, Apply
<1>12. CASE OnRequestBodyReturn
  <2>1. forwards = 0 /\ ~localResp
    BY <1>12 DEF OnRequestBodyReturn, Async
  <2>2. UNCHANGED <<stream, queued, accepted, response, status, started>> /\ worker' = "idle"
    BY <1>12 DEF OnRequestBodyReturn
  <2>3. CASE responded
    <3>1. UNCHANGED effects
      BY <1>12, <2>1, <2>3 DEF OnRequestBodyReturn, Held
    <3> QED
      BY <1>12, <2>2, <3>1 DEF OnRequestBodyReturn
  <2>4. CASE ~responded
    <3>a. stream = "open" /\ sent = 0
      BY <1>12, <2>1, <2>4 DEF OnRequestBodyReturn
    <3>b. status = "StopAllAndBuffer"
      BY <1>12, <3>a DEF OnRequestBodyReturn
    <3>1. Held
      BY <2>1, <3>a, <3>b DEF Held
    <3>2. forwards' = 1 /\ sent' = 0
      BY <1>12, <2>1, <2>4, <3>1 DEF OnRequestBodyReturn, flush, Suppressed, Apply
    <3>3. \A k \in Kinds : applied'[k] = queued[k]
      BY <1>12, <2>1, <2>4 DEF OnRequestBodyReturn, flush, Suppressed, Apply
    <3> QED
      BY <1>12, <2>2, <2>4, <3>2, <3>3 DEF OnRequestBodyReturn
  <2> QED
    BY <2>3, <2>4
<1>13. CASE OnHttpCalloutDoneReturn
  BY <1>13 DEF OnHttpCalloutDoneReturn, flush, Suppressed, Apply
<1>14. CASE OnHttpStreamEventReturn
  BY <1>14 DEF OnHttpStreamEventReturn
<1>15. CASE OnHttpStreamEndReturn
  BY <1>15 DEF OnHttpStreamEndReturn, flush, Suppressed, Apply
<1>16. CASE OnResponseReturn
  BY <1>16 DEF OnResponseReturn
<1>17. CASE Send
  BY <1>17 DEF Send, MayStart, MayCall, ByWorker, ByGoroutine
<1>18. CASE Go
  <2>1. "Go" \in profile.calls
    BY <1>18 DEF Go, MayStart, ByWorker
  <2>2. ~profile.observer
    BY <2>1 DEF Async
  <2> QED
    BY <1>18, <2>2 DEF Go
<1>19. CASE HTTPCalloutE
  <2>1. "HTTPCallout" \in profile.calls
    BY <1>19 DEF HTTPCalloutE, MayStart, ByWorker
  <2>2. ~profile.observer
    BY <2>1 DEF Async
  <2> QED
    BY <1>19, <2>2 DEF HTTPCalloutE
<1>20. CASE HTTPStream
  <2>1. "HTTPStream" \in profile.calls
    BY <1>20 DEF HTTPStream, MayStart, ByWorker
  <2>2. ~profile.observer
    BY <2>1 DEF Async
  <2> QED
    BY <1>20, <2>2 DEF HTTPStream
<1>21. CASE Panic
  BY <1>21 DEF Panic
<1>22. CASE GoReturn
  BY <1>22 DEF GoReturn
<1>23. CASE \E kind \in Kinds : Queue(kind)
  <2> SUFFICES ASSUME NEW kind \in Kinds, Queue(kind) PROVE MutationPhase'
    BY <1>23
  <2>1. \A k \in Kinds : /\ queued'[k] = queued[k] + IF k = kind THEN 1 ELSE 0
                         /\ accepted'[k] = accepted[k] + IF k = kind THEN 1 ELSE 0
    BY DEF Queue
  <2>2. profile.observer /\ kind \in {"meta", "counter"} => worker = "response"
    BY DEF Queue, MayCall, ByWorker, ByGoroutine
  <2>3. ~Closed => queued' = accepted'
    BY DEF Queue
  <2> QED
    BY <2>1, <2>2, <2>3 DEF Queue
<1>24. CASE UNCHANGED vars
  BY <1>24 DEF vars
<1> QED
  BY <1>1, <1>2, <1>3, <1>4, <1>5, <1>6, <1>7, <1>8, <1>9, <1>10, <1>11, <1>12,
     <1>13, <1>14, <1>15, <1>16, <1>17, <1>18, <1>19, <1>20, <1>21, <1>22, <1>23, <1>24
  DEF Next, HostCallback, CallbackReturn, WriterCall

-----------------------------------------------------------------------------
(* For supported profiles IInv holds in every reachable state.             *)
LEMMA Invariance == AllSupported => (Spec => []IInv)
<1>1. ASSUME AllSupported, Init PROVE IInv
  <2> USE <1>1 DEF Init
  <2>1. profile \in Profile /\ TypeOK
    BY TypeInit, ProfilesAssumption
  <2>2. IdleWhenClosed /\ GoroutineMarked
    BY DEF IdleWhenClosed, GoroutineMarked, Closed
  <2>3. OneOperation
    BY DEF OneOperation
  <2>4. HandlerPhase
    BY <2>1 DEF HandlerPhase, Profile
  <2>5. Decision
    BY DEF Decision, Deciding, InFlight
  <2>6. MutationPhase
    BY DEF MutationPhase, None, Closed, Kinds
  <2> QED
    BY <2>1, <2>2, <2>3, <2>4, <2>5, <2>6 DEF IInv
<1>2. ASSUME AllSupported, IInv, [Next]_vars PROVE IInv'
  <2>1. profile \in Profile /\ Supported(profile)
    BY <1>2, ProfilesAssumption DEF IInv, TypeOK, AllSupported
  <2>2. TypeOK'
    BY <1>2, TypeStep DEF IInv
  <2>3. (IdleWhenClosed /\ GoroutineMarked)'
    BY <1>2, IdleStep DEF IInv
  <2>4. OneOperation'
    BY <1>2, <2>1, OneOperationStep DEF IInv
  <2>5. HandlerPhase'
    BY <1>2, <2>1, HandlerPhaseStep DEF IInv
  <2>6. Decision'
    BY <1>2, <2>1, DecisionStep DEF IInv
  <2>7. MutationPhase'
    BY <1>2, <2>1, MutationPhaseStep DEF IInv
  <2> QED
    BY <2>2, <2>3, <2>4, <2>5, <2>6, <2>7 DEF IInv
<1>3. CASE AllSupported
  BY <1>1, <1>2, <1>3, PTL DEF Spec
<1> QED
  BY <1>3

(* The request is released or answered at most once, whichever of flush's  *)
(* callers runs first.                                                     *)
THEOREM RequestDecidedOnce == AllSupported => (Spec => []DecidedOnce)
<1>1. IInv => DecidedOnce
  BY DEF IInv, Decision, DecidedOnce, TypeOK
<1> QED
  BY <1>1, Invariance, PTL

(* It stays in the filter while a callout, a stream or the goroutine works.*)
THEOREM RequestPaused == AllSupported => (Spec => []PausedWhileAsync)
<1>1. IInv => PausedWhileAsync
  BY DEF IInv, Decision, Deciding, PausedWhileAsync
<1> QED
  BY <1>1, Invariance, PTL

(* It is not released before its handler has been entered.                 *)
THEOREM HandlerFirst == AllSupported => (Spec => []HandlerBeforeForward)
<1>1. IInv => HandlerBeforeForward
  BY DEF IInv, HandlerPhase, HandlerBeforeForward, TypeOK
<1> QED
  BY <1>1, Invariance, PTL

(* No counter, metadata, header or route mutation is applied twice.        *)
THEOREM AppliedAtMostOnce == AllSupported => (Spec => []MutationsAtMostOnce)
<1>1. IInv => MutationsAtMostOnce
  BY DEF IInv, MutationPhase, MutationsAtMostOnce
<1> QED
  BY <1>1, Invariance, PTL

(* A request answered by Send has had no header or route mutation applied. *)
THEOREM AnsweredStaysUntouched == AllSupported => (Spec => []AnsweredUntouched)
<1>1. IInv => AnsweredUntouched
  BY DEF IInv, TypeOK, Decision, MutationPhase, AnsweredUntouched
<1> QED
  BY <1>1, Invariance, PTL

-----------------------------------------------------------------------------
(* The two ways a step decides a request, and what it may rely on.         *)
Releases ==
    /\ ~Closed /\ handled /\ forwards = 0 /\ sent = 0
    /\ forwards' = 1 /\ sent' = sent /\ UNCHANGED <<stream, handled>>
    /\ applied' = accepted'

Answers ==
    /\ ~Closed /\ handled /\ forwards = 0 /\ sent = 0
    /\ sent' = 1 /\ forwards' = forwards /\ UNCHANGED <<stream, handled>>

(* What flush does while the request is undecided.                         *)
LEMMA FlushDecides ==
    ASSUME TypeOK, MutationPhase, ~Closed, handled, forwards = 0,
           sent = 0 \/ (responded /\ ~localResp),
           UNCHANGED <<stream, handled, accepted>>, flush(1)
    PROVE  Releases \/ Answers \/ UNCHANGED <<forwards, sent>>
<1>1. CASE localResp
  BY <1>1 DEF flush, Answers, TypeOK, Suppressed, Apply
<1>2. CASE ~localResp /\ responded
  BY <1>2 DEF flush, effects, Suppressed, Apply
<1>3. CASE ~localResp /\ ~responded
  <2>1. applied' = [k \in Kinds |-> applied[k] + queued[k]]
    BY <1>3 DEF flush, Suppressed, Apply
  <2>2. applied = None /\ queued = accepted
    BY DEF MutationPhase
  <2>3. applied' = accepted
    BY <2>1, <2>2 DEF TypeOK, None
  <2>4. forwards' = 1 /\ sent' = sent
    BY <1>3 DEF flush, Suppressed, Apply
  <2> QED
    BY <1>3, <2>3, <2>4 DEF Releases
<1> QED
  BY <1>1, <1>2, <1>3

(* Every step of a supported profile releases the request, answers it, or  *)
(* leaves both counts alone.                                               *)
LEMMA DecidingStep ==
    ASSUME IInv, profile \in Profile, Supported(profile), [Next]_vars
    PROVE  Releases \/ Answers \/ UNCHANGED <<forwards, sent>>
<1> USE DEF IInv
<1>1. CASE OnRequestHeaders
  BY <1>1 DEF OnRequestHeaders, effects
<1>2. CASE OnRequestBody
  BY <1>2, PassThrough DEF effects
<1>3. CASE OnRequestTrailers
  BY <1>3, PassThrough DEF effects
<1>4. CASE OnHttpCalloutDone
  BY <1>4 DEF OnHttpCalloutDone, effects, streamDone
<1>5. CASE OnHttpStreamEvent
  BY <1>5 DEF OnHttpStreamEvent, effects, streamDone
<1>6. CASE OnHttpStreamEnd
  BY <1>6 DEF OnHttpStreamEnd, effects, streamDone
<1>7. CASE OnScheduled
  <2>1. CASE stream # "open"
    <3>1. stream # "new"
      BY <1>7 DEF OnScheduled, OneOperation, HandlerPhase
    <3>2. streamDone
      BY <2>1, <3>1 DEF TypeOK, streamDone
    <3> QED
      BY <1>7, <3>2 DEF OnScheduled, effects
  <2>2. CASE stream = "open"
    <3>1. forwards = 0 /\ ~Closed /\ handled
      BY <1>7, <2>2 DEF OnScheduled, OneOperation, HandlerPhase, Decision,
         Deciding, InFlight,
         Closed, streamDone
    <3>2. sent = 0 \/ (responded /\ ~localResp)
      BY <1>7 DEF OnScheduled, Decision, TypeOK, streamDone
    <3>3. CASE flush(1)
      BY <1>7, <3>1, <3>2, <3>3, FlushDecides DEF OnScheduled, mutations
    <3>4. CASE UNCHANGED effects
      BY <3>4 DEF effects
    <3> QED
      BY <1>7, <3>3, <3>4 DEF OnScheduled
  <2> QED
    BY <2>1, <2>2
<1>8. CASE OnResponse
  BY <1>8 DEF OnResponse, effects
<1>9. CASE OnStreamComplete
  BY <1>9 DEF OnStreamComplete, effects, Flushes, goCancel
<1>10. CASE OnDestroy
  BY <1>10 DEF OnDestroy, effects
<1>11. CASE OnRequestHeadersReturn
  <2>1. CASE started # {} \/ responded
    BY <1>11, <2>1 DEF OnRequestHeadersReturn, effects, Asynchronous
  <2>2. CASE started = {} /\ ~responded
    <3>1. forwards = 0 /\ ~Closed /\ handled /\ sent = 0
      BY <1>11, <2>2 DEF OnRequestHeadersReturn, HandlerPhase, Decision, Deciding,
         IdleWhenClosed, TypeOK, Asynchronous
    <3> QED
      BY <1>11, <2>2, <3>1, FlushDecides DEF OnRequestHeadersReturn, mutations,
         Asynchronous
  <2> QED
    BY <2>1, <2>2
<1>12. CASE OnRequestBodyReturn
  <2>1. forwards = 0 /\ ~Closed /\ handled /\ profile.bodyAware
    BY <1>12 DEF OnRequestBodyReturn, HandlerPhase, Decision, Deciding,
       IdleWhenClosed
  <2>2. started = {}
    BY <2>1 DEF Supported, OneOperation, TypeOK
  <2>3. CASE responded
    <3>1. sent = 1
      BY <2>2, <2>3 DEF Decision
    <3> QED
      BY <1>12, <2>3, <3>1 DEF OnRequestBodyReturn, Held, TypeOK
  <2>4. CASE ~responded
    <3>1. stream = "open" /\ sent = 0
      BY <1>12, <2>1, <2>4 DEF OnRequestBodyReturn, HandlerPhase, Decision, Closed,
         TypeOK
    <3>2. Held
      BY <2>1, <3>1 DEF HandlerPhase, Held
    <3> QED
      BY <1>12, <2>1, <2>4, <3>1, <3>2, FlushDecides DEF OnRequestBodyReturn,
         mutations
  <2> QED
    BY <2>3, <2>4
<1>13. CASE OnHttpCalloutDoneReturn
  <2>1. forwards = 0 /\ ~localResp /\ ~Closed /\ handled
    BY <1>13 DEF OnHttpCalloutDoneReturn, OneOperation, HandlerPhase, Decision,
       Deciding,
       IdleWhenClosed, TypeOK
  <2>2. sent = 0 \/ responded
    BY DEF Decision, TypeOK
  <2> QED
    BY <1>13, <2>1, <2>2, FlushDecides DEF OnHttpCalloutDoneReturn, mutations
<1>14. CASE OnHttpStreamEventReturn
  BY <1>14 DEF OnHttpStreamEventReturn, effects
<1>15. CASE OnHttpStreamEndReturn
  <2>1. forwards = 0 /\ ~localResp /\ ~Closed /\ handled
    BY <1>15 DEF OnHttpStreamEndReturn, OneOperation, HandlerPhase, Decision,
       Deciding,
       IdleWhenClosed, TypeOK
  <2>2. sent = 0 \/ responded
    BY DEF Decision, TypeOK
  <2> QED
    BY <1>15, <2>1, <2>2, FlushDecides DEF OnHttpStreamEndReturn, mutations
<1>16. CASE OnResponseReturn
  BY <1>16 DEF OnResponseReturn, effects
<1>17. CASE Send
  <2>1. CASE "Go" \in started
    BY <1>17, <2>1 DEF Send
  <2>2. CASE "Go" \notin started
    <3>1. forwards = 0 /\ sent = 0 /\ handled /\ ~Closed
      BY <1>17, <2>2 DEF Send, MayCall, ByWorker, ByGoroutine, OneOperation,
         HandlerPhase,
         Decision, Deciding, IdleWhenClosed, Supported, TypeOK
    <3> QED
      BY <1>17, <2>2, <3>1 DEF Send, Answers
  <2> QED
    BY <2>1, <2>2
<1>18. CASE Go
  BY <1>18 DEF Go, effects
<1>19. CASE HTTPCalloutE
  BY <1>19 DEF HTTPCalloutE, effects
<1>20. CASE HTTPStream
  BY <1>20 DEF HTTPStream, effects
<1>21. CASE Panic
  BY <1>21 DEF Panic, effects
<1>22. CASE GoReturn
  BY <1>22 DEF GoReturn, effects
<1>23. CASE \E kind \in Kinds : Queue(kind)
  BY <1>23 DEF Queue, effects
<1>24. CASE UNCHANGED vars
  BY <1>24 DEF vars, effects
<1> QED
  BY <1>1, <1>2, <1>3, <1>4, <1>5, <1>6, <1>7, <1>8, <1>9, <1>10, <1>11, <1>12,
     <1>13, <1>14, <1>15, <1>16, <1>17, <1>18, <1>19, <1>20, <1>21, <1>22, <1>23, <1>24
  DEF Next, HostCallback, CallbackReturn, WriterCall

(* The release takes every mutation accepted so far along.                 *)
THEOREM ReleaseIsComplete == AllSupported => (Spec => ReleaseCarriesAll)
<1>1. ASSUME AllSupported, IInv, [Next]_vars, forwards' > forwards
      PROVE  applied' = accepted'
  <2>1. profile \in Profile /\ Supported(profile)
    BY <1>1, ProfilesAssumption DEF IInv, TypeOK, AllSupported
  <2>2. forwards' # forwards
    BY <1>1 DEF IInv, TypeOK
  <2> QED
    BY <1>1, <2>1, <2>2, DecidingStep DEF Releases, Answers
<1>2. ASSUME AllSupported, IInv, [Next]_vars
      PROVE  [forwards' > forwards => applied' = accepted']_vars
  BY <1>1, <1>2
<1>3. CASE AllSupported
  BY <1>2, <1>3, Invariance, PTL DEF Spec, ReleaseCarriesAll
<1> QED
  BY <1>3

(* The filter, its Writer and its goroutine implement RequestOutcome.      *)
THEOREM FilterImplementsOutcome == AllSupported => (Spec => ImplementsOutcome)
<1>1. Init => Outcome!Init
  BY DEF Init, Outcome!Init, Closed
<1>2. ASSUME AllSupported, IInv, [Next]_vars
      PROVE  [Outcome!Next]_(Outcome!vars)
  <2>1. profile \in Profile /\ Supported(profile)
    BY <1>2, ProfilesAssumption DEF IInv, TypeOK, AllSupported
  <2>2. CASE Releases
    BY <2>2 DEF Releases, Outcome!Next, Outcome!Forward, Outcome!Undecided, Closed
  <2>3. CASE Answers
    BY <2>3 DEF Answers, Outcome!Next, Outcome!Answer, Outcome!Undecided, Closed
  <2>4. CASE UNCHANGED <<forwards, sent>>
    <3>1. \/ UNCHANGED <<handled, Closed>>
          \/ ~Closed /\ handled' = TRUE /\ UNCHANGED Closed
          \/ Closed' = TRUE /\ UNCHANGED handled
      BY <1>2 DEF Next, HostCallback, CallbackReturn, WriterCall, vars, Closed,
         OnRequestHeaders, OnRequestBody, OnRequestTrailers, OnHttpCalloutDone,
         OnHttpStreamEvent, OnHttpStreamEnd, OnScheduled, OnResponse, OnStreamComplete,
         OnDestroy, OnRequestHeadersReturn, OnRequestBodyReturn, OnHttpCalloutDoneReturn,
         OnHttpStreamEventReturn, OnHttpStreamEndReturn, OnResponseReturn, Queue, Send, Go,
         HTTPCalloutE, HTTPStream, Panic, GoReturn, Decoding, ChunkDue,
         Buffers, EndsStream, streamDone, Flushes, goCancel, Asynchronous
    <3> QED
      BY <2>4, <3>1 DEF Outcome!Next, Outcome!Handle, Outcome!Close, Outcome!vars
  <2> QED
    BY <1>2, <2>1, <2>2, <2>3, <2>4, DecidingStep
<1>3. CASE AllSupported
  BY <1>1, <1>2, <1>3, Invariance, PTL DEF Spec, ImplementsOutcome, Outcome!Spec
<1> QED
  BY <1>3

-----------------------------------------------------------------------------
(* What still has to happen to a request.  An operation once started is in *)
(* flight, being completed, or has decided the request, unless Envoy did   *)
(* not honour its answer; a body-aware filter waits for chunks, runs its   *)
(* handler, or has decided the request, unless there are no chunks.        *)
Decided == forwards + sent >= 1

WakeUpPending ==
    /\ ~Closed /\ started # {}
        => InFlight \/ worker \in {"callout", "end"} \/ Decided \/ ReplyIgnored
    /\ profile.bodyAware /\ profile.chunks > 0 /\ ~Closed /\ ~handled => chunks > 0
    /\ profile.bodyAware /\ ~Closed /\ handled => worker = "body" \/ Decided

(* flush decides what it finds undecided, unless Send had answered before. *)
LEMMA FlushWakesUp ==
    ASSUME TypeOK, Decision, flush(1)
    PROVE  Decided'
<1> USE DEF TypeOK, Decision, Decided
<1>1. CASE localResp
  BY <1>1 DEF flush
<1>2. CASE ~localResp /\ responded
  BY <1>2 DEF flush, effects, Suppressed
<1>3. CASE ~localResp /\ ~responded
  BY <1>3 DEF flush, Suppressed
<1> QED
  BY <1>1, <1>2, <1>3

(* No step takes back a decision.                                          *)
LEMMA DecidedStays ==
    ASSUME IInv, profile \in Profile, Supported(profile), [Next]_vars, Decided
    PROVE  Decided'
<1>1. forwards \in Nat /\ sent \in Nat
  BY DEF IInv, TypeOK
<1> QED
  BY <1>1, DecidingStep DEF Releases, Answers, Decided

(* No step but Envoy's refusals loses the wake-up of a held request.       *)
LEMMA WakeUpStep ==
    ASSUME IInv, profile \in Profile, Supported(profile), WakeUpPending, [Next]_vars
    PROVE  WakeUpPending'
<1> USE DEF WakeUpPending, InFlight, Closed, WorkerFree, request, threads, asyncOps,
           ReplyIgnored, reply, mutations
<1>0. TypeOK /\ OneOperation /\ HandlerPhase /\ Decision /\ IdleWhenClosed
  BY DEF IInv
<1>a. Decided => Decided'
  BY DecidedStays
<1>1. CASE OnRequestHeaders
  BY <1>0, <1>1, <1>a DEF OnRequestHeaders, HandlerPhase, TypeOK, OneOperation
<1>2. CASE OnRequestBody
  BY <1>0, <1>2, <1>a DEF OnRequestBody, ChunkDue, Decoding, Buffers, EndsStream,
     TypeOK, HandlerPhase, Supported
<1>3. CASE OnRequestTrailers
  BY <1>0, <1>3, <1>a DEF OnRequestTrailers
<1>4. CASE OnHttpCalloutDone
  BY <1>0, <1>4, <1>a DEF OnHttpCalloutDone, streamDone
<1>5. CASE OnHttpStreamEvent
  BY <1>0, <1>5, <1>a DEF OnHttpStreamEvent, streamDone
<1>6. CASE OnHttpStreamEnd
  BY <1>0, <1>6, <1>a DEF OnHttpStreamEnd, streamDone
<1>7. CASE OnScheduled
  BY <1>0, <1>7, <1>a, FlushWakesUp DEF OnScheduled, streamDone
<1>8. CASE OnResponse
  BY <1>0, <1>8, <1>a DEF OnResponse
<1>9. CASE OnStreamComplete
  BY <1>9 DEF OnStreamComplete
<1>10. CASE OnDestroy
  BY <1>10 DEF OnDestroy
<1>11. CASE OnRequestHeadersReturn
  BY <1>0, <1>11, <1>a DEF OnRequestHeadersReturn, HandlerPhase
<1>12. CASE OnRequestBodyReturn
  <2>1. started = {} /\ profile.bodyAware /\ ~localResp
    BY <1>0, <1>12 DEF OnRequestBodyReturn, HandlerPhase, Supported, OneOperation,
       Decision, TypeOK
  <2>2. CASE responded
    <3>1. Decided
      BY <1>0, <2>1, <2>2 DEF Decision, Decided, TypeOK
    <3> QED
      BY <1>12, <1>a, <2>1, <3>1 DEF OnRequestBodyReturn
  <2>3. CASE ~responded
    <3>1. stream = "open" /\ sent = 0
      BY <1>0, <1>12, <2>3 DEF OnRequestBodyReturn, HandlerPhase, Decision,
         IdleWhenClosed, TypeOK
    <3>2. Decided' \/ flush(1)
      BY <1>0, <1>12, <2>3, <3>1, <1>a DEF OnRequestBodyReturn, HandlerPhase, Held,
         Decision, Decided, TypeOK
    <3> QED
      BY <1>0, <1>12, <2>1, <3>2, FlushWakesUp DEF OnRequestBodyReturn
  <2> QED
    BY <2>2, <2>3
<1>13. CASE OnHttpCalloutDoneReturn
  BY <1>0, <1>13, FlushWakesUp DEF OnHttpCalloutDoneReturn
<1>14. CASE OnHttpStreamEventReturn
  BY <1>0, <1>14, <1>a DEF OnHttpStreamEventReturn
<1>15. CASE OnHttpStreamEndReturn
  BY <1>0, <1>15, FlushWakesUp DEF OnHttpStreamEndReturn
<1>16. CASE OnResponseReturn
  BY <1>0, <1>16, <1>a DEF OnResponseReturn
<1>17. CASE Send
  BY <1>0, <1>17, <1>a DEF Send
<1>18. CASE Go
  BY <1>0, <1>18, <1>a DEF Go
<1>19. CASE HTTPCalloutE
  BY <1>0, <1>19, <1>a DEF HTTPCalloutE
<1>20. CASE HTTPStream
  BY <1>0, <1>20, <1>a DEF HTTPStream
<1>21. CASE Panic
  BY <1>0, <1>21, <1>a DEF Panic
<1>22. CASE GoReturn
  BY <1>0, <1>22, <1>a DEF GoReturn
<1>23. CASE \E kind \in Kinds : Queue(kind)
  BY <1>0, <1>23, <1>a DEF Queue
<1>24. CASE UNCHANGED vars
  BY <1>0, <1>24, <1>a DEF vars
<1> QED
  BY <1>1, <1>2, <1>3, <1>4, <1>5, <1>6, <1>7, <1>8, <1>9, <1>10, <1>11, <1>12,
     <1>13, <1>14, <1>15, <1>16, <1>17, <1>18, <1>19, <1>20, <1>21, <1>22, <1>23, <1>24
  DEF Next, HostCallback, CallbackReturn, WriterCall

(* A held request always has something that will decide it still to come,  *)
(* whatever the host is like: only a body Envoy does not deliver and a     *)
(* local response it does not honour leave a request waiting.              *)
THEOREM NoWakeUpIsLost == AllSupported => (Spec => []HeldHasDecider)
<1>1. ASSUME AllSupported, Init PROVE WakeUpPending
  <2>1. profile \in Profile /\ Supported(profile)
    BY <1>1, ProfilesAssumption DEF Init, AllSupported
  <2> QED
    BY <1>1, <2>1 DEF Init, WakeUpPending, Supported
<1>2. ASSUME AllSupported, IInv, WakeUpPending, [Next]_vars
      PROVE  WakeUpPending'
  <2>1. profile \in Profile /\ Supported(profile)
    BY <1>2, ProfilesAssumption DEF IInv, TypeOK, AllSupported
  <2> QED
    BY <1>2, <2>1, WakeUpStep
<1>3. ASSUME AllSupported, IInv, WakeUpPending PROVE HeldHasDecider
  <2>1. profile \in Profile
    BY <1>3, ProfilesAssumption DEF IInv, TypeOK
  <2> QED
    BY <1>3, <2>1 DEF IInv, TypeOK, Profile, HandlerPhase, WakeUpPending, HeldHasDecider,
       Held, Closed, Decided, ChunkDue, Decoding, NoBodyComes
<1>4. CASE AllSupported
  BY <1>1, <1>2, <1>3, <1>4, Invariance, PTL DEF Spec
<1> QED
  BY <1>4

=============================================================================

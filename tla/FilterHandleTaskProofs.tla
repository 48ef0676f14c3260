----------------------- MODULE FilterHandleTaskProofs -----------------------
(***************************************************************************)
(* Theorems about what a handle must not lose: the callbacks of a live     *)
(* stream and the functions handed to its scheduler.                       *)
(***************************************************************************)
EXTENDS FilterHandleProofs

-----------------------------------------------------------------------------
(* A step is about one stream                                              *)

(* What another stream keeps                                               *)
Untouched(t) ==
    /\ host'[t] = host[t] /\ inflight'[t] = inflight[t] /\ calling'[t] = calling[t]
    /\ Serves(t) => unwrap(t)' = unwrap(t)
    /\ t \in replied' <=> t \in replied
    /\ scheduler'[t] = scheduler[t] /\ commits'[t] = commits[t]
    /\ \A n : <<t, n>> \in posting' <=> <<t, n>> \in posting
    /\ submitted'[t] = submitted[t] /\ runs'[t] = runs[t]

Others(s) == \A t \in Streams \ {s} : Untouched(t)

(* The operations that assign one field of the stream's handle             *)
LEMMA AssignOthers ==
    ASSUME OwnInv, NEW s \in Streams, Serves(s), NEW r,
           handle' = [handle EXCEPT ![pointer[s]] = r], UNCHANGED <<host, pointer>>
    PROVE  \A t \in Streams \ {s} : Serves(t) => unwrap(t)' = unwrap(t)
  BY OthersKeepHandles

LEMMA SameHandles ==
    ASSUME UNCHANGED <<handle, pointer>>
    PROVE  \A t \in Streams : unwrap(t)' = unwrap(t)
  BY DEF unwrap

LEMMA NewOthers ==
    ASSUME OwnInv, NEW s \in Streams, NEW h \in Handles, host[s] = "none",
           h \in pool \/ Fresh(h), Arrives(s), New(s, h, Blank)
    PROVE  Others(s)
<1>1. /\ handle \in [Handles -> Handle] /\ pointer \in [Streams -> Handles \union {NoHandle}]
      /\ host \in [Streams -> {"none", "live", "complete", "destroyed"}]
  BY DEF OwnInv, TypeOK, ModuleType, EnvoyType
<1>2. \A t \in Streams \ {s} : Serves(t) => pointer[t] # h
  BY DEF OwnInv, OwnHandles, Fresh
<1> QED
  BY <1>1, <1>2 DEF New, Arrives, unwrap, Others, Untouched, tasking, history

LEMMA Locality ==
    ASSUME OwnInv, NEW s \in Streams, StreamStep(s)
    PROVE  Others(s)
<1> USE DEF Others, Untouched
<1>1. EnvoyType /\ ModuleType /\ TaskingType
  BY DEF OwnInv, TypeOK
<1>2. ASSUME NEW allowed, NEW p, Dispatch(s, allowed, p)
      PROVE  UNCHANGED replied
  BY <1>2 DEF Dispatch
<1>3. CASE HttpNew(s)
  <2>1. PICK h \in Handles :
          (h \in pool \/ Fresh(h)) /\ (Corrupt(h) \/ New(s, h, Blank))
    BY <1>3, Zenon DEF HttpNew, reset
  <2>2. New(s, h, Blank)
    BY <2>1 DEF OwnInv, OwnHandles
  <2> QED
    BY <1>3, <2>1, <2>2, NewOthers DEF HttpNew, Arrives
<1>4. CASE OtherNew(s)
  BY <1>4, NewOthers DEF OtherNew, Arrives
<1>5. CASE StreamComplete(s)
  <2>1. handle' = [handle EXCEPT ![pointer[s]] = [unwrap(s) EXCEPT !.completed = TRUE]]
    BY <1>5 DEF StreamComplete, unwrap
  <2>2. \A t \in Streams \ {s} : Serves(t) => unwrap(t)' = unwrap(t)
    BY <1>5, <2>1, OthersKeepHandles DEF StreamComplete, Idle, Live, Serves
  <2> QED
    BY <1>1, <1>2, <1>5, <2>2 DEF StreamComplete, EnvoyType, tasking
<1>6. ASSUME NEW left, Destroy(s, left), Serves(s)
      PROVE  Others(s)
  <2>1. \A t \in Streams \ {s} : Serves(t) => unwrap(t)' = unwrap(t)
    BY <1>6, OthersKeepHandles DEF Destroy
  <2> QED
    BY <1>1, <1>2, <1>6, <2>1 DEF Destroy, EnvoyType, TaskingType
<1>7. CASE HttpDestroy(s) \/ OtherDestroy(s)
  BY <1>6, <1>7, Zenon DEF HttpDestroy, OtherDestroy, Serves
<1>8. ASSUME NEW allowed, Callback(s, allowed)
      PROVE  Others(s)
  BY <1>2, <1>8, SameHandles DEF Callback, envoy, module, tasking
<1>9. ASSUME NEW r, handle' = [handle EXCEPT ![pointer[s]] = r], Idle(s),
             UNCHANGED <<use, envoy, tasking>>,
             replied' \ {s} = replied \ {s}
      PROVE  Others(s)
  <2>1. \A t \in Streams \ {s} : Serves(t) => unwrap(t)' = unwrap(t)
    BY <1>9, AssignOthers DEF Idle, Live, Serves, envoy
  <2> QED
    BY <1>9, <2>1 DEF envoy, tasking
<1>10. CASE SendLocalResponse(s)
  BY <1>9, <1>10 DEF SendLocalResponse, unwrap
<1>11. CASE SetDownstreamWatermarkCallbacks(s) \/ ClearDownstreamWatermarkCallbacks(s)
  <2> \E r : handle' = [handle EXCEPT ![pointer[s]] = r]
    BY <1>11 DEF SetDownstreamWatermarkCallbacks, ClearDownstreamWatermarkCallbacks
  <2> QED
    BY <1>9, <1>11
    DEF SetDownstreamWatermarkCallbacks, ClearDownstreamWatermarkCallbacks, history
<1>12. CASE Watermark(s)
  BY <1>2, <1>12, SameHandles DEF Watermark, envoy, module, tasking
<1>13. ASSUME NEW op \in Ops, Start(s, op)
       PROVE  Others(s)
  BY <1>1, <1>13, SameHandles DEF Start, EnvoyType, module, tasking, history
<1>14. CASE StartReturn(s)
  <2>1. \E r : handle' = [handle EXCEPT ![pointer[s]] = r]
    BY <1>14 DEF StartReturn
  <2>2. \A t \in Streams \ {s} : Serves(t) => unwrap(t)' = unwrap(t)
    BY <1>14, <2>1, AssignOthers DEF StartReturn, Live, Serves
  <2> QED
    BY <1>1, <1>14, <2>2 DEF StartReturn, EnvoyType, tasking, history
<1>15. ASSUME NEW c \in Started, NEW open, StreamEvent(s, c, open)
       PROVE  Others(s)
  BY <1>2, <1>15, SameHandles DEF StreamEvent, envoy, module, tasking
<1>16. ASSUME NEW c \in Started, NEW open, Done(s, c, open)
       PROVE  Others(s)
  <2>1. \E r : handle' = [handle EXCEPT ![pointer[s]] = r]
    BY <1>16 DEF Done
  <2>2. \A t \in Streams \ {s} : Serves(t) => unwrap(t)' = unwrap(t)
    BY <1>16, <2>1, AssignOthers DEF Done, Deliverable, Serves
  <2>3. UNCHANGED replied /\ UNCHANGED <<host, calling, tasking>>
        /\ inflight' = [inflight EXCEPT ![s] = @ \ {c}]
    BY <1>2, <1>16, Zenon DEF Done
  <2> QED
    BY <1>1, <2>2, <2>3 DEF EnvoyType, tasking
<1>17. CASE SetData(s)
  <2> \E r : handle' = [handle EXCEPT ![pointer[s]] = r]
    BY <1>17 DEF SetData
  <2> QED
    BY <1>9, <1>17 DEF SetData, history
<1>18. CASE GetScheduler(s)
  <2> \E r : handle' = [handle EXCEPT ![pointer[s]] = r]
    BY <1>18 DEF GetScheduler
  <2> QED
    BY <1>9, <1>18 DEF GetScheduler, history
<1>19. ASSUME NEW f \in Tasks, Schedule(s, f)
       PROVE  Others(s)
  BY <1>1, <1>19, SameHandles DEF Schedule, TaskingType, envoy, module, history
<1>20. CASE Commit(s)
  BY <1>1, <1>20, SameHandles DEF Commit, TaskingType, envoy, module, history
<1>21. ASSUME NEW open, Scheduled(s, open)
       PROVE  Others(s)
  <2>1. unwrap(s).scheduler \in {s, NoStream}
    BY <1>21 DEF Scheduled, OwnInv, OwnHandles, Serves, IsOf
  <2>2. UNCHANGED <<replied, envoy, module, posting, submitted>>
        /\ commits' = [commits EXCEPT ![s] = Tail(@)]
    BY <1>2, <1>21, Zenon DEF Scheduled
  <2> DEFINE id == Head(commits[s])
             p == unwrap(s).scheduler
             found == p # NoStream /\ open /\ id \in DOMAIN scheduler[p].tasks
  <2>3. \/ /\ p # NoStream
           /\ runs' = [runs EXCEPT ![p][scheduler[p].tasks[id]] = @ + 1]
           /\ scheduler' = [scheduler EXCEPT ![p].tasks = [n \in DOMAIN @ \ {id} |-> @[n]]]
        \/ UNCHANGED <<runs, scheduler>>
    <3>1. CASE found
      BY <1>21, <3>1 DEF Scheduled
    <3>2. CASE ~found
      BY <1>21, <3>2, Zenon DEF Scheduled
    <3> QED
      BY <3>1, <3>2, Zenon
  <2> HIDE DEF id, p, found
  <2>4. p # NoStream => p = s
    BY <2>1 DEF p
  <2> QED
    BY <1>1, <2>2, <2>3, <2>4, SameHandles DEF TaskingType, envoy, module
<1> SharedStep(s)
  BY Shared
<1> QED
  BY <1>3, <1>4, <1>5, <1>7, <1>8, <1>10, <1>11, <1>12, <1>13, <1>14, <1>15, <1>16,
     <1>17, <1>18, <1>19, <1>20, <1>21, Zenon DEF SharedStep, Response

-----------------------------------------------------------------------------
(* What a handle must know about its stream                                *)

(* The callback of every callout Envoy has yet to complete is recorded, or *)
(* will be when the call that started it returns; a local response is      *)
(* remembered only if there was one.                                       *)
CalloutsRecorded(s) ==
    /\ Serves(s) =>
         /\ \A c \in inflight[s] : c \in calling[s] \/ unwrap(s).callbacks[c] = s
         /\ unwrap(s).localResponse => s \in replied
    /\ host[s] = "none" => inflight[s] = {}

(* An id that is or will be committed names a recorded task, once.         *)
IdsRecorded(s) ==
    LET ids == DOMAIN scheduler[s].tasks IN
    /\ \A n : <<s, n>> \in posting =>
         /\ n \in ids /\ host[s] # "none"
         /\ Serves(s) => unwrap(s).scheduler = s
         /\ \A i \in 1..Len(commits[s]) : commits[s][i] # n
    /\ \A i \in 1..Len(commits[s]) : commits[s][i] \in ids
    /\ \A i, j \in 1..Len(commits[s]) : commits[s][i] = commits[s][j] => i = j
    /\ commits[s] # << >> => Serves(s) /\ unwrap(s).scheduler = s

(* A recorded task was submitted, has not run, and is recorded once.       *)
RecordedOnce(s) ==
    LET tasks == scheduler[s].tasks IN
    /\ \A n \in DOMAIN tasks : tasks[n] \in submitted[s] /\ runs[s][tasks[n]] = 0
    /\ \A m, n \in DOMAIN tasks : tasks[m] = tasks[n] => m = n
    /\ \A t \in Tasks \ submitted[s] : runs[s][t] = 0

StreamInv(s) == CalloutsRecorded(s) /\ IdsRecorded(s) /\ RecordedOnce(s)

StreamsInv == \A s \in Streams : StreamInv(s)

LEMMA StreamsInit == Init => StreamsInv
<1> SUFFICES ASSUME Init, NEW s \in Streams PROVE StreamInv(s)
  BY DEF StreamsInv
<1>1. DOMAIN scheduler[s].tasks = {} /\ commits[s] = << >> /\ posting = {}
  BY DEF Init, NoTasks
<1>2. Len(commits[s]) = 0
  BY <1>1, EmptySeq
<1> QED
  BY <1>1, <1>2 DEF Init, StreamInv, CalloutsRecorded, IdsRecorded, RecordedOnce, Serves

LEMMA FrameStream ==
    ASSUME NEW s \in Streams, StreamInv(s), Untouched(s)
    PROVE  StreamInv(s)'
<1>1. CalloutsRecorded(s)'
  BY DEF StreamInv, CalloutsRecorded, Untouched, Serves
<1>2. IdsRecorded(s)'
  BY DEF StreamInv, IdsRecorded, Untouched, Serves
<1>3. RecordedOnce(s)'
  BY DEF StreamInv, RecordedOnce, Untouched
<1> QED
  BY <1>1, <1>2, <1>3 DEF StreamInv

(* Only the callouts of s or its handle's other fields change.             *)
LEMMA FrameTasks ==
    ASSUME NEW s \in Streams, StreamInv(s), UNCHANGED tasking,
           host[s] # "none", host'[s] # "none", Serves(s) <=> Serves(s)',
           Serves(s) => unwrap(s)'.scheduler = unwrap(s).scheduler
    PROVE  IdsRecorded(s)' /\ RecordedOnce(s)'
  BY DEF StreamInv, IdsRecorded, RecordedOnce, tasking

LEMMA AssignedHandle ==
    ASSUME OwnInv, NEW s \in Streams, host[s] # "none", NEW r,
           handle' = [handle EXCEPT ![pointer[s]] = r], UNCHANGED pointer
    PROVE  unwrap(s)' = r
<1>1. pointer[s] \in Handles /\ handle \in [Handles -> Handle]
  BY UnwrapType DEF OwnInv, TypeOK, ModuleType
<1> QED
  BY <1>1 DEF unwrap

(* A step of s that assigns one field of its handle                        *)
LEMMA StreamAssign ==
    ASSUME OwnInv, NEW s \in Streams, StreamInv(s), Serves(s), NEW r,
           handle' = [handle EXCEPT ![pointer[s]] = r],
           r.callbacks = unwrap(s).callbacks, r.scheduler = unwrap(s).scheduler,
           r.localResponse => unwrap(s).localResponse \/ s \in replied',
           replied \subseteq replied',
           Serves(s)', UNCHANGED <<pointer, inflight, calling, tasking>>
    PROVE  StreamInv(s)'
<1>1. host[s] # "none" /\ host'[s] # "none"
  BY DEF Serves
<1>2. unwrap(s)' = r
  BY <1>1, AssignedHandle
<1>3. CalloutsRecorded(s)'
  BY <1>1, <1>2 DEF StreamInv, CalloutsRecorded
<1>4. IdsRecorded(s)' /\ RecordedOnce(s)'
  BY <1>1, <1>2, FrameTasks
<1> QED
  BY <1>3, <1>4 DEF StreamInv

LEMMA StreamNew ==
    ASSUME OwnInv, NEW s \in Streams, StreamInv(s), NEW h \in Handles, Arrives(s),
           New(s, h, Blank)
    PROVE  StreamInv(s)'
<1>1. host[s] = "none" /\ inflight[s] = {}
  BY DEF Arrives, StreamInv, CalloutsRecorded
<1>2. commits[s] = << >> /\ \A n : <<s, n>> \notin posting
  BY <1>1 DEF StreamInv, IdsRecorded, Serves
<1>3. host'[s] # "none" /\ UNCHANGED <<tasking, inflight>>
  BY DEF Arrives, New, OwnInv, TypeOK, EnvoyType
<1>4. unwrap(s)'.localResponse = FALSE
  BY DEF New, Blank, unwrap, OwnInv, TypeOK, EnvoyType, ModuleType
<1>5. CalloutsRecorded(s)'
  BY <1>1, <1>3, <1>4 DEF CalloutsRecorded
<1>6. IdsRecorded(s)'
  <2>1. commits'[s] = << >> /\ Len(commits'[s]) = 0 /\ \A n : <<s, n>> \notin posting'
    BY <1>2, <1>3, EmptySeq DEF tasking
  <2> QED
    BY <2>1 DEF IdsRecorded
<1>7. RecordedOnce(s)'
  BY <1>3 DEF StreamInv, RecordedOnce, tasking
<1> QED
  BY <1>5, <1>6, <1>7 DEF StreamInv

(* A destroyed stream has nothing in flight and nothing to be delivered.   *)
LEMMA StreamDestroy ==
    ASSUME OwnInv, NEW s \in Streams, StreamInv(s), Serves(s), NEW left, Destroy(s, left)
    PROVE  StreamInv(s)'
<1>1. host'[s] = "destroyed" /\ commits'[s] = << >> /\ Len(commits'[s]) = 0
  BY EmptySeq DEF Destroy, OwnInv, TypeOK, EnvoyType, TaskingType
<1>2. UNCHANGED <<scheduler, posting, submitted, runs>>
  BY DEF Destroy
<1>3. ~Serves(s)'
  BY <1>1 DEF Serves
<1>4. CalloutsRecorded(s)'
  BY <1>1, <1>3 DEF CalloutsRecorded
<1>5. IdsRecorded(s)'
  BY <1>1, <1>2, <1>3 DEF StreamInv, IdsRecorded
<1>6. RecordedOnce(s)'
  BY <1>2 DEF StreamInv, RecordedOnce
<1> QED
  BY <1>4, <1>5, <1>6 DEF StreamInv

LEMMA StreamCallouts ==
    ASSUME OwnInv, NEW s \in Streams, StreamInv(s),
           \/ \E op \in Ops : Start(s, op)
           \/ StartReturn(s)
           \/ \E c \in Started : Done(s, c, OpenIn(s))
    PROVE  StreamInv(s)'
<1> EnvoyType
  BY DEF OwnInv, TypeOK
<1>1. ASSUME NEW op \in Ops, Start(s, op)
      PROVE  StreamInv(s)'
  <2>1. /\ UNCHANGED <<host, tasking, replied>> /\ unwrap(s)' = unwrap(s)
        /\ host[s] = "live" /\ calling[s] = {}
    BY <1>1 DEF Start, Idle, Live, unwrap, module, history
  <2>2. inflight'[s] = inflight[s] \union calling'[s]
    BY <1>1 DEF Start, EnvoyType
  <2>3. CalloutsRecorded(s)'
    BY <2>1, <2>2 DEF StreamInv, CalloutsRecorded, Serves
  <2>4. IdsRecorded(s)' /\ RecordedOnce(s)'
    BY <2>1, FrameTasks DEF Serves
  <2> QED
    BY <2>3, <2>4 DEF StreamInv
<1>2. CASE StartReturn(s)
  <2> DEFINE r == [unwrap(s) EXCEPT !.callbacks =
                     [c \in Started |-> IF c \in calling[s] THEN s ELSE @[c]]]
  <2>1. UNCHANGED <<host, pointer, inflight, tasking, replied>> /\ host[s] = "live"
    BY <1>2 DEF StartReturn, Live, history
  <2>2. unwrap(s) \in Handle
    BY <2>1, UnwrapType DEF OwnInv
  <2>3. handle' = [handle EXCEPT ![pointer[s]] = r]
    BY <1>2 DEF StartReturn, unwrap
  <2>4. unwrap(s)' = r
    BY <2>1, <2>3, AssignedHandle
  <2>5. /\ \A c \in Started : r.callbacks[c] = IF c \in calling[s] THEN s ELSE unwrap(s).callbacks[c]
        /\ r.scheduler = unwrap(s).scheduler /\ r.localResponse = unwrap(s).localResponse
    BY <2>2 DEF Handle
  <2> HIDE DEF r
  <2>6. inflight[s] \subseteq Started
    BY DEF EnvoyType
  <2>7. CalloutsRecorded(s)'
    BY <2>1, <2>4, <2>5, <2>6 DEF StreamInv, CalloutsRecorded, Serves
  <2>8. IdsRecorded(s)' /\ RecordedOnce(s)'
    BY <2>1, <2>4, <2>5, FrameTasks DEF Serves
  <2> QED
    BY <2>7, <2>8 DEF StreamInv
<1>3. ASSUME NEW c \in Started, NEW open, Done(s, c, open)
      PROVE  StreamInv(s)'
  <2> DEFINE r == [unwrap(s) EXCEPT !.callbacks[c] = IF open THEN NoStream ELSE @]
  <2>1. UNCHANGED <<host, pointer, calling, tasking, replied>> /\ Serves(s)
    BY <1>3, Zenon DEF Done, Deliverable, Serves, Dispatch
  <2>2. unwrap(s) \in Handle /\ host[s] # "none"
    BY <2>1, UnwrapType DEF OwnInv, Serves
  <2>3. handle' = [handle EXCEPT ![pointer[s]] = r]
    BY <1>3 DEF Done, unwrap
  <2>4. unwrap(s)' = r
    BY <2>1, <2>2, <2>3, AssignedHandle
  <2>5. /\ \A d \in Started \ {c} : r.callbacks[d] = unwrap(s).callbacks[d]
        /\ r.scheduler = unwrap(s).scheduler /\ r.localResponse = unwrap(s).localResponse
    BY <2>2 DEF Handle
  <2> HIDE DEF r
  <2>6. inflight'[s] = inflight[s] \ {c} /\ inflight[s] \subseteq Started
    BY <1>3 DEF Done, EnvoyType
  <2>7. CalloutsRecorded(s)'
    BY <2>1, <2>2, <2>4, <2>5, <2>6 DEF StreamInv, CalloutsRecorded, Serves
  <2>8. IdsRecorded(s)' /\ RecordedOnce(s)'
    BY <2>1, <2>2, <2>4, <2>5, FrameTasks DEF Serves
  <2> QED
    BY <2>7, <2>8 DEF StreamInv
<1> QED
  BY <1>1, <1>2, <1>3

(* The first request for a scheduler comes before any task.                *)
LEMMA StreamGetScheduler ==
    ASSUME OwnInv, NEW s \in Streams, StreamInv(s), GetScheduler(s)
    PROVE  StreamInv(s)'
<1> DEFINE r == [unwrap(s) EXCEPT !.scheduler = s]
<1>1. /\ UNCHANGED <<host, pointer, inflight, calling, replied>>
      /\ UNCHANGED tasking /\ host[s] = "live" /\ unwrap(s).scheduler = NoStream
  BY DEF GetScheduler, Idle, Live, envoy, history
<1>2. unwrap(s) \in Handle
  BY <1>1, UnwrapType DEF OwnInv
<1>3. handle' = [handle EXCEPT ![pointer[s]] = r]
  BY DEF GetScheduler, unwrap
<1>4. unwrap(s)' = r
  BY <1>1, <1>3, AssignedHandle
<1>5. r.callbacks = unwrap(s).callbacks /\ r.localResponse = unwrap(s).localResponse
  BY <1>2 DEF Handle
<1> HIDE DEF r
<1>6. CalloutsRecorded(s)'
  BY <1>1, <1>4, <1>5 DEF StreamInv, CalloutsRecorded, Serves
<1>7. commits[s] = << >> /\ \A n : <<s, n>> \notin posting
  BY <1>1, ValuesAssumption DEF StreamInv, IdsRecorded, Serves
<1>8. commits'[s] = << >> /\ Len(commits'[s]) = 0 /\ \A n : <<s, n>> \notin posting'
  BY <1>1, <1>7, EmptySeq DEF tasking
<1>9. IdsRecorded(s)'
  BY <1>8 DEF IdsRecorded
<1>10. RecordedOnce(s)'
  BY <1>1 DEF StreamInv, RecordedOnce, tasking
<1> QED
  BY <1>6, <1>9, <1>10 DEF StreamInv

(* Schedule records the task under an id never used before.                *)
LEMMA StreamSchedule ==
    ASSUME OwnInv, NEW s \in Streams, StreamInv(s), NEW t \in Tasks, Schedule(s, t)
    PROVE  StreamInv(s)'
<1> DEFINE id == scheduler[s].next
           ids == DOMAIN scheduler[s].tasks
<1>1. TaskingType
  BY DEF OwnInv, TypeOK
<1>2. id \in Nat /\ id \notin ids
  BY <1>1 DEF TaskingType
<1>3. /\ DOMAIN scheduler'[s].tasks = ids \union {id}
      /\ scheduler'[s].tasks[id] = t
      /\ \A n \in ids : scheduler'[s].tasks[n] = scheduler[s].tasks[n]
  BY <1>1, <1>2 DEF Schedule, TaskingType
<1>4. /\ posting' = posting \union {<<s, id>>} /\ t \notin submitted[s]
      /\ submitted'[s] = submitted[s] \union {t}
      /\ UNCHANGED <<host, inflight, calling, replied, commits, runs>>
      /\ unwrap(s)' = unwrap(s)
  BY <1>1 DEF Schedule, TaskingType, envoy, module, history, unwrap
<1>5. host[s] # "none" /\ (Serves(s) => unwrap(s).scheduler = s)
  BY DEF Schedule, Held, Serves
<1> HIDE DEF id, ids
<1>6. CalloutsRecorded(s)'
  BY <1>4 DEF StreamInv, CalloutsRecorded, Serves
<1>7. \A n : <<s, n>> \in posting' <=> n = id \/ <<s, n>> \in posting
  BY <1>4
<1>8. IdsRecorded(s)'
  <2>1. ids = DOMAIN scheduler[s].tasks
    BY DEF ids
  <2>2. \A i \in 1..Len(commits[s]) : commits[s][i] \in ids /\ commits[s][i] # id
    BY <1>2, <2>1 DEF StreamInv, IdsRecorded
  <2>3. \A n : <<s, n>> \in posting' =>
          /\ n \in ids \union {id} /\ host[s] # "none"
          /\ Serves(s) => unwrap(s).scheduler = s
          /\ \A i \in 1..Len(commits[s]) : commits[s][i] # n
    BY <1>5, <1>7, <2>1, <2>2 DEF StreamInv, IdsRecorded
  <2> QED
    BY <1>3, <1>4, <2>2, <2>3 DEF StreamInv, IdsRecorded, Serves
<1>9. RecordedOnce(s)'
  <2>1. \A n \in ids : scheduler[s].tasks[n] \in submitted[s]
                        /\ runs[s][scheduler[s].tasks[n]] = 0
    BY DEF StreamInv, RecordedOnce, ids
  <2>2. \A m, n \in ids : scheduler[s].tasks[m] = scheduler[s].tasks[n] => m = n
    BY DEF StreamInv, RecordedOnce, ids
  <2>3. \A u \in Tasks \ submitted[s] : runs[s][u] = 0
    BY DEF StreamInv, RecordedOnce
  <2> QED
    BY <1>2, <1>3, <1>4, <2>1, <2>2, <2>3 DEF RecordedOnce
<1> QED
  BY <1>6, <1>8, <1>9 DEF StreamInv

LEMMA StreamCommit ==
    ASSUME OwnInv, NEW s \in Streams, StreamInv(s), Commit(s)
    PROVE  StreamInv(s)'
<1>1. TaskingType /\ EnvoyType
  BY DEF OwnInv, TypeOK
<1>2. PICK n \in Nat :
        /\ <<s, n>> \in posting /\ posting' = posting \ {<<s, n>>}
        /\ commits' = IF host[s] = "destroyed" THEN commits
                      ELSE [commits EXCEPT ![s] = Append(@, n)]
  <2>1. PICK p \in posting :
          /\ p[1] = s /\ posting' = posting \ {p}
          /\ commits' = IF host[s] = "destroyed" THEN commits
                        ELSE [commits EXCEPT ![s] = Append(@, p[2])]
    BY DEF Commit
  <2>2. p[2] \in Nat /\ p = <<s, p[2]>>
    BY <1>1, <2>1 DEF TaskingType
  <2> QED
    BY <2>1, <2>2
<1>3. /\ UNCHANGED <<host, inflight, calling, replied, scheduler, submitted, runs>>
      /\ unwrap(s)' = unwrap(s)
  BY DEF Commit, envoy, module, history, unwrap
<1>4. CalloutsRecorded(s)' /\ RecordedOnce(s)'
  BY <1>3 DEF StreamInv, CalloutsRecorded, RecordedOnce, Serves
<1>5. commits[s] \in Seq(Nat) /\ Len(commits[s]) \in Nat
  BY <1>1, LenProperties DEF TaskingType
<1>6. CASE host[s] = "destroyed"
  <2>1. commits[s] = << >> /\ Len(commits[s]) = 0
    BY <1>6, EmptySeq DEF StreamInv, IdsRecorded, Serves
  <2>2. IdsRecorded(s)'
    BY <1>2, <1>3, <1>6, <2>1 DEF StreamInv, IdsRecorded, Serves
  <2> QED
    BY <1>4, <2>2 DEF StreamInv
<1>7. CASE host[s] # "destroyed"
  <2>1. Serves(s) /\ unwrap(s).scheduler = s /\ n \in DOMAIN scheduler[s].tasks
        /\ \A i \in 1..Len(commits[s]) : commits[s][i] # n
    BY <1>1, <1>2, <1>7 DEF StreamInv, IdsRecorded, Serves, EnvoyType
  <2>2. commits'[s] = Append(commits[s], n)
    BY <1>1, <1>2, <1>7 DEF TaskingType
  <2>3. /\ Len(commits'[s]) = Len(commits[s]) + 1
        /\ \A i \in 1..Len(commits[s]) : commits'[s][i] = commits[s][i]
        /\ commits'[s][Len(commits[s]) + 1] = n
    BY <1>5, <2>2
  <2>4. \A i \in 1..Len(commits'[s]) : i \in 1..Len(commits[s]) \/ i = Len(commits[s]) + 1
    BY <1>5, <2>3
  <2>5. \A i \in 1..Len(commits'[s]) : commits'[s][i] \in DOMAIN scheduler[s].tasks
    BY <2>1, <2>3, <2>4 DEF StreamInv, IdsRecorded
  <2>6. \A i, j \in 1..Len(commits'[s]) : commits'[s][i] = commits'[s][j] => i = j
    BY <2>1, <2>3, <2>4 DEF StreamInv, IdsRecorded
  <2>7. \A m : <<s, m>> \in posting' =>
          /\ <<s, m>> \in posting
          /\ \A i \in 1..Len(commits'[s]) : commits'[s][i] # m
    BY <1>2, <2>3, <2>4 DEF StreamInv, IdsRecorded
  <2>8. IdsRecorded(s)'
    BY <1>3, <2>1, <2>5, <2>6, <2>7 DEF StreamInv, IdsRecorded, Serves
  <2> QED
    BY <1>4, <2>8 DEF StreamInv
<1> QED
  BY <1>6, <1>7

(* Delivery finds the task of the id in front, unless it comes too late.   *)
LEMMA Delivered ==
    ASSUME OwnInv, NEW s \in Streams, StreamInv(s), Scheduled(s, OpenIn(s))
    PROVE  LET id == Head(commits[s])
               tasks == scheduler[s].tasks IN
           /\ id \in DOMAIN tasks /\ unwrap(s).scheduler = s /\ s # NoStream /\ Serves(s)
           /\ commits' = [commits EXCEPT ![s] = Tail(@)] /\ id = commits[s][1]
           /\ \/ /\ OpenIn(s)
                 /\ runs' = [runs EXCEPT ![s][tasks[id]] = @ + 1]
                 /\ scheduler' = [scheduler EXCEPT ![s].tasks =
                                    [n \in DOMAIN @ \ {id} |-> @[n]]]
              \/ UNCHANGED <<runs, scheduler>>
<1> DEFINE id == Head(commits[s])
           found == s # NoStream /\ OpenIn(s) /\ id \in DOMAIN scheduler[s].tasks
<1>1. commits[s] \in Seq(Nat) /\ commits[s] # << >>
  BY DEF Scheduled, OwnInv, TypeOK, TaskingType
<1>2. id = commits[s][1] /\ 1 \in 1..Len(commits[s])
  BY <1>1, LenProperties, EmptySeq
<1>3. id \in DOMAIN scheduler[s].tasks /\ Serves(s) /\ unwrap(s).scheduler = s
  BY <1>1, <1>2 DEF StreamInv, IdsRecorded
<1>4. s # NoStream /\ commits' = [commits EXCEPT ![s] = Tail(@)]
  BY ValuesAssumption DEF Scheduled
<1>5. \/ /\ found
         /\ runs' = [runs EXCEPT ![s][scheduler[s].tasks[id]] = @ + 1]
         /\ scheduler' = [scheduler EXCEPT ![s].tasks = [n \in DOMAIN @ \ {id} |-> @[n]]]
      \/ ~found /\ UNCHANGED <<runs, scheduler>>
  <2>1. CASE found
    BY <1>3, <2>1 DEF Scheduled
  <2>2. CASE ~found
    BY <1>3, <2>2 DEF Scheduled
  <2> QED
    BY <2>1, <2>2, Zenon
<1> QED
  BY <1>2, <1>3, <1>4, <1>5, Zenon

LEMMA StreamScheduled ==
    ASSUME OwnInv, NEW s \in Streams, StreamInv(s), Scheduled(s, OpenIn(s))
    PROVE  StreamInv(s)'
<1> DEFINE id == Head(commits[s])
           ids == DOMAIN scheduler[s].tasks
           left == DOMAIN scheduler'[s].tasks
<1>1. TaskingType
  BY DEF OwnInv, TypeOK
<1>2. /\ id \in ids /\ unwrap(s).scheduler = s /\ Serves(s) /\ id = commits[s][1]
      /\ commits' = [commits EXCEPT ![s] = Tail(@)]
      /\ \/ /\ runs' = [runs EXCEPT ![s][scheduler[s].tasks[id]] = @ + 1]
            /\ scheduler' = [scheduler EXCEPT ![s].tasks = [n \in DOMAIN @ \ {id} |-> @[n]]]
         \/ UNCHANGED <<runs, scheduler>>
  BY Delivered, Zenon
<1>3. /\ UNCHANGED <<host, inflight, calling, posting, submitted>> /\ replied' = replied
      /\ unwrap(s)' = unwrap(s)
  BY Zenon DEF Scheduled, envoy, module, unwrap, Dispatch
<1>4. CalloutsRecorded(s)'
  BY <1>3 DEF StreamInv, CalloutsRecorded, Serves
<1>5. /\ left \subseteq ids /\ \A n \in ids : n # id => n \in left
      /\ \A n \in left : scheduler'[s].tasks[n] = scheduler[s].tasks[n]
  BY <1>1, <1>2 DEF TaskingType
<1>6. /\ commits[s] \in Seq(Nat) /\ commits[s] # << >> /\ commits'[s] = Tail(commits[s])
  BY <1>1, <1>2 DEF TaskingType, Scheduled
<1>7. /\ Len(commits'[s]) = Len(commits[s]) - 1 /\ Len(commits[s]) \in Nat
      /\ \A i \in 1..Len(commits'[s]) : commits'[s][i] = commits[s][i + 1]
  BY <1>6, HeadTailProperties, LenProperties
<1>8. \A i \in 1..Len(commits'[s]) :
        /\ i + 1 \in 1..Len(commits[s]) /\ 1 \in 1..Len(commits[s]) /\ i + 1 # 1
        /\ commits'[s][i] = commits[s][i + 1]
  BY <1>7
<1>9. IdsRecorded(s)'
  <2>1. \A i \in 1..Len(commits[s]) : commits[s][i] \in ids
    BY DEF StreamInv, IdsRecorded
  <2>2. \A i, j \in 1..Len(commits[s]) : commits[s][i] = commits[s][j] => i = j
    BY DEF StreamInv, IdsRecorded
  <2>3. ASSUME NEW i \in 1..Len(commits'[s])
        PROVE  commits'[s][i] \in left
    <3> HIDE DEF id, ids, left
    <3>1. commits[s][i + 1] \in ids /\ commits[s][i + 1] # commits[s][1]
      BY <1>8, <2>1, <2>2
    <3>2. commits'[s][i] \in ids /\ commits'[s][i] # id
      BY <1>2, <1>8, <3>1
    <3> QED
      BY <1>5, <3>2
  <2>4. \A i, j \in 1..Len(commits'[s]) : commits'[s][i] = commits'[s][j] => i = j
    <3> SUFFICES ASSUME NEW i \in 1..Len(commits'[s]), NEW j \in 1..Len(commits'[s]),
                        commits'[s][i] = commits'[s][j]
                 PROVE  i = j
      OBVIOUS
    <3>1. i + 1 = j + 1
      BY <1>8, <2>2
    <3> QED
      BY <3>1
  <2>5. \A n : <<s, n>> \in posting =>
          /\ n \in ids /\ \A i \in 1..Len(commits[s]) : commits[s][i] # n
    BY DEF StreamInv, IdsRecorded
  <2>6. 1 \in 1..Len(commits[s])
    BY <1>6, <1>7, EmptySeq
  <2>7. ASSUME NEW n, <<s, n>> \in posting'
        PROVE  n \in left /\ \A i \in 1..Len(commits'[s]) : commits'[s][i] # n
    <3> HIDE DEF id, ids, left
    <3>1. n \in ids /\ \A i \in 1..Len(commits[s]) : commits[s][i] # n
      BY <1>3, <2>5, <2>7
    <3>2. n # id
      BY <1>2, <2>6, <3>1
    <3> QED
      BY <1>5, <1>8, <3>1, <3>2
  <2>8. Serves(s)' /\ unwrap(s)'.scheduler = s /\ host'[s] # "none"
    BY <1>2, <1>3 DEF Serves
  <2> QED
    BY <2>3, <2>4, <2>7, <2>8 DEF IdsRecorded
<1>10. RecordedOnce(s)'
  <2>1. \A m, n \in left : scheduler'[s].tasks[m] = scheduler'[s].tasks[n] => m = n
    BY <1>5 DEF StreamInv, RecordedOnce
  <2>2. CASE UNCHANGED <<runs, scheduler>>
    BY <1>3, <2>2 DEF StreamInv, RecordedOnce
  <2>3. CASE /\ runs' = [runs EXCEPT ![s][scheduler[s].tasks[id]] = @ + 1]
             /\ scheduler' = [scheduler EXCEPT ![s].tasks = [n \in DOMAIN @ \ {id} |-> @[n]]]
    <3>1. \A t \in Tasks : t # scheduler[s].tasks[id] => runs'[s][t] = runs[s][t]
      BY <1>1, <2>3 DEF TaskingType
    <3>2. \A n \in left : n \in ids /\ n # id /\ scheduler[s].tasks[n] \in Tasks
      BY <1>1, <2>3 DEF TaskingType
    <3>3. \A n \in left : scheduler[s].tasks[n] # scheduler[s].tasks[id]
      BY <1>2, <3>2 DEF StreamInv, RecordedOnce
    <3>4. scheduler[s].tasks[id] \in submitted[s]
      BY <1>2 DEF StreamInv, RecordedOnce
    <3> QED
      BY <1>3, <1>5, <2>1, <3>1, <3>2, <3>3, <3>4 DEF StreamInv, RecordedOnce
  <2> QED
    BY <1>2, <2>2, <2>3
<1> QED
  BY <1>4, <1>9, <1>10 DEF StreamInv

LEMMA StreamStepInv ==
    ASSUME OwnInv, NEW s \in Streams, StreamInv(s), StreamStep(s)
    PROVE  StreamInv(s)'
<1> EnvoyType
  BY DEF OwnInv, TypeOK
<1>1. CASE HttpNew(s)
  <2>1. PICK h \in Handles :
          (h \in pool \/ Fresh(h)) /\ (Corrupt(h) \/ New(s, h, Blank))
    BY <1>1, Zenon DEF HttpNew, reset
  <2>2. New(s, h, Blank)
    BY <2>1 DEF OwnInv, OwnHandles
  <2> QED
    BY <1>1, <2>2, StreamNew DEF HttpNew
<1>2. CASE OtherNew(s)
  BY <1>2, StreamNew DEF OtherNew
<1>3. CASE StreamComplete(s)
  <2> DEFINE r == [unwrap(s) EXCEPT !.completed = TRUE]
  <2>1. host[s] # "none" /\ Serves(s) /\ Serves(s)'
    BY <1>3 DEF StreamComplete, Idle, Live, Serves
  <2>2. unwrap(s) \in Handle
    BY <2>1, UnwrapType DEF OwnInv
  <2>3. handle' = [handle EXCEPT ![pointer[s]] = r]
    BY <1>3 DEF StreamComplete, unwrap
  <2>4. /\ r.callbacks = unwrap(s).callbacks /\ r.scheduler = unwrap(s).scheduler
        /\ r.localResponse = unwrap(s).localResponse
    BY <2>2 DEF Handle
  <2>5. replied' = replied /\ UNCHANGED <<pointer, inflight, calling, tasking>>
    BY <1>3 DEF StreamComplete, Dispatch
  <2>6. (r.localResponse => unwrap(s).localResponse \/ s \in replied')
        /\ replied \subseteq replied'
    BY <2>4, <2>5
  <2> HIDE DEF r
  <2> QED
    BY <2>1, <2>3, <2>4, <2>5, <2>6, StreamAssign
<1>4. CASE HttpDestroy(s) \/ OtherDestroy(s)
  BY <1>4, StreamDestroy, Zenon DEF HttpDestroy, OtherDestroy, Serves
<1>5. ASSUME UNCHANGED <<envoy, handle, tasking, replied>>
      PROVE  StreamInv(s)'
  BY <1>5, FrameStream DEF Untouched, envoy, tasking, unwrap
<1>6. ASSUME NEW allowed, Callback(s, allowed)
      PROVE  StreamInv(s)'
  BY <1>5, <1>6 DEF Callback, module, Dispatch
<1>7. CASE Watermark(s)
  BY <1>5, <1>7 DEF Watermark, module, Dispatch
<1>8. ASSUME NEW c \in Started, NEW open, StreamEvent(s, c, open)
      PROVE  StreamInv(s)'
  BY <1>5, <1>8 DEF StreamEvent, module, Dispatch
<1>9. ASSUME Idle(s), NEW r, handle' = [handle EXCEPT ![pointer[s]] = r],
             r.callbacks = unwrap(s).callbacks, r.scheduler = unwrap(s).scheduler,
             r.localResponse => unwrap(s).localResponse \/ s \in replied',
             replied \subseteq replied', UNCHANGED <<envoy, tasking>>
      PROVE  StreamInv(s)'
  BY <1>9, StreamAssign DEF Idle, Live, Serves, envoy
<1>10. ASSUME Idle(s)
       PROVE  unwrap(s) \in Handle
  BY <1>10, UnwrapType DEF OwnInv, Idle, Live
<1>11. CASE SendLocalResponse(s)
  <2> DEFINE r == [unwrap(s) EXCEPT !.localResponse = TRUE]
  <2>1. r.callbacks = unwrap(s).callbacks /\ r.scheduler = unwrap(s).scheduler
    BY <1>10, <1>11 DEF SendLocalResponse, Handle
  <2>2. handle' = [handle EXCEPT ![pointer[s]] = r]
    BY <1>11 DEF SendLocalResponse, unwrap
  <2> HIDE DEF r
  <2>3. Idle(s) /\ replied' = replied \union {s} /\ UNCHANGED <<envoy, tasking>>
    BY <1>11 DEF SendLocalResponse
  <2> QED
    BY <1>9, <2>1, <2>2, <2>3
<1>12. CASE SetDownstreamWatermarkCallbacks(s) \/ ClearDownstreamWatermarkCallbacks(s)
  <2> USE DEF SetDownstreamWatermarkCallbacks, ClearDownstreamWatermarkCallbacks
  <2>1. PICK w : handle' = [handle EXCEPT ![pointer[s]].watermark = w]
    BY <1>12
  <2> DEFINE r == [unwrap(s) EXCEPT !.watermark = w]
  <2>2. /\ r.callbacks = unwrap(s).callbacks /\ r.scheduler = unwrap(s).scheduler
        /\ r.localResponse = unwrap(s).localResponse
    BY <1>10, <1>12 DEF Handle
  <2>3. handle' = [handle EXCEPT ![pointer[s]] = r]
    BY <2>1 DEF unwrap
  <2> HIDE DEF r
  <2>4. Idle(s) /\ replied' = replied /\ UNCHANGED <<envoy, tasking>>
    BY <1>12 DEF history
  <2> QED
    BY <1>9, <2>2, <2>3, <2>4
<1>13. CASE SetData(s)
  <2>1. PICK a : handle' = [handle EXCEPT ![pointer[s]].recorded = @ \union {a}]
    BY <1>13 DEF SetData
  <2> DEFINE r == [unwrap(s) EXCEPT !.recorded = @ \union {a}]
  <2>2. /\ r.callbacks = unwrap(s).callbacks /\ r.scheduler = unwrap(s).scheduler
        /\ r.localResponse = unwrap(s).localResponse
    BY <1>10, <1>13 DEF SetData, Handle
  <2>3. handle' = [handle EXCEPT ![pointer[s]] = r]
    BY <2>1 DEF unwrap
  <2> HIDE DEF r
  <2>4. Idle(s) /\ replied' = replied /\ UNCHANGED <<envoy, tasking>>
    BY <1>13 DEF SetData, history
  <2> QED
    BY <1>9, <2>2, <2>3, <2>4
<1>14. CASE \/ \E op \in Ops : Start(s, op)
            \/ StartReturn(s)
            \/ \E c \in Started : Done(s, c, OpenIn(s))
  BY <1>14, StreamCallouts
<1>15. CASE GetScheduler(s)
  BY <1>15, StreamGetScheduler
<1>16. ASSUME NEW t \in Tasks, Schedule(s, t)
       PROVE  StreamInv(s)'
  BY <1>16, StreamSchedule
<1>17. CASE Commit(s)
  BY <1>17, StreamCommit
<1>18. CASE Scheduled(s, OpenIn(s))
  BY <1>18, StreamScheduled
<1> SharedStep(s)
  BY Shared
<1> QED
  BY <1>1, <1>2, <1>3, <1>4, <1>6, <1>7, <1>8, <1>11, <1>12, <1>13, <1>14, <1>15,
     <1>16, <1>17, <1>18, Zenon DEF SharedStep, Response

LEMMA StreamsStep == OwnInv /\ StreamsInv /\ [Next]_vars => StreamsInv'
<1> SUFFICES ASSUME OwnInv, StreamsInv, [Next]_vars, NEW t \in Streams
             PROVE  StreamInv(t)'
  BY DEF StreamsInv
<1>1. CASE UNCHANGED vars
  <2>1. Untouched(t)
    BY <1>1 DEF vars, envoy, module, tasking, history, Untouched, unwrap
  <2> QED
    BY <2>1, FrameStream DEF StreamsInv
<1>2. ASSUME NEW s \in Streams, StreamStep(s)
      PROVE  StreamInv(t)'
  <2>1. CASE t = s
    BY <1>2, <2>1, StreamStepInv DEF StreamsInv
  <2>2. CASE t # s
    BY <1>2, <2>2, Locality, FrameStream DEF StreamsInv, Others
  <2> QED
    BY <2>1, <2>2
<1> QED
  BY <1>1, <1>2 DEF Next

LEMMA StreamsInvariant == Spec => []StreamsInv
  BY OwnInvariant, StreamsInit, StreamsStep, PTL DEF Spec

-----------------------------------------------------------------------------
(* Nothing is lost but what comes inside a starting call                   *)

LEMMA DispatchLost ==
    ASSUME LostOnlyInline, NEW s, NEW allowed, NEW p, Dispatch(s, allowed, p),
           host[s] = "live" /\ calling[s] = {} => allowed /\ p # NoStream
    PROVE  LostOnlyInline'
  BY DEF LostOnlyInline, Dispatch

(* The guards are open while a stream is live.                             *)
LEMMA OpenWhileLive ==
    ASSUME OwnInv, NEW s \in Streams, Serves(s)
    PROVE  /\ unwrap(s).plugin # NoStream /\ ~unwrap(s).destroyed
           /\ OpenIn(s) <=> host[s] = "live"
           /\ Open(s) <=> host[s] = "live"
<1>1. /\ unwrap(s).plugin = s /\ ~unwrap(s).destroyed
      /\ unwrap(s).completed <=> host[s] = "complete"
      /\ host[s] = "complete" => use.kind = "http"
  BY DEF OwnInv, OwnHandles, IsOf
<1>2. host[s] \in {"live", "complete"}
  BY DEF Serves
<1> QED
  BY <1>1, <1>2, ValuesAssumption DEF OpenIn, Open, NetworkOpen

LEMMA LostStep ==
    OwnInv /\ StreamsInv /\ LostOnlyInline /\ [Next]_vars => LostOnlyInline'
<1> SUFFICES ASSUME OwnInv, StreamsInv, LostOnlyInline, [Next]_vars
             PROVE  LostOnlyInline'
  OBVIOUS
<1>1. CASE UNCHANGED lost
  BY <1>1 DEF LostOnlyInline
<1>2. ASSUME NEW s \in Streams, StreamStep(s)
      PROVE  LostOnlyInline'
  <2>1. Live(s) => Serves(s)
    BY DEF Live, Serves
  <2>2. CASE StreamComplete(s) \/ HttpDestroy(s) \/ OtherDestroy(s)
    <3>1. Serves(s)
      BY <2>1, <2>2 DEF StreamComplete, Idle, HttpDestroy, OtherDestroy, Serves
    <3>2. Dispatch(s, TRUE, unwrap(s).plugin)
      BY <2>2 DEF StreamComplete, HttpDestroy, OtherDestroy, Destroy
    <3> QED
      BY <3>1, <3>2, OpenWhileLive, DispatchLost
  <2>3. ASSUME NEW allowed, Callback(s, allowed), Serves(s) => allowed
        PROVE  LostOnlyInline'
    <3>1. Serves(s) /\ Dispatch(s, allowed, unwrap(s).plugin)
      BY <2>1, <2>3 DEF Callback, Idle
    <3> QED
      BY <2>3, <3>1, OpenWhileLive, DispatchLost
  <2>4. CASE Callback(s, TRUE) \/ Callback(s, ~unwrap(s).destroyed)
    BY <2>3, <2>4, OpenWhileLive
  <2>5. CASE Response(s)
    <3>1. Serves(s) => ~unwrap(s).localResponse
      BY <2>5 DEF Response, StreamsInv, StreamInv, CalloutsRecorded
    <3> QED
      BY <2>3, <2>5, <3>1 DEF Response
  <2>6. CASE Watermark(s)
    <3>1. Serves(s) /\ Dispatch(s, Open(s), unwrap(s).watermark)
          /\ unwrap(s).watermark # NoStream
      BY <2>6 DEF Watermark, Serves
    <3> QED
      BY <3>1, OpenWhileLive, DispatchLost
  <2>7. ASSUME NEW c \in Started, StreamEvent(s, c, OpenIn(s)) \/ Done(s, c, OpenIn(s))
        PROVE  LostOnlyInline'
    <3>1. Deliverable(s, c) /\ Dispatch(s, OpenIn(s), unwrap(s).callbacks[c])
      BY <2>7, Zenon DEF StreamEvent, Done
    <3>2. Serves(s) /\ c \in inflight[s]
      BY <3>1 DEF Deliverable, Serves
    <3>3. calling[s] = {} => unwrap(s).callbacks[c] = s
      BY <3>2 DEF StreamsInv, StreamInv, CalloutsRecorded
    <3> QED
      BY <3>1, <3>2, <3>3, OpenWhileLive, DispatchLost, ValuesAssumption
  <2>8. CASE Scheduled(s, OpenIn(s))
    <3>1. /\ Serves(s) /\ unwrap(s).scheduler = s /\ s # NoStream
          /\ Head(commits[s]) \in DOMAIN scheduler[s].tasks
      BY <2>8, Delivered DEF StreamsInv
    <3>2. Dispatch(s, /\ unwrap(s).scheduler # NoStream /\ OpenIn(s)
                      /\ Head(commits[s]) \in DOMAIN scheduler[unwrap(s).scheduler].tasks,
                   unwrap(s).scheduler)
      BY <2>8, Zenon DEF Scheduled
    <3> QED
      BY <3>1, <3>2, OpenWhileLive, DispatchLost
  <2>9. CASE \/ HttpNew(s) \/ OtherNew(s) \/ SendLocalResponse(s)
             \/ SetDownstreamWatermarkCallbacks(s) \/ ClearDownstreamWatermarkCallbacks(s)
             \/ (\E op \in Ops : Start(s, op)) \/ StartReturn(s) \/ SetData(s)
             \/ GetScheduler(s) \/ (\E t \in Tasks : Schedule(s, t)) \/ Commit(s)
    <3>1. UNCHANGED lost
      BY <2>9, Zenon DEF HttpNew, OtherNew, Arrives, SendLocalResponse,
         SetDownstreamWatermarkCallbacks, ClearDownstreamWatermarkCallbacks, Start,
         StartReturn, SetData, GetScheduler, Schedule, Commit, history
    <3> QED
      BY <1>1, <3>1
  <2> SharedStep(s)
    BY <1>2, Shared
  <2> QED
    BY <2>2, <2>4, <2>5, <2>6, <2>7, <2>8, <2>9, Zenon DEF SharedStep
<1> QED
  BY <1>1, <1>2 DEF Next, vars, history

(* Every callback of a live stream that does not come inside the call that *)
(* starts its operation reaches the filter: the guards drop only what comes*)
(* too late, a recorded callback stays until it is done, and every id      *)
(* delivered finds its task.                                               *)
THEOREM LiveStreamsLoseNothing == Spec => []LostOnlyInline
<1>1. Init => LostOnlyInline
  BY DEF Init, LostOnlyInline
<1> QED
  BY <1>1, LostStep, OwnInvariant, StreamsInvariant, PTL DEF Spec

-----------------------------------------------------------------------------
(* Schedulers keep their promise                                           *)

LEMMA BridgeOfStep ==
    ASSUME OwnInv, StreamsInv, NEW s \in Streams, StreamStep(s)
    PROVE  BridgeStep(s)
<1> USE DEF BridgeStep, Bridge!Next, Bridge!vars
<1> EnvoyType /\ TaskingType
  BY DEF OwnInv, TypeOK
<1>1. ASSUME UNCHANGED <<submitted, runs>>,
             host'[s] \in {"complete", "destroyed"} \/ host'[s] = host[s]
      PROVE  BridgeStep(s)
  BY <1>1 DEF Bridge!Close
<1>2. CASE HttpNew(s) \/ OtherNew(s)
  <2>1. UNCHANGED <<submitted, runs>> /\ host[s] = "none" /\ host'[s] \in {"none", "live"}
    BY <1>2 DEF HttpNew, OtherNew, Arrives, New, tasking, EnvoyType
  <2> QED
    BY <2>1
<1>3. CASE StreamComplete(s) \/ HttpDestroy(s) \/ OtherDestroy(s)
  <2>1. UNCHANGED <<submitted, runs>> /\ host'[s] \in {"complete", "destroyed"}
    BY <1>3 DEF StreamComplete, HttpDestroy, OtherDestroy, Destroy, tasking, EnvoyType
  <2> QED
    BY <1>1, <2>1
<1>4. ASSUME NEW t \in Tasks, Schedule(s, t)
      PROVE  BridgeStep(s)
  <2>1. t \notin submitted[s] /\ submitted'[s] = submitted[s] \union {t}
        /\ UNCHANGED <<runs, host>>
    BY <1>4 DEF Schedule, TaskingType, envoy
  <2> QED
    BY <2>1 DEF Bridge!Submit
<1>5. CASE Scheduled(s, OpenIn(s))
  <2> DEFINE id == Head(commits[s])
             t == scheduler[s].tasks[id]
  <2>1. UNCHANGED <<submitted, host>>
    BY <1>5, Zenon DEF Scheduled, envoy
  <2>2. /\ Serves(s) /\ id \in DOMAIN scheduler[s].tasks
        /\ \/ OpenIn(s) /\ runs' = [runs EXCEPT ![s][t] = @ + 1]
           \/ UNCHANGED runs
    <3>1. StreamInv(s)
      BY DEF StreamsInv
    <3> QED
      BY <1>5, <3>1, Delivered, Zenon
  <2>3. t \in Tasks /\ t \in submitted[s] /\ runs[s][t] = 0
    BY <2>2 DEF StreamsInv, StreamInv, RecordedOnce, TaskingType
  <2> HIDE DEF t, id
  <2>4. CASE OpenIn(s) /\ runs' = [runs EXCEPT ![s][t] = @ + 1]
    <3>1. host[s] = "live"
      BY <2>2, <2>4, OpenWhileLive
    <3>2. runs'[s] = [runs[s] EXCEPT ![t] = 1]
      BY <2>3, <2>4 DEF TaskingType
    <3> QED
      BY <2>1, <2>3, <3>1, <3>2 DEF Bridge!Run
  <2>5. CASE UNCHANGED runs
    BY <1>1, <2>1, <2>5
  <2> QED
    BY <2>2, <2>4, <2>5
<1>6. ASSUME NEW allowed, Callback(s, allowed)
      PROVE  BridgeStep(s)
  BY <1>1, <1>6 DEF Callback, envoy, tasking
<1>7. CASE Watermark(s) \/ SendLocalResponse(s) \/ StartReturn(s) \/ SetData(s)
           \/ SetDownstreamWatermarkCallbacks(s) \/ ClearDownstreamWatermarkCallbacks(s)
           \/ GetScheduler(s) \/ Commit(s) \/ \E op \in Ops : Start(s, op)
  <2>1. UNCHANGED <<submitted, runs, host>>
    BY <1>7, Zenon DEF Watermark, SendLocalResponse, StartReturn, SetData,
       SetDownstreamWatermarkCallbacks, ClearDownstreamWatermarkCallbacks,
       GetScheduler, Commit, Start, envoy, tasking
  <2> QED
    BY <1>1, <2>1
<1>8. ASSUME NEW c \in Started, StreamEvent(s, c, OpenIn(s)) \/ Done(s, c, OpenIn(s))
      PROVE  BridgeStep(s)
  <2>1. UNCHANGED <<submitted, runs, host>>
    BY <1>8, Zenon DEF StreamEvent, Done, envoy, tasking
  <2> QED
    BY <1>1, <2>1
<1> SharedStep(s)
  BY Shared
<1> QED
  BY <1>2, <1>3, <1>4, <1>5, <1>6, <1>7, <1>8, Zenon DEF SharedStep, Response

(* Every stream's scheduler implements what shared.Scheduler promises: at  *)
(* most once, never after completion, whatever other streams do with their *)
(* handles.                                                                *)
THEOREM SchedulersImplementBridge == Spec => ImplementsBridge
<1>1. Init => \A s \in Streams : Bridge(s)!Init
  BY DEF Init, Bridge!Init
<1>2. OwnInv /\ StreamsInv /\ [Next]_vars => [\A s \in Streams : BridgeStep(s)]_vars
  <2> SUFFICES ASSUME OwnInv, StreamsInv, Next, NEW t \in Streams
               PROVE  BridgeStep(t)
    OBVIOUS
  <2>1. PICK s \in Streams : StreamStep(s)
    BY DEF Next
  <2>2. CASE t = s
    BY <2>1, <2>2, BridgeOfStep
  <2>3. CASE t # s
    <3>1. host'[t] = host[t] /\ submitted'[t] = submitted[t] /\ runs'[t] = runs[t]
      BY <2>1, <2>3, Locality DEF Others, Untouched
    <3> QED
      BY <3>1 DEF BridgeStep, Bridge!vars
  <2> QED
    BY <2>2, <2>3
<1> QED
  BY <1>1, <1>2, OwnInvariant, StreamsInvariant, PTL DEF Spec, ImplementsBridge

-----------------------------------------------------------------------------
(* No function is lost and none is left behind                             *)

Pending(s, n) == <<s, n>> \in posting \/ \E i \in DOMAIN commits[s] : commits[s][i] = n

KeptOf(s) ==
    LET tasks == scheduler[s].tasks IN
    /\ host[s] = "none" => submitted[s] = {} /\ DOMAIN tasks = {}
    /\ host[s] = "live" =>
         /\ \A t \in submitted[s] : runs[s][t] = 0 => \E n \in DOMAIN tasks : tasks[n] = t
         /\ \A n \in DOMAIN tasks : Pending(s, n)

KeptInv == \A s \in Streams : KeptOf(s)

(* The converse, that a recorded function still has to run, is part of     *)
(* RecordedOnce.                                                           *)
LEMMA KeptImplies == OwnInv /\ StreamsInv /\ KeptInv => TasksKept
  BY DEF StreamsInv, StreamInv, RecordedOnce, KeptInv, KeptOf, Pending, TasksKept

LEMMA KeptFrame ==
    ASSUME NEW s \in Streams, KeptOf(s), UNCHANGED tasking,
           host'[s] \in {"none", "live"} => host[s] \in {"none", host'[s]}
    PROVE  KeptOf(s)'
  BY DEF KeptOf, Pending, tasking

LEMMA KeptSchedule ==
    ASSUME OwnInv, NEW s \in Streams, KeptOf(s), NEW t \in Tasks, Schedule(s, t)
    PROVE  KeptOf(s)'
<1> DEFINE id == scheduler[s].next
           ids == DOMAIN scheduler[s].tasks
<1>1. TaskingType
  BY DEF OwnInv, TypeOK
<1>2. id \in Nat /\ id \notin ids
  BY <1>1 DEF TaskingType
<1>3. /\ DOMAIN scheduler'[s].tasks = ids \union {id}
      /\ scheduler'[s].tasks[id] = t
      /\ \A n \in ids : scheduler'[s].tasks[n] = scheduler[s].tasks[n]
  BY <1>1, <1>2 DEF Schedule, TaskingType
<1>4. /\ posting' = posting \union {<<s, id>>}
      /\ submitted'[s] = submitted[s] \union {t}
      /\ UNCHANGED <<host, commits, runs>> /\ host[s] # "none"
  BY <1>1 DEF Schedule, Held, TaskingType, envoy
<1>5. \A n : Pending(s, n) => Pending(s, n)'
  BY <1>4 DEF Pending
<1>6. \A n \in DOMAIN scheduler'[s].tasks : n \in ids \/ Pending(s, n)'
  BY <1>3, <1>4 DEF Pending
<1> QED
  BY <1>3, <1>4, <1>5, <1>6 DEF KeptOf

(* An id leaves posting for the end of the stream's queue.                 *)
LEMMA KeptCommit ==
    ASSUME OwnInv, NEW s \in Streams, KeptOf(s), Commit(s)
    PROVE  KeptOf(s)'
<1>1. TaskingType
  BY DEF OwnInv, TypeOK
<1>2. UNCHANGED <<host, scheduler, submitted, runs>>
  BY DEF Commit, envoy
<1>3. CASE host[s] = "live"
  <2>1. PICK p \in posting :
          /\ p[1] = s /\ posting' = posting \ {p}
          /\ commits' = [commits EXCEPT ![s] = Append(@, p[2])]
    BY <1>3 DEF Commit
  <2>2. p = <<s, p[2]>> /\ p[2] \in Nat
    BY <1>1, <2>1 DEF TaskingType
  <2>3. commits[s] \in Seq(Nat) /\ commits'[s] = Append(commits[s], p[2])
    BY <1>1, <2>1 DEF TaskingType
  <2>4. /\ \A i \in DOMAIN commits[s] : i \in DOMAIN commits'[s] /\ commits'[s][i] = commits[s][i]
        /\ Len(commits[s]) + 1 \in DOMAIN commits'[s]
        /\ commits'[s][Len(commits[s]) + 1] = p[2]
    BY <2>2, <2>3
  <2>5. ASSUME NEW n, Pending(s, n)
        PROVE  Pending(s, n)'
    BY <2>1, <2>2, <2>4, <2>5 DEF Pending
  <2> QED
    BY <1>2, <1>3, <2>5 DEF KeptOf
<1> QED
  BY <1>2, <1>3 DEF KeptOf

(* The function in front has run and is gone; the others stay where they   *)
(* are.                                                                    *)
LEMMA KeptScheduled ==
    ASSUME OwnInv, NEW s \in Streams, StreamInv(s), KeptOf(s), Scheduled(s, OpenIn(s))
    PROVE  KeptOf(s)'
<1> DEFINE id == Head(commits[s])
           tasks == scheduler[s].tasks
<1>1. TaskingType
  BY DEF OwnInv, TypeOK
<1>2. UNCHANGED <<host, posting, submitted>> /\ host[s] # "none"
  BY Zenon DEF Scheduled, envoy
<1>3. CASE host[s] # "live"
  BY <1>2, <1>3 DEF KeptOf
<1>4. CASE host[s] = "live"
  <2>1. /\ id \in DOMAIN tasks /\ id = commits[s][1] /\ Serves(s)
        /\ commits' = [commits EXCEPT ![s] = Tail(@)]
    BY Delivered, Zenon
  <2>2. /\ runs' = [runs EXCEPT ![s][tasks[id]] = @ + 1]
        /\ scheduler' = [scheduler EXCEPT ![s].tasks = [n \in DOMAIN @ \ {id} |-> @[n]]]
    <3>1. \/ /\ runs' = [runs EXCEPT ![s][tasks[id]] = @ + 1]
             /\ scheduler' = [scheduler EXCEPT ![s].tasks = [n \in DOMAIN @ \ {id} |-> @[n]]]
          \/ ~OpenIn(s)
      <4>1. OpenIn(s) => s # NoStream /\ unwrap(s).scheduler = s
        BY Delivered, Zenon
      <4>2. CASE OpenIn(s)
        BY <2>1, <4>1, <4>2 DEF Scheduled
      <4> QED
        BY <4>2
    <3>2. OpenIn(s)
      BY <1>4, <2>1, OpenWhileLive
    <3> QED
      BY <3>1, <3>2
  <2>3. /\ DOMAIN scheduler'[s].tasks = DOMAIN tasks \ {id}
        /\ \A n \in DOMAIN tasks \ {id} : scheduler'[s].tasks[n] = tasks[n]
    BY <1>1, <2>2 DEF TaskingType
  <2>4. tasks[id] \in Tasks /\ runs'[s][tasks[id]] = runs[s][tasks[id]] + 1
        /\ \A t \in Tasks \ {tasks[id]} : runs'[s][t] = runs[s][t]
    BY <1>1, <2>1, <2>2 DEF TaskingType
  <2>5. commits[s] \in Seq(Nat) /\ commits[s] # << >> /\ commits'[s] = Tail(commits[s])
    BY <1>1, <2>1 DEF TaskingType, Scheduled
  <2>6. \A i \in DOMAIN commits[s] : i # 1 =>
          i - 1 \in DOMAIN commits'[s] /\ commits'[s][i - 1] = commits[s][i]
    BY <2>5
  <2> HIDE DEF id
  <2>7. ASSUME NEW n, n # id, Pending(s, n)
        PROVE  Pending(s, n)'
    <3>1. CASE <<s, n>> \in posting
      BY <1>2, <3>1 DEF Pending
    <3>2. ASSUME NEW i \in DOMAIN commits[s], commits[s][i] = n
          PROVE  Pending(s, n)'
      BY <2>1, <2>6, <2>7, <3>2 DEF Pending
    <3> QED
      BY <2>7, <3>1, <3>2 DEF Pending
  <2>8. ASSUME NEW t \in submitted'[s], runs'[s][t] = 0
        PROVE  \E n \in DOMAIN scheduler'[s].tasks : scheduler'[s].tasks[n] = t
    <3>1. t \in submitted[s] /\ t \in Tasks
      BY <1>1, <1>2, <2>8 DEF TaskingType
    <3>2. runs[s][tasks[id]] \in Nat
      BY <1>1, <2>4 DEF TaskingType
    <3>3. t # tasks[id]
      BY <2>4, <2>8, <3>2
    <3>4. PICK n \in DOMAIN tasks : tasks[n] = t
      BY <1>4, <2>4, <2>8, <3>1, <3>3 DEF KeptOf
    <3> QED
      BY <2>3, <3>3, <3>4
  <2>9. ASSUME NEW n \in DOMAIN scheduler'[s].tasks
        PROVE  Pending(s, n)'
    <3>1. n \in DOMAIN tasks /\ n # id
      BY <2>3
    <3> QED
      BY <1>4, <2>7, <3>1 DEF KeptOf
  <2> QED
    BY <1>2, <1>4, <2>8, <2>9 DEF KeptOf
<1> QED
  BY <1>3, <1>4

LEMMA KeptOfStep ==
    ASSUME OwnInv, NEW s \in Streams, StreamInv(s), KeptOf(s), StreamStep(s)
    PROVE  KeptOf(s)'
<1> EnvoyType
  BY DEF OwnInv, TypeOK
<1>1. ASSUME UNCHANGED <<host, tasking>>
      PROVE  KeptOf(s)'
  BY <1>1, KeptFrame
<1>2. CASE HttpNew(s) \/ OtherNew(s)
  <2>1. UNCHANGED tasking /\ host[s] = "none"
    BY <1>2 DEF HttpNew, OtherNew, Arrives
  <2> QED
    BY <2>1, KeptFrame
<1>3. CASE StreamComplete(s) \/ HttpDestroy(s) \/ OtherDestroy(s)
  <2>1. host'[s] \in {"complete", "destroyed"}
    BY <1>3 DEF StreamComplete, HttpDestroy, OtherDestroy, Destroy, EnvoyType
  <2> QED
    BY <2>1 DEF KeptOf
<1>4. ASSUME NEW allowed, Callback(s, allowed)
      PROVE  KeptOf(s)'
  BY <1>1, <1>4 DEF Callback, envoy
<1>5. CASE Watermark(s) \/ SendLocalResponse(s) \/ StartReturn(s) \/ SetData(s)
           \/ SetDownstreamWatermarkCallbacks(s) \/ ClearDownstreamWatermarkCallbacks(s)
           \/ GetScheduler(s) \/ \E op \in Ops : Start(s, op)
  <2>1. UNCHANGED <<host, tasking>>
    BY <1>5, Zenon DEF Watermark, SendLocalResponse, StartReturn, SetData,
       SetDownstreamWatermarkCallbacks, ClearDownstreamWatermarkCallbacks,
       GetScheduler, Start, envoy
  <2> QED
    BY <1>1, <2>1
<1>6. ASSUME NEW c \in Started, StreamEvent(s, c, OpenIn(s)) \/ Done(s, c, OpenIn(s))
      PROVE  KeptOf(s)'
  <2>1. UNCHANGED <<host, tasking>>
    BY <1>6, Zenon DEF StreamEvent, Done, envoy
  <2> QED
    BY <1>1, <2>1
<1>7. ASSUME NEW t \in Tasks, Schedule(s, t)
      PROVE  KeptOf(s)'
  BY <1>7, KeptSchedule
<1>8. CASE Commit(s)
  BY <1>8, KeptCommit
<1>9. CASE Scheduled(s, OpenIn(s))
  BY <1>9, KeptScheduled
<1> SharedStep(s)
  BY Shared
<1> QED
  BY <1>2, <1>3, <1>4, <1>5, <1>6, <1>7, <1>8, <1>9, Zenon DEF SharedStep, Response

(* Schedule, onScheduled: whatever goroutines schedule at the same time    *)
(* and in whatever order their ids are committed, a live stream's          *)
(* scheduler keeps every function until it has run, and no longer.         *)
THEOREM SchedulersKeepTasks == Spec => []TasksKept
<1>1. Init => KeptInv
  <2>1. Init => \A s \in Streams : DOMAIN scheduler[s].tasks = {}
    BY DEF Init, NoTasks
  <2> QED
    BY <2>1 DEF Init, KeptInv, KeptOf
<1>2. OwnInv /\ StreamsInv /\ KeptInv /\ [Next]_vars => KeptInv'
  <2> SUFFICES ASSUME OwnInv, StreamsInv, KeptInv, [Next]_vars, NEW t \in Streams
               PROVE  KeptOf(t)'
    BY DEF KeptInv
  <2>1. CASE UNCHANGED vars
    BY <2>1, KeptFrame DEF KeptInv, vars, envoy
  <2>2. ASSUME NEW s \in Streams, StreamStep(s)
        PROVE  KeptOf(t)'
    <3>1. CASE t = s
      BY <2>2, <3>1, KeptOfStep DEF KeptInv, StreamsInv
    <3>2. CASE t # s
      <4>1. Untouched(t)
        BY <2>2, <3>2, Locality DEF Others
      <4> QED
        BY <4>1 DEF KeptInv, KeptOf, Pending, Untouched
    <3> QED
      BY <3>1, <3>2
  <2> QED
    BY <2>1, <2>2 DEF Next
<1> QED
  BY <1>1, <1>2, OwnInvariant, StreamsInvariant, KeptImplies, PTL DEF Spec

=============================================================================

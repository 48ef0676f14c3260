------------------------- MODULE FilterHandleProofs -------------------------
(***************************************************************************)
(* Theorems about FilterHandle, for any number of streams, handles,        *)
(* addresses, tasks and ids and for every kind of handle.                  *)
(***************************************************************************)
EXTENDS FilterHandleProperties, SequenceTheorems, TLAPS

-----------------------------------------------------------------------------
(* Types                                                                   *)

LEMMA UseType == TypeOK => use \in Use
  BY UsesAssumption DEF TypeOK

LEMMA BlankType == Blank \in Handle
  BY DEF Blank, Handle, Owner

(* A stream's handle, once it has one                                      *)
LEMMA UnwrapType ==
    ASSUME TypeOK, NEW s \in Streams, host[s] # "none"
    PROVE  pointer[s] \in Handles /\ unwrap(s) \in Handle
  BY ValuesAssumption DEF TypeOK, EnvoyType, ModuleType, unwrap

(* A callback for s runs in the filter of some stream, or in none.         *)
LEMMA DispatchType ==
    ASSUME TypeOK, NEW s \in Streams, NEW p \in Owner, NEW allowed,
           Dispatch(s, allowed, p)
    PROVE  HistoryType'
  BY DEF TypeOK, HistoryType, Dispatch, Owner

LEMMA TypeInit == Init => TypeOK
<1> SUFFICES ASSUME Init PROVE TypeOK
  OBVIOUS
<1>1. EnvoyType
  BY BoundsAssumption DEF Init, EnvoyType, Ops
<1>2. ModuleType
  BY BlankType DEF Init, ModuleType
<1>3. SharedDataType
  BY DEF Init, SharedDataType, Owner
<1>4. TaskingType
  BY EmptySeq DEF Init, TaskingType, NoTasks
<1>5. HistoryType
  BY DEF Init, HistoryType
<1> QED
  BY <1>1, <1>2, <1>3, <1>4, <1>5 DEF TypeOK, Init

(* A new value of one handle                                               *)
LEMMA HandleType ==
    ASSUME ModuleType, NEW h, NEW r \in Handle
    PROVE  [handle EXCEPT ![h] = r] \in [Handles -> Handle]
  BY DEF ModuleType

(* The fields actions assign                                               *)
LEMMA FieldTypes ==
    ASSUME NEW r \in Handle, NEW o \in Owner
    PROVE  /\ [r EXCEPT !.plugin = o] \in Handle
           /\ [r EXCEPT !.scheduler = o] \in Handle
           /\ [r EXCEPT !.watermark = o] \in Handle
           /\ [r EXCEPT !.completed = TRUE] \in Handle
           /\ [r EXCEPT !.destroyed = TRUE] \in Handle
           /\ [r EXCEPT !.localResponse = TRUE] \in Handle
           /\ \A c \in Started : r.callbacks[c] \in Owner
           /\ \A c : [r EXCEPT !.callbacks[c] = o] \in Handle
           /\ \A a \in Addresses : [r EXCEPT !.recorded = @ \union {a}] \in Handle
  BY DEF Handle

LEMMA NewType ==
    ASSUME TypeOK, NEW s \in Streams, NEW h \in Handles, Arrives(s), New(s, h, Blank)
    PROVE  TypeOK'
<1>1. s \in Owner
  BY DEF Owner
<1>2. [Blank EXCEPT !.plugin = s] \in Handle
  BY <1>1, BlankType, FieldTypes
<1>3. EnvoyType'
  BY ValuesAssumption DEF TypeOK, EnvoyType, Arrives, New
<1>4. ModuleType'
  BY <1>2, HandleType DEF TypeOK, ModuleType, New
<1>5. SharedDataType' /\ TaskingType' /\ HistoryType'
  BY Zenon DEF TypeOK, Arrives, sharedData, tasking, history,
     SharedDataType, TaskingType, HistoryType
<1> QED
  BY <1>3, <1>4, <1>5 DEF TypeOK, Arrives

LEMMA DestroyType ==
    ASSUME TypeOK, NEW s \in Streams, host[s] # "none", NEW left \in Handle,
           Destroy(s, left), pool' \subseteq Handles
    PROVE  TypeOK'
<1>1. unwrap(s).plugin \in Owner
  BY UnwrapType DEF Handle
<1>2. EnvoyType'
  BY ValuesAssumption DEF TypeOK, EnvoyType, Destroy
<1>3. ModuleType'
  BY HandleType DEF TypeOK, ModuleType, Destroy
<1>4. SharedDataType'
  BY DEF TypeOK, Destroy, SharedDataType, sharedData
<1>5. TaskingType'
  BY EmptySeq DEF TypeOK, Destroy, TaskingType
<1>6. HistoryType'
  BY <1>1, DispatchType DEF TypeOK, Destroy
<1> QED
  BY <1>2, <1>3, <1>4, <1>5, <1>6 DEF TypeOK, Destroy

(* A step that changes at most a handle and what happened so far           *)
LEMMA HandleStepType ==
    ASSUME TypeOK, UNCHANGED <<use, envoy, pool, panicked, sharedData, tasking>>,
           handle' \in [Handles -> Handle], HistoryType'
    PROVE  TypeOK'
<1>1. EnvoyType' /\ SharedDataType' /\ TaskingType'
  BY Zenon DEF TypeOK, envoy, sharedData, tasking, EnvoyType, SharedDataType, TaskingType
<1>2. ModuleType'
  BY DEF TypeOK, ModuleType
<1> QED
  BY <1>1, <1>2 DEF TypeOK

-----------------------------------------------------------------------------
(* The kinds of handle differ in the guards in front of what they share.   *)

(* The guard in front of what may come late                                *)
OpenIn(s) ==
    CASE use.kind = "http" -> Open(s)
      [] use.kind = "network" -> NetworkOpen(s)
      [] OTHER -> TRUE

OtherNew(s) ==
    /\ use.kind # "http" /\ Arrives(s)
    /\ \E h \in Handles : Fresh(h) /\ New(s, h, Blank)

(* What Destroy leaves of a handle that is not pooled                      *)
OtherLeft(s) ==
    {[unwrap(s) EXCEPT !.scheduler = NoStream],
     [unwrap(s) EXCEPT !.scheduler = NoStream, !.destroyed = TRUE]}

OtherDestroy(s) ==
    /\ use.kind # "http" /\ host[s] = "live" /\ UNCHANGED pool
    /\ \E left \in OtherLeft(s) : Destroy(s, left)

(* Every step is one of these.                                             *)
SharedStep(s) ==
    \/ HttpNew(s) \/ OtherNew(s)
    \/ StreamComplete(s) \/ HttpDestroy(s) \/ OtherDestroy(s)
    \/ Callback(s, TRUE) \/ Response(s)
    \/ use.kind = "network" /\ Callback(s, ~unwrap(s).destroyed)
    \/ SendLocalResponse(s) \/ Watermark(s)
    \/ SetDownstreamWatermarkCallbacks(s) \/ ClearDownstreamWatermarkCallbacks(s)
    \/ (\E op \in Ops : Start(s, op)) \/ StartReturn(s)
    \/ \E c \in Started : StreamEvent(s, c, OpenIn(s)) \/ Done(s, c, OpenIn(s))
    \/ SetData(s) \/ GetScheduler(s)
    \/ (\E t \in Tasks : Schedule(s, t)) \/ Commit(s) \/ Scheduled(s, OpenIn(s))

LEMMA Shared ==
    ASSUME NEW s \in Streams, StreamStep(s)
    PROVE  SharedStep(s)
<1>1. CASE HttpStep(s)
  <2>1. CASE Request(s) \/ LocalReply(s)
    BY <2>1 DEF Request, LocalReply, SharedStep
  <2>2. CASE HttpScheduled(s)
    BY <2>2 DEF HttpScheduled, OpenIn, SharedStep
  <2>3. ASSUME NEW op \in Ops, HttpStart(s, op)
        PROVE  SharedStep(s)
    BY <2>3 DEF HttpStart, SharedStep
  <2>4. ASSUME NEW c \in Started, HttpStreamEvent(s, c) \/ HttpDone(s, c)
        PROVE  SharedStep(s)
    BY <2>4 DEF HttpStreamEvent, HttpDone, OpenIn, SharedStep
  <2>5. CASE HttpGetScheduler(s)
    BY <2>5 DEF HttpGetScheduler, SharedStep
  <2> QED
    BY <1>1, <2>1, <2>2, <2>3, <2>4, <2>5, Zenon DEF HttpStep, SharedStep
<1>2. CASE NetworkStep(s)
  <2>1. CASE NetworkNew(s)
    BY <2>1 DEF NetworkNew, OtherNew, SharedStep
  <2>2. CASE NetworkDestroy(s)
    BY <2>2 DEF NetworkDestroy, OtherDestroy, OtherLeft, SharedStep
  <2>3. CASE ConnectionEvent(s) \/ ConnectionWatermark(s)
    BY <2>3 DEF ConnectionEvent, ConnectionWatermark, SharedStep
  <2>4. CASE NetworkGetScheduler(s) \/ NetworkScheduled(s)
    BY <2>4 DEF NetworkGetScheduler, NetworkScheduled, OpenIn, SharedStep
  <2>5. CASE NetworkStart(s)
    BY <2>5 DEF NetworkStart, Ops, SharedStep
  <2>6. ASSUME NEW c \in Started, NetworkDone(s, c)
        PROVE  SharedStep(s)
    BY <2>6 DEF NetworkDone, OpenIn, SharedStep
  <2> QED
    BY <1>2, <2>1, <2>2, <2>3, <2>4, <2>5, <2>6, Zenon DEF NetworkStep
<1>3. CASE ConfigStep(s)
  <2>1. CASE ConfigNew(s)
    BY <2>1 DEF ConfigNew, OtherNew, SharedStep
  <2>2. CASE ConfigDestroy(s)
    BY <2>2 DEF ConfigDestroy, OtherDestroy, OtherLeft, SharedStep
  <2>3. CASE ConfigGetScheduler(s) \/ ConfigScheduled(s)
    BY <2>3 DEF ConfigGetScheduler, ConfigScheduled, OpenIn, SharedStep
  <2>4. ASSUME NEW op \in Ops, ConfigStart(s, op)
        PROVE  SharedStep(s)
    BY <2>4 DEF ConfigStart, SharedStep
  <2>5. ASSUME NEW c \in Started, ConfigStreamEvent(s, c) \/ ConfigDone(s, c)
        PROVE  SharedStep(s)
    BY <2>5 DEF ConfigStreamEvent, ConfigDone, OpenIn, SharedStep
  <2> QED
    BY <1>3, <2>1, <2>2, <2>3, <2>4, <2>5, Zenon DEF ConfigStep
<1>4. CASE NetworkConfigStep(s)
  <2>1. CASE NetworkConfigNew(s)
    BY <2>1 DEF NetworkConfigNew, OtherNew, SharedStep
  <2>2. CASE NetworkConfigDestroy(s)
    BY <2>2 DEF NetworkConfigDestroy, OtherDestroy, OtherLeft, SharedStep
  <2>3. CASE NetworkConfigGetScheduler(s) \/ NetworkConfigScheduled(s)
    BY <2>3 DEF NetworkConfigGetScheduler, NetworkConfigScheduled, OpenIn, SharedStep
  <2> QED
    BY <1>4, <2>1, <2>2, <2>3, Zenon DEF NetworkConfigStep
<1>5. CASE StartReturn(s) \/ Commit(s) \/ \E t \in Tasks : Schedule(s, t)
  BY <1>5, Zenon DEF SharedStep
<1> QED
  BY <1>1, <1>2, <1>3, <1>4, <1>5, Zenon DEF StreamStep

LEMMA TypeStep == TypeOK /\ [Next]_vars => TypeOK'
<1> SUFFICES ASSUME TypeOK, [Next]_vars PROVE TypeOK'
  OBVIOUS
<1>1. CASE UNCHANGED vars
  BY <1>1, Zenon DEF vars, envoy, module, sharedData, tasking, history, TypeOK,
     EnvoyType, ModuleType, SharedDataType, TaskingType, HistoryType
<1>2. ASSUME NEW s \in Streams, StreamStep(s)
      PROVE  TypeOK'
  <2> s \in Owner /\ NoStream \in Owner
    BY DEF Owner
  <2> HistoryType /\ ModuleType /\ SharedDataType /\ TaskingType
    BY Zenon DEF TypeOK
  <2>1. CASE HttpNew(s)
    <3>1. PICK h \in Handles :
            \/ panicked' = TRUE /\ UNCHANGED <<host, pointer, handle, pool>>
            \/ New(s, h, Blank)
      BY <2>1, Zenon DEF HttpNew, reset
    <3>2. CASE New(s, h, Blank)
      BY <2>1, <3>2, NewType DEF HttpNew
    <3>3. CASE panicked' = TRUE /\ UNCHANGED <<host, pointer, handle, pool>>
      <4>1. EnvoyType' /\ ModuleType'
        BY <2>1, <3>3 DEF HttpNew, Arrives, TypeOK, EnvoyType, ModuleType
      <4>2. SharedDataType' /\ TaskingType' /\ HistoryType'
        BY <2>1, Zenon DEF HttpNew, Arrives, sharedData, tasking, history,
           SharedDataType, TaskingType, HistoryType
      <4> QED
        BY <2>1, <4>1, <4>2 DEF HttpNew, Arrives, TypeOK
    <3> QED
      BY <3>1, <3>2, <3>3
  <2>2. CASE OtherNew(s)
    BY <2>2, NewType DEF OtherNew
  <2>3. CASE StreamComplete(s)
    <3>1. host[s] # "none" /\ unwrap(s) \in Handle /\ unwrap(s).plugin \in Owner
      BY <2>3, UnwrapType DEF StreamComplete, Idle, Live, Handle
    <3>2. EnvoyType'
      BY <2>3 DEF StreamComplete, Idle, Live, TypeOK, EnvoyType
    <3>3. [unwrap(s) EXCEPT !.completed = TRUE] \in Handle
      BY <3>1, FieldTypes
    <3>4. ModuleType'
      BY <2>3, <3>3 DEF StreamComplete, ModuleType, unwrap
    <3>5. SharedDataType'
      BY <2>3 DEF StreamComplete, clearData, SharedDataType
    <3>6. TaskingType'
      BY <2>3, Zenon DEF StreamComplete, TaskingType, tasking
    <3>7. HistoryType'
      BY <2>3, <3>1, DispatchType DEF StreamComplete
    <3> QED
      BY <2>3, <3>2, <3>4, <3>5, <3>6, <3>7 DEF StreamComplete, TypeOK
  <2>4. CASE HttpDestroy(s)
    <3>1. host[s] # "none" /\ unwrap(s) \in Handle /\ pointer[s] \in Handles
      BY <2>4, UnwrapType DEF HttpDestroy
    <3>2. retired(unwrap(s)) \in Handle
      BY <3>1 DEF retired, Handle
    <3> QED
      BY <2>4, <3>1, <3>2, DestroyType DEF HttpDestroy, ModuleType
  <2>5. CASE OtherDestroy(s)
    <3>1. host[s] # "none" /\ unwrap(s) \in Handle
      BY <2>5, UnwrapType DEF OtherDestroy
    <3>2. OtherLeft(s) \subseteq Handle
      BY <3>1 DEF OtherLeft, Handle
    <3> QED
      BY <2>5, <3>1, <3>2, DestroyType DEF OtherDestroy, ModuleType
  <2>6. ASSUME NEW allowed, Callback(s, allowed)
        PROVE  TypeOK'
    <3>1. unwrap(s).plugin \in Owner
      BY <2>6, UnwrapType DEF Callback, Idle, Live, Handle
    <3>2. HistoryType'
      BY <2>6, <3>1, DispatchType DEF Callback
    <3> QED
      BY <2>6, <3>2, HandleStepType DEF Callback, module, ModuleType
  <2>7. CASE SendLocalResponse(s)
    <3>1. unwrap(s) \in Handle
      BY <2>7, UnwrapType DEF SendLocalResponse, Idle, Live
    <3>2. handle' \in [Handles -> Handle]
      BY <2>7, <3>1, FieldTypes DEF SendLocalResponse, ModuleType, unwrap
    <3>3. HistoryType'
      BY <2>7 DEF SendLocalResponse, HistoryType
    <3> QED
      BY <2>7, <3>2, <3>3, HandleStepType DEF SendLocalResponse
  <2>8. CASE SetDownstreamWatermarkCallbacks(s) \/ ClearDownstreamWatermarkCallbacks(s)
    <3> USE DEF SetDownstreamWatermarkCallbacks, ClearDownstreamWatermarkCallbacks
    <3>1. unwrap(s) \in Handle
      BY <2>8, UnwrapType DEF Idle, Live
    <3>2. handle' \in [Handles -> Handle]
      <4>1. PICK w \in Owner : handle' = [handle EXCEPT ![pointer[s]].watermark = w]
        BY <2>8
      <4>2. [unwrap(s) EXCEPT !.watermark = w] \in Handle
        BY <3>1, FieldTypes
      <4>3. handle' = [handle EXCEPT ![pointer[s]] = [unwrap(s) EXCEPT !.watermark = w]]
        BY <4>1 DEF unwrap
      <4> QED
        BY <4>2, <4>3, HandleType
    <3>3. HistoryType'
      BY <2>8, Zenon DEF history, HistoryType
    <3> QED
      BY <2>8, <3>2, <3>3, HandleStepType
  <2>9. CASE Watermark(s)
    <3>1. unwrap(s).watermark \in Owner
      BY <2>9, UnwrapType DEF Watermark, Handle
    <3>2. HistoryType'
      BY <2>9, <3>1, DispatchType DEF Watermark
    <3> QED
      BY <2>9, <3>2, HandleStepType DEF Watermark, module, ModuleType
  <2>10. ASSUME NEW op \in Ops, Start(s, op)
         PROVE  TypeOK'
    <3>1. issued[s][op] + 1 \in 0..MaxIds /\ <<op, issued[s][op] + 1>> \in Started
      BY <2>10, BoundsAssumption DEF Start, TypeOK, EnvoyType, Started, Ids
    <3>2. EnvoyType'
      BY <2>10, <3>1 DEF Start, TypeOK, EnvoyType
    <3>3. ModuleType' /\ SharedDataType' /\ TaskingType' /\ HistoryType'
      BY <2>10, Zenon DEF Start, module, sharedData, tasking, history,
         ModuleType, SharedDataType, TaskingType, HistoryType
    <3> QED
      BY <2>10, <3>2, <3>3 DEF Start, TypeOK
  <2>11. CASE StartReturn(s)
    <3>1. unwrap(s) \in Handle
      BY <2>11, UnwrapType DEF StartReturn, Live
    <3>2. ModuleType'
      BY <2>11, <3>1 DEF StartReturn, ModuleType, Handle, unwrap
    <3>3. EnvoyType'
      BY <2>11 DEF StartReturn, TypeOK, EnvoyType
    <3>4. SharedDataType' /\ TaskingType' /\ HistoryType'
      BY <2>11, Zenon DEF StartReturn, sharedData, tasking, history,
         SharedDataType, TaskingType, HistoryType
    <3> QED
      BY <2>11, <3>2, <3>3, <3>4 DEF StartReturn, TypeOK
  <2>12. ASSUME NEW c \in Started, NEW open, StreamEvent(s, c, open)
         PROVE  TypeOK'
    <3>1. unwrap(s).callbacks[c] \in Owner
      BY <2>12, UnwrapType, FieldTypes DEF StreamEvent, Deliverable
    <3>2. HistoryType'
      BY <2>12, <3>1, DispatchType DEF StreamEvent
    <3> QED
      BY <2>12, <3>2, HandleStepType DEF StreamEvent, module, ModuleType
  <2>13. ASSUME NEW c \in Started, NEW open, Done(s, c, open)
         PROVE  TypeOK'
    <3>1. unwrap(s) \in Handle /\ unwrap(s).callbacks[c] \in Owner
      BY <2>13, UnwrapType, FieldTypes DEF Done, Deliverable
    <3>2. HistoryType'
      BY <2>13, <3>1, DispatchType DEF Done
    <3>3. ModuleType'
      BY <2>13, <3>1 DEF Done, ModuleType, Handle, unwrap
    <3>4. EnvoyType'
      BY <2>13 DEF Done, TypeOK, EnvoyType
    <3>5. SharedDataType' /\ TaskingType'
      BY <2>13, Zenon DEF Done, sharedData, tasking, SharedDataType, TaskingType
    <3> QED
      BY <2>13, <3>2, <3>3, <3>4, <3>5 DEF Done, TypeOK
  <2>14. CASE SetData(s)
    <3>1. unwrap(s) \in Handle
      BY <2>14, UnwrapType DEF SetData, Idle, Live
    <3>2. ModuleType'
      <4>1. PICK a \in Addresses :
              handle' = [handle EXCEPT ![pointer[s]].recorded = @ \union {a}]
        BY <2>14 DEF SetData
      <4> DEFINE r == [unwrap(s) EXCEPT !.recorded = @ \union {a}]
      <4>2. r \in Handle
        BY <3>1, FieldTypes
      <4>3. handle' = [handle EXCEPT ![pointer[s]] = r]
        BY <4>1 DEF unwrap
      <4> HIDE DEF r
      <4>4. handle' \in [Handles -> Handle]
        BY <4>2, <4>3, HandleType
      <4> QED
        BY <2>14, <4>4 DEF SetData, ModuleType
    <3>3. SharedDataType'
      BY <2>14 DEF SetData, SharedDataType
    <3>4. EnvoyType' /\ TaskingType' /\ HistoryType'
      BY <2>14, Zenon DEF SetData, TypeOK, envoy, tasking, history,
         EnvoyType, TaskingType, HistoryType
    <3> QED
      BY <2>14, <3>2, <3>3, <3>4 DEF SetData, TypeOK
  <2>15. CASE GetScheduler(s)
    <3>1. unwrap(s) \in Handle
      BY <2>15, UnwrapType DEF GetScheduler, Idle, Live
    <3>2. handle' \in [Handles -> Handle]
      BY <2>15, <3>1, FieldTypes DEF GetScheduler, ModuleType, unwrap
    <3>3. HistoryType'
      BY <2>15, Zenon DEF GetScheduler, history, HistoryType
    <3> QED
      BY <2>15, <3>2, <3>3, HandleStepType DEF GetScheduler
  <2>16. ASSUME NEW t \in Tasks, Schedule(s, t)
         PROVE  TypeOK'
    <3>1. \A r \in Streams :
            /\ DOMAIN scheduler'[r] = {"next", "tasks"}
            /\ scheduler'[r].next \in Nat
            /\ DOMAIN scheduler'[r].tasks \subseteq 0..(scheduler'[r].next - 1)
            /\ \A n \in DOMAIN scheduler'[r].tasks : scheduler'[r].tasks[n] \in Tasks
      BY <2>16 DEF Schedule, TaskingType, nextTaskID
    <3>2. TaskingType'
      BY <2>16, <3>1 DEF Schedule, TaskingType
    <3>3. EnvoyType' /\ ModuleType' /\ SharedDataType' /\ HistoryType'
      BY <2>16, Zenon DEF Schedule, TypeOK, envoy, module, sharedData, history,
         EnvoyType, ModuleType, SharedDataType, HistoryType
    <3> QED
      BY <2>16, <3>2, <3>3 DEF Schedule, TypeOK
  <2>17. CASE Commit(s)
    <3>1. PICK p \in posting :
            /\ p[1] = s /\ posting' = posting \ {p}
            /\ commits' = IF host[s] = "destroyed" THEN commits
                          ELSE [commits EXCEPT ![s] = Append(@, p[2])]
      BY <2>17 DEF Commit
    <3>2. p[2] \in Nat
      BY <3>1 DEF TaskingType
    <3>3. Append(commits[s], p[2]) \in Seq(Nat)
      BY <3>2 DEF TaskingType
    <3>4. TaskingType'
      BY <2>17, <3>1, <3>3 DEF Commit, TaskingType
    <3>5. EnvoyType' /\ ModuleType' /\ SharedDataType' /\ HistoryType'
      BY <2>17, Zenon DEF Commit, TypeOK, envoy, module, sharedData, history,
         EnvoyType, ModuleType, SharedDataType, HistoryType
    <3> QED
      BY <2>17, <3>4, <3>5 DEF Commit, TypeOK
  <2>18. ASSUME NEW open, Scheduled(s, open)
         PROVE  TypeOK'
    <3> DEFINE p == unwrap(s).scheduler
               id == Head(commits[s])
               found == p # NoStream /\ open /\ id \in DOMAIN scheduler[p].tasks
    <3>1. p \in Owner
      BY <2>18, UnwrapType DEF Scheduled, Handle
    <3>2. HistoryType'
      BY <2>18, <3>1, DispatchType DEF Scheduled
    <3>3. commits' \in [Streams -> Seq(Nat)]
      BY <2>18, HeadTailProperties DEF Scheduled, TaskingType
    <3>10. UNCHANGED <<posting, submitted>>
      BY <2>18, Zenon DEF Scheduled
    <3>4. ASSUME ~found PROVE TaskingType'
      <4>1. UNCHANGED <<runs, scheduler>>
        BY <2>18, <3>4, Zenon DEF Scheduled
      <4> QED
        BY <3>3, <3>10, <4>1 DEF TaskingType
    <3>5. ASSUME found PROVE TaskingType'
      <4>1. p \in Streams /\ scheduler[p].tasks[id] \in Tasks
        BY <3>1, <3>5 DEF Owner, TaskingType
      <4>2. runs' = [runs EXCEPT ![p][scheduler[p].tasks[id]] = @ + 1]
        BY <2>18, <3>5 DEF Scheduled
      <4>3. scheduler' = [scheduler EXCEPT ![p].tasks = [n \in DOMAIN @ \ {id} |-> @[n]]]
        BY <2>18, <3>5 DEF Scheduled
      <4> HIDE DEF p, id, found
      <4>4. runs' \in [Streams -> [Tasks -> Nat]]
        BY <4>1, <4>2 DEF TaskingType
      <4>5. /\ DOMAIN scheduler' = Streams
            /\ \A r \in Streams :
                 /\ DOMAIN scheduler'[r] = {"next", "tasks"}
                 /\ scheduler'[r].next \in Nat
                 /\ DOMAIN scheduler'[r].tasks \subseteq 0..(scheduler'[r].next - 1)
                 /\ \A n \in DOMAIN scheduler'[r].tasks : scheduler'[r].tasks[n] \in Tasks
        BY <4>1, <4>3 DEF TaskingType
      <4> QED
        BY <3>3, <3>10, <4>4, <4>5 DEF TaskingType
    <3>6. TaskingType'
      BY <3>4, <3>5, Zenon
    <3>7. EnvoyType' /\ ModuleType' /\ SharedDataType'
      BY <2>18, Zenon DEF Scheduled, TypeOK, envoy, module, sharedData,
         EnvoyType, ModuleType, SharedDataType
    <3> QED
      BY <2>18, <3>2, <3>6, <3>7 DEF Scheduled, TypeOK
  <2> SharedStep(s)
    BY <1>2, Shared
  <2> QED
    BY <2>1, <2>2, <2>3, <2>4, <2>5, <2>6, <2>7, <2>8, <2>9, <2>10, <2>11, <2>12,
       <2>13, <2>14, <2>15, <2>16, <2>17, <2>18, Zenon DEF SharedStep, Response
<1> QED
  BY <1>1, <1>2 DEF Next

(* Every value of every variable is of its type, in every state.           *)
THEOREM TypeCorrect == Spec => []TypeOK
  BY TypeInit, TypeStep, PTL DEF Spec

-----------------------------------------------------------------------------
(* Whose handle a stream uses                                              *)

Serves(s) == host[s] \in {"live", "complete"}

(* Whatever r keeps is about s.                                            *)
IsOf(r, s, state) ==
    /\ r.plugin = s
    /\ r.scheduler \in {s, NoStream} /\ r.watermark \in {s, NoStream}
    /\ \A c \in Started : r.callbacks[c] \in {s, NoStream}
    /\ r.completed <=> state = "complete"
    /\ ~r.destroyed

(* Streams Envoy still calls back have handles of their own, which are not *)
(* in the pool; the handles the pool gives out are blank where it matters. *)
OwnHandles ==
    /\ \A s \in Streams : Serves(s) => IsOf(unwrap(s), s, host[s])
    /\ \A s, t \in Streams : Serves(s) /\ Serves(t) /\ pointer[s] = pointer[t] => s = t
    /\ \A h \in pool : ~Corrupt(h) /\ \A s \in Streams : Serves(s) => pointer[s] # h
    /\ \A h \in Handles : Fresh(h) => ~Corrupt(h)
    /\ \A s \in Streams : host[s] = "complete" => use.kind = "http"
    /\ NoPoolCorruption

OwnInv == TypeOK /\ OwnHandles /\ OwnCallbacksOnly

LEMMA OwnInit == Init => OwnInv
<1> SUFFICES ASSUME Init PROVE OwnInv
  OBVIOUS
<1>1. OwnHandles
  BY DEF Init, OwnHandles, Serves, Fresh, Corrupt, Blank, NoPoolCorruption
<1>2. OwnCallbacksOnly
  BY DEF Init, OwnCallbacksOnly
<1> QED
  BY <1>1, <1>2, TypeInit DEF OwnInv

LEMMA DispatchOwn ==
    ASSUME OwnCallbacksOnly, NEW s, NEW p \in {s, NoStream}, NEW allowed,
           Dispatch(s, allowed, p)
    PROVE  OwnCallbacksOnly'
  BY DEF OwnCallbacksOnly, Dispatch

(* OwnHandles is about these variables.                                    *)
LEMMA FrameOwn ==
    ASSUME OwnHandles, UNCHANGED <<use, host, pointer, module>>
    PROVE  OwnHandles'
  BY DEF OwnHandles, module, Serves, IsOf, unwrap, Corrupt, Fresh, NoPoolCorruption

(* A stream's handle is assigned, and the stream may complete.             *)
LEMMA AssignOwn ==
    ASSUME OwnInv, NEW s \in Streams, Serves(s),
           NEW r \in Handle, NEW state \in {"live", "complete"}, IsOf(r, s, state),
           state = "complete" => use.kind = "http",
           handle' = [handle EXCEPT ![pointer[s]] = r],
           host' = [host EXCEPT ![s] = state],
           UNCHANGED <<use, pointer, pool, panicked>>
    PROVE  OwnHandles'
<1>1. pointer[s] \in Handles /\ handle \in [Handles -> Handle]
      /\ host \in [Streams -> {"none", "live", "complete", "destroyed"}]
  BY UnwrapType DEF OwnInv, TypeOK, ModuleType, EnvoyType, Serves
<1>2. \A t \in Streams : Serves(t)' <=> Serves(t)
  BY <1>1 DEF Serves
<1>3. \A t \in Streams : Serves(t)' => IsOf(unwrap(t), t, host[t])'
  <2> SUFFICES ASSUME NEW t \in Streams, Serves(t) PROVE IsOf(unwrap(t)', t, host'[t])
    BY <1>2 DEF IsOf
  <2>1. CASE t = s
    BY <1>1, <2>1 DEF unwrap
  <2>2. CASE t # s
    <3>1. pointer[t] # pointer[s] /\ IsOf(unwrap(t), t, host[t])
      BY <2>2 DEF OwnInv, OwnHandles
    <3> QED
      BY <1>1, <2>2, <3>1 DEF unwrap
  <2> QED
    BY <2>1, <2>2
<1>4. \A t, u \in Streams : Serves(t)' /\ Serves(u)' /\ pointer'[t] = pointer'[u] => t = u
  BY <1>2 DEF OwnInv, OwnHandles
<1>5. \A h \in pool' : Corrupt(h)' <=> Corrupt(h)
  BY <1>1 DEF OwnInv, OwnHandles, Corrupt
<1>6. \A h \in Handles : Fresh(h)' => Fresh(h) /\ ~Corrupt(h)'
  BY <1>1 DEF OwnInv, OwnHandles, Corrupt, Fresh
<1>7. \A t \in Streams : host'[t] = "complete" => use'.kind = "http"
  BY <1>1 DEF OwnInv, OwnHandles
<1> QED
  BY <1>2, <1>3, <1>4, <1>5, <1>6, <1>7 DEF OwnInv, OwnHandles, NoPoolCorruption

(* A stream gets a handle no stream uses.                                  *)
LEMMA NewOwn ==
    ASSUME OwnInv, NEW s \in Streams, NEW h \in Handles, host[s] = "none",
           h \in pool \/ Fresh(h), New(s, h, Blank), UNCHANGED use
    PROVE  OwnHandles'
<1>1. /\ handle \in [Handles -> Handle] /\ pointer \in [Streams -> Handles \union {NoHandle}]
      /\ host \in [Streams -> {"none", "live", "complete", "destroyed"}]
  BY DEF OwnInv, TypeOK, ModuleType, EnvoyType
<1>2. \A t \in Streams : Serves(t)' <=> t = s \/ Serves(t)
  BY <1>1 DEF New, Serves
<1>3. \A t \in Streams : Serves(t) => pointer[t] # h /\ t # s
  BY <1>1 DEF OwnInv, OwnHandles, Fresh, Serves
<1>4. \A t \in Streams : Serves(t)' => IsOf(unwrap(t), t, host[t])'
  <2> SUFFICES ASSUME NEW t \in Streams, Serves(t)' PROVE IsOf(unwrap(t)', t, host'[t])
    BY DEF IsOf
  <2>1. CASE t = s
    BY <1>1, <2>1 DEF New, unwrap, Blank, IsOf
  <2>2. CASE t # s
    <3>1. unwrap(t)' = unwrap(t) /\ host'[t] = host[t]
      BY <1>1, <1>2, <1>3, <2>2 DEF New, unwrap
    <3> QED
      BY <1>2, <2>2, <3>1 DEF OwnInv, OwnHandles
  <2> QED
    BY <2>1, <2>2
<1>5. \A t, u \in Streams : Serves(t)' /\ Serves(u)' /\ pointer'[t] = pointer'[u] => t = u
  BY <1>1, <1>2, <1>3 DEF OwnInv, OwnHandles, New
<1>6. \A k \in pool' : ~Corrupt(k)' /\ \A t \in Streams : Serves(t)' => pointer'[t] # k
  BY <1>1, <1>2 DEF OwnInv, OwnHandles, New, Corrupt
<1>7. \A k \in Handles : Fresh(k)' => ~Corrupt(k)'
  <2> SUFFICES ASSUME NEW k \in Handles, Fresh(k)' PROVE ~Corrupt(k)'
    OBVIOUS
  <2>1. k # h /\ (\A t \in Streams \ {s} : pointer[t] # k)
    BY <1>1 DEF New, Fresh
  <2>2. pointer[s] # k
    BY ValuesAssumption DEF OwnInv, TypeOK, EnvoyType
  <2> QED
    BY <1>1, <2>1, <2>2 DEF OwnInv, OwnHandles, New, Fresh, Corrupt
<1>8. (\A t \in Streams : host'[t] = "complete" => use'.kind = "http") /\ NoPoolCorruption'
  BY <1>1 DEF OwnInv, OwnHandles, New, NoPoolCorruption
<1> QED
  BY <1>4, <1>5, <1>6, <1>7, <1>8 DEF OwnHandles

(* Handles of other serving streams are other handles.                     *)
LEMMA OthersKeepHandles ==
    ASSUME OwnInv, NEW s \in Streams, Serves(s), NEW r,
           handle' = [handle EXCEPT ![pointer[s]] = r], UNCHANGED pointer
    PROVE  \A t \in Streams \ {s} : Serves(t) => unwrap(t)' = unwrap(t)
  BY DEF OwnInv, OwnHandles, unwrap

(* A stream is destroyed: it no longer uses its handle, which may be pooled*)
(* if it is left blank where it matters.                                   *)
LEMMA DestroyOwn ==
    ASSUME OwnInv, NEW s \in Streams, Serves(s), NEW left, Destroy(s, left),
           \/ UNCHANGED pool
           \/ /\ pool' = pool \union {pointer[s]}
              /\ left.plugin = NoStream /\ left.scheduler = NoStream
    PROVE  OwnHandles'
<1>1. /\ handle \in [Handles -> Handle] /\ pointer[s] \in Handles
      /\ host \in [Streams -> {"none", "live", "complete", "destroyed"}]
      /\ pool \subseteq Handles
  BY UnwrapType DEF OwnInv, TypeOK, ModuleType, EnvoyType, Serves
<1>2. \A t \in Streams : Serves(t)' <=> Serves(t) /\ t # s
  BY <1>1 DEF Destroy, Serves
<1>3. \A t \in Streams : Serves(t) /\ t # s => pointer[t] # pointer[s]
  BY DEF OwnInv, OwnHandles
<1>4. \A t \in Streams : Serves(t)' => IsOf(unwrap(t), t, host[t])'
  <2> SUFFICES ASSUME NEW t \in Streams, Serves(t)' PROVE IsOf(unwrap(t)', t, host'[t])
    BY DEF IsOf
  <2>1. unwrap(t)' = unwrap(t) /\ host'[t] = host[t]
    BY <1>1, <1>2, <1>3 DEF Destroy, unwrap
  <2> QED
    BY <1>2, <2>1 DEF OwnInv, OwnHandles
<1>5. \A t, u \in Streams : Serves(t)' /\ Serves(u)' /\ pointer'[t] = pointer'[u] => t = u
  BY <1>2 DEF OwnInv, OwnHandles, Destroy
<1>6. \A k \in pool' : ~Corrupt(k)' /\ \A t \in Streams : Serves(t)' => pointer'[t] # k
  BY <1>1, <1>2, <1>3 DEF OwnInv, OwnHandles, Destroy, Corrupt
<1>7. \A k \in Handles : Fresh(k)' => ~Corrupt(k)'
  BY <1>1 DEF OwnInv, OwnHandles, Destroy, Fresh, Corrupt
<1>8. (\A t \in Streams : host'[t] = "complete" => use'.kind = "http") /\ NoPoolCorruption'
  BY <1>1 DEF OwnInv, OwnHandles, Destroy, NoPoolCorruption
<1> QED
  BY <1>4, <1>5, <1>6, <1>7, <1>8 DEF OwnHandles

LEMMA OwnStep == OwnInv /\ [Next]_vars => OwnInv'
<1> SUFFICES ASSUME OwnInv, [Next]_vars PROVE OwnInv'
  OBVIOUS
<1> TypeOK /\ OwnHandles /\ OwnCallbacksOnly
  BY DEF OwnInv
<1>1. TypeOK'
  BY TypeStep
<1>2. CASE UNCHANGED vars
  BY <1>1, <1>2, FrameOwn DEF vars, envoy, history, OwnInv, OwnCallbacksOnly
<1>3. ASSUME NEW s \in Streams, StreamStep(s)
      PROVE  OwnHandles' /\ OwnCallbacksOnly'
  \* A callback that changes no handle
  <2>1. ASSUME NEW p \in {s, NoStream}, NEW allowed, Dispatch(s, allowed, p),
               UNCHANGED <<use, host, pointer, module>>
        PROVE  OwnHandles' /\ OwnCallbacksOnly'
    BY <2>1, FrameOwn, DispatchOwn
  \* An operation that assigns the stream's handle and calls nothing back
  <2>2. ASSUME Serves(s), NEW r \in Handle, IsOf(r, s, host[s]),
               handle' = [handle EXCEPT ![pointer[s]] = r],
               UNCHANGED <<use, host, pointer, pool, panicked, reached>>
        PROVE  OwnHandles' /\ OwnCallbacksOnly'
    <3>1. /\ host' = [host EXCEPT ![s] = host[s]] /\ host[s] \in {"live", "complete"}
          /\ host[s] = "complete" => use.kind = "http"
      BY <2>2 DEF Serves, TypeOK, EnvoyType, OwnHandles
    <3>2. OwnHandles'
      BY <2>2, <3>1, AssignOwn
    <3> QED
      BY <2>2, <3>2 DEF OwnCallbacksOnly
  <2>3. ASSUME Serves(s)
        PROVE  IsOf(unwrap(s), s, host[s]) /\ unwrap(s) \in Handle /\ host[s] # "none"
    BY <2>3, UnwrapType DEF OwnHandles, Serves
  <2>4. CASE HttpNew(s)
    <3>1. PICK h \in Handles :
            /\ h \in pool \/ Fresh(h)
            /\ \/ Corrupt(h)
               \/ New(s, h, Blank)
      BY <2>4, Zenon DEF HttpNew, reset
    <3>2. New(s, h, Blank)
      BY <3>1 DEF OwnHandles
    <3>3. host[s] = "none" /\ UNCHANGED use /\ UNCHANGED reached
      BY <2>4 DEF HttpNew, Arrives, history
    <3> QED
      BY <3>1, <3>2, <3>3, NewOwn DEF OwnCallbacksOnly
  <2>5. CASE OtherNew(s)
    <3>1. host[s] = "none" /\ UNCHANGED use /\ UNCHANGED reached
      BY <2>5 DEF OtherNew, Arrives, history
    <3> QED
      BY <2>5, <3>1, NewOwn DEF OtherNew, OwnCallbacksOnly
  <2>6. CASE StreamComplete(s)
    <3> DEFINE r == [unwrap(s) EXCEPT !.completed = TRUE]
    <3>1. Serves(s) /\ IsOf(unwrap(s), s, "live") /\ unwrap(s) \in Handle
      BY <2>3, <2>6 DEF StreamComplete, Idle, Live, Serves
    <3>2. r \in Handle /\ IsOf(r, s, "complete")
      BY <3>1 DEF Handle, IsOf
    <3>3. handle' = [handle EXCEPT ![pointer[s]] = r]
      BY <2>6 DEF StreamComplete, unwrap
    <3> HIDE DEF r
    <3>4. OwnHandles'
      BY <2>6, <3>1, <3>2, <3>3, AssignOwn DEF StreamComplete
    <3>5. unwrap(s).plugin \in {s, NoStream}
      BY <3>1 DEF IsOf
    <3> QED
      BY <2>6, <3>4, <3>5, DispatchOwn DEF StreamComplete
  <2>7. CASE HttpDestroy(s)
    <3>1. Serves(s) /\ unwrap(s).plugin \in {s, NoStream} /\ unwrap(s) \in Handle
      BY <2>3, <2>7 DEF HttpDestroy, Serves, IsOf
    <3>2. retired(unwrap(s)).plugin = NoStream /\ retired(unwrap(s)).scheduler = NoStream
      BY <3>1 DEF retired, Handle
    <3>3. OwnHandles'
      BY <2>7, <3>1, <3>2, DestroyOwn DEF HttpDestroy
    <3> QED
      BY <2>7, <3>1, <3>3, DispatchOwn DEF HttpDestroy, Destroy
  <2>8. CASE OtherDestroy(s)
    <3>1. Serves(s) /\ unwrap(s).plugin \in {s, NoStream}
      BY <2>3, <2>8 DEF OtherDestroy, Serves, IsOf
    <3>2. OwnHandles'
      BY <2>8, <3>1, DestroyOwn DEF OtherDestroy
    <3> QED
      BY <2>8, <3>1, <3>2, DispatchOwn DEF OtherDestroy, Destroy
  <2>9. ASSUME NEW allowed, Callback(s, allowed)
        PROVE  OwnHandles' /\ OwnCallbacksOnly'
    <3>1. unwrap(s).plugin \in {s, NoStream}
      BY <2>3, <2>9 DEF Callback, Idle, Live, Serves, IsOf
    <3> QED
      BY <2>1, <2>9, <3>1 DEF Callback, envoy
  <2>10. CASE SendLocalResponse(s)
    <3> DEFINE r == [unwrap(s) EXCEPT !.localResponse = TRUE]
    <3>1. Serves(s) /\ IsOf(unwrap(s), s, host[s]) /\ unwrap(s) \in Handle
      BY <2>3, <2>10 DEF SendLocalResponse, Idle, Live, Serves
    <3>2. r \in Handle /\ IsOf(r, s, host[s])
      BY <3>1 DEF Handle, IsOf
    <3>3. handle' = [handle EXCEPT ![pointer[s]] = r]
      BY <2>10 DEF SendLocalResponse, unwrap
    <3> HIDE DEF r
    <3> QED
      BY <2>2, <2>10, <3>1, <3>2, <3>3 DEF SendLocalResponse, envoy
  <2>11. ASSUME NEW w \in {s, NoStream}, Idle(s),
                handle' = [handle EXCEPT ![pointer[s]].watermark = w],
                UNCHANGED <<use, envoy, pool, panicked, history>>
         PROVE  OwnHandles' /\ OwnCallbacksOnly'
    <3> DEFINE r == [unwrap(s) EXCEPT !.watermark = w]
    <3>1. Serves(s) /\ IsOf(unwrap(s), s, host[s]) /\ unwrap(s) \in Handle
      BY <2>3, <2>11 DEF Idle, Live, Serves
    <3>2. r \in Handle /\ IsOf(r, s, host[s])
      BY <3>1 DEF Handle, IsOf, Owner
    <3>3. handle' = [handle EXCEPT ![pointer[s]] = r]
      BY <2>11 DEF unwrap
    <3> HIDE DEF r
    <3> QED
      BY <2>2, <2>11, <3>1, <3>2, <3>3 DEF envoy, history
  <2>12. CASE SetDownstreamWatermarkCallbacks(s) \/ ClearDownstreamWatermarkCallbacks(s)
    BY <2>11, <2>12 DEF SetDownstreamWatermarkCallbacks, ClearDownstreamWatermarkCallbacks
  <2>13. CASE Watermark(s)
    <3>1. unwrap(s).watermark \in {s, NoStream}
      BY <2>3, <2>13 DEF Watermark, Serves, IsOf
    <3> QED
      BY <2>1, <2>13, <3>1 DEF Watermark, envoy
  <2>14. ASSUME NEW op \in Ops, Start(s, op)
         PROVE  OwnHandles' /\ OwnCallbacksOnly'
    BY <2>14, FrameOwn DEF Start, history, OwnCallbacksOnly
  <2>15. CASE StartReturn(s)
    <3> DEFINE r == [unwrap(s) EXCEPT !.callbacks =
                       [c \in Started |-> IF c \in calling[s] THEN s ELSE @[c]]]
    <3>1. Serves(s) /\ IsOf(unwrap(s), s, host[s]) /\ unwrap(s) \in Handle
      BY <2>3, <2>15 DEF StartReturn, Live, Serves
    <3>2. r \in Handle /\ IsOf(r, s, host[s])
      BY <3>1 DEF Handle, IsOf, Owner
    <3>3. handle' = [handle EXCEPT ![pointer[s]] = r]
      BY <2>15 DEF StartReturn, unwrap
    <3> HIDE DEF r
    <3> QED
      BY <2>2, <2>15, <3>1, <3>2, <3>3 DEF StartReturn, history
  <2>16. ASSUME NEW c \in Started, NEW open, StreamEvent(s, c, open)
         PROVE  OwnHandles' /\ OwnCallbacksOnly'
    <3>1. unwrap(s).callbacks[c] \in {s, NoStream}
      BY <2>3, <2>16 DEF StreamEvent, Deliverable, Serves, IsOf
    <3> QED
      BY <2>1, <2>16, <3>1 DEF StreamEvent, envoy
  <2>17. ASSUME NEW c \in Started, NEW open, Done(s, c, open)
         PROVE  OwnHandles' /\ OwnCallbacksOnly'
    <3> DEFINE r == [unwrap(s) EXCEPT !.callbacks[c] = IF open THEN NoStream ELSE @]
    <3>1. Serves(s) /\ IsOf(unwrap(s), s, host[s]) /\ unwrap(s) \in Handle
      BY <2>3, <2>17 DEF Done, Deliverable, Serves
    <3>2. r \in Handle /\ IsOf(r, s, host[s])
      BY <3>1 DEF Handle, IsOf, Owner
    <3>3. handle' = [handle EXCEPT ![pointer[s]] = r]
      BY <2>17 DEF Done, unwrap
    <3>4. host' = [host EXCEPT ![s] = host[s]] /\ host[s] \in {"live", "complete"}
      BY <2>17 DEF Done, Deliverable, TypeOK, EnvoyType
    <3> HIDE DEF r
    <3>5. UNCHANGED <<use, pointer, pool, panicked>>
      BY <2>17 DEF Done
    <3>6. host[s] = "complete" => use.kind = "http"
      BY DEF OwnHandles
    <3>7. OwnHandles'
      BY <3>1, <3>2, <3>3, <3>4, <3>5, <3>6, AssignOwn
    <3>8. unwrap(s).callbacks[c] \in {s, NoStream}
      BY <3>1 DEF IsOf
    <3> QED
      BY <2>17, <3>7, <3>8, DispatchOwn DEF Done
  <2>18. CASE SetData(s)
    <3>1. PICK a \in Addresses :
            handle' = [handle EXCEPT ![pointer[s]].recorded = @ \union {a}]
      BY <2>18 DEF SetData
    <3> DEFINE r == [unwrap(s) EXCEPT !.recorded = @ \union {a}]
    <3>2. Serves(s) /\ IsOf(unwrap(s), s, host[s]) /\ unwrap(s) \in Handle
      BY <2>3, <2>18 DEF SetData, Idle, Live, Serves
    <3>3. r \in Handle /\ IsOf(r, s, host[s])
      BY <3>2 DEF Handle, IsOf
    <3>4. handle' = [handle EXCEPT ![pointer[s]] = r]
      BY <3>1 DEF unwrap
    <3> HIDE DEF r
    <3> QED
      BY <2>2, <2>18, <3>2, <3>3, <3>4 DEF SetData, envoy, history
  <2>19. CASE GetScheduler(s)
    <3> DEFINE r == [unwrap(s) EXCEPT !.scheduler = s]
    <3>1. Serves(s) /\ IsOf(unwrap(s), s, host[s]) /\ unwrap(s) \in Handle
      BY <2>3, <2>19 DEF GetScheduler, Idle, Live, Serves
    <3>2. r \in Handle /\ IsOf(r, s, host[s])
      BY <3>1 DEF Handle, IsOf, Owner
    <3>3. handle' = [handle EXCEPT ![pointer[s]] = r]
      BY <2>19 DEF GetScheduler, unwrap
    <3> HIDE DEF r
    <3> QED
      BY <2>2, <2>19, <3>1, <3>2, <3>3 DEF GetScheduler, envoy, history
  <2>20. CASE Commit(s) \/ \E t \in Tasks : Schedule(s, t)
    BY <2>20, FrameOwn DEF Schedule, Commit, envoy, history, OwnCallbacksOnly
  <2>21. ASSUME NEW open, Scheduled(s, open)
         PROVE  OwnHandles' /\ OwnCallbacksOnly'
    <3>1. unwrap(s).scheduler \in {s, NoStream}
      BY <2>3, <2>21 DEF Scheduled, Serves, IsOf
    <3>2. \E found : Dispatch(s, found, unwrap(s).scheduler)
      BY <2>21, Zenon DEF Scheduled
    <3> QED
      BY <2>1, <2>21, <3>1, <3>2 DEF Scheduled, envoy
  <2> SharedStep(s)
    BY <1>3, Shared
  <2> QED
    BY <2>4, <2>5, <2>6, <2>7, <2>8, <2>9, <2>10, <2>12, <2>13, <2>14, <2>15, <2>16,
       <2>17, <2>18, <2>19, <2>20, <2>21, Zenon DEF SharedStep, Response
<1> QED
  BY <1>1, <1>2, <1>3 DEF Next, OwnInv

LEMMA OwnInvariant == Spec => []OwnInv
  BY OwnInit, OwnStep, PTL DEF Spec

(* Whatever handle a stream is given, and whoever used it before, every    *)
(* callback Envoy makes for the stream runs in its own filter.             *)
THEOREM CallbacksAreOwn == Spec => []OwnCallbacksOnly
  BY OwnInvariant, PTL DEF OwnInv

(* reset never panics: the pool holds no handle in use.                    *)
THEOREM PoolIsSound == Spec => []NoPoolCorruption
<1>1. OwnInv => NoPoolCorruption
  BY DEF OwnInv, OwnHandles
<1> QED
  BY <1>1, OwnInvariant, PTL

=============================================================================

----------------------- MODULE FilterHandleDataProofs -----------------------
(***************************************************************************)
(* Theorems about the data filters share through their handles: kept while *)
(* its stream lives, released when it completes, whoever reuses handles    *)
(* and addresses.                                                          *)
(***************************************************************************)
EXTENDS FilterHandleProofs

(* The registry and what handles recorded agree about live streams.        *)
DataAgrees ==
    /\ \A s \in Streams, a \in Addresses : registry[a] = s =>
         use.kind = "http" /\ host[s] = "live" /\ a \in unwrap(s).recorded
    /\ \A s \in Streams : host[s] = "live" =>
         \A a \in unwrap(s).recorded : registry[a] = s
    /\ \A s \in Streams : host[s] = "none" => metadata[s] = NoAddress
    /\ DataKept

LEMMA DataInit == Init => DataAgrees
  BY ValuesAssumption DEF Init, DataAgrees, DataKept

LEMMA FrameData ==
    ASSUME OwnInv, DataAgrees, UNCHANGED <<use, host, pointer, registry, metadata>>,
           \A h \in Handles : handle'[h].recorded = handle[h].recorded
    PROVE  DataAgrees'
<1>1. \A s \in Streams : host[s] # "none" => pointer[s] \in Handles
  BY UnwrapType DEF OwnInv
<1>2. \A s \in Streams : host[s] = "live" => unwrap(s)'.recorded = unwrap(s).recorded
  BY <1>1 DEF unwrap
<1>3. \A a \in Addresses : registry[a] # NoStream => registry[a] \in Streams
  BY DEF OwnInv, TypeOK, SharedDataType, Owner
<1> QED
  BY <1>2, <1>3 DEF DataAgrees, DataKept, GetData

LEMMA DataNew ==
    ASSUME OwnInv, DataAgrees, NEW s \in Streams, NEW h \in Handles, host[s] = "none",
           h \in pool \/ Fresh(h), New(s, h, Blank), UNCHANGED <<use, sharedData>>
    PROVE  DataAgrees'
<1>1. /\ handle \in [Handles -> Handle] /\ pointer \in [Streams -> Handles \union {NoHandle}]
      /\ host \in [Streams -> {"none", "live", "complete", "destroyed"}]
      /\ registry \in [Addresses -> Owner]
  BY DEF OwnInv, TypeOK, ModuleType, EnvoyType, SharedDataType
<1>2. \A t \in Streams \ {s} : Serves(t) => pointer[t] # h
  BY DEF OwnInv, OwnHandles, Fresh
<1>3. \A t \in Streams \ {s} :
        host'[t] = host[t] /\ (Serves(t) => unwrap(t)' = unwrap(t))
  BY <1>1, <1>2 DEF New, unwrap
<1>4. host'[s] = "live" /\ unwrap(s)'.recorded = {}
  BY <1>1 DEF New, unwrap, Blank
<1>5. UNCHANGED <<use, registry, metadata>>
  BY DEF sharedData
<1>6. \A a \in Addresses : registry[a] # NoStream => registry[a] \in Streams \ {s}
  BY <1>1 DEF DataAgrees, Owner
<1>7. DataKept'
  BY <1>3, <1>4, <1>5 DEF DataAgrees, DataKept, GetData
<1> QED
  BY <1>3, <1>4, <1>5, <1>6, <1>7 DEF DataAgrees, Serves

LEMMA DataStreamComplete ==
    ASSUME OwnInv, DataAgrees, NEW s \in Streams, StreamComplete(s)
    PROVE  DataAgrees'
<1> DEFINE r == [unwrap(s) EXCEPT !.completed = TRUE]
<1>1. Serves(s) /\ host[s] = "live" /\ pointer[s] \in Handles
  BY UnwrapType DEF StreamComplete, Idle, Live, Serves, OwnInv
<1>2. handle' = [handle EXCEPT ![pointer[s]] = r]
  BY DEF StreamComplete, unwrap
<1> HIDE DEF r
<1>3. \A t \in Streams \ {s} : Serves(t) => unwrap(t)' = unwrap(t)
  BY <1>1, <1>2, OthersKeepHandles DEF StreamComplete
<1>4. /\ \A t \in Streams \ {s} : host'[t] = host[t]
      /\ host'[s] = "complete" /\ UNCHANGED <<use, metadata>>
  BY DEF StreamComplete, OwnInv, TypeOK, EnvoyType
<1>5. \A a \in Addresses :
        registry'[a] = IF a \in unwrap(s).recorded THEN NoStream ELSE registry[a]
  BY DEF StreamComplete, clearData, unwrap
<1>6. \A a \in Addresses : registry[a] # NoStream => registry[a] \in Streams
  BY DEF OwnInv, TypeOK, SharedDataType, Owner
\* What another live stream recorded is not recorded by s.
<1>7. ASSUME NEW t \in Streams \ {s}, host[t] = "live"
      PROVE  \A a \in unwrap(t).recorded : registry'[a] = registry[a]
  <2>1. unwrap(t).recorded \subseteq Addresses
    BY <1>7, UnwrapType DEF OwnInv, Handle
  <2>2. \A a \in unwrap(t).recorded : registry[a] = t /\ a \notin unwrap(s).recorded
    BY <1>1, <1>7 DEF DataAgrees
  <2> QED
    BY <1>5, <2>1, <2>2
<1>8. ASSUME NEW t \in Streams, NEW a \in Addresses, registry'[a] = t
      PROVE  use'.kind = "http" /\ host'[t] = "live" /\ a \in unwrap(t)'.recorded
  <2>1. registry[a] = t /\ a \notin unwrap(s).recorded
    BY <1>5, <1>8, ValuesAssumption
  <2>2. t # s /\ host[t] = "live" /\ a \in unwrap(t).recorded /\ use.kind = "http"
    BY <2>1 DEF DataAgrees
  <2> QED
    BY <1>3, <1>4, <2>2 DEF Serves
<1>9. \A t \in Streams : host'[t] = "live" =>
        \A a \in unwrap(t)'.recorded : registry'[a] = t
  BY <1>3, <1>4, <1>7 DEF DataAgrees, Serves
<1>10. \A t \in Streams : host'[t] = "none" => metadata'[t] = NoAddress
  BY <1>4 DEF DataAgrees
<1>11. DataKept'
  <2> SUFFICES ASSUME NEW t \in Streams, host'[t] = "live", metadata'[t] # NoAddress
               PROVE  registry'[metadata'[t]] = t
    BY DEF DataKept, GetData
  <2>1. t # s /\ host[t] = "live" /\ metadata[t] # NoAddress /\ metadata'[t] = metadata[t]
    BY <1>4
  <2>2. registry[metadata[t]] = t /\ t # NoStream /\ metadata[t] \in Addresses
    BY <2>1, ValuesAssumption
    DEF DataAgrees, DataKept, GetData, OwnInv, TypeOK, SharedDataType
  <2>3. metadata[t] \in unwrap(t).recorded
    BY <2>2 DEF DataAgrees
  <2> QED
    BY <1>7, <2>1, <2>2, <2>3
<1> QED
  BY <1>8, <1>9, <1>10, <1>11 DEF DataAgrees

LEMMA DataDestroy ==
    ASSUME OwnInv, DataAgrees, NEW s \in Streams, Serves(s), NEW left, Destroy(s, left),
           host[s] = "complete" \/ use.kind # "http"
    PROVE  DataAgrees'
<1>1. /\ host \in [Streams -> {"none", "live", "complete", "destroyed"}]
      /\ registry \in [Addresses -> Owner]
  BY DEF OwnInv, TypeOK, EnvoyType, SharedDataType
<1>2. \A t \in Streams \ {s} : Serves(t) => unwrap(t)' = unwrap(t)
  BY OthersKeepHandles DEF Destroy
<1>3. /\ \A t \in Streams \ {s} : host'[t] = host[t]
      /\ host'[s] = "destroyed" /\ UNCHANGED <<use, registry, metadata>>
  BY <1>1 DEF Destroy, sharedData
<1>4. \A a \in Addresses : registry[a] # NoStream => registry[a] \in Streams \ {s}
  BY <1>1 DEF DataAgrees, Owner
<1>5. DataKept'
  BY <1>3 DEF DataAgrees, DataKept, GetData
<1> QED
  BY <1>2, <1>3, <1>4, <1>5 DEF DataAgrees, Serves

LEMMA DataSet ==
    ASSUME OwnInv, DataAgrees, NEW s \in Streams, SetData(s)
    PROVE  DataAgrees'
<1>1. PICK a \in Addresses :
        /\ registry[a] = NoStream /\ registry' = [registry EXCEPT ![a] = s]
        /\ metadata' = [metadata EXCEPT ![s] = a]
        /\ handle' = [handle EXCEPT ![pointer[s]].recorded = @ \union {a}]
  BY DEF SetData
<1> DEFINE r == [unwrap(s) EXCEPT !.recorded = @ \union {a}]
<1>2. /\ registry \in [Addresses -> Owner]
      /\ metadata \in [Streams -> Addresses \union {NoAddress}]
  BY DEF OwnInv, TypeOK, SharedDataType
<1>3. /\ Serves(s) /\ host[s] = "live" /\ use.kind = "http"
      /\ unwrap(s) \in Handle /\ pointer[s] \in Handles /\ handle \in [Handles -> Handle]
  BY UnwrapType DEF SetData, Idle, Live, Serves, OwnInv, TypeOK, ModuleType
<1>4. UNCHANGED <<use, host, pointer>>
  BY DEF SetData, envoy
<1>5. handle' = [handle EXCEPT ![pointer[s]] = r]
  BY <1>1 DEF unwrap
<1>6. unwrap(s)'.recorded = unwrap(s).recorded \union {a}
  BY <1>3, <1>4, <1>5 DEF unwrap, Handle
<1> HIDE DEF r
<1>7. \A t \in Streams \ {s} : Serves(t) => unwrap(t)' = unwrap(t)
  BY <1>3, <1>4, <1>5, OthersKeepHandles
\* a is recorded by no other live stream: it was registered to nobody.
<1>8. \A t \in Streams : host[t] = "live" => a \notin unwrap(t).recorded
  BY <1>1, ValuesAssumption DEF DataAgrees
<1>9. \A t \in Streams : host[t] = "live" => unwrap(t).recorded \subseteq Addresses
  BY UnwrapType DEF OwnInv, Handle
<1>10. ASSUME NEW t \in Streams, NEW b \in Addresses, registry'[b] = t
       PROVE  use'.kind = "http" /\ host'[t] = "live" /\ b \in unwrap(t)'.recorded
  <2>1. CASE b = a
    BY <1>1, <1>2, <1>3, <1>4, <1>6, <1>10, <2>1
  <2>2. CASE b # a
    <3>1. registry[b] = t
      BY <1>1, <1>2, <1>10, <2>2
    <3>2. host[t] = "live" /\ b \in unwrap(t).recorded
      BY <3>1 DEF DataAgrees
    <3> QED
      BY <1>3, <1>4, <1>6, <1>7, <3>2 DEF Serves
  <2> QED
    BY <2>1, <2>2
<1>11. \A t \in Streams : host'[t] = "live" =>
        \A b \in unwrap(t)'.recorded : registry'[b] = t
  BY <1>1, <1>2, <1>3, <1>4, <1>6, <1>7, <1>8, <1>9 DEF DataAgrees, Serves
<1>12. \A t \in Streams : host'[t] = "none" => metadata'[t] = NoAddress
  BY <1>1, <1>2, <1>3, <1>4 DEF DataAgrees
<1>13. DataKept'
  <2> SUFFICES ASSUME NEW t \in Streams, host'[t] = "live", metadata'[t] # NoAddress
               PROVE  registry'[metadata'[t]] = t
    BY DEF DataKept, GetData
  <2>1. CASE t = s
    BY <1>1, <1>2, <2>1
  <2>2. CASE t # s
    <3>1. metadata'[t] = metadata[t] /\ registry[metadata[t]] = t
          /\ metadata[t] \in Addresses /\ t # NoStream
      BY <1>1, <1>2, <1>4, <2>2, ValuesAssumption DEF DataAgrees, DataKept, GetData
    <3> QED
      BY <1>1, <1>2, <3>1
  <2> QED
    BY <2>1, <2>2
<1> QED
  BY <1>10, <1>11, <1>12, <1>13 DEF DataAgrees

LEMMA DataStep == OwnInv /\ DataAgrees /\ [Next]_vars => DataAgrees'
<1> SUFFICES ASSUME OwnInv, DataAgrees, [Next]_vars PROVE DataAgrees'
  OBVIOUS
<1>1. handle \in [Handles -> Handle]
  BY DEF OwnInv, TypeOK, ModuleType
<1>2. ASSUME UNCHANGED <<use, envoy, module, sharedData>>
      PROVE  DataAgrees'
  BY <1>2, FrameData DEF envoy, module, sharedData
<1>3. CASE UNCHANGED vars
  BY <1>2, <1>3 DEF vars
<1>4. ASSUME NEW s \in Streams, StreamStep(s)
      PROVE  DataAgrees'
  <2> USE DEF sharedData
  <2>1. CASE HttpNew(s)
    <3>1. PICK h \in Handles :
            (h \in pool \/ Fresh(h)) /\ (Corrupt(h) \/ New(s, h, Blank))
      BY <2>1, Zenon DEF HttpNew, reset
    <3>2. New(s, h, Blank)
      BY <3>1 DEF OwnInv, OwnHandles
    <3> QED
      BY <2>1, <3>1, <3>2, DataNew DEF HttpNew, Arrives
  <2>2. CASE OtherNew(s)
    BY <2>2, DataNew DEF OtherNew, Arrives
  <2>3. CASE StreamComplete(s)
    BY <2>3, DataStreamComplete
  <2>4. CASE HttpDestroy(s) \/ OtherDestroy(s)
    BY <2>4, DataDestroy DEF HttpDestroy, OtherDestroy, Serves
  <2>5. ASSUME NEW allowed, Callback(s, allowed)
        PROVE  DataAgrees'
    BY <1>2, <2>5 DEF Callback
  <2>6. CASE SendLocalResponse(s)
    BY <1>1, <2>6, FrameData DEF SendLocalResponse, envoy, Handle
  <2>7. CASE SetDownstreamWatermarkCallbacks(s) \/ ClearDownstreamWatermarkCallbacks(s)
    BY <1>1, <2>7, FrameData
    DEF SetDownstreamWatermarkCallbacks, ClearDownstreamWatermarkCallbacks, envoy, Handle
  <2>8. CASE Watermark(s)
    BY <1>2, <2>8 DEF Watermark
  <2>9. ASSUME NEW op \in Ops, Start(s, op)
        PROVE  DataAgrees'
    BY <2>9, FrameData DEF Start, module
  <2>10. CASE StartReturn(s)
    BY <1>1, <2>10, FrameData DEF StartReturn, Handle
  <2>11. ASSUME NEW c \in Started, NEW open, StreamEvent(s, c, open)
         PROVE  DataAgrees'
    BY <1>2, <2>11 DEF StreamEvent
  <2>12. ASSUME NEW c \in Started, NEW open, Done(s, c, open)
         PROVE  DataAgrees'
    BY <1>1, <2>12, FrameData DEF Done, Handle
  <2>13. CASE SetData(s)
    BY <2>13, DataSet
  <2>14. CASE GetScheduler(s)
    BY <1>1, <2>14, FrameData DEF GetScheduler, envoy, Handle
  <2>15. CASE Commit(s) \/ \E t \in Tasks : Schedule(s, t)
    BY <1>2, <2>15 DEF Commit, Schedule
  <2>16. ASSUME NEW open, Scheduled(s, open)
         PROVE  DataAgrees'
    BY <1>2, <2>16, Zenon DEF Scheduled
  <2> SharedStep(s)
    BY <1>4, Shared
  <2> QED
    BY <2>1, <2>2, <2>3, <2>4, <2>5, <2>6, <2>7, <2>8, <2>9, <2>10, <2>11, <2>12,
       <2>13, <2>14, <2>15, <2>16, Zenon DEF SharedStep, Response
<1> QED
  BY <1>3, <1>4 DEF Next

LEMMA DataInvariant == Spec => []DataAgrees
  BY OwnInvariant, DataInit, DataStep, PTL DEF Spec

(* What a live stream stored is what it finds, whoever used its handle or  *)
(* its address before.                                                     *)
THEOREM DataIsKept == Spec => []DataKept
<1>1. DataAgrees => DataKept
  BY DEF DataAgrees
<1> QED
  BY <1>1, DataInvariant, PTL

(* clearData forgets everything a completed stream stored.                 *)
THEOREM DataIsReleased == Spec => []DataReleased
<1>1. OwnInv /\ DataAgrees => DataReleased
  BY DEF DataAgrees, DataReleased, OwnInv, TypeOK, SharedDataType, Owner
<1> QED
  BY <1>1, OwnInvariant, DataInvariant, PTL

=============================================================================

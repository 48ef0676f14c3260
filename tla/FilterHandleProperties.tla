----------------------- MODULE FilterHandleProperties -----------------------
(***************************************************************************)
(* What a filter may rely on, although its handle served another stream    *)
(* before and will serve another one after.                                *)
(***************************************************************************)
EXTENDS FilterHandle

(* Every callback Envoy makes for a stream runs in the filter of that      *)
(* stream: nothing a handle keeps survives its return to the pool.         *)
OwnCallbacksOnly == \A r \in reached : r[1] = r[2]

(* No event of a live stream is dropped but the news of an operation that  *)
(* comes inside the call that starts it: the guards behind streamCompleted *)
(* and localResponseSent stop only what comes too late, and once the call  *)
(* has returned the callback of a callout stays recorded until it is done. *)
LostOnlyInline == \A r \in lost : r[2] = "inside"

(* Not even that, as callout.go:86-87 ("Envoy may fire the callback inline  *)
(* (same goroutine) before HttpCallout returns") and stream.go:137 count on*)
(* when they store the author's function before the call.                  *)
NothingLost == lost = {}

(* The handle pool never hands out a handle that is still in use: the      *)
(* panics of reset are unreachable.                                        *)
NoPoolCorruption == ~panicked

(* The data a live stream set stays registered as its own, whoever uses its*)
(* handle or its address before or after.                                  *)
DataKept == \A s \in Streams :
    host[s] = "live" /\ metadata[s] # NoAddress => GetData(s) = s

(* Data is registered for live streams only: completion releases it.       *)
DataReleased == \A a \in Addresses :
    registry[a] # NoStream => host[registry[a]] = "live"

(* Each stream's scheduler keeps the promise of shared.Scheduler: this is  *)
(* Bridge(s)!Spec for every s, with the quantifier inside the box.         *)
Bridge(s) == INSTANCE TaskBridge
    WITH submitted <- submitted[s], runs <- runs[s],
         closed <- host[s] \in {"complete", "destroyed"}

BridgeStep(s) == Bridge(s)!Next \/ UNCHANGED Bridge(s)!vars

ImplementsBridge ==
    /\ \A s \in Streams : Bridge(s)!Init
    /\ [][\A s \in Streams : BridgeStep(s)]_vars

(* The scheduler of a live stream holds the functions still to run and no  *)
(* others, each under an id that is committed or about to be: the ids that *)
(* goroutines take under schedulerLock and commit later, in any order,     *)
(* lose no function and leave none behind.  The safety half of TasksRun.   *)
TasksKept == \A s \in Streams : host[s] = "live" =>
    LET tasks == scheduler[s].tasks IN
    /\ \A t \in Tasks :
         t \in submitted[s] /\ runs[s][t] = 0 <=> \E n \in DOMAIN tasks : tasks[n] = t
    /\ \A n \in DOMAIN tasks :
         <<s, n>> \in posting \/ \E i \in DOMAIN commits[s] : commits[s][i] = n

(* A task scheduled for a live stream runs, unless the stream completes or *)
(* the module panics first.                                                *)
TasksRun == \A s \in Streams : \A t \in Tasks :
    Live(s) /\ t \in submitted[s] ~> ~Live(s) \/ runs[s][t] > 0

=============================================================================

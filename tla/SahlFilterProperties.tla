------------------------ MODULE SahlFilterProperties ------------------------
(***************************************************************************)
(* What a sahl filter must guarantee about a request, the profiles for     *)
(* which it does, and what the comments promise beyond that.               *)
(***************************************************************************)
EXTENDS SahlFilter

(* The combinations of filter and request for which the guarantees below   *)
(* hold; the runs that expect a violation each leave it in one respect.    *)
(*  - The author follows the doc comments.                                 *)
(*  - A body-aware filter starts no asynchronous operation, and its request*)
(*    has no trailers.                                                     *)
(*  - Another filter that starts one sees requests that end with the       *)
(*    headers: a body or trailers would release the request meanwhile.     *)
(*  - An observer queues metadata and counters only, and the request side  *)
(*    of its filter queues neither and starts nothing asynchronous: both   *)
(*    share one Writer.                                                    *)
Supported(p) ==
    /\ p.discipline = "full"
    /\ p.bodyAware => p.calls \intersect Async = {} /\ ~p.trailers
    /\ p.calls \intersect Async # {} => p.chunks = 0 /\ ~p.trailers
    /\ p.observes \subseteq {"meta", "counter"}
    /\ p.observer => p.calls \intersect (Async \union {"meta", "counter"}) = {}

AllSupported == \A p \in Profiles : Supported(p)

Closed == stream \in {"complete", "destroyed"}

InFlight == pending # {} \/ goroutine \in {"running", "scheduled"}

(* The request is released or answered, never both and neither twice: a    *)
(* second ContinueRequest "would double-continue and corrupt state"        *)
(* (writer.go:283), whichever of flush's callers gets there first.         *)
(* ImplementsOutcome says it and when, so the runs check that one.         *)
DecidedOnce == forwards + sent <= 1

(* While a callout, a stream or the goroutine is still at work, the request*)
(* has not gone upstream: its mutations would come too late.               *)
PausedWhileAsync == InFlight => forwards = 0

(* The request is not released before the handler has been entered, also   *)
(* when the handler is put off to the end of the body.                     *)
HandlerBeforeForward == forwards > 0 => handled

(* Each mutation the Writer accepted reaches Envoy at most once, although  *)
(* flush keeps its queues and OnStreamComplete flushes them again.         *)
MutationsAtMostOnce == \A k \in Kinds : applied[k] <= accepted[k]

(* A request answered by Send goes through no header or route mutation,    *)
(* whether Send came before or after them and from whichever thread.       *)
AnsweredUntouched == sent > 0 => applied["header"] = 0 /\ applied["route"] = 0

(* The step that releases the request leaves no accepted mutation behind,  *)
(* whatever the goroutine and the callbacks queued before it.              *)
ReleaseCarriesAll == [][forwards' > forwards => applied' = accepted']_vars

(* Once Envoy has reported the stream complete, no late callout, stream    *)
(* event, scheduled task or goroutine makes the filter continue, answer or *)
(* mutate it (the comment on sahlFilter.streamDone).                       *)
NothingAfterComplete == [][Closed => UNCHANGED effects]_vars

(* Whatever happens, sahl keeps the promise of RequestOutcome.             *)
Outcome == INSTANCE RequestOutcome WITH closed <- Closed
ImplementsOutcome == Outcome!Spec

(* The two ways of waiting for what Envoy never delivers: a body-aware     *)
(* filter stopped a request that brings it no body, or the flush task asked*)
(* for a local response that Envoy does not honour there.                  *)
NoBodyComes ==
    profile.bodyAware /\ (profile.chunks = 0 \/ ~profile.bodyAfterStopAll)

ReplyIgnored == localResp /\ goroutine = "done" /\ ~profile.scheduledReplies

(* No wake-up is lost: while a request is held, something that will decide *)
(* it is still to come, be it Envoy's completion of a callout or a stream, *)
(* the goroutine or its flush task, the callback that is about to flush, or*)
(* the body chunks a body-aware filter waits for.  None of the guards in   *)
(* front of a completion (streamDone, a nil calloutFn, a stale Writer) may *)
(* swallow the last of them; only Envoy's own two refusals may.  The safety*)
(* half of HeldIsResolved and BodyAwareHandlerRuns.                        *)
HeldHasDecider ==
    Held /\ stream = "open" /\ response # "local"
        => \/ InFlight \/ worker \in {"body", "callout", "end"} \/ ChunkDue
           \/ NoBodyComes \/ ReplyIgnored

(* A held request is released or answered, or its stream is answered by    *)
(* Envoy or completes; only a goroutine that does not return holds it, a   *)
(* panic that took the process down, or one of Envoy's two refusals.       *)
HeldIsResolved ==
    Held /\ goroutine # "running" /\ ~NoBodyComes
        ~> \/ ~Held \/ goroutine = "running" \/ ReplyIgnored
           \/ response = "local" \/ stream # "open" \/ panicked

(* A body-aware filter's handler runs unless the stream ends before, for   *)
(* every request whose body Envoy delivers.                                *)
BodyAwareHandlerRuns ==
    profile.bodyAware /\ ~NoBodyComes /\ stream = "open"
        ~> handled \/ response = "local" \/ stream # "open"

(* What filter.go:143-144 counts on: "Return Stop here so Envoy buffers the*)
(* body; handler runs when body is ready".  Nothing runs the handler of a  *)
(* request without a body, of one whose trailers end it or, by the account *)
(* api.go:20-23 gives of the status returned, of any request at all.       *)
StoppedHandlerRuns ==
    profile.bodyAware /\ stream = "open"
        ~> handled \/ response = "local" \/ stream # "open"

(* What writer.go:97-98 and 107-108 promise of Send: it "sends a local HTTP*)
(* response to the downstream client", and is "safe to call from inside    *)
(* w.Go".                                                                  *)
SendIsDelivered ==
    responded /\ goroutine # "running"
        ~> sent > 0 \/ response = "local" \/ stream # "open" \/ panicked

(* Of a request whose handler called Go the comments say both that it waits*)
(* (writer.go:280-281) and that Send works (writer.go:107-108).  This is   *)
(* the weaker claim that at least one holds, so a behaviour that refutes it*)
(* refutes the two.                                                        *)
GoWaitsOrSends == []PausedWhileAsync \/ SendIsDelivered

(* When the stream completes, the goroutine of Go is told and returns (or  *)
(* the process is already brought down by a panic).                        *)
DisconnectEndsGoroutine == Closed ~> goroutine # "running" \/ panicked

=============================================================================

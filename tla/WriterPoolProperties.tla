------------------------ MODULE WriterPoolProperties ------------------------
(***************************************************************************)
(* What a request may rely on although its filter and its Writer served    *)
(* other requests before, and what the goroutine of Go may rely on in Do.  *)
(***************************************************************************)
EXTENDS WriterPool

Over(r) == phase[r] \in {"complete", "destroyed"}

(* Writer.reset and flush: what reaches the stream of a request, mutations *)
(* and answers alike, was asked for by that request's own code.            *)
OwnEffects ==
    /\ \A a \in applied : a[2][1] = a[1]
    /\ \A a \in answered : a[2] = a[1]

(* OnDestroy: an object in a pool lies there once and serves no request,   *)
(* and no two requests share a filter or a Writer.                         *)
Serving(r) == phase[r] \in {"created", "open", "complete"}

Exclusive ==
    /\ \A f \in Filters : filterPool[f] <= 1
    /\ \A w \in Writers : writerPool[w] <= 1
    /\ \A r \in Requests : Serving(r) =>
         LET w == filter[filterOf[r]].writer IN
         /\ filterPool[filterOf[r]] = 0
         /\ w # None => writerPool[w] = 0 /\ writer[w].handle = r
         /\ \A q \in Requests \ {r} : Serving(q) => filterOf[q] # filterOf[r]

(* Neither the pool corruption check of newSahlFilter nor the checks of Go *)
(* and Do ever fire for a handler that calls Go once and Do in Go.         *)
NoPanic == ~panicked

(* goCancel: the context of a goroutine ends when its own request does or  *)
(* when it returned, never because some other request ended.               *)
CancelledByOwnEnd == \A r \in cancelled : Over(r) \/ goroutine[r] = "done"

(* The worker thread never waits in ch <-: also a result nobody waits for  *)
(* any more finds room in its channel.                                     *)
WorkerNeverBlocks == blocked = {}

(* Do returns the result of its own callout, not a late one of a call that *)
(* gave up before.                                                         *)
DoAnswersItsCall == \A a \in results : a[1] = a[2]

(* A mutation of a request's handler or goroutine is due when the request  *)
(* goes on, one of its observer when it ends.                              *)
Due(m) == IF m[2] = "observer" THEN Over(m[1]) ELSE m[1] \in released

(* "All methods are safe to call from a [Writer.Go] goroutine"             *)
(* (writer.go:11): no mutation whose Writer call returned is missing from  *)
(* what was applied when it was due.                                       *)
FlushLosesNothing == \A m \in added : Due(m) => <<m[1], m>> \in applied

(* The same comment covers Send, whose effects must then be the request's  *)
(* own.  This is the weaker claim that a Writer used from Go is safe in one*)
(* of the two respects: a state that refutes it refutes both.              *)
SafeFromGo == OwnEffects \/ FlushLosesNothing

(* What the queues do promise when handler, goroutine and observer use one *)
(* Writer: a mutation whose call met no other of them is applied when due, *)
(* through every later append, however that meets yet others, through the  *)
(* flush and through the end of the stream.                                *)
LoneAppendsAreApplied == \A m \in alone : Due(m) => <<m[1], m>> \in applied

(* A request goes on only when nothing of it can decide or change it any   *)
(* more: its handler has returned, its goroutine too, and no flush of its  *)
(* Writer waits with Envoy, although all three reach the Writer through    *)
(* flags that a pooled object brings along (goStarted, responded).         *)
ReleasedIsLast == \A r \in released :
    /\ code[r] # "handler" /\ goroutine[r] \in {"none", "done"}
    /\ \A t \in tasks : t.runs = "flush" => t.stream # r

(* Each request keeps the promise of RequestOutcome, whoever used its      *)
(* filter and its Writer before and after it: this is Outcome(r)!Spec for  *)
(* every r, with the quantifier inside the box.                            *)
Outcome(r) == INSTANCE RequestOutcome
    WITH handled <- given[r] # None,
         forwards <- IF r \in released THEN 1 ELSE 0,
         sent <- IF \E a \in answered : a[1] = r THEN 1 ELSE 0,
         closed <- Over(r)

OutcomeStep(r) == Outcome(r)!Next \/ UNCHANGED Outcome(r)!vars

ImplementsOutcomes ==
    /\ \A r \in Requests : Outcome(r)!Init
    /\ [][\A r \in Requests : OutcomeStep(r)]_vars

(* No wake-up of Do is lost: while a goroutine waits, its result is in its *)
(* channel, or the stream is open and the callout is still with Envoy or   *)
(* with the scheduler, or the context has ended.  A callout dropped by a   *)
(* guard, or a stream that ends without telling the goroutine, would leave *)
(* it in the select.  The safety half of DoReturns.                        *)
DoCanReturn == \A r \in Requests : goroutine[r] = "waiting" =>
    LET c == <<r, asked[r]>> IN
    \/ r \in cancelled
    \/ channel[ChannelOf(c)] # << >>
    \/ /\ phase[r] = "open"
       /\ \/ \E t \in tasks : t.runs = "callout" /\ t.by = c
          \/ <<r, c>> \in inflight

(* A goroutine in Do gets its result, or learns that its context ended.    *)
DoReturns == \A r \in Requests :
    goroutine[r] = "waiting" ~> goroutine[r] # "waiting" \/ panicked

=============================================================================

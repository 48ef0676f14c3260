-------------------------- MODULE ResponseObserver --------------------------
(***************************************************************************)
(* Responses passing through a sahl filter with a response handler         *)
(* (response.go, filter.go, writer.go): what the handler is shown, what    *)
(* its edits of a buffered body make of it, and what a pooled filter keeps *)
(* from one request to the next.                                           *)
(*                                                                         *)
(* One filter object serves request after request.  A piece of body is     *)
(* named by its request and its place; Envoy hands over a body as          *)
(* callbacks of several slices each, of which the last may be empty.       *)
(***************************************************************************)
EXTENDS Naturals, Sequences, SequencesExt

CONSTANTS
    Responses,   \* the responses and response handlers considered
    MaxServed,   \* bound: requests the filter object serves
    Unset        \* nil, "" and 0: nothing was stored

(* headers: those of the response the chunk has a field for; reply: Envoy  *)
(* made the response itself and says why; early: it did so before this     *)
(* filter saw the request, as when a filter in front answers; body: slices *)
(* per body callback; ends: the callback that carries the end; mutable:    *)
(* RegisterWithMutableResponse; edit: the Writer call the handler makes    *)
(* when it is told of the end.                                             *)
Fields == {"status", "contentType", "flags"}

Response ==
    [headers : SUBSET Fields, reply : BOOLEAN, early : BOOLEAN, body : Seq(Nat),
     ends : {"headers", "data", "trailers"}, mutable : BOOLEAN,
     edit : {"none", "metadata", "set", "append"}]

ASSUME ResponsesAssumption == Responses \subseteq Response
ASSUME BoundAssumption == MaxServed \in Nat

VARIABLES
    response,    \* the response of the current request
    served,      \* requests the filter object was created for
    phase,       \* pooled, created, open, headers, complete
    at,          \* body callbacks delivered
    trailed,     \* the trailers were delivered
    chunk,       \* respState.chunk: the struct every call is handed
    ctx,         \* respState.ctx: what the handler keeps between calls
    writer,      \* whether f.writer is set
    details,     \* localReplyDetails of the Writer, also of a pooled one
    buffered,    \* the body Envoy keeps for the filter
    panicked,    \* the handler used a nil Writer
    \* what happened so far, for the current request
    calls,       \* what the handler was shown
    forwarded    \* body sent on towards the client

vars == <<response, served, phase, at, trailed, chunk, ctx, writer, details,
          buffered, panicked, calls, forwarded>>

(* A slice of a body is <<request, callback, place>>; what the handler puts*)
(* into a body is <<request, 0, 0>>.                                       *)
Piece == Nat \X Nat \X Nat

BlankChunk ==
    [fields |-> [x \in Fields |-> Unset], data |-> Unset, endStream |-> FALSE]

Chunk ==
    [fields : [Fields -> Nat \union {Unset}], data : Seq(Piece) \union {Unset},
     endStream : BOOLEAN]

(* Shapes, and that a pooled filter is blank                               *)
TypeOK ==
    /\ response \in Responses /\ served \in 0..MaxServed
    /\ phase \in {"pooled", "created", "open", "headers", "complete"}
    /\ at \in 0..Len(response.body) /\ trailed \in BOOLEAN
    /\ chunk \in Chunk /\ ctx \in Nat \union {Unset}
    /\ writer \in BOOLEAN /\ details \in Nat \union {Unset}
    /\ panicked \in BOOLEAN
    /\ buffered \in Seq(Piece) /\ forwarded \in Seq(Piece)
    /\ \A i \in DOMAIN calls : calls[i].chunk \in Chunk
    /\ phase = "pooled" => chunk = BlankChunk /\ ctx = Unset /\ ~writer

Init ==
    /\ response \in Responses /\ served = 0 /\ phase = "pooled"
    /\ at = 0 /\ trailed = FALSE
    /\ chunk = BlankChunk /\ ctx = Unset
    /\ writer = FALSE /\ details = Unset /\ panicked = FALSE
    /\ buffered = << >> /\ calls = << >> /\ forwarded = << >>

-----------------------------------------------------------------------------
(* The handler: it reads the chunk, its Context and the reply's details,   *)
(* leaves its mark in Context, and when told of the end makes its Writer   *)
(* call.  Each method of a nil Writer panics: it reads a field first.      *)
Ending(shown) == shown.endStream /\ response.edit # "none"

responseFn(shown) ==
    /\ chunk' = shown
    /\ calls' = Append(calls, [chunk |-> shown, context |-> ctx,
                               details |-> IF writer THEN details ELSE Unset])
    /\ ctx' = served
    /\ panicked' = (Ending(shown) /\ ~writer)

(* SetResponseBody drains the buffered body before it appends.             *)
SetResponseBody_NoDrain(new) == buffered \o new

SetResponseBody(new) == new

AppendResponseBody(new) == buffered \o new

(* Envoy refuses the edit of a body it does not hold (abi.h:1764); whether *)
(* it holds an empty one is its own affair.                                *)
Refused == IF buffered = << >> THEN {<< >>} ELSE {}

(* What the buffered body may be after the handler                         *)
Edited(shown) ==
    LET new == << <<served, 0, 0>> >> IN
    CASE Ending(shown) /\ response.edit = "set" -> {SetResponseBody(new)} \union Refused
      [] Ending(shown) /\ response.edit = "append" ->
           {AppendResponseBody(new)} \union Refused
      [] OTHER -> {buffered}

-----------------------------------------------------------------------------
(* filter_new: the next request gets the pooled filter                     *)
NewFilter ==
    /\ phase = "pooled" /\ ~panicked /\ served < MaxServed
    /\ served' = served + 1 /\ phase' = "created"
    /\ response' \in Responses
    /\ at' = 0 /\ trailed' = FALSE
    /\ buffered' = << >> /\ calls' = << >> /\ forwarded' = << >>
    /\ UNCHANGED <<chunk, ctx, writer, details, panicked>>

(* Writer.reset, of the Writer this or another request left                *)
resetDetails_Kept == details

resetDetails == Unset

OnRequestHeaders ==
    /\ phase = "created" /\ ~response.early /\ ~panicked
    /\ phase' = "open" /\ writer' = TRUE /\ details' = resetDetails
    /\ UNCHANGED <<response, served, at, trailed, chunk, ctx, buffered, panicked, calls,
                   forwarded>>

(* Envoy has a response for this filter to see.                            *)
Answered == phase = (IF response.early THEN "created" ELSE "open") /\ ~panicked

(* OnLocalReply, before OnResponseHeaders                                  *)
OnLocalReply ==
    /\ Answered /\ response.reply
    /\ details' = IF writer THEN served ELSE details
    /\ UNCHANGED <<response, served, phase, at, trailed, chunk, ctx, writer, buffered,
                   panicked, calls, forwarded>>

(* onResponseHeaders sets a field only if the response has the header.     *)
OnResponseHeaders ==
    /\ Answered /\ (response.reply /\ writer => details = served)
    /\ phase' = "headers"
    /\ responseFn([chunk EXCEPT
                     !.fields = [x \in Fields |->
                                   IF x \in response.headers THEN served ELSE @[x]],
                     !.data = Unset, !.endStream = FALSE])
    /\ UNCHANGED <<response, served, at, trailed, writer, details, buffered, forwarded>>

(* The slices of the n-th body callback                                    *)
Received(n) == [i \in 1..response.body[n] |-> <<served, n, i>>]

(* onResponseBody shows the first slice, of an empty body an empty one.    *)
Shown_Stale(slices) ==
    IF slices # << >> THEN <<slices[1]>>
    ELSE IF chunk.data = Unset THEN << >> ELSE chunk.data

Shown(slices) == IF slices = << >> THEN << >> ELSE <<slices[1]>>

(* OnResponseBody keeps the body until its end, or lets it pass.           *)
Buffers(end) == response.mutable /\ ~end

(* The buffered body is what came before this callback (base.go:650-655):  *)
(* Continue sends it, as the handler edited it, and after it what has just *)
(* come.                                                                   *)
OnResponseBody ==
    LET n == at + 1
        end == response.ends = "data" /\ n = Len(response.body)
        shown == [chunk EXCEPT !.data = Shown(Received(n)), !.endStream = end] IN
    /\ phase = "headers" /\ ~panicked /\ at < Len(response.body)
    /\ at' = n
    /\ responseFn(shown)
    /\ \E edited \in Edited(shown) : LET body == edited \o Received(n) IN
       \/ Buffers(end) /\ buffered' = body /\ UNCHANGED forwarded
       \/ ~Buffers(end) /\ buffered' = << >> /\ forwarded' = forwarded \o body
    /\ UNCHANGED <<response, served, phase, trailed, writer, details>>

(* EmptyHttpFilter.OnResponseTrailers: Continue                            *)
OnResponseTrailers ==
    /\ phase = "headers" /\ ~panicked
    /\ response.ends = "trailers" /\ at = Len(response.body) /\ ~trailed
    /\ trailed' = TRUE
    /\ buffered' = << >> /\ forwarded' = forwarded \o buffered
    /\ UNCHANGED <<response, served, phase, at, chunk, ctx, writer, details, panicked,
                   calls>>

(* At the end of the response, or before it when a side disconnects        *)
OnStreamComplete ==
    /\ phase \in {"created", "open", "headers"} /\ ~panicked
    /\ phase' = "complete"
    /\ UNCHANGED <<response, served, at, trailed, chunk, ctx, writer, details, buffered,
                   panicked, calls, forwarded>>

(* OnDestroy, with responseState.reset                                     *)
resetChunk == BlankChunk

OnDestroy ==
    /\ phase = "complete" /\ ~panicked
    /\ phase' = "pooled"
    /\ writer' = FALSE
    /\ ctx' = Unset /\ chunk' = resetChunk
    /\ UNCHANGED <<response, served, at, trailed, details, buffered, panicked, calls,
                   forwarded>>

Next ==
    \/ NewFilter \/ OnRequestHeaders \/ OnLocalReply
    \/ OnResponseHeaders \/ OnResponseBody \/ OnResponseTrailers
    \/ OnStreamComplete \/ OnDestroy

Spec == Init /\ [][Next]_vars

-----------------------------------------------------------------------------
Data == [i \in 1..at |-> Received(i)]

(* Whether the whole response went through the filter                      *)
Finished ==
    \/ response.ends = "data" /\ 0 < at /\ at = Len(response.body)
    \/ trailed

(* OnDestroy and reset: status, content type, flags, Context and reply     *)
(* details of a call are those of the request it is about, or not set in a *)
(* body call, although the structs they are kept in are pooled.            *)
OwnResponseOnly ==
    \A i \in DOMAIN calls :
        /\ \A x \in Fields :
              LET own == IF x \in response.headers THEN served ELSE Unset IN
              /\ calls[1].chunk.fields[x] = own
              /\ calls[i].chunk.fields[x] \in {own, Unset}
        /\ calls[i].context = (IF i = 1 THEN Unset ELSE served)
        /\ calls[i].details = IF response.reply /\ ~response.early THEN served ELSE Unset

(* "Set on the headers call; 0 during body calls." (response.go:22)        *)
StatusOnHeadersOnly ==
    \A i \in DOMAIN calls : i > 1 => calls[i].chunk.fields["status"] = Unset

(* "Data is the current body chunk": put together, what the calls were     *)
(* shown is the body so far.                                               *)
ObservesWholeBody ==
    calls # << >> =>
        FlattenSeq([i \in 1..at |-> calls[i + 1].chunk.data]) = FlattenSeq(Data)

(* "EndStream is true on the final OnResponseBody call" (response.go:17)   *)
FinalCallEndsStream ==
    Finished /\ at > 0 => calls[Len(calls)].chunk.endStream

(* The body the first n callbacks brought                                  *)
Kept(n) == FlattenSeq([i \in 1..n |-> Received(i)])

EditsBody == response.edit \in {"set", "append"}

(* SetResponseBody "replaces the entire buffered response body"            *)
(* (writer.go:254) and AppendResponseBody adds to its end: what the client *)
(* gets of a mutable response once it is through                           *)
DeliveredAsEdited ==
    Finished /\ response.mutable /\ EditsBody =>
        forwarded = (IF response.edit = "set" THEN << >> ELSE Kept(at))
                    \o << <<served, 0, 0>> >>

(* OnResponseBody, for every response: an observed body passes at once and *)
(* as it is; of a mutable one nothing passes before its end.  An edit is   *)
(* made of what the callbacks before the last brought, and what the last   *)
(* one brings follows it; it is lost only if they brought nothing, if the  *)
(* response is not mutable, or if trailers end it.                         *)
KeptIsEdited ==
    LET new == << <<served, 0, 0>> >>
        kept == Kept(at - 1)
        set == response.mutable /\ response.edit = "set" IN
    IF EditsBody /\ Finished /\ ~trailed
    THEN \/ forwarded = (IF set THEN new ELSE kept \o new) \o Received(at)
         \/ /\ kept = << >> \/ ~response.mutable
            /\ forwarded = kept \o Received(at)
    ELSE forwarded = IF response.mutable /\ ~Finished THEN << >> ELSE Kept(at)

(* A handler that makes its Writer calls on the last call, as its comment  *)
(* asks, does not bring the process down.                                  *)
NoPanic == ~panicked

(* Three comments say what a handler may expect of a call: that its final  *)
(* Writer calls work (response.go:65-66), that StatusCode is 0 but in the  *)
(* first (21-22) and that Data is the chunk (15-16, 42).  This is the      *)
(* weaker claim that one of them holds: a state that refutes it refutes all*)
(* three.                                                                  *)
CallsAsDocumented == NoPanic \/ StatusOnHeadersOnly \/ ObservesWholeBody

=============================================================================

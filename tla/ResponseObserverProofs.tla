----------------------- MODULE ResponseObserverProofs -----------------------
(***************************************************************************)
(* What every response handler may rely on, for every set of responses and *)
(* every number of requests a filter object serves.                        *)
(***************************************************************************)
EXTENDS ResponseObserver, SequenceTheorems, TLAPS

-----------------------------------------------------------------------------
(* Types                                                                   *)

Call == [chunk : Chunk, context : Nat \union {Unset}, details : Nat \union {Unset}]

Typed == TypeOK /\ calls \in Seq(Call)

LEMMA ResponseType ==
    ASSUME NEW r \in Responses
    PROVE  /\ r.body \in Seq(Nat) /\ r.headers \subseteq Fields
           /\ Len(r.body) \in Nat
           /\ \A n \in 1..Len(r.body) : r.body[n] \in Nat
<1>1. r \in Response
  BY ResponsesAssumption
<1>2. r.body \in Seq(Nat) /\ r.headers \subseteq Fields
  BY <1>1 DEF Response
<1> QED
  BY <1>2

LEMMA BlankType == BlankChunk \in Chunk
  BY DEF BlankChunk, Chunk

LEMMA HandlerTyped ==
    ASSUME Typed, NEW shown \in Chunk, responseFn(shown), served \in Nat
    PROVE  /\ chunk' \in Chunk /\ calls' \in Seq(Call)
           /\ ctx' \in Nat \union {Unset} /\ panicked' \in BOOLEAN
<1>1. [chunk |-> shown, context |-> ctx,
       details |-> IF writer THEN details ELSE Unset] \in Call
  BY DEF Typed, TypeOK, Call
<1> QED
  BY <1>1 DEF Typed, TypeOK, responseFn

LEMMA ReceivedType ==
    ASSUME Typed, NEW n \in 1..Len(response.body)
    PROVE  /\ Received(n) \in Seq(Piece)
           /\ Shown(Received(n)) \in Seq(Piece)
<1>1. response.body[n] \in Nat /\ Len(response.body) \in Nat
  BY ResponseType DEF Typed, TypeOK
<1>2. served \in Nat /\ n \in Nat
  BY <1>1, BoundAssumption DEF Typed, TypeOK
<1>3. \A i \in 1..response.body[n] : <<served, n, i>> \in Piece
  BY <1>1, <1>2 DEF Piece
<1>4. Received(n) \in Seq(Piece)
  BY <1>1, <1>3 DEF Received
<1>5. Received(n) # << >> => Received(n)[1] \in Piece
  BY <1>4
<1> QED
  BY <1>4, <1>5 DEF Shown

LEMMA EditedType ==
    ASSUME Typed, NEW shown, NEW edited \in Edited(shown)
    PROVE  edited \in Seq(Piece)
<1> DEFINE new == << <<served, 0, 0>> >>
<1>1. new \in Seq(Piece) /\ buffered \in Seq(Piece)
  BY BoundAssumption DEF Typed, TypeOK, Piece
<1>2. edited \in {new, buffered \o new, buffered, << >>}
  BY DEF Edited, Refused, SetResponseBody, AppendResponseBody
<1>3. buffered \o new \in Seq(Piece) /\ << >> \in Seq(Piece)
  BY <1>1
<1> QED
  BY <1>1, <1>2, <1>3

(* A filter that has shown or kept nothing *)
LEMMA NothingYet ==
    ASSUME NEW q, q = << >>
    PROVE  q \in Seq(Call) /\ q \in Seq(Piece) /\ DOMAIN q = {}
  OBVIOUS

LEMMA CallChunks ==
    ASSUME NEW q \in Seq(Call)
    PROVE  \A i \in DOMAIN q : q[i].chunk \in Chunk
<1>1. \A i \in DOMAIN q : q[i] \in Call
  OBVIOUS
<1> QED
  BY <1>1 DEF Call

LEMMA Joined ==
    ASSUME NEW p \in Seq(Piece), NEW q \in Seq(Piece)
    PROVE  p \o q \in Seq(Piece)
  OBVIOUS

LEMMA TypeInit == Init => Typed
<1> SUFFICES ASSUME Init PROVE Typed
  OBVIOUS
<1>1. 0 \in 0..MaxServed /\ 0 \in 0..Len(response.body)
  BY BoundAssumption, ResponseType DEF Init
<1>2. calls \in Seq(Call) /\ DOMAIN calls = {}
  BY NothingYet DEF Init
<1>3. buffered \in Seq(Piece) /\ forwarded \in Seq(Piece)
  BY NothingYet DEF Init
<1>4. chunk \in Chunk
  BY BlankType DEF Init
<1> QED
  BY <1>1, <1>2, <1>3, <1>4 DEF Init, Typed, TypeOK

LEMMA TypeStep == Typed /\ [Next]_vars => Typed'
<1> SUFFICES ASSUME Typed, [Next]_vars PROVE Typed'
  OBVIOUS
<1>1. served \in Nat /\ MaxServed \in Nat
  BY BoundAssumption DEF Typed, TypeOK
<1>2. CASE NewFilter
  <2>1. response' \in Responses /\ 0 \in 0..Len(response'.body)
    BY <1>2, ResponseType DEF NewFilter
  <2>2. served' \in 0..MaxServed
    BY <1>1, <1>2 DEF NewFilter, Typed, TypeOK
  <2>3. calls' \in Seq(Call) /\ DOMAIN calls' = {}
    BY <1>2, NothingYet DEF NewFilter
  <2>4. buffered' \in Seq(Piece) /\ forwarded' \in Seq(Piece)
    BY <1>2, NothingYet DEF NewFilter
  <2> QED
    BY <1>2, <2>1, <2>2, <2>3, <2>4 DEF NewFilter, Typed, TypeOK
<1>3. CASE OnRequestHeaders
  BY <1>3 DEF OnRequestHeaders, resetDetails, Typed, TypeOK
<1>4. CASE OnLocalReply
  BY <1>1, <1>4 DEF OnLocalReply, Answered, Typed, TypeOK
<1>5. CASE OnResponseHeaders
  <2> DEFINE shown == [chunk EXCEPT
                         !.fields = [x \in Fields |->
                                       IF x \in response.headers THEN served ELSE @[x]],
                         !.data = Unset, !.endStream = FALSE]
  <2>1. shown \in Chunk
    BY <1>1 DEF Typed, TypeOK, Chunk
  <2>2. responseFn(shown)
    BY <1>5 DEF OnResponseHeaders
  <2> HIDE DEF shown
  <2>3. /\ chunk' \in Chunk /\ calls' \in Seq(Call)
        /\ ctx' \in Nat \union {Unset} /\ panicked' \in BOOLEAN
    BY <1>1, <2>1, <2>2, HandlerTyped
  <2>4. \A i \in DOMAIN calls' : calls'[i].chunk \in Chunk
    BY <2>3, CallChunks
  <2> QED
    BY <1>5, <2>3, <2>4 DEF OnResponseHeaders, Typed, TypeOK
<1>6. CASE OnResponseBody
  <2> DEFINE end == response.ends = "data" /\ at + 1 = Len(response.body)
             shown == [chunk EXCEPT !.data = Shown(Received(at + 1)), !.endStream = end]
             body(edited) == edited \o Received(at + 1)
  <2>1. at + 1 \in 1..Len(response.body)
    BY <1>6, ResponseType DEF OnResponseBody, Typed, TypeOK
  <2>2. Received(at + 1) \in Seq(Piece) /\ Shown(Received(at + 1)) \in Seq(Piece)
    BY <2>1, ReceivedType
  <2>3. shown \in Chunk
    BY <2>2 DEF Typed, TypeOK, Chunk
  <2>4. PICK edited \in Edited(shown) :
          /\ responseFn(shown)
          /\ \/ buffered' = body(edited) /\ UNCHANGED forwarded
             \/ buffered' = << >> /\ forwarded' = forwarded \o body(edited)
          /\ at' = at + 1
    BY <1>6 DEF OnResponseBody
  <2>5. body(edited) \in Seq(Piece)
    BY <2>2, EditedType, Joined
  <2>6. buffered' \in Seq(Piece) /\ forwarded' \in Seq(Piece)
    <3>1. buffered \in Seq(Piece) /\ forwarded \in Seq(Piece)
      BY DEF Typed, TypeOK
    <3>2. forwarded \o body(edited) \in Seq(Piece)
      BY <2>5, <3>1, Joined
    <3>3. << >> \in Seq(Piece)
      BY NothingYet
    <3> HIDE DEF body, shown
    <3> QED
      BY <2>4, <2>5, <3>1, <3>2, <3>3
  <2> HIDE DEF shown
  <2>7. /\ chunk' \in Chunk /\ calls' \in Seq(Call)
        /\ ctx' \in Nat \union {Unset} /\ panicked' \in BOOLEAN
    BY <1>1, <2>3, <2>4, HandlerTyped
  <2>8. \A i \in DOMAIN calls' : calls'[i].chunk \in Chunk
    BY <2>7, CallChunks
  <2>9. at' \in 0..Len(response.body)
    BY <2>1, <2>4
  <2>10. UNCHANGED <<response, served, phase, trailed, writer, details>> /\ phase = "headers"
    BY <1>6 DEF OnResponseBody
  <2> QED
    BY <2>6, <2>7, <2>8, <2>9, <2>10 DEF Typed, TypeOK
<1>7. CASE OnResponseTrailers
  <2>1. buffered' \in Seq(Piece) /\ forwarded' \in Seq(Piece)
    BY <1>7, NothingYet DEF OnResponseTrailers, Typed, TypeOK
  <2> QED
    BY <1>7, <2>1 DEF OnResponseTrailers, Typed, TypeOK
<1>8. CASE OnStreamComplete
  BY <1>8 DEF OnStreamComplete, Typed, TypeOK
<1>9. CASE OnDestroy
  BY <1>9, BlankType DEF OnDestroy, resetChunk, Typed, TypeOK
<1>10. CASE UNCHANGED vars
  BY <1>10 DEF vars, Typed, TypeOK, Received
<1> QED
  BY <1>2, <1>3, <1>4, <1>5, <1>6, <1>7, <1>8, <1>9, <1>10 DEF Next

(* Every variable keeps its type, and a filter in the pool is as new.      *)
THEOREM TypeCorrect == Spec => []TypeOK
<1>1. Typed => TypeOK
  BY DEF Typed
<1> QED
  BY <1>1, TypeInit, TypeStep, PTL DEF Spec

-----------------------------------------------------------------------------
(* Own values                                                              *)

OwnFields == [x \in Fields |-> IF x \in response.headers THEN served ELSE Unset]

OwnDetails == IF response.reply /\ ~response.early THEN served ELSE Unset

(* Between requests, and until the response's headers, the pooled structs  *)
(* are as new ...                                                          *)
BlankBefore ==
    phase \in {"pooled", "created", "open"} =>
        /\ chunk = BlankChunk /\ ctx = Unset
        /\ writer <=> phase = "open"
        /\ phase # "pooled" => calls = << >>

(* ... but for the reply details, which come before those headers; ...     *)
DetailsBefore ==
    phase = "open" =>
        ~response.early /\ (details = Unset \/ (details = served /\ response.reply))

(* ... from then on they hold the current request's values.                *)
OwnDuring ==
    phase = "headers" =>
        /\ chunk.fields = OwnFields /\ ctx = served /\ calls # << >>
        /\ writer <=> ~response.early
        /\ writer => details = OwnDetails

(* Every call so far showed them: the fields of the headers are not        *)
(* cleared for the calls of the body.                                      *)
OwnShown ==
    \A i \in DOMAIN calls :
        /\ \A x \in Fields : calls[i].chunk.fields[x] =
              IF x \in response.headers THEN served ELSE Unset
        /\ calls[i].context = (IF i = 1 THEN Unset ELSE served)
        /\ calls[i].details = OwnDetails

OwnInv == Typed /\ BlankBefore /\ DetailsBefore /\ OwnDuring /\ OwnShown

LEMMA OwnInit == Init => OwnInv
  BY TypeInit DEF Init, OwnInv, BlankBefore, DetailsBefore, OwnDuring, OwnShown

(* The handler is shown the fields, the Context and the details of its own *)
(* request if the structs hold them.                                       *)
LEMMA HandlerShown ==
    ASSUME Typed, OwnShown, NEW shown \in Chunk, responseFn(shown),
           shown.fields = OwnFields,
           ctx = (IF calls = << >> THEN Unset ELSE served),
           (IF writer THEN details ELSE Unset) = OwnDetails,
           UNCHANGED <<response, served>>
    PROVE  OwnShown' /\ calls' # << >> /\ ctx' = served /\ chunk' = shown
<1> DEFINE call == [chunk |-> shown, context |-> ctx,
                    details |-> IF writer THEN details ELSE Unset]
<1>1. calls' = Append(calls, call) /\ ctx' = served /\ chunk' = shown
  BY DEF responseFn
<1>2. /\ call.chunk = shown /\ call.context = ctx
      /\ call.details = OwnDetails
  OBVIOUS
<1> HIDE DEF call
<1>3. /\ Len(calls) \in Nat /\ DOMAIN calls = 1..Len(calls)
      /\ (calls = << >> <=> Len(calls) = 0)
      /\ DOMAIN calls' = 1..(Len(calls) + 1)
      /\ calls'[Len(calls) + 1] = call
      /\ \A i \in 1..Len(calls) : calls'[i] = calls[i]
  BY <1>1 DEF Typed
<1>4. \A x \in Fields : shown.fields[x] = IF x \in response.headers THEN served ELSE Unset
  BY DEF OwnFields
<1>5. ASSUME NEW i \in DOMAIN calls'
      PROVE  /\ \A x \in Fields : calls'[i].chunk.fields[x] =
                   IF x \in response.headers THEN served ELSE Unset
             /\ calls'[i].context = (IF i = 1 THEN Unset ELSE served)
             /\ calls'[i].details = OwnDetails
  <2>1. CASE i \in 1..Len(calls)
    BY <1>3, <2>1 DEF OwnShown, OwnDetails
  <2>2. CASE i = Len(calls) + 1
    <3>1. calls'[i] = call /\ (i = 1 <=> calls = << >>)
      BY <1>3, <2>2
    <3> QED
      BY <1>2, <1>4, <3>1
  <2> QED
    BY <1>3, <1>5, <2>1, <2>2
<1>6. OwnShown'
  BY <1>5 DEF OwnShown, OwnDetails
<1> QED
  BY <1>1, <1>3, <1>6

LEMMA OwnStep == OwnInv /\ [Next]_vars => OwnInv'
<1> SUFFICES ASSUME OwnInv, [Next]_vars PROVE OwnInv'
  OBVIOUS
<1>1. Typed'
  BY TypeStep DEF OwnInv
<1> USE DEF OwnInv, BlankBefore, DetailsBefore, OwnDuring
<1>2. CASE NewFilter
  <2>1. OwnShown'
    BY <1>2 DEF NewFilter, OwnShown, OwnDetails
  <2> QED
    BY <1>1, <1>2, <2>1 DEF NewFilter
<1>3. CASE OnRequestHeaders
  <2>1. OwnShown'
    BY <1>3 DEF OnRequestHeaders, OwnShown, OwnDetails
  <2>2. /\ phase = "created" /\ phase' = "open" /\ writer' = TRUE /\ details' = Unset
        /\ ~response.early /\ UNCHANGED <<response, chunk, ctx, calls>>
    BY <1>3 DEF OnRequestHeaders, resetDetails
  <2> QED
    BY <1>1, <2>1, <2>2
<1>4. CASE OnLocalReply
  <2>1. OwnShown'
    BY <1>4 DEF OnLocalReply, OwnShown, OwnDetails
  <2> QED
    BY <1>1, <1>4, <2>1 DEF OnLocalReply, Answered
<1>5. CASE OnResponseHeaders
  <2> DEFINE shown == [chunk EXCEPT
                         !.fields = [x \in Fields |->
                                       IF x \in response.headers THEN served ELSE @[x]],
                         !.data = Unset, !.endStream = FALSE]
  <2>1. /\ chunk = BlankChunk /\ ctx = Unset /\ calls = << >>
        /\ writer <=> ~response.early
    BY <1>5 DEF OnResponseHeaders, Answered
  <2>2. shown.fields = OwnFields
    BY <2>1 DEF BlankChunk, OwnFields
  <2>3. shown \in Chunk
    <3>1. served \in Nat /\ chunk \in Chunk
      BY BoundAssumption DEF Typed, TypeOK
    <3> QED
      BY <3>1 DEF Chunk
  <2>4. (IF writer THEN details ELSE Unset) = OwnDetails
    <3>1. response.reply /\ writer => details = served
      BY <1>5 DEF OnResponseHeaders
    <3>2. writer => details = Unset \/ (details = served /\ response.reply)
      BY <1>5, <2>1 DEF OnResponseHeaders, Answered
    <3> QED
      BY <2>1, <3>1, <3>2 DEF OwnDetails
  <2>5. /\ responseFn(shown) /\ phase' = "headers"
        /\ UNCHANGED <<response, served, writer, details>>
    BY <1>5 DEF OnResponseHeaders
  <2> HIDE DEF shown
  <2>6. OwnShown' /\ calls' # << >> /\ ctx' = served /\ chunk' = shown
    BY <2>1, <2>2, <2>3, <2>4, <2>5, HandlerShown
  <2>7. OwnFields' = OwnFields /\ OwnDetails' = OwnDetails
    BY <2>5 DEF OwnFields, OwnDetails
  <2>8. phase' # "open" /\ phase' \notin {"pooled", "created", "open"}
    BY <2>5
  <2>9. OwnDuring'
    BY <2>1, <2>2, <2>4, <2>5, <2>6, <2>7
  <2> QED
    BY <1>1, <2>6, <2>8, <2>9
<1>6. CASE OnResponseBody
  <2> DEFINE end == response.ends = "data" /\ at + 1 = Len(response.body)
             shown == [chunk EXCEPT !.data = Shown(Received(at + 1)), !.endStream = end]
  <2>1. /\ chunk.fields = OwnFields /\ ctx = served /\ calls # << >>
        /\ (IF writer THEN details ELSE Unset) = OwnDetails
    BY <1>6 DEF OnResponseBody, OwnDetails
  <2>2. shown.fields = OwnFields
    BY <2>1 DEF Typed, TypeOK, Chunk
  <2>3. at + 1 \in 1..Len(response.body)
    BY <1>6, ResponseType DEF OnResponseBody, Typed, TypeOK
  <2>4. shown \in Chunk
    BY <2>3, ReceivedType DEF Typed, TypeOK, Chunk
  <2>5. /\ responseFn(shown) /\ phase = "headers"
        /\ UNCHANGED <<response, served, phase, writer, details>>
    BY <1>6 DEF OnResponseBody
  <2> HIDE DEF shown
  <2>6. OwnShown' /\ calls' # << >> /\ ctx' = served /\ chunk' = shown
    BY <2>1, <2>2, <2>4, <2>5, HandlerShown
  <2>7. OwnFields' = OwnFields /\ OwnDetails' = OwnDetails
    BY <2>5 DEF OwnFields, OwnDetails
  <2> QED
    BY <1>1, <2>1, <2>2, <2>5, <2>6, <2>7
<1>7. CASE OnResponseTrailers
  BY <1>1, <1>7 DEF OnResponseTrailers, OwnShown, OwnFields, OwnDetails
<1>8. CASE OnStreamComplete
  BY <1>1, <1>8 DEF OnStreamComplete, OwnShown, OwnDetails
<1>9. CASE OnDestroy
  BY <1>1, <1>9 DEF OnDestroy, resetChunk, OwnShown, OwnDetails
<1>10. CASE UNCHANGED vars
  BY <1>1, <1>10 DEF vars, OwnShown, OwnFields, OwnDetails
<1> QED
  BY <1>2, <1>3, <1>4, <1>5, <1>6, <1>7, <1>8, <1>9, <1>10 DEF Next

(* OnDestroy, reset: no call shows a status, content type, flags, Context  *)
(* or reply details of another request than the one it is about, however   *)
(* many requests the pooled filter served before and whatever their        *)
(* responses were.                                                         *)
THEOREM ObserverSeesOwnResponse == Spec => []OwnResponseOnly
<1>1. OwnInv => OwnResponseOnly
  <2> SUFFICES ASSUME OwnInv, NEW i \in DOMAIN calls
               PROVE  /\ 1 \in DOMAIN calls
                      /\ calls[i].context = (IF i = 1 THEN Unset ELSE served)
                      /\ calls[i].details = OwnDetails
                      /\ \A x \in Fields : calls[i].chunk.fields[x] =
                           IF x \in response.headers THEN served ELSE Unset
    BY DEF OwnResponseOnly, OwnInv, OwnShown, OwnDetails
  <2>1. calls \in Seq(Call)
    BY DEF OwnInv, Typed
  <2>2. 1 \in DOMAIN calls
    BY <2>1
  <2> QED
    BY <2>2 DEF OwnInv, OwnShown
<1> QED
  BY <1>1, OwnInit, OwnStep, PTL DEF Spec

-----------------------------------------------------------------------------
(* The handler's Writer                                                    *)

(* The handler's Writer is nil only in a request that Envoy answered before*)
(* this filter saw it: if no handler makes a Writer call in those, none    *)
(* brings the process down.                                                *)
THEOREM WriterIsThere ==
    ASSUME \A r \in Responses : r.early => r.edit = "none"
    PROVE  Spec => []NoPanic
<1> DEFINE Inv == OwnInv /\ NoPanic
<1>1. Init => Inv
  BY OwnInit DEF Init, NoPanic
<1>2. Inv /\ [Next]_vars => Inv'
  <2> SUFFICES ASSUME OwnInv, NoPanic, [Next]_vars PROVE NoPanic'
    BY OwnStep
  <2>1. response \in Responses
    BY DEF OwnInv, Typed, TypeOK
  <2>2. ASSUME NEW shown, responseFn(shown), writer <=> ~response.early
        PROVE  NoPanic'
    BY <2>1, <2>2 DEF responseFn, Ending, NoPanic
  <2>3. CASE OnResponseHeaders
    BY <2>2, <2>3 DEF OnResponseHeaders, Answered, OwnInv, BlankBefore, DetailsBefore
  <2>4. CASE OnResponseBody
    BY <2>2, <2>4 DEF OnResponseBody, OwnInv, OwnDuring
  <2>5. CASE ~OnResponseHeaders /\ ~OnResponseBody
    BY <2>5 DEF Next, vars, NewFilter, OnRequestHeaders, OnLocalReply, OnResponseTrailers,
       OnStreamComplete, OnDestroy, NoPanic
  <2> QED
    BY <2>3, <2>4, <2>5
<1>3. Inv => NoPanic
  OBVIOUS
<1> QED
  BY <1>1, <1>2, <1>3, PTL DEF Spec

-----------------------------------------------------------------------------
(* The whole body                                                          *)

(* Envoy hands a body over one slice at a time.                            *)
OneSlice == \A r \in Responses : \A n \in 1..Len(r.body) : r.body[n] <= 1

(* After the call for the headers there was one for each body callback,    *)
(* with what it brought.                                                   *)
BodyShown ==
    /\ phase \in {"created", "open"} => at = 0
    /\ calls # << >> =>
         /\ Len(calls) = at + 1
         /\ \A i \in 1..at : calls[i + 1].chunk.data = Received(i)

BodyInv == OwnInv /\ BodyShown

LEMMA BodyFrame ==
    ASSUME BodyShown, UNCHANGED <<response, served, calls, at>>,
           phase' \in {"created", "open"} => phase \in {"created", "open"}
    PROVE  BodyShown'
  BY DEF BodyShown, Received

(* The first slice of at most one is all of it.                            *)
LEMMA ShownIsReceived ==
    ASSUME OneSlice, Typed, NEW n \in 1..Len(response.body)
    PROVE  Shown(Received(n)) = Received(n)
<1>1. response.body[n] \in Nat /\ response.body[n] <= 1
  BY ResponseType DEF Typed, TypeOK, OneSlice
<1>2. CASE response.body[n] = 0
  <2>1. Received(n) = << >>
    BY <1>2 DEF Received
  <2> QED
    BY <2>1 DEF Shown
<1>3. CASE response.body[n] = 1
  <2>1. Received(n) = << <<served, n, 1>> >>
    BY <1>3 DEF Received
  <2> QED
    BY <2>1 DEF Shown
<1> QED
  BY <1>1, <1>2, <1>3

LEMMA BodyStep ==
    ASSUME OneSlice
    PROVE  BodyInv /\ [Next]_vars => BodyInv'
<1> SUFFICES ASSUME BodyInv, [Next]_vars PROVE BodyShown'
  BY OwnStep DEF BodyInv
<1>1. Typed /\ Len(calls) \in Nat /\ at \in Nat /\ Len(response.body) \in Nat
  BY ResponseType DEF BodyInv, OwnInv, Typed, TypeOK
<1>2. CASE NewFilter
  BY <1>2 DEF NewFilter, BodyShown
<1>3. CASE OnResponseHeaders
  <2>1. phase \in {"created", "open"} /\ calls = << >> /\ at' = at /\ phase' = "headers"
    BY <1>3 DEF OnResponseHeaders, Answered, BodyInv, OwnInv, BlankBefore
  <2>2. at = 0
    BY <2>1 DEF BodyInv, BodyShown
  <2>3. PICK call : calls' = Append(calls, call)
    BY <1>3 DEF OnResponseHeaders, responseFn
  <2>4. Len(calls') = 1
    BY <2>1, <2>3
  <2> QED
    BY <2>1, <2>2, <2>4 DEF BodyShown
<1>4. CASE OnResponseBody
  <2> DEFINE n == at + 1
             end == response.ends = "data" /\ n = Len(response.body)
             shown == [chunk EXCEPT !.data = Shown(Received(n)), !.endStream = end]
             call == [chunk |-> shown, context |-> ctx,
                      details |-> IF writer THEN details ELSE Unset]
  <2>1. /\ calls' = Append(calls, call) /\ at' = n /\ phase = "headers"
        /\ UNCHANGED <<response, served, phase>>
    BY <1>4 DEF OnResponseBody, responseFn
  <2>2. n \in 1..Len(response.body)
    BY <1>1, <1>4 DEF OnResponseBody
  <2>3. call.chunk.data = Received(n)
    <3>1. shown.data = Shown(Received(n))
      BY <1>1 DEF Typed, TypeOK, Chunk
    <3> QED
      BY <1>1, <2>2, <3>1, ShownIsReceived
  <2> HIDE DEF call
  <2>4. /\ Len(calls) = n /\ \A i \in 1..at : calls[i + 1].chunk.data = Received(i)
    BY <2>1 DEF BodyInv, OwnInv, OwnDuring, BodyShown
  <2>5. /\ Len(calls') = n + 1 /\ calls'[n + 1] = call
        /\ \A i \in 1..Len(calls) : calls'[i] = calls[i]
    BY <1>1, <2>1, <2>4 DEF Typed
  <2>6. ASSUME NEW i \in 1..n PROVE calls'[i + 1].chunk.data = Received(i)'
    <3>1. Received(i)' = Received(i)
      BY <2>1 DEF Received
    <3>2. CASE i = n
      BY <2>3, <2>5, <3>1, <3>2
    <3>3. CASE i # n
      <4>1. i \in 1..at /\ i + 1 \in 1..Len(calls)
        BY <1>1, <2>4, <3>3
      <4> QED
        BY <2>4, <2>5, <3>1, <4>1
    <3> QED
      BY <3>2, <3>3
  <2> QED
    BY <2>1, <2>5, <2>6 DEF BodyShown
<1>5. CASE OnRequestHeaders
  BY <1>5, BodyFrame DEF OnRequestHeaders, BodyInv
<1>6. CASE OnLocalReply \/ OnResponseTrailers \/ OnStreamComplete \/ OnDestroy
  BY <1>6, BodyFrame
  DEF OnLocalReply, OnResponseTrailers, OnStreamComplete, OnDestroy, BodyInv
<1>7. CASE UNCHANGED vars
  BY <1>7, BodyFrame DEF vars, BodyInv
<1> QED
  BY <1>2, <1>3, <1>4, <1>5, <1>6, <1>7 DEF Next

(* onResponseBody: if each body callback brings one slice at most, what the*)
(* calls of the handler show is the body so far, none of it missing, twice *)
(* or out of order.                                                        *)
THEOREM WholeBodyIsShown ==
    ASSUME OneSlice
    PROVE  Spec => []ObservesWholeBody
<1>1. Init => BodyInv
  BY OwnInit DEF Init, BodyInv, BodyShown
<1>2. BodyInv => ObservesWholeBody
  <2> SUFFICES ASSUME BodyInv, calls # << >>
               PROVE  [i \in 1..at |-> calls[i + 1].chunk.data] = Data
    BY DEF ObservesWholeBody
  <2> QED
    BY DEF BodyInv, BodyShown, Data
<1> QED
  BY <1>1, <1>2, BodyStep, PTL DEF Spec

-----------------------------------------------------------------------------
(* FlattenSeq                                                              *)

(* f is the function FlattenSeq chooses for s.                             *)
IsFlat(f, s) ==
    f = [i \in 1..Len(s) |-> IF i = 1 THEN s[i] ELSE f[i - 1] \o s[i]]

(* There is one such function, and what it leads to is a body.             *)
FlatDefined(s) ==
    /\ FlattenSeq(s) \in Seq(Piece)
    /\ s # << >> => \E f : IsFlat(f, s) /\ \A g : IsFlat(g, s) => g = f

LEMMA FlattenIs ==
    ASSUME NEW s, Len(s) # 0, NEW f, IsFlat(f, s), \A g : IsFlat(g, s) => g = f
    PROVE  FlattenSeq(s) = f[Len(s)]
<1> DEFINE c == CHOOSE g : g = [i \in 1..Len(s) |-> IF i = 1 THEN s[i] ELSE g[i - 1] \o s[i]]
<1>1. FlattenSeq(s) = c[Len(s)]
  BY DEF FlattenSeq
<1>2. IsFlat(c, s)
  BY Zenon DEF IsFlat
<1> QED
  BY <1>1, <1>2

LEMMA FlattenEmpty == FlattenSeq(<< >>) = << >>
  BY DEF FlattenSeq

LEMMA FlattenOne ==
    ASSUME NEW x \in Seq(Piece)
    PROVE  FlatDefined(<<x>>) /\ FlattenSeq(<<x>>) = x
<1> DEFINE s == <<x>>
           f == [i \in 1..1 |-> x]
<1>1. Len(s) = 1 /\ s[1] = x
  OBVIOUS
<1> HIDE DEF s
<1>2. IsFlat(f, s)
  BY <1>1 DEF IsFlat
<1>3. ASSUME NEW g, IsFlat(g, s) PROVE g = f
  <2>1. g = [i \in 1..1 |-> g[i]] /\ \A i \in 1..1 : g[i] = x
    BY <1>1, <1>3 DEF IsFlat
  <2> QED
    BY <2>1
<1>4. FlattenSeq(s) = f[1]
  <2> HIDE DEF f
  <2>1. Len(s) # 0 /\ \A g : IsFlat(g, s) => g = f
    BY <1>1, <1>3
  <2>2. FlattenSeq(s) = f[Len(s)]
    BY <1>2, <2>1, FlattenIs
  <2> QED
    BY <1>1, <2>2
<1>5. s # << >> => \E h : IsFlat(h, s) /\ \A g : IsFlat(g, s) => g = h
  BY <1>2, <1>3
<1> QED
  BY <1>4, <1>5 DEF FlatDefined, s

(* What follows another piece is appended.                                 *)
LEMMA FlattenAppend ==
    ASSUME NEW s \in Seq(Seq(Piece)), NEW x \in Seq(Piece), FlatDefined(s)
    PROVE  /\ FlatDefined(Append(s, x))
           /\ FlattenSeq(Append(s, x)) = FlattenSeq(s) \o x
<1>1. CASE s = << >>
  <2>1. Append(s, x) = <<x>> /\ << >> \o x = x
    BY <1>1
  <2> QED
    BY <1>1, <2>1, FlattenOne, FlattenEmpty
<1>2. CASE s # << >>
  <2> DEFINE n == Len(s)
             t == Append(s, x)
  <2>1. /\ n \in Nat \ {0} /\ Len(t) = n + 1 /\ t[n + 1] = x
        /\ \A i \in 1..n : t[i] = s[i]
    BY <1>2
  <2>2. PICK f : IsFlat(f, s) /\ \A g : IsFlat(g, s) => g = f
    BY <1>2 DEF FlatDefined
  <2>3. FlattenSeq(s) = f[n]
    BY <2>1, <2>2, FlattenIs
  <2> DEFINE e == [i \in 1..(n + 1) |-> IF i = n + 1 THEN f[n] \o x ELSE f[i]]
  <2> HIDE DEF n, t
  <2>4. \A i \in 1..n : f[i] = IF i = 1 THEN s[i] ELSE f[i - 1] \o s[i]
    BY <2>2 DEF IsFlat, n
  <2>5. \A i \in 1..(n + 1) : e[i] = IF i = 1 THEN t[i] ELSE e[i - 1] \o t[i]
    <3> SUFFICES ASSUME NEW i \in 1..(n + 1)
                 PROVE  e[i] = IF i = 1 THEN t[i] ELSE e[i - 1] \o t[i]
      OBVIOUS
    <3>1. CASE i = n + 1
      <4>1. i # 1 /\ e[i - 1] = f[n] /\ e[i] = f[n] \o x
        BY <2>1, <3>1
      <4> QED
        BY <2>1, <3>1, <4>1
    <3>2. CASE i # n + 1
      <4>1. i \in 1..n /\ e[i] = f[i] /\ (i # 1 => e[i - 1] = f[i - 1])
        BY <2>1, <3>2
      <4> QED
        BY <2>1, <2>4, <4>1
    <3> QED
      BY <3>1, <3>2
  <2>6. IsFlat(e, t)
    BY <2>1, <2>5 DEF IsFlat
  <2>7. ASSUME NEW g, IsFlat(g, t) PROVE g = e
    <3> DEFINE h == [i \in 1..n |-> g[i]]
    <3>1. /\ g = [i \in 1..(n + 1) |-> g[i]]
          /\ \A i \in 1..(n + 1) : g[i] = IF i = 1 THEN t[i] ELSE g[i - 1] \o t[i]
      BY <2>1, <2>7 DEF IsFlat
    <3>2. \A i \in 1..n : h[i] = IF i = 1 THEN s[i] ELSE h[i - 1] \o s[i]
      <4> SUFFICES ASSUME NEW i \in 1..n
                   PROVE  h[i] = IF i = 1 THEN s[i] ELSE h[i - 1] \o s[i]
        OBVIOUS
      <4>1. i \in 1..(n + 1) /\ t[i] = s[i] /\ (i # 1 => i - 1 \in 1..n)
        BY <2>1
      <4>2. h[i] = g[i] /\ (i # 1 => h[i - 1] = g[i - 1])
        BY <4>1
      <4> QED
        BY <3>1, <4>1, <4>2
    <3>3. IsFlat(h, s)
      BY <3>2 DEF IsFlat, n
    <3>4. \A i \in 1..n : h[i] = g[i]
      OBVIOUS
    <3> HIDE DEF h
    <3>5. \A i \in 1..n : g[i] = f[i]
      BY <2>2, <3>3, <3>4
    <3>6. g[n + 1] = f[n] \o x
      <4>1. n \in 1..n /\ n + 1 \in 1..(n + 1) /\ n + 1 # 1 /\ (n + 1) - 1 = n
        BY <2>1
      <4>2. g[n + 1] = g[n] \o t[n + 1]
        BY <3>1, <4>1
      <4> QED
        BY <2>1, <3>5, <4>1, <4>2
    <3>7. \A i \in 1..(n + 1) : g[i] = e[i]
      <4> SUFFICES ASSUME NEW i \in 1..(n + 1) PROVE g[i] = e[i]
        OBVIOUS
      <4>1. i = n + 1 \/ i \in 1..n
        BY <2>1
      <4> QED
        BY <3>5, <3>6, <4>1
    <3>8. e = [i \in 1..(n + 1) |-> e[i]]
      OBVIOUS
    <3> HIDE DEF e
    <3> QED
      BY <3>1, <3>7, <3>8
  <2> HIDE DEF e
  <2>8. FlattenSeq(t) = e[n + 1]
    BY <2>1, <2>6, <2>7, FlattenIs
  <2>9. FlattenSeq(t) = FlattenSeq(s) \o x
    BY <2>1, <2>3, <2>8 DEF e
  <2>10. FlattenSeq(t) \in Seq(Piece)
    BY <2>9 DEF FlatDefined
  <2> QED
    BY <2>6, <2>7, <2>9, <2>10 DEF FlatDefined, t
<1> QED
  BY <1>1, <1>2

-----------------------------------------------------------------------------
(* What the client gets                                                    *)

New == << <<served, 0, 0>> >>

(* Where the body so far is                                                *)
Delivered ==
    /\ KeptIsEdited
    /\ buffered = IF response.mutable /\ ~Finished THEN Kept(at) ELSE << >>

DeliveredInv ==
    /\ phase \in {"created", "open"} => at = 0
    /\ trailed => response.ends = "trailers" /\ at = Len(response.body)
    /\ FlatDefined(Data)
    /\ Delivered

LEMMA DataIsKept == FlattenSeq(Data) = Kept(at)
  BY DEF Data, Kept

LEMMA DataType ==
    ASSUME Typed
    PROVE  /\ Data \in Seq(Seq(Piece)) /\ Len(Data) = at /\ New \in Seq(Piece)
           /\ \A n \in 1..Len(response.body) : Received(n) \in Seq(Piece)
<1>1. at \in Nat /\ served \in Nat /\ at <= Len(response.body)
  BY ResponseType, BoundAssumption DEF Typed, TypeOK
<1>2. \A n \in 1..Len(response.body) : Received(n) \in Seq(Piece)
  BY ReceivedType DEF Typed, TypeOK
<1>3. \A i \in 1..at : Received(i) \in Seq(Piece)
  BY <1>1, <1>2, ResponseType DEF Typed, TypeOK
<1>4. Data \in Seq(Seq(Piece)) /\ Len(Data) = at
  BY <1>1, <1>3 DEF Data
<1>5. New \in Seq(Piece)
  BY <1>1 DEF New, Piece
<1> QED
  BY <1>2, <1>4, <1>5

LEMMA NothingKept ==
    ASSUME at = 0
    PROVE  FlatDefined(Data) /\ Kept(at) = << >>
<1>1. Data = << >>
  BY DEF Data
<1>2. << >> \in Seq(Piece)
  OBVIOUS
<1> QED
  BY <1>1, <1>2, FlattenEmpty, DataIsKept DEF FlatDefined

(* A body callback brings the next piece.                                  *)
LEMMA BodyGrows ==
    ASSUME Typed, FlatDefined(Data), at + 1 \in 1..Len(response.body), at' = at + 1,
           UNCHANGED <<response, served>>
    PROVE  /\ FlatDefined(Data)' /\ Kept(at)' = Kept(at) \o Received(at + 1)
           /\ Kept(at - 1)' = Kept(at)
<1> DEFINE s == Data
           x == Received(at + 1)
<1>1. s \in Seq(Seq(Piece)) /\ Len(s) = at /\ x \in Seq(Piece) /\ at \in Nat
  BY DataType DEF Typed, TypeOK
<1>2. Data' = Append(s, x)
  <2>1. Data' = [i \in 1..(at + 1) |-> Received(i)]
    BY DEF Data, Received
  <2>2. \A i \in 1..at : s[i] = Received(i)
    BY DEF Data
  <2> HIDE DEF s, x
  <2>3. /\ Append(s, x) \in Seq(Seq(Piece)) /\ Len(Append(s, x)) = at + 1
        /\ \A i \in 1..at : Append(s, x)[i] = s[i]
        /\ Append(s, x)[at + 1] = x
    BY <1>1, AppendProperties
  <2>4. Append(s, x) \in [1..(at + 1) -> Seq(Piece)]
    BY <2>3, LenProperties
  <2>5. \A i \in 1..(at + 1) : Append(s, x)[i] = Received(i)
    BY <1>1, <2>2, <2>3 DEF x
  <2> QED
    BY <2>1, <2>4, <2>5
<1>3. Kept(at - 1)' = Kept(at)
  <2>1. at' - 1 = at
    BY <1>1
  <2> QED
    BY <2>1 DEF Kept, Received
<1> HIDE DEF s, x
<1>4. FlatDefined(s)
  BY DEF s
<1>5. FlatDefined(Append(s, x)) /\ FlattenSeq(Append(s, x)) = FlattenSeq(s) \o x
  BY <1>1, <1>4, FlattenAppend
<1>6. FlatDefined(Data)' <=> FlatDefined(Data')
  BY DEF FlatDefined
<1>7. Kept(at)' = FlattenSeq(Data') /\ Kept(at) = FlattenSeq(s)
  BY DEF Kept, Data, s
<1> QED
  BY <1>2, <1>3, <1>5, <1>6, <1>7 DEF x

LEMMA DeliveredFrame ==
    ASSUME DeliveredInv,
           UNCHANGED <<response, served, at, trailed, buffered, forwarded>>,
           phase' \in {"created", "open"} => phase \in {"created", "open"}
    PROVE  DeliveredInv'
<1>1. Data' = Data /\ Kept(at)' = Kept(at) /\ Kept(at - 1)' = Kept(at - 1)
  BY DEF Data, Kept, Received
<1>2. (FlatDefined(Data)' <=> FlatDefined(Data)) /\ (Finished' <=> Finished)
  BY <1>1 DEF FlatDefined, Finished
<1>3. Delivered'
  BY <1>1, <1>2 DEF DeliveredInv, Delivered, KeptIsEdited, EditsBody, Received
<1> QED
  BY <1>2, <1>3 DEF DeliveredInv

(* What the handler makes of what was kept                                 *)
LEMMA EditedBody ==
    ASSUME NEW shown, NEW edited \in Edited(shown)
    PROVE  /\ ~(shown.endStream /\ EditsBody) => edited = buffered
           /\ shown.endStream /\ EditsBody =>
                \/ edited = IF response.edit = "set" THEN New ELSE buffered \o New
                \/ edited = << >> /\ buffered = << >>
<1>1. CASE Ending(shown) /\ response.edit = "set"
  BY <1>1 DEF Edited, Refused, SetResponseBody, Ending, EditsBody, New
<1>2. CASE Ending(shown) /\ response.edit = "append"
  BY <1>2 DEF Edited, Refused, AppendResponseBody, Ending, EditsBody, New
<1>3. CASE ~Ending(shown) \/ response.edit \notin {"set", "append"}
  BY <1>3 DEF Edited, Ending, EditsBody
<1> QED
  BY <1>1, <1>2, <1>3

LEMMA DeliveredBody ==
    ASSUME Typed, DeliveredInv, OnResponseBody
    PROVE  DeliveredInv'
<1> DEFINE n == at + 1
           x == Received(n)
           end == response.ends = "data" /\ n = Len(response.body)
           shown == [chunk EXCEPT !.data = Shown(Received(n)), !.endStream = end]
<1>1. /\ response \in Responses /\ at \in Nat /\ Len(response.body) \in Nat
      /\ Kept(at) \in Seq(Piece)
  BY ResponseType, DataIsKept DEF Typed, TypeOK, DeliveredInv, FlatDefined
<1>2. PICK edited \in Edited(shown) :
        /\ phase = "headers" /\ phase' = "headers" /\ at < Len(response.body)
        /\ at' = n /\ UNCHANGED <<response, served, trailed>>
        /\ \/ Buffers(end) /\ buffered' = edited \o x /\ UNCHANGED forwarded
           \/ ~Buffers(end) /\ buffered' = << >> /\ forwarded' = forwarded \o (edited \o x)
  BY DEF OnResponseBody
<1>3. shown.endStream = end
  BY DEF Typed, TypeOK, Chunk
<1>4. ~trailed /\ ~Finished
  BY <1>1, <1>2 DEF DeliveredInv, Finished
<1>5. /\ FlatDefined(Data)' /\ Kept(at)' = Kept(at) \o x
      /\ Kept(at - 1)' = Kept(at)
  <2>1. n \in 1..Len(response.body) /\ FlatDefined(Data)
    BY <1>1, <1>2 DEF DeliveredInv
  <2> QED
    BY <1>2, <2>1, BodyGrows
<1>6. (Finished' <=> end) /\ (EditsBody' <=> EditsBody) /\ New' = New
  BY <1>1, <1>2, <1>4 DEF Finished, EditsBody, New
<1>7. Received(at)' = x
  BY <1>2 DEF Received
<1>8. x \in Seq(Piece) /\ New \in Seq(Piece)
  BY <1>1, <1>2, DataType
<1>9. /\ buffered = IF response.mutable THEN Kept(at) ELSE << >>
      /\ forwarded = IF response.mutable THEN << >> ELSE Kept(at)
  BY <1>4 DEF DeliveredInv, Delivered, KeptIsEdited
<1>10. /\ ~(end /\ EditsBody) => edited = buffered
       /\ end /\ EditsBody =>
            \/ edited = IF response.edit = "set" THEN New ELSE buffered \o New
            \/ edited = << >> /\ buffered = << >>
  <2> HIDE DEF shown, end
  <2>1. shown.endStream <=> end
    BY <1>3
  <2> QED
    BY <1>2, <2>1, EditedBody
<1>11. Buffers(end) <=> response.mutable /\ ~end
  BY DEF Buffers
<1> HIDE DEF shown, end, x, n
<1>12. << >> \o x = x /\ << >> \o New = New
  BY <1>8
<1>13. KeptIsEdited'
  <2>1. CASE end /\ EditsBody
    <3>1. forwarded' = forwarded \o (edited \o x)
      BY <1>2, <1>11, <2>1
    <3>2. \/ forwarded' = (IF response.mutable /\ response.edit = "set"
                           THEN New ELSE Kept(at) \o New) \o x
          \/ /\ Kept(at) = << >> \/ ~response.mutable
             /\ forwarded' = Kept(at) \o x
      <4>1. CASE edited = << >> /\ buffered = << >>
        <5>1. forwarded' = forwarded \o x
          BY <1>12, <3>1, <4>1
        <5>2. forwarded = Kept(at)
          BY <1>9, <4>1
        <5> QED
          BY <1>9, <4>1, <5>1, <5>2
      <4>2. CASE edited = New /\ ~response.mutable
        <5>1. Kept(at) \o (New \o x) = (Kept(at) \o New) \o x
          BY <1>1, <1>8, ConcatAssociative
        <5> QED
          BY <1>9, <3>1, <4>2, <5>1
      <4>3. CASE /\ edited = IF response.edit = "set" THEN New ELSE Kept(at) \o New
                 /\ response.mutable
        <5>1. edited \o x \in Seq(Piece)
          BY <1>1, <1>8, <4>3
        <5>2. forwarded' = edited \o x
          BY <1>9, <3>1, <4>3, <5>1
        <5> QED
          BY <4>3, <5>2
      <4> QED
        BY <1>9, <1>10, <1>12, <2>1, <4>1, <4>2, <4>3
    <3>3. (EditsBody /\ Finished /\ ~trailed)'
      BY <1>2, <1>4, <1>6, <2>1
    <3> QED
      BY <1>2, <1>5, <1>6, <1>7, <3>2, <3>3 DEF KeptIsEdited, New
  <2>2. CASE ~(end /\ EditsBody)
    <3>1. edited = buffered
      BY <1>10, <2>2
    <3>2. forwarded' = IF response.mutable /\ ~end THEN << >> ELSE Kept(at) \o x
      <4>1. CASE response.mutable /\ ~end
        BY <1>2, <1>9, <1>11, <4>1
      <4>2. CASE response.mutable /\ end
        <5>1. Kept(at) \o x \in Seq(Piece)
          BY <1>1, <1>8
        <5>2. buffered = Kept(at) /\ forwarded = << >> /\ ~Buffers(end)
          BY <1>9, <1>11, <4>2
        <5>3. forwarded' = << >> \o (Kept(at) \o x)
          BY <1>2, <3>1, <5>2
        <5> QED
          BY <4>2, <5>1, <5>3
      <4>3. CASE ~response.mutable
        BY <1>2, <1>9, <1>11, <1>12, <3>1, <4>3
      <4> QED
        BY <4>1, <4>2, <4>3
    <3> QED
      BY <1>2, <1>4, <1>5, <1>6, <2>2, <3>2 DEF KeptIsEdited
  <2> QED
    BY <2>1, <2>2
<1>14. buffered' = IF response.mutable /\ ~end THEN Kept(at) \o x ELSE << >>
  <2>1. ~end => edited = buffered
    BY <1>10
  <2> QED
    BY <1>2, <1>9, <1>11, <2>1
<1> QED
  BY <1>2, <1>4, <1>5, <1>6, <1>13, <1>14 DEF DeliveredInv, Delivered

LEMMA DeliveredStep == Typed /\ DeliveredInv /\ [Next]_vars => DeliveredInv'
<1> SUFFICES ASSUME Typed, DeliveredInv, [Next]_vars PROVE DeliveredInv'
  OBVIOUS
<1>1. CASE NewFilter
  <2>1. /\ at' = 0 /\ trailed' = FALSE
        /\ buffered' = << >> /\ forwarded' = << >>
    BY <1>1 DEF NewFilter
  <2>2. FlatDefined(Data)' /\ Kept(at)' = << >>
    <3>1. Data' = << >> /\ Kept(at)' = FlattenSeq(<< >>)
      BY <2>1 DEF Data, Kept
    <3>2. << >> \in Seq(Piece)
      OBVIOUS
    <3> QED
      BY <3>1, <3>2, FlattenEmpty DEF FlatDefined
  <2>3. ~Finished'
    BY <2>1 DEF Finished
  <2> QED
    BY <2>1, <2>2, <2>3 DEF DeliveredInv, Delivered, KeptIsEdited
<1>2. CASE OnResponseBody
  BY <1>2, DeliveredBody
<1>3. CASE OnResponseTrailers
  <2>1. /\ response.ends = "trailers" /\ at = Len(response.body) /\ ~trailed /\ trailed'
        /\ phase = "headers" /\ buffered' = << >> /\ forwarded' = forwarded \o buffered
        /\ UNCHANGED <<response, served, at, phase>>
    BY <1>3 DEF OnResponseTrailers
  <2>2. ~Finished /\ Finished'
    BY <2>1 DEF Finished
  <2>3. Data' = Data /\ Kept(at)' = Kept(at)
    BY <2>1 DEF Data, Kept, Received
  <2>4. Kept(at) \in Seq(Piece) /\ (FlatDefined(Data)' <=> FlatDefined(Data))
    BY <2>3, DataIsKept DEF DeliveredInv, FlatDefined
  <2>5. \/ buffered = Kept(at) /\ forwarded = << >>
        \/ buffered = << >> /\ forwarded = Kept(at)
    BY <2>2 DEF DeliveredInv, Delivered, KeptIsEdited
  <2>6. forwarded' = Kept(at)
    BY <2>1, <2>4, <2>5
  <2> QED
    BY <2>1, <2>2, <2>3, <2>4, <2>6 DEF DeliveredInv, Delivered, KeptIsEdited
<1>4. CASE OnRequestHeaders
  BY <1>4, DeliveredFrame DEF OnRequestHeaders
<1>5. CASE OnLocalReply \/ OnResponseHeaders \/ OnStreamComplete \/ OnDestroy
  BY <1>5, DeliveredFrame DEF OnLocalReply, OnResponseHeaders, OnStreamComplete, OnDestroy
<1>6. CASE UNCHANGED vars
  BY <1>6, DeliveredFrame DEF vars
<1> QED
  BY <1>1, <1>2, <1>3, <1>4, <1>5, <1>6 DEF Next

(* SetResponseBody, AppendResponseBody, OnResponseBody: whatever slices,   *)
(* callbacks or trailers a response comes in and whatever the handler      *)
(* does, the client gets nothing of a mutable response before its end, and *)
(* an edit is made of exactly what the callbacks before the last brought.  *)
THEOREM KeptBodyIsEdited == Spec => []KeptIsEdited
<1> DEFINE Inv == Typed /\ DeliveredInv
<1>1. Init => Inv
  <2> SUFFICES ASSUME Init PROVE DeliveredInv
    BY TypeInit
  <2>1. FlatDefined(Data) /\ Kept(at) = << >> /\ ~Finished
    BY NothingKept DEF Init, Finished
  <2> QED
    BY <2>1 DEF Init, DeliveredInv, Delivered, KeptIsEdited
<1>2. Inv /\ [Next]_vars => Inv'
  BY TypeStep, DeliveredStep
<1>3. Inv => KeptIsEdited
  BY DEF DeliveredInv, Delivered
<1> HIDE DEF Inv
<1> QED
  BY <1>1, <1>2, <1>3, PTL DEF Spec

=============================================================================

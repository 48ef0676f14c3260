-------------------------- MODULE WriterPoolProofs --------------------------
(***************************************************************************)
(* What the pools of filters and Writers, and Do, guarantee to any number  *)
(* of requests with any code, if each goroutine leaves its Writer alone    *)
(* once Envoy has destroyed the filter of its request.                     *)
(***************************************************************************)
EXTENDS WriterPoolProperties, TLAPS

Task == [stream : Requests, runs : {"flush", "callout"}, by : Requests \X Nat]

(* TypeOK, with the shapes of what is waiting                              *)
Typed ==
    /\ plan \in Plans
    /\ phase \in [Requests -> {"none", "created", "open", "complete", "destroyed"}]
    /\ filterOf \in [Requests -> Filters \union {None}]
    /\ filter \in [Filters -> [handler : Requests \union {None},
                               writer : Writers \union {None}]]
    /\ writer \in [Writers -> Writer]
    /\ filterPool \in [Filters -> 0..1] /\ writerPool \in [Writers -> 0..1]
    /\ used \subseteq Filters \union Writers
    /\ code \in [Requests -> {"idle", "handler", "observer"}]
    /\ goroutine \in [Requests -> {"none", "running", "waiting", "done"}]
    /\ given \in [Requests -> Writers \union {None}]
    /\ cancelled \subseteq Requests
    /\ adding \in [Mutations -> Seq(Mutations) \union {None}]
    /\ asked \in [Requests -> 0..MaxCallouts]
    /\ DOMAIN channel = Callouts
    /\ tasks \subseteq Task
    /\ inflight \subseteq Requests \X Callouts
    /\ alone \subseteq added /\ added \subseteq Mutations
    /\ applied \subseteq Requests \X Mutations
    /\ answered \subseteq Requests \X Requests
    /\ released \subseteq Requests
    /\ results \subseteq Callouts \X Callouts

(* The request has a Writer that nobody returned yet.                      *)
Own(r) == Serving(r) /\ given[r] # None

(* A filter and its Writer know the one request they serve; a filter that  *)
(* serves none is blank.                                                   *)
FilterOfOwn(r) ==
    /\ filterOf[r] \in Filters \intersect used
    /\ filterPool[filterOf[r]] = 0
    /\ filter[filterOf[r]].handler = r
    /\ filter[filterOf[r]].writer = given[r]

Served(f) ==
    LET r == filter[f].handler IN
    IF r = None THEN filter[f] = BlankFilter
    ELSE Serving(r) /\ filterOf[r] = f

PoolInv ==
    /\ \A r \in Requests : Serving(r) => FilterOfOwn(r)
    /\ \A f \in Filters : Served(f)
    /\ \A r \in Requests : Own(r) =>
         given[r] \in used /\ writerPool[given[r]] = 0

(* Who can be running where                                                *)
RunningInv ==
    \A r \in Requests :
        /\ code[r] # "idle" => phase[r] = "open"
        /\ goroutine[r] # "none" \/ phase[r] = "open" => given[r] # None
        /\ phase[r] \in {"none", "created"} => given[r] = None
        /\ goroutine[r] = "waiting" => asked[r] # 0

Mine(q, r) == \A i \in DOMAIN q : q[i][1] = r

(* What is in the Writer of a request is the request's own.                *)
ContentOf(w, r, started) ==
    /\ w.handle = r
    /\ Mine(w.queued, r)
    /\ w.localResp \in {None, r}
    /\ w.goCancel \in {None, r}
    /\ w.goStarted <=> started

ContentInv ==
    \A r \in Requests : Own(r) => ContentOf(writer[given[r]], r, goroutine[r] # "none")

AddingInv ==
    \A r \in Requests, c \in Codes : adding[<<r, c>>] # None =>
        /\ Mine(adding[<<r, c>>], r) /\ Own(r)
        /\ c # "goroutine" => code[r] = c

(* A call of Do is asked for, scheduled, on its way, answered: each once.  *)
CalloutInv ==
    /\ \A t \in tasks :
         /\ t.stream = t.by[1]
         /\ t.runs = "callout" =>
              /\ t.by \in Callouts /\ t.by[2] <= asked[t.by[1]]
              /\ channel[t.by] = << >>
              /\ \A s \in Requests : <<s, t.by>> \notin inflight
    /\ \A p \in inflight :
         /\ p[1] = p[2][1] /\ p[2][2] <= asked[p[2][1]]
         /\ channel[p[2]] = << >>
    /\ \A c \in Callouts :
         /\ channel[c] = << >> \/ channel[c] = <<c>>
         /\ c[2] > asked[c[1]] => channel[c] = << >>

Inv ==
    /\ Typed /\ PoolInv /\ RunningInv /\ ContentInv /\ AddingInv /\ CalloutInv
    /\ OwnEffects /\ CancelledByOwnEnd /\ DoAnswersItsCall
    /\ NoPanic /\ WorkerNeverBlocks

-----------------------------------------------------------------------------
(* Consequences                                                            *)

LEMMA BlankType ==
    /\ BlankFilter \in [handler : Requests \union {None}, writer : Writers \union {None}]
    /\ BlankWriter \in Writer
<1>1. << >> \in Seq(Mutations)
  OBVIOUS
<1> QED
  BY <1>1 DEF BlankFilter, BlankWriter, Writer

LEMMA InvImpliesTypeOK == Inv => TypeOK
<1> SUFFICES ASSUME Inv PROVE TypeOK
  OBVIOUS
<1>1. \A c \in Callouts : Len(channel[c]) <= 1
  <2> SUFFICES ASSUME NEW c \in Callouts PROVE Len(channel[c]) <= 1
    OBVIOUS
  <2>1. channel[c] = << >> \/ channel[c] = <<c>>
    BY DEF Inv, CalloutInv
  <2>2. Len(<< >>) <= 1 /\ Len(<<c>>) <= 1
    OBVIOUS
  <2> QED
    BY <2>1, <2>2
<1>2. Typed /\ panicked = FALSE /\ blocked = {}
  BY DEF Inv, NoPanic, WorkerNeverBlocks
<1>3. DOMAIN adding = Mutations
  BY <1>2 DEF Typed
<1> QED
  BY <1>1, <1>2, <1>3 DEF Typed, TypeOK

LEMMA OwnWriter ==
    ASSUME Inv, NEW r \in Requests, Own(r)
    PROVE  /\ given[r] \in Writers /\ writer[given[r]] \in Writer
           /\ writer[given[r]].handle = r
           /\ \A q \in Requests \ {r} : Own(q) => given[q] # given[r]
<1>1. given[r] \in Writers
  BY DEF Inv, Typed, Own
<1>2. \A q \in Requests : Own(q) => writer[given[q]].handle = q
  BY DEF Inv, ContentInv, ContentOf
<1> QED
  BY <1>1, <1>2 DEF Inv, Typed

(* Author code that may use a Writer uses its own request's.               *)
LEMMA UserOwns ==
    ASSUME Inv, ~Outlives, NEW r \in Requests, NEW c \in Codes, MayUse(r, c)
    PROVE  Own(r)
<1>1. phase[r] \in {"none", "created", "open", "complete", "destroyed"}
  BY DEF Inv, Typed
<1>2. CASE code[r] = c /\ c \in {"handler", "observer"}
  BY <1>2 DEF Inv, RunningInv, Own, Serving
<1>3. CASE goroutine[r] = "running" /\ phase[r] # "destroyed"
  BY <1>1, <1>3 DEF Inv, RunningInv, Own, Serving
<1> QED
  BY <1>2, <1>3 DEF MayUse

LEMMA OpenOwns ==
    ASSUME Inv, NEW r \in Requests, phase[r] = "open"
    PROVE  Own(r)
  BY DEF Inv, RunningInv, Own, Serving

-----------------------------------------------------------------------------
(* flush                                                                   *)

LEMMA AppliedOwn ==
    ASSUME Inv, NEW r \in Requests, Own(r)
    PROVE  /\ Applied(given[r]) \subseteq Requests \X Mutations
           /\ \A a \in Applied(given[r]) : a[2][1] = a[1]
<1> DEFINE w == given[r]
<1>1. writer[w].handle = r /\ writer[w].queued \in Seq(Mutations) /\ Mine(writer[w].queued, r)
  BY OwnWriter DEF Inv, ContentInv, ContentOf, Writer
<1>2. \A m \in ToSet(writer[w].queued) : m \in Mutations /\ m[1] = r
  BY <1>1 DEF ToSet, Mine
<1> QED
  BY <1>1, <1>2 DEF Applied

LEMMA FlushOwn ==
    ASSUME Inv, NEW r \in Requests, Own(r), flush(given[r])
    PROVE  /\ applied' \subseteq Requests \X Mutations
           /\ answered' \subseteq Requests \X Requests
           /\ released' \subseteq Requests
           /\ OwnEffects'
<1> DEFINE w == given[r]
<1>1. writer[w].handle = r /\ writer[w].localResp \in {None, r}
  BY OwnWriter DEF Inv, ContentInv, ContentOf
<1>2. /\ applied \subseteq Requests \X Mutations
      /\ answered \subseteq Requests \X Requests
      /\ released \subseteq Requests
      /\ OwnEffects
  BY DEF Inv, Typed
<1>3. CASE /\ writer[w].localResp # None
           /\ answered' = answered \union {<<writer[w].handle, writer[w].localResp>>}
           /\ UNCHANGED <<applied, released>>
  BY <1>1, <1>2, <1>3 DEF OwnEffects
<1>4. CASE UNCHANGED effects
  BY <1>2, <1>4 DEF OwnEffects, effects
<1>5. CASE /\ applied' = applied \union Applied(w)
           /\ released' = released \union {writer[w].handle}
           /\ UNCHANGED answered
  BY <1>1, <1>2, <1>5, AppliedOwn DEF OwnEffects
<1> QED
  BY <1>3, <1>4, <1>5 DEF flush

-----------------------------------------------------------------------------
(* The pools, whatever a goroutine does with a Writer it no longer owns    *)

SharedTyped ==
    /\ phase \in [Requests -> {"none", "created", "open", "complete", "destroyed"}]
    /\ filterOf \in [Requests -> Filters \union {None}]
    /\ filter \in [Filters -> [handler : Requests \union {None},
                               writer : Writers \union {None}]]
    /\ DOMAIN writer = Writers /\ \A w \in Writers : "handle" \in DOMAIN writer[w]
    /\ filterPool \in [Filters -> 0..1] /\ writerPool \in [Writers -> 0..1]
    /\ given \in [Requests -> Writers \union {None}]

GivenLater == \A r \in Requests : phase[r] \in {"none", "created"} => given[r] = None

HandleOfOwn == \A r \in Requests : Own(r) => writer[given[r]].handle = r

SharedInv == SharedTyped /\ PoolInv /\ GivenLater /\ HandleOfOwn

LEMMA InvImpliesShared == Inv => SharedInv
<1> SUFFICES ASSUME Inv PROVE SharedInv
  OBVIOUS
<1>1. DOMAIN writer = Writers /\ \A w \in Writers : "handle" \in DOMAIN writer[w]
  BY DEF Inv, Typed, Writer
<1>2. HandleOfOwn
  BY DEF Inv, ContentInv, ContentOf, HandleOfOwn
<1> QED
  BY <1>1, <1>2 DEF Inv, Typed, RunningInv, SharedInv, SharedTyped, GivenLater

LEMMA SharedImpliesExclusive == SharedInv => Exclusive
<1> SUFFICES ASSUME SharedInv PROVE Exclusive
  OBVIOUS
<1>1. /\ \A f \in Filters : filterPool[f] <= 1
      /\ \A w \in Writers : writerPool[w] <= 1
  <2>1. filterPool \in [Filters -> 0..1] /\ writerPool \in [Writers -> 0..1]
    BY DEF SharedInv, SharedTyped
  <2> QED
    BY <2>1
<1>2. ASSUME NEW r \in Requests, Serving(r)
      PROVE  LET w == filter[filterOf[r]].writer IN
             /\ filterPool[filterOf[r]] = 0
             /\ w # None => writerPool[w] = 0 /\ writer[w].handle = r
             /\ \A q \in Requests \ {r} : Serving(q) => filterOf[q] # filterOf[r]
  <2>0. \A q \in Requests : Serving(q) => FilterOfOwn(q)
    BY DEF SharedInv, PoolInv
  <2>1. filter[filterOf[r]].writer = given[r] /\ filter[filterOf[r]].handler = r
        /\ filterPool[filterOf[r]] = 0
    BY <1>2, <2>0 DEF FilterOfOwn
  <2>2. given[r] # None => writerPool[given[r]] = 0 /\ writer[given[r]].handle = r
    <3> SUFFICES ASSUME Own(r)
                 PROVE  writerPool[given[r]] = 0 /\ writer[given[r]].handle = r
      BY <1>2 DEF Own
    <3> QED
      BY DEF SharedInv, PoolInv, HandleOfOwn
  <2>3. \A q \in Requests \ {r} : Serving(q) => filter[filterOf[q]].handler = q
    BY <2>0 DEF FilterOfOwn
  <2> QED
    BY <2>1, <2>2, <2>3
<1> QED
  BY <1>1, <1>2 DEF Exclusive

(* What a pool may hand out serves nobody.                                 *)
LEMMA TakenIsFree ==
    ASSUME SharedInv
    PROVE  /\ \A f \in Gettable(Filters, filterPool) :
                f \in Filters /\ filter[f] = BlankFilter
           /\ \A w \in Gettable(Writers, writerPool) :
                w \in Writers /\ \A r \in Requests : Own(r) => given[r] # w
<1>1. ASSUME NEW f \in Gettable(Filters, filterPool)
      PROVE  f \in Filters /\ filter[f] = BlankFilter
  <2>1. f \in Filters /\ (filterPool[f] > 0 \/ f \notin used)
    BY <1>1 DEF Gettable
  <2>2. filter[f].handler \in Requests \union {None}
    BY <2>1 DEF SharedInv, SharedTyped
  <2>3. filter[f].handler = None
    <3> SUFFICES ASSUME filter[f].handler # None PROVE FALSE
      OBVIOUS
    <3>1. FilterOfOwn(filter[f].handler) /\ filterOf[filter[f].handler] = f
      BY <2>1, <2>2 DEF SharedInv, PoolInv, Served
    <3> QED
      BY <2>1, <3>1 DEF FilterOfOwn
  <2> QED
    BY <2>1, <2>3 DEF SharedInv, PoolInv, Served
<1>2. ASSUME NEW w \in Gettable(Writers, writerPool)
      PROVE  w \in Writers /\ \A r \in Requests : Own(r) => given[r] # w
  <2>1. w \in Writers /\ (writerPool[w] > 0 \/ w \notin used)
    BY <1>2 DEF Gettable
  <2> QED
    BY <2>1 DEF SharedInv, PoolInv
<1> QED
  BY <1>1, <1>2


(* Whom a filter serves changes with these four steps only.                *)
LEMMA SharedFrame ==
    ASSUME SharedInv, UNCHANGED <<phase, filterOf, filter, pools, given>>,
           DOMAIN writer' = DOMAIN writer,
           \A w \in Writers :
             /\ "handle" \in DOMAIN writer'[w]
             /\ writer'[w].handle = writer[w].handle
    PROVE  SharedInv'
<1>1. \A r \in Requests : (Serving(r)' <=> Serving(r)) /\ (Own(r)' <=> Own(r))
  BY DEF Serving, Own
<1>2. SharedTyped'
  BY DEF SharedInv, SharedTyped, pools
<1>3. PoolInv'
  <2>1. \A f \in Filters : filter[f].handler \in Requests \union {None}
    BY DEF SharedInv, SharedTyped
  <2>2. \A r \in Requests : Serving(r) => FilterOfOwn(r)'
    BY DEF SharedInv, PoolInv, FilterOfOwn, pools
  <2>3. \A f \in Filters : Served(f)'
    BY <1>1, <2>1 DEF SharedInv, PoolInv, Served
  <2>4. \A r \in Requests : Own(r) => given[r] \in used' /\ writerPool'[given[r]] = 0
    BY DEF SharedInv, PoolInv, pools
  <2> QED
    BY <1>1, <2>2, <2>3, <2>4 DEF PoolInv
<1>4. GivenLater' /\ HandleOfOwn'
  <2>1. \A r \in Requests : Own(r) => given[r] \in Writers
    BY DEF SharedInv, SharedTyped, Own
  <2> QED
    BY <1>1, <2>1 DEF SharedInv, GivenLater, HandleOfOwn
<1> QED
  BY <1>2, <1>3, <1>4 DEF SharedInv

LEMMA SharedNewSahlFilter ==
    ASSUME SharedInv, NEW r \in Requests, newSahlFilter(r)
    PROVE  SharedInv'
<1> USE DEF pools, goroutines
<1>1. PICK f \in Gettable(Filters, filterPool) :
        \/ /\ filter[f].handler # None
           /\ UNCHANGED <<phase, filterOf, filter, filterPool, used>>
        \/ /\ phase' = [phase EXCEPT ![r] = "created"]
           /\ filterOf' = [filterOf EXCEPT ![r] = f]
           /\ filter' = [filter EXCEPT ![f].handler = r]
           /\ filterPool' = Taken(filterPool, f)
           /\ used' = used \union {f}
  BY DEF newSahlFilter
<1>2. phase[r] = "none" /\ UNCHANGED <<writer, writerPool, given>>
  BY DEF newSahlFilter
<1>3. f \in Filters /\ filter[f] = BlankFilter
  BY <1>1, TakenIsFree
<1>4. filter[f].handler = None /\ filter[f].writer = None
  BY <1>3 DEF BlankFilter
<1>5. /\ phase' = [phase EXCEPT ![r] = "created"]
      /\ filterOf' = [filterOf EXCEPT ![r] = f]
      /\ filter' = [filter EXCEPT ![f].handler = r]
      /\ filterPool' = Taken(filterPool, f)
      /\ used' = used \union {f}
  BY <1>1, <1>4
<1>6. /\ phase \in [Requests -> {"none", "created", "open", "complete", "destroyed"}]
      /\ filterOf \in [Requests -> Filters \union {None}]
      /\ filter \in [Filters -> [handler : Requests \union {None},
                                 writer : Writers \union {None}]]
      /\ filterPool \in [Filters -> 0..1]
  BY DEF SharedInv, SharedTyped
<1>7. /\ \A q \in Requests \ {r} : phase'[q] = phase[q] /\ filterOf'[q] = filterOf[q]
      /\ phase'[r] = "created" /\ filterOf'[r] = f
      /\ \A g \in Filters \ {f} : filter'[g] = filter[g] /\ filterPool'[g] = filterPool[g]
      /\ filter'[f].handler = r /\ filter'[f].writer = None
      /\ filterPool' \in [Filters -> 0..1]
      /\ filterPool'[f] = 0
  <2>1. filterPool[f] \in {0, 1}
    BY <1>3, <1>6
  <2>2. (IF filterPool[f] > 0 THEN filterPool[f] - 1 ELSE 0) = 0
    BY <2>1
  <2>3. filterPool' = [filterPool EXCEPT ![f] = 0]
    BY <1>5, <2>2 DEF Taken
  <2> QED
    BY <1>3, <1>4, <1>5, <1>6, <2>3
<1>8. SharedTyped'
  BY <1>2, <1>3, <1>5, <1>6, <1>7 DEF SharedInv, SharedTyped
<1>9. given[r] = None
  BY <1>2 DEF SharedInv, GivenLater
<1>10. \A q \in Requests : (Own(q)' <=> Own(q)) /\ (q # r => (Serving(q)' <=> Serving(q)))
  BY <1>2, <1>7, <1>9 DEF Own, Serving
<1>11. PoolInv'
  <2>1. ASSUME NEW q \in Requests, Serving(q)' PROVE FilterOfOwn(q)'
    <3>1. CASE q = r
      BY <1>2, <1>3, <1>5, <1>7, <1>9, <3>1 DEF FilterOfOwn
    <3>2. CASE q # r
      <4>1. FilterOfOwn(q)
        BY <1>10, <2>1, <3>2 DEF SharedInv, PoolInv
      <4>2. filterOf[q] # f
        BY <1>4, <4>1, ValuesAssumption DEF FilterOfOwn
      <4> QED
        BY <1>2, <1>5, <1>7, <3>2, <4>1, <4>2 DEF FilterOfOwn
    <3> QED
      BY <3>1, <3>2
  <2>2. ASSUME NEW g \in Filters PROVE Served(g)'
    <3>1. CASE g = f
      BY <1>7, <3>1, ValuesAssumption DEF Served, Serving
    <3>2. CASE g # f
      <4>1. filter'[g] = filter[g] /\ Served(g) /\ filter[g].handler \in Requests \union {None}
        BY <1>6, <1>7, <3>2 DEF SharedInv, PoolInv
      <4>2. filter[g].handler = r => filter[g].handler = None
        <5> SUFFICES ASSUME filter[g].handler = r, r # None PROVE FALSE
          OBVIOUS
        <5> QED
          BY <1>2, <4>1 DEF Served, Serving
      <4> QED
        BY <1>7, <1>10, <4>1, <4>2 DEF Served
    <3> QED
      BY <3>1, <3>2
  <2>3. ASSUME NEW q \in Requests, Own(q)'
        PROVE  given'[q] \in used' /\ writerPool'[given'[q]] = 0
    BY <1>2, <1>5, <1>10, <2>3 DEF SharedInv, PoolInv
  <2> QED
    BY <2>1, <2>2, <2>3 DEF PoolInv
<1>12. GivenLater' /\ HandleOfOwn'
  BY <1>2, <1>7, <1>9, <1>10 DEF SharedInv, GivenLater, HandleOfOwn
<1> QED
  BY <1>8, <1>11, <1>12 DEF SharedInv

LEMMA SharedOnRequestHeaders ==
    ASSUME SharedInv, NEW r \in Requests, OnRequestHeaders(r)
    PROVE  SharedInv'
<1>1. PICK w \in Gettable(Writers, writerPool) :
        /\ writer' = [writer EXCEPT ![w] = reset(w, r)]
        /\ filter' = [filter EXCEPT ![filterOf[r]].writer = w]
        /\ writerPool' = Taken(writerPool, w)
        /\ used' = used \union {w}
        /\ given' = [given EXCEPT ![r] = w]
  BY DEF OnRequestHeaders
<1>2. /\ phase[r] = "created" /\ phase' = [phase EXCEPT ![r] = "open"]
      /\ UNCHANGED <<filterOf, filterPool>>
  BY DEF OnRequestHeaders
<1>3. w \in Writers /\ \A q \in Requests : Own(q) => given[q] # w
  BY TakenIsFree
<1>4. given[r] = None /\ Serving(r) /\ FilterOfOwn(r)
  BY <1>2 DEF SharedInv, GivenLater, PoolInv, Serving
<1> DEFINE f == filterOf[r]
<1>5. f \in Filters /\ f \in used /\ filterPool[f] = 0 /\ filter[f].handler = r
  BY <1>4 DEF FilterOfOwn
<1>6. /\ phase \in [Requests -> {"none", "created", "open", "complete", "destroyed"}]
      /\ given \in [Requests -> Writers \union {None}]
      /\ filter \in [Filters -> [handler : Requests \union {None},
                                 writer : Writers \union {None}]]
      /\ DOMAIN writer = Writers
      /\ writerPool \in [Writers -> 0..1]
  BY DEF SharedInv, SharedTyped
<1>7. "handle" \in DOMAIN reset(w, r) /\ reset(w, r).handle = r
  BY DEF reset, BlankWriter
<1> HIDE DEF f
<1>8. /\ \A q \in Requests \ {r} : phase'[q] = phase[q] /\ given'[q] = given[q]
      /\ phase'[r] = "open" /\ given'[r] = w
      /\ \A g \in Filters \ {f} : filter'[g] = filter[g]
      /\ filter'[f].handler = r /\ filter'[f].writer = w
      /\ \A v \in Writers \ {w} : writer'[v] = writer[v] /\ writerPool'[v] = writerPool[v]
      /\ writer'[w] = reset(w, r)
      /\ writerPool' \in [Writers -> 0..1]
      /\ writerPool'[w] = 0
  <2>1. writerPool[w] \in {0, 1}
    BY <1>3, <1>6
  <2>2. (IF writerPool[w] > 0 THEN writerPool[w] - 1 ELSE 0) = 0
    BY <2>1
  <2>3. writerPool' = [writerPool EXCEPT ![w] = 0]
    BY <1>1, <2>2 DEF Taken
  <2>4. filter' = [filter EXCEPT ![f].writer = w]
    BY <1>1 DEF f
  <2> QED
    BY <1>1, <1>2, <1>3, <1>5, <1>6, <2>3, <2>4
<1>9. SharedTyped'
  <2>1. filter' = [filter EXCEPT ![f].writer = w]
    BY <1>1 DEF f
  <2>2. filter' \in [Filters -> [handler : Requests \union {None},
                                 writer : Writers \union {None}]]
    BY <1>3, <1>5, <1>6, <2>1
  <2>3. DOMAIN writer' = Writers /\ \A v \in Writers : "handle" \in DOMAIN writer'[v]
    BY <1>1, <1>3, <1>6, <1>7, <1>8 DEF SharedInv, SharedTyped
  <2>4. /\ phase' \in [Requests -> {"none", "created", "open", "complete", "destroyed"}]
        /\ given' \in [Requests -> Writers \union {None}]
    BY <1>1, <1>2, <1>3, <1>6
  <2> QED
    BY <1>2, <1>8, <2>2, <2>3, <2>4 DEF SharedInv, SharedTyped
<1>10. \A q \in Requests : (Serving(q)' <=> Serving(q)) /\ (q # r => (Own(q)' <=> Own(q)))
  BY <1>2, <1>4, <1>8 DEF Own, Serving
<1>a. \A q \in Requests : Own(q) => given[q] \in Writers
  BY <1>6 DEF Own
<1>11. PoolInv'
  <2>1. ASSUME NEW q \in Requests, Serving(q)' PROVE FilterOfOwn(q)'
    <3>1. FilterOfOwn(q)
      BY <1>10, <2>1 DEF SharedInv, PoolInv
    <3>2. CASE q = r
      BY <1>1, <1>2, <1>5, <1>8, <3>2 DEF FilterOfOwn, f
    <3>3. CASE q # r
      <4>1. filterOf[q] # f
        BY <1>5, <3>1, <3>3 DEF FilterOfOwn
      <4>2. /\ filterOf' = filterOf /\ filterPool' = filterPool /\ given'[q] = given[q]
            /\ used \subseteq used'
        BY <1>1, <1>2, <1>8, <3>3
      <4>3. filterOf[q] \in Filters \ {f}
        BY <3>1, <4>1 DEF FilterOfOwn
      <4>4. filter'[filterOf[q]] = filter[filterOf[q]]
        BY <1>8, <4>3
      <4> QED
        BY <3>1, <4>2, <4>4 DEF FilterOfOwn
    <3> QED
      BY <3>2, <3>3
  <2>2. ASSUME NEW g \in Filters PROVE Served(g)'
    <3>1. CASE g = f
      BY <1>2, <1>8, <3>1, ValuesAssumption DEF Served, Serving, f
    <3>2. CASE g # f
      <4>1. filter'[g] = filter[g] /\ Served(g) /\ filter[g].handler \in Requests \union {None}
        BY <1>6, <1>8, <3>2 DEF SharedInv, PoolInv
      <4> QED
        BY <1>2, <1>10, <4>1 DEF Served
    <3> QED
      BY <3>1, <3>2
  <2>3. ASSUME NEW q \in Requests, Own(q)'
        PROVE  given'[q] \in used' /\ writerPool'[given'[q]] = 0
    <3>1. CASE q = r
      BY <1>1, <1>8, <3>1
    <3>2. CASE q # r
      <4>1. Own(q) /\ given'[q] = given[q] /\ given[q] \in Writers \ {w}
        BY <1>3, <1>8, <1>10, <2>3, <3>2, <1>a
      <4>2. given[q] \in used /\ writerPool[given[q]] = 0
        BY <4>1 DEF SharedInv, PoolInv
      <4> QED
        BY <1>1, <1>8, <4>1, <4>2
    <3> QED
      BY <3>1, <3>2
  <2> QED
    BY <2>1, <2>2, <2>3 DEF PoolInv
<1>12. GivenLater'
  BY <1>2, <1>8 DEF SharedInv, GivenLater
<1>13. HandleOfOwn'
  BY <1>3, <1>7, <1>8, <1>10, <1>a DEF SharedInv, HandleOfOwn
<1> QED
  BY <1>9, <1>11, <1>12, <1>13 DEF SharedInv

(* No call of a Writer changes its handle.                                 *)
LEMMA HandleStays ==
    ASSUME NEW w, NEW x, NEW y, NEW v \in DOMAIN writer, "handle" \in DOMAIN writer[v],
           \/ writer' = writer
           \/ writer' = [writer EXCEPT ![w].queued = x]
           \/ writer' = [writer EXCEPT ![w].responded = TRUE]
           \/ writer' = [writer EXCEPT ![w].responded = TRUE, ![w].localResp = y]
           \/ writer' = [writer EXCEPT ![w].goStarted = TRUE, ![w].goCancel = y]
    PROVE  /\ DOMAIN writer' = DOMAIN writer
           /\ "handle" \in DOMAIN writer'[v] /\ writer'[v].handle = writer[v].handle
<1>1. DOMAIN writer' = DOMAIN writer
  OBVIOUS
<1>2. \/ writer'[v] = writer[v]
      \/ writer'[v] = [writer[v] EXCEPT !.queued = x]
      \/ writer'[v] = [writer[v] EXCEPT !.responded = TRUE]
      \/ writer'[v] = [writer[v] EXCEPT !.responded = TRUE, !.localResp = y]
      \/ writer'[v] = [writer[v] EXCEPT !.goStarted = TRUE, !.goCancel = y]
  OBVIOUS
<1> QED
  BY <1>1, <1>2

LEMMA SharedOnStreamComplete ==
    ASSUME SharedInv, NEW r \in Requests, OnStreamComplete(r)
    PROVE  SharedInv'
<1> USE DEF pools
<1> DEFINE w == filter[filterOf[r]].writer
<1>1. /\ phase[r] \in {"created", "open"} /\ phase' = [phase EXCEPT ![r] = "complete"]
      /\ writer' = writer \/ writer' = [writer EXCEPT ![w].queued = << >>]
      /\ UNCHANGED <<filterOf, filter, pools, given>>
  BY DEF OnStreamComplete
<1>2. /\ phase' \in [Requests -> {"none", "created", "open", "complete", "destroyed"}]
      /\ phase'[r] = "complete" /\ \A q \in Requests \ {r} : phase'[q] = phase[q]
  BY <1>1 DEF SharedInv, SharedTyped
<1>3. /\ DOMAIN writer' = Writers
      /\ \A v \in Writers : "handle" \in DOMAIN writer'[v] /\ writer'[v].handle = writer[v].handle
  BY <1>1, HandleStays DEF SharedInv, SharedTyped
<1>4. SharedTyped'
  BY <1>1, <1>2, <1>3 DEF SharedInv, SharedTyped
<1>5. \A q \in Requests : (Serving(q)' <=> Serving(q)) /\ (Own(q)' <=> Own(q))
  BY <1>1, <1>2 DEF Own, Serving
<1>6. PoolInv'
  <2>1. \A q \in Requests : FilterOfOwn(q) => FilterOfOwn(q)'
    BY <1>1 DEF FilterOfOwn
  <2>2. \A f \in Filters : filter[f].handler \in Requests \union {None}
    BY DEF SharedInv, SharedTyped
  <2>3. \A f \in Filters : Served(f)'
    BY <1>1, <1>5, <2>2 DEF SharedInv, PoolInv, Served
  <2> QED
    BY <1>1, <1>5, <2>1, <2>3 DEF SharedInv, PoolInv
<1>7. GivenLater' /\ HandleOfOwn'
  <2>1. \A q \in Requests : Own(q) => given[q] \in Writers
    BY DEF SharedInv, SharedTyped, Own
  <2> QED
    BY <1>1, <1>2, <1>3, <1>5, <2>1 DEF SharedInv, GivenLater, HandleOfOwn
<1> QED
  BY <1>4, <1>6, <1>7 DEF SharedInv

LEMMA SharedOnDestroy ==
    ASSUME SharedInv, NEW r \in Requests, OnDestroy(r)
    PROVE  SharedInv'
<1> USE DEF goroutines
<1> DEFINE f == filterOf[r]
           w == filter[filterOf[r]].writer
<1>1. /\ phase[r] = "complete" /\ phase' = [phase EXCEPT ![r] = "destroyed"]
      /\ writerPool' = [v \in Writers |-> writerPool[v] + IF v = w THEN 1 ELSE 0]
      /\ filterPool' = [filterPool EXCEPT ![f] = @ + 1]
      /\ filter' = [filter EXCEPT ![f] = BlankFilter]
      /\ UNCHANGED <<filterOf, writer, used, given>>
  BY DEF OnDestroy, left
<1>2. Serving(r) /\ FilterOfOwn(r)
  BY <1>1 DEF Serving, SharedInv, PoolInv
<1>3. /\ f \in Filters /\ filterPool[f] = 0 /\ filter[f].handler = r /\ w = given[r]
  BY <1>2 DEF FilterOfOwn
<1> HIDE DEF f, w
<1>4. /\ phase \in [Requests -> {"none", "created", "open", "complete", "destroyed"}]
      /\ filter \in [Filters -> [handler : Requests \union {None},
                                 writer : Writers \union {None}]]
      /\ filterPool \in [Filters -> 0..1] /\ writerPool \in [Writers -> 0..1]
      /\ given \in [Requests -> Writers \union {None}]
  BY DEF SharedInv, SharedTyped
<1>a. \A q \in Requests : Own(q) => given[q] \in Writers /\ writer[given[q]].handle = q
  BY <1>4 DEF Own, SharedInv, HandleOfOwn
<1>5. w # None => w \in Writers /\ writerPool[w] = 0 /\ \A q \in Requests \ {r} : Own(q) => given[q] # w
  <2> SUFFICES ASSUME w # None
               PROVE  w \in Writers /\ writerPool[w] = 0
                      /\ \A q \in Requests \ {r} : Own(q) => given[q] # w
    OBVIOUS
  <2>1. Own(r)
    BY <1>2, <1>3 DEF Own
  <2> QED
    BY <1>3, <1>a, <2>1 DEF SharedInv, PoolInv
<1>6. /\ phase'[r] = "destroyed" /\ \A q \in Requests \ {r} : phase'[q] = phase[q]
      /\ filter'[f] = BlankFilter /\ filterPool'[f] = 1
      /\ \A g \in Filters \ {f} : filter'[g] = filter[g] /\ filterPool'[g] = filterPool[g]
      /\ \A v \in Writers \ {w} : writerPool'[v] = writerPool[v]
      /\ phase' \in [Requests -> {"none", "created", "open", "complete", "destroyed"}]
      /\ filter' \in [Filters -> [handler : Requests \union {None},
                                  writer : Writers \union {None}]]
      /\ filterPool' \in [Filters -> 0..1] /\ writerPool' \in [Writers -> 0..1]
  <2>1. filterPool' = [filterPool EXCEPT ![f] = 1]
    BY <1>1, <1>3
  <2>2. \A v \in Writers : writerPool'[v] = IF v = w THEN 1 ELSE writerPool[v]
    <3> SUFFICES ASSUME NEW v \in Writers
                 PROVE  writerPool'[v] = IF v = w THEN 1 ELSE writerPool[v]
      OBVIOUS
    <3>1. v = w => writerPool[v] = 0
      BY <1>5, ValuesAssumption
    <3>2. writerPool[v] \in {0, 1} /\ writerPool'[v] = writerPool[v] + IF v = w THEN 1 ELSE 0
      BY <1>1, <1>4
    <3> QED
      BY <3>1, <3>2
  <2>3. writerPool' = [v \in Writers |-> IF v = w THEN 1 ELSE writerPool[v]]
    BY <1>1, <2>2
  <2>4. writerPool' \in [Writers -> 0..1]
    BY <1>4, <2>3
  <2> QED
    BY <1>1, <1>3, <1>4, <2>1, <2>2, <2>4, BlankType
<1>7. SharedTyped'
  BY <1>1, <1>6 DEF SharedInv, SharedTyped
<1>8. /\ \A q \in Requests \ {r} : (Serving(q)' <=> Serving(q)) /\ (Own(q)' <=> Own(q))
      /\ ~Serving(r)' /\ ~Own(r)'
  BY <1>1, <1>6 DEF Own, Serving
<1>9. PoolInv'
  <2>1. ASSUME NEW q \in Requests, Serving(q)' PROVE FilterOfOwn(q)'
    <3>1. q # r /\ FilterOfOwn(q)
      BY <1>8, <2>1 DEF SharedInv, PoolInv
    <3>2. filterOf[q] \in Filters \ {f}
      BY <1>3, <3>1 DEF FilterOfOwn
    <3>3. filter'[filterOf[q]] = filter[filterOf[q]] /\ filterPool'[filterOf[q]] = filterPool[filterOf[q]]
      BY <1>6, <3>2
    <3> QED
      BY <1>1, <3>1, <3>3 DEF FilterOfOwn
  <2>2. ASSUME NEW g \in Filters PROVE Served(g)'
    <3>1. CASE g = f
      BY <1>6, <3>1 DEF Served, BlankFilter
    <3>2. CASE g # f
      <4>1. filter'[g] = filter[g] /\ Served(g) /\ filter[g].handler \in Requests \union {None}
        BY <1>4, <1>6, <3>2 DEF SharedInv, PoolInv
      <4>2. filter[g].handler = r => filter[g].handler = None
        BY <3>2, <4>1 DEF Served, f
      <4> QED
        BY <1>1, <1>8, <4>1, <4>2 DEF Served
    <3> QED
      BY <3>1, <3>2
  <2>3. ASSUME NEW q \in Requests, Own(q)'
        PROVE  given'[q] \in used' /\ writerPool'[given'[q]] = 0
    <3>1. q # r /\ Own(q)
      BY <1>8, <2>3
    <3>2. given[q] \in Writers \ {w}
      BY <1>3, <1>5, <3>1, <1>a, ValuesAssumption
    <3> QED
      BY <1>1, <1>6, <3>1, <3>2 DEF SharedInv, PoolInv
  <2> QED
    BY <2>1, <2>2, <2>3 DEF PoolInv
<1>10. GivenLater' /\ HandleOfOwn'
  BY <1>1, <1>6, <1>8 DEF SharedInv, GivenLater, HandleOfOwn
<1> QED
  BY <1>7, <1>9, <1>10 DEF SharedInv

LEMMA SharedNext ==
    ASSUME SharedInv, [Next]_vars
    PROVE  SharedInv'
<1> USE DEF pools, envoy, goroutines
<1>1. CASE \E r \in Requests :
             \/ newSahlFilter(r) \/ OnRequestHeaders(r)
             \/ OnStreamComplete(r) \/ OnDestroy(r)
  BY <1>1, SharedNewSahlFilter, SharedOnRequestHeaders, SharedOnStreamComplete,
     SharedOnDestroy
<1>2. ASSUME UNCHANGED <<phase, filterOf, filter, pools, given>>,
             NEW w, NEW x, NEW y,
             \/ writer' = writer
             \/ writer' = [writer EXCEPT ![w].queued = x]
             \/ writer' = [writer EXCEPT ![w].responded = TRUE]
             \/ writer' = [writer EXCEPT ![w].responded = TRUE, ![w].localResp = y]
             \/ writer' = [writer EXCEPT ![w].goStarted = TRUE, ![w].goCancel = y]
      PROVE  SharedInv'
  <2>1. DOMAIN writer' = DOMAIN writer
    BY <1>2
  <2>2. ASSUME NEW v \in Writers
        PROVE  "handle" \in DOMAIN writer'[v] /\ writer'[v].handle = writer[v].handle
    <3>1. v \in DOMAIN writer /\ "handle" \in DOMAIN writer[v]
      BY DEF SharedInv, SharedTyped
    <3> QED
      BY <1>2, <3>1, HandleStays
  <2> QED
    BY <1>2, <2>1, <2>2, SharedFrame
<1>3. ASSUME NEW r \in Requests, NEW c \in Codes, Add(r, c) \/ AddReturn(r, c) \/ Send(r, c)
      PROVE  SharedInv'
  <2>1. UNCHANGED <<phase, filterOf, filter, pools, given>>
    BY <1>3 DEF Add, AddReturn, Send
  <2>2. \/ writer' = writer
        \/ writer' = [writer EXCEPT ![given[r]].queued = Append(adding[<<r, c>>], <<r, c>>)]
        \/ writer' = [writer EXCEPT ![given[r]].responded = TRUE]
        \/ writer' = [writer EXCEPT ![given[r]].responded = TRUE, ![given[r]].localResp = r]
    BY <1>3 DEF Add, AddReturn, Send
  <2> QED
    BY <1>2, <2>1, <2>2
<1>4. ASSUME NEW r \in Requests, Go(r)
      PROVE  SharedInv'
  <2>1. UNCHANGED <<phase, filterOf, filter, pools, given>>
    BY <1>4 DEF Go
  <2>2. \/ writer' = writer
        \/ writer' = [writer EXCEPT ![given[r]].goStarted = TRUE, ![given[r]].goCancel = r]
    BY <1>4 DEF Go
  <2> QED
    BY <1>2, <2>1, <2>2
<1>5. ASSUME UNCHANGED <<phase, filterOf, filter, pools, given, writer>>
      PROVE  SharedInv'
  BY <1>2, <1>5
<1>6. CASE \E r \in Requests :
             \/ OnRequestHeadersReturn(r) \/ OnResponse(r) \/ OnResponseReturn(r)
             \/ \E c \in Callouts : OnHttpCalloutDone(r, c)
             \/ GoReturn(r) \/ Do(r) \/ DoResult(r) \/ DoGivesUp(r)
  <2>1. UNCHANGED <<phase, filterOf, filter, pools, given, writer>>
    BY <1>6 DEF OnRequestHeadersReturn, OnResponse, OnResponseReturn, OnHttpCalloutDone,
       GoReturn, Do, DoResult, DoGivesUp
  <2> QED
    BY <1>5, <2>1
<1>7. CASE \E t \in tasks : Scheduled(t)
  <2>1. UNCHANGED <<phase, filterOf, filter, pools, given, writer>>
    BY <1>7 DEF Scheduled, RunFlush, RunCallout, DropTask
  <2> QED
    BY <1>5, <2>1
<1>8. CASE UNCHANGED vars
  BY <1>5, <1>8 DEF vars
<1> QED
  BY <1>1, <1>3, <1>4, <1>6, <1>7, <1>8 DEF Next, HostStep, AuthorStep

LEMMA SharedInit == Init => SharedInv
<1> SUFFICES ASSUME Init PROVE SharedInv
  OBVIOUS
<1>1. SharedTyped
  BY BlankType, ValuesAssumption DEF Init, SharedTyped, BlankWriter, BlankFilter
<1>2. PoolInv /\ GivenLater /\ HandleOfOwn
  BY DEF Init, PoolInv, Serving, Served, BlankFilter, Own, GivenLater, HandleOfOwn
<1> QED
  BY <1>1, <1>2 DEF SharedInv

-----------------------------------------------------------------------------
(* Steps that leave a part of the invariant alone                          *)

LEMMA PoolFrame ==
    ASSUME Inv, UNCHANGED <<phase, filterOf, filter, pools, given>>
    PROVE  PoolInv'
<1>1. \A r \in Requests : (Serving(r)' <=> Serving(r)) /\ (Own(r)' <=> Own(r))
  BY DEF Serving, Own
<1>2. \A f \in Filters : filter[f].handler \in Requests \union {None}
  BY DEF Inv, Typed
<1>3. \A r \in Requests : Serving(r) => FilterOfOwn(r)'
  BY DEF Inv, PoolInv, FilterOfOwn, pools
<1>4. \A f \in Filters : Served(f)'
  BY <1>1, <1>2 DEF Inv, PoolInv, Served
<1>5. \A r \in Requests : Own(r) => given[r] \in used' /\ writerPool'[given[r]] = 0
  BY DEF Inv, PoolInv, pools
<1> QED
  BY <1>1, <1>3, <1>4, <1>5 DEF PoolInv

LEMMA ContentFrame ==
    ASSUME Inv, UNCHANGED <<phase, given, writer>>,
           \A r \in Requests : goroutine[r] = "none" <=> goroutine'[r] = "none"
    PROVE  ContentInv'
  BY DEF Inv, ContentInv, Own, Serving

LEMMA ContentCall ==
    ASSUME Inv, NEW r \in Requests, Own(r), UNCHANGED <<phase, given>>,
           \A w \in Writers \ {given[r]} : writer'[w] = writer[w],
           ContentOf(writer'[given[r]], r, goroutine'[r] # "none"),
           \A q \in Requests \ {r} : goroutine'[q] = goroutine[q]
    PROVE  ContentInv'
<1> SUFFICES ASSUME NEW q \in Requests, Own(q)
             PROVE  ContentOf(writer'[given[q]], q, goroutine'[q] # "none")
  BY DEF ContentInv, Own, Serving
<1>1. CASE q = r
  BY <1>1
<1>2. CASE q # r
  <2>1. given[q] \in Writers \ {given[r]}
    BY <1>2, OwnWriter
  <2> QED
    BY <1>2, <2>1 DEF Inv, ContentInv
<1> QED
  BY <1>1, <1>2

LEMMA AddingFrame ==
    ASSUME Inv, UNCHANGED <<phase, given, adding, code>>
    PROVE  AddingInv'
  BY DEF Inv, AddingInv, Own, Serving

LEMMA CalloutFrame ==
    ASSUME Inv, UNCHANGED <<tasks, asked, channel, inflight>>
    PROVE  CalloutInv'
  BY DEF Inv, CalloutInv

LEMMA EffectsFrame ==
    ASSUME Inv, UNCHANGED <<applied, answered>>
    PROVE  OwnEffects'
  BY DEF Inv, OwnEffects

LEMMA CancelledFrame ==
    ASSUME Inv, cancelled' = cancelled, UNCHANGED phase,
           \A r \in Requests : goroutine[r] = "done" => goroutine'[r] = "done"
    PROVE  CancelledByOwnEnd'
  BY DEF Inv, Typed, CancelledByOwnEnd, Over

LEMMA ResultsFrame ==
    ASSUME Inv, UNCHANGED <<results, panicked, blocked>>
    PROVE  DoAnswersItsCall' /\ NoPanic' /\ WorkerNeverBlocks'
  BY DEF Inv, DoAnswersItsCall, NoPanic, WorkerNeverBlocks

-----------------------------------------------------------------------------
(* Envoy creates, opens, completes and destroys                            *)

LEMMA StepNewSahlFilter ==
    ASSUME Inv, NEW r \in Requests, newSahlFilter(r)
    PROVE  Inv'
<1> USE DEF pools, goroutines, callouts, effects
<1>1. PICK f \in Gettable(Filters, filterPool) :
        \/ filter[f].handler # None
        \/ /\ phase' = [phase EXCEPT ![r] = "created"]
           /\ used' = used \union {f}
           /\ UNCHANGED panicked
  BY DEF newSahlFilter
<1>2. /\ phase[r] = "none"
      /\ UNCHANGED <<plan, code, writer, writerPool, goroutines, adding, callouts, added, alone,
                     effects>>
  BY DEF newSahlFilter
<1>3. f \in Filters /\ filter[f].handler = None
  BY <1>1, TakenIsFree, InvImpliesShared DEF BlankFilter
<1>4. /\ phase' = [phase EXCEPT ![r] = "created"]
      /\ used' = used \union {f}
      /\ UNCHANGED panicked
  BY <1>1, <1>3
<1>5. phase'[r] = "created" /\ \A q \in Requests \ {r} : phase'[q] = phase[q]
  BY <1>4 DEF Inv, Typed
<1>6. SharedInv'
  BY SharedNewSahlFilter, InvImpliesShared
<1>7. Typed'
  <2>1. used' \subseteq Filters \union Writers
    BY <1>3, <1>4 DEF Inv, Typed
  <2> QED
    BY <1>2, <1>6, <2>1 DEF Inv, Typed, SharedInv, SharedTyped
<1>8. given[r] = None /\ code[r] = "idle" /\ goroutine[r] = "none"
  BY <1>2 DEF Inv, RunningInv
<1>9. \A q \in Requests : Own(q)' <=> Own(q)
  BY <1>2, <1>5, <1>8 DEF Own, Serving
<1>10. PoolInv'
  BY <1>6 DEF SharedInv
<1>11. RunningInv'
  BY <1>2, <1>5, <1>8 DEF Inv, RunningInv
<1>12. ContentInv'
  BY <1>2, <1>9 DEF Inv, ContentInv
<1>13. AddingInv'
  BY <1>2, <1>9 DEF Inv, AddingInv
<1>14. CancelledByOwnEnd'
  BY <1>2, <1>5 DEF Inv, Typed, CancelledByOwnEnd, Over
<1> QED
  BY <1>2, <1>4, <1>7, <1>10, <1>11, <1>12, <1>13, <1>14, CalloutFrame, EffectsFrame,
     ResultsFrame DEF Inv

LEMMA StepOnRequestHeaders ==
    ASSUME Inv, NEW r \in Requests, OnRequestHeaders(r)
    PROVE  Inv'
<1> USE DEF callouts, effects
<1>1. PICK w \in Gettable(Writers, writerPool) :
        /\ writer' = [writer EXCEPT ![w] = reset(w, r)]
        /\ used' = used \union {w}
        /\ given' = [given EXCEPT ![r] = w]
  BY DEF OnRequestHeaders
<1>2. /\ phase[r] = "created" /\ code[r] = "idle"
      /\ phase' = [phase EXCEPT ![r] = "open"]
      /\ code' = [code EXCEPT ![r] = "handler"]
      /\ UNCHANGED <<plan, filterOf, filterPool, goroutine, cancelled, adding, callouts,
                     panicked, added, alone, effects>>
  BY DEF OnRequestHeaders, Free
<1>3. w \in Writers /\ \A q \in Requests : Own(q) => given[q] # w
  BY TakenIsFree, InvImpliesShared
<1>4. given[r] = None /\ goroutine[r] = "none"
  BY <1>2 DEF Inv, RunningInv
<1>5. SharedInv'
  BY SharedOnRequestHeaders, InvImpliesShared
<1>6. /\ phase \in [Requests -> {"none", "created", "open", "complete", "destroyed"}]
      /\ code \in [Requests -> {"idle", "handler", "observer"}]
      /\ given \in [Requests -> Writers \union {None}]
      /\ writer \in [Writers -> Writer]
  BY DEF Inv, Typed
<1>7. reset(w, r) \in Writer /\ ContentOf(reset(w, r), r, FALSE)
  <2>1. << >> \in Seq(Mutations) /\ Mine(<< >>, r)
    BY DEF Mine
  <2>2. reset(w, r) \in Writer
    BY <2>1 DEF reset, BlankWriter, Writer
  <2> QED
    BY <2>1, <2>2 DEF reset, BlankWriter, ContentOf
<1>8. /\ \A q \in Requests \ {r} : phase'[q] = phase[q] /\ given'[q] = given[q] /\ code'[q] = code[q]
      /\ phase'[r] = "open" /\ given'[r] = w /\ code'[r] = "handler"
      /\ \A v \in Writers \ {w} : writer'[v] = writer[v]
      /\ writer'[w] = reset(w, r)
  BY <1>1, <1>2, <1>3, <1>6
<1>9. Typed'
  <2>1. /\ code' \in [Requests -> {"idle", "handler", "observer"}]
        /\ writer' \in [Writers -> Writer]
    BY <1>1, <1>2, <1>3, <1>6, <1>7
  <2>2. used' \subseteq Filters \union Writers
    BY <1>1, <1>3 DEF Inv, Typed
  <2> QED
    BY <1>2, <1>5, <2>1, <2>2 DEF Inv, Typed, SharedInv, SharedTyped
<1>10. \A q \in Requests : q # r => (Own(q)' <=> Own(q))
  BY <1>2, <1>8 DEF Own, Serving
<1>11. PoolInv'
  BY <1>5 DEF SharedInv
<1>12. RunningInv'
  <2>1. w # None
    BY <1>3, ValuesAssumption
  <2> QED
    BY <1>2, <1>4, <1>8, <2>1 DEF Inv, RunningInv
<1>13. ContentInv'
  <2> SUFFICES ASSUME NEW q \in Requests, Own(q)'
               PROVE  ContentOf(writer'[given'[q]], q, goroutine'[q] # "none")
    BY DEF ContentInv
  <2>1. CASE q = r
    BY <1>2, <1>4, <1>7, <1>8, <2>1 DEF ContentOf
  <2>2. CASE q # r
    <3>1. Own(q) /\ given'[q] = given[q] /\ given[q] \in Writers \ {w}
      BY <1>3, <1>8, <1>10, <2>2, OwnWriter
    <3> QED
      BY <1>2, <1>8, <3>1 DEF Inv, ContentInv
  <2> QED
    BY <2>1, <2>2
<1>14. AddingInv'
  <2> SUFFICES ASSUME NEW q \in Requests, NEW c \in Codes, adding[<<q, c>>] # None
               PROVE  /\ Mine(adding[<<q, c>>], q) /\ Own(q)'
                      /\ c # "goroutine" => code'[q] = c
    BY <1>2 DEF AddingInv
  <2>1. /\ Mine(adding[<<q, c>>], q) /\ Own(q)
        /\ c # "goroutine" => code[q] = c
    BY DEF Inv, AddingInv
  <2>2. q # r
    BY <1>4, <2>1 DEF Own
  <2> QED
    BY <1>8, <1>10, <2>1, <2>2
<1>15. CancelledByOwnEnd'
  BY <1>2, <1>8 DEF Inv, Typed, CancelledByOwnEnd, Over
<1> QED
  BY <1>2, <1>9, <1>11, <1>12, <1>13, <1>14, <1>15, CalloutFrame, EffectsFrame, ResultsFrame
  DEF Inv

(* The stream of r ends: the goroutine and the queue of its own Writer.    *)
LEMMA StepOnStreamComplete ==
    ASSUME Inv, NEW r \in Requests, OnStreamComplete(r)
    PROVE  Inv'
<1> USE DEF pools, callouts
<1> DEFINE w == filter[filterOf[r]].writer
           flushes == "observer" \in plan[r] /\ w # None
<1>1. /\ phase[r] \in {"created", "open"} /\ code[r] = "idle"
      /\ phase' = [phase EXCEPT ![r] = "complete"]
      /\ applied' = applied \union (IF flushes THEN Applied(w) ELSE {})
      /\ writer' = (IF flushes THEN [writer EXCEPT ![w].queued = << >>] ELSE writer)
      /\ cancelled' = cancelled \union (IF w = None THEN {} ELSE Cancels(w))
      /\ UNCHANGED <<plan, filterOf, code, filter, pools, goroutine, given, adding, callouts,
                     panicked, added, alone, answered, released>>
  BY DEF OnStreamComplete, Free
<1>2. Serving(r) /\ w = given[r]
  BY <1>1 DEF Serving, Inv, PoolInv, FilterOfOwn
<1> HIDE DEF w
<1>3. phase \in [Requests -> {"none", "created", "open", "complete", "destroyed"}]
  BY DEF Inv, Typed
<1>4. /\ phase'[r] = "complete" /\ \A q \in Requests \ {r} : phase'[q] = phase[q]
      /\ phase' \in [Requests -> {"none", "created", "open", "complete", "destroyed"}]
  BY <1>1, <1>3
<1>5. \A q \in Requests : (Serving(q)' <=> Serving(q)) /\ (Own(q)' <=> Own(q))
  BY <1>1, <1>4 DEF Own, Serving
<1>6. w # None =>
        /\ w \in Writers /\ writer[w] \in Writer /\ Own(r)
        /\ ContentOf(writer[w], r, goroutine[r] # "none")
        /\ \A q \in Requests \ {r} : Own(q) => given[q] # w
  <2> SUFFICES ASSUME w # None
               PROVE  /\ w \in Writers /\ writer[w] \in Writer /\ Own(r)
                      /\ ContentOf(writer[w], r, goroutine[r] # "none")
                      /\ \A q \in Requests \ {r} : Own(q) => given[q] # w
    OBVIOUS
  <2>1. Own(r)
    BY <1>2 DEF Own
  <2> QED
    BY <1>2, <2>1, OwnWriter DEF Inv, ContentInv
<1>7. ASSUME flushes
      PROVE  /\ writer' \in [Writers -> Writer]
             /\ \A v \in Writers \ {w} : writer'[v] = writer[v]
             /\ ContentOf(writer'[w], r, goroutine[r] # "none")
  <2>1. writer' = [writer EXCEPT ![w].queued = << >>] /\ writer \in [Writers -> Writer]
    BY <1>1, <1>7 DEF Inv, Typed
  <2>2. << >> \in Seq(Mutations) /\ Mine(<< >>, r)
    BY DEF Mine
  <2> DEFINE new == [writer[w] EXCEPT !.queued = << >>]
  <2>3. new \in Writer
    BY <1>6, <1>7, <2>2 DEF Writer
  <2>4. ContentOf(new, r, goroutine[r] # "none")
    BY <1>6, <1>7, <2>2 DEF Writer, ContentOf
  <2> HIDE DEF new
  <2>5. writer' = [writer EXCEPT ![w] = new]
    BY <2>1 DEF new
  <2> QED
    BY <1>6, <1>7, <2>1, <2>3, <2>4, <2>5
<1>8. ~flushes => writer' = writer
  BY <1>1
<1>9. /\ applied' \subseteq Requests \X Mutations
      /\ OwnEffects'
  <2>1. CASE flushes
    BY <1>1, <1>2, <1>6, <2>1, AppliedOwn DEF Inv, Typed, OwnEffects
  <2>2. CASE ~flushes
    <3>1. applied' = applied
      BY <1>1, <2>2
    <3> QED
      BY <1>1, <3>1 DEF Inv, Typed, OwnEffects
  <2> QED
    BY <2>1, <2>2
<1>10. cancelled' \subseteq cancelled \union {r}
  <2>1. w # None => Cancels(w) \subseteq {r}
    BY <1>6 DEF Cancels, ContentOf
  <2> QED
    BY <1>1, <2>1
<1> HIDE DEF flushes
<1>11. Typed'
  <2>1. writer' \in [Writers -> Writer]
    BY <1>7, <1>8 DEF Inv, Typed
  <2> QED
    BY <1>1, <1>4, <1>9, <1>10, <2>1 DEF Inv, Typed
<1>12. PoolInv'
  BY SharedOnStreamComplete, InvImpliesShared DEF SharedInv
<1>13. RunningInv'
  BY <1>1, <1>4 DEF Inv, RunningInv
<1>14. ContentInv'
  <2> SUFFICES ASSUME NEW q \in Requests, Own(q)
               PROVE  ContentOf(writer'[given[q]], q, goroutine[q] # "none")
    BY <1>1, <1>5 DEF ContentInv
  <2>1. ContentOf(writer[given[q]], q, goroutine[q] # "none") /\ given[q] \in Writers
    BY OwnWriter DEF Inv, ContentInv
  <2>2. CASE ~flushes
    BY <1>8, <2>1, <2>2
  <2>3. CASE flushes /\ q = r
    BY <1>2, <1>7, <2>3
  <2>4. CASE flushes /\ q # r
    <3>1. given[q] # w
      BY <1>6, <2>4 DEF flushes
    <3> QED
      BY <1>7, <2>1, <2>4, <3>1
  <2> QED
    BY <2>2, <2>3, <2>4
<1>15. AddingInv'
  BY <1>1, <1>5 DEF Inv, AddingInv
<1>16. CancelledByOwnEnd'
  <2>1. \A q \in Requests : Over(q) => Over(q)'
    BY <1>4 DEF Over
  <2>2. Over(r)'
    BY <1>4 DEF Over
  <2> QED
    BY <1>1, <1>10, <2>1, <2>2 DEF Inv, Typed, CancelledByOwnEnd
<1> QED
  BY <1>1, <1>9, <1>11, <1>12, <1>13, <1>14, <1>15, <1>16, CalloutFrame, ResultsFrame DEF Inv

(* The filter and the Writer go back, when nothing of r's code is left that*)
(* could use them.                                                         *)
LEMMA StepOnDestroy ==
    ASSUME Inv, ~Outlives, NEW r \in Requests, OnDestroy(r)
    PROVE  Inv'
<1> USE DEF pools, goroutines, callouts, effects
<1>1. /\ phase[r] = "complete" /\ code[r] = "idle" /\ adding[<<r, "goroutine">>] = None
      /\ phase' = [phase EXCEPT ![r] = "destroyed"]
      /\ UNCHANGED <<plan, filterOf, code, writer, used, goroutines, adding, callouts,
                     panicked, added, alone, effects>>
  BY DEF OnDestroy, Free
<1>2. SharedInv'
  BY SharedOnDestroy, InvImpliesShared
<1>3. phase'[r] = "destroyed" /\ \A q \in Requests \ {r} : phase'[q] = phase[q]
  BY <1>1 DEF Inv, Typed
<1>4. Typed'
  BY <1>1, <1>2 DEF Inv, Typed, SharedInv, SharedTyped
<1>5. /\ \A q \in Requests \ {r} : (Serving(q)' <=> Serving(q)) /\ (Own(q)' <=> Own(q))
      /\ ~Serving(r)' /\ ~Own(r)'
  BY <1>1, <1>3 DEF Own, Serving
<1>6. PoolInv'
  BY <1>2 DEF SharedInv
<1>7. RunningInv'
  BY <1>1, <1>3 DEF Inv, RunningInv
<1>8. ContentInv'
  BY <1>1, <1>5 DEF Inv, ContentInv
<1>9. AddingInv'
  <2> SUFFICES ASSUME NEW q \in Requests, NEW c \in Codes, adding[<<q, c>>] # None
               PROVE  /\ Mine(adding[<<q, c>>], q) /\ Own(q)'
                      /\ c # "goroutine" => code[q] = c
    BY <1>1 DEF AddingInv
  <2>1. /\ Mine(adding[<<q, c>>], q) /\ Own(q)
        /\ c # "goroutine" => code[q] = c
    BY DEF Inv, AddingInv
  <2>2. q # r
    BY <1>1, <2>1 DEF Codes
  <2> QED
    BY <1>5, <2>1, <2>2
<1>10. CancelledByOwnEnd'
  BY <1>1, <1>3 DEF Inv, Typed, CancelledByOwnEnd, Over
<1> QED
  BY <1>1, <1>4, <1>6, <1>7, <1>8, <1>9, <1>10, CalloutFrame, EffectsFrame, ResultsFrame
  DEF Inv

-----------------------------------------------------------------------------
(* Handlers and observers                                                  *)

LEMMA StepOnRequestHeadersReturn ==
    ASSUME Inv, NEW r \in Requests, OnRequestHeadersReturn(r)
    PROVE  Inv'
<1> USE DEF pools, goroutines, callouts
<1>1. /\ code[r] = "handler" /\ adding[<<r, "handler">>] = None
      /\ code' = [code EXCEPT ![r] = "idle"]
      /\ UNCHANGED effects \/ flush(given[r])
      /\ UNCHANGED <<plan, phase, filterOf, filter, writer, pools, goroutines, adding,
                     callouts, panicked, added, alone>>
  BY DEF OnRequestHeadersReturn, Undecided
<1>2. Own(r)
  BY <1>1, OpenOwns DEF Inv, RunningInv
<1>3. /\ applied' \subseteq Requests \X Mutations
      /\ answered' \subseteq Requests \X Requests
      /\ released' \subseteq Requests
      /\ OwnEffects'
  <2>1. CASE flush(given[r])
    BY <1>2, <2>1, FlushOwn
  <2>2. CASE UNCHANGED effects
    BY <2>2 DEF effects, Inv, Typed, OwnEffects
  <2> QED
    BY <1>1, <2>1, <2>2
<1>4. code' \in [Requests -> {"idle", "handler", "observer"}] /\ code'[r] = "idle"
      /\ \A q \in Requests \ {r} : code'[q] = code[q]
  BY <1>1 DEF Inv, Typed
<1>5. Typed'
  BY <1>1, <1>3, <1>4 DEF Inv, Typed
<1>6. RunningInv'
  BY <1>1, <1>4 DEF Inv, RunningInv
<1>7. AddingInv'
  <2> SUFFICES ASSUME NEW q \in Requests, NEW c \in Codes, adding[<<q, c>>] # None
               PROVE  /\ Mine(adding[<<q, c>>], q) /\ Own(q)'
                      /\ c # "goroutine" => code'[q] = c
    BY <1>1 DEF AddingInv
  <2>1. /\ Mine(adding[<<q, c>>], q) /\ Own(q)
        /\ c # "goroutine" => code[q] = c
    BY DEF Inv, AddingInv
  <2>2. c # "goroutine" => q # r
    BY <1>1, <2>1 DEF Codes
  <2> QED
    BY <1>1, <1>4, <2>1, <2>2 DEF Own, Serving
<1> QED
  BY <1>1, <1>3, <1>5, <1>6, <1>7, PoolFrame, ContentFrame, CalloutFrame, CancelledFrame,
     ResultsFrame DEF Inv

LEMMA StepOnResponse ==
    ASSUME Inv, NEW r \in Requests, OnResponse(r)
    PROVE  Inv'
<1> USE DEF pools, goroutines, callouts, effects
<1>1. /\ phase[r] = "open" /\ code[r] = "idle"
      /\ code' = [code EXCEPT ![r] = "observer"]
      /\ UNCHANGED <<plan, phase, filterOf, filter, writer, pools, goroutines, adding,
                     callouts, panicked, added, alone, effects>>
  BY DEF OnResponse, Free
<1>2. code' \in [Requests -> {"idle", "handler", "observer"}] /\ code'[r] = "observer"
      /\ \A q \in Requests \ {r} : code'[q] = code[q]
  BY <1>1 DEF Inv, Typed
<1>3. Typed'
  BY <1>1, <1>2 DEF Inv, Typed
<1>4. RunningInv'
  BY <1>1, <1>2 DEF Inv, RunningInv
<1>5. AddingInv'
  <2> SUFFICES ASSUME NEW q \in Requests, NEW c \in Codes, adding[<<q, c>>] # None
               PROVE  /\ Mine(adding[<<q, c>>], q) /\ Own(q)'
                      /\ c # "goroutine" => code'[q] = c
    BY <1>1 DEF AddingInv
  <2>1. /\ Mine(adding[<<q, c>>], q) /\ Own(q)
        /\ c # "goroutine" => code[q] = c
    BY DEF Inv, AddingInv
  <2>2. c # "goroutine" => q # r
    BY <1>1, <2>1 DEF Codes
  <2> QED
    BY <1>1, <1>2, <2>1, <2>2 DEF Own, Serving
<1> QED
  BY <1>1, <1>3, <1>4, <1>5, PoolFrame, ContentFrame, CalloutFrame, EffectsFrame,
     CancelledFrame, ResultsFrame DEF Inv

LEMMA StepOnResponseReturn ==
    ASSUME Inv, NEW r \in Requests, OnResponseReturn(r)
    PROVE  Inv'
<1> USE DEF pools, goroutines, callouts, effects
<1>1. /\ code[r] = "observer" /\ adding[<<r, "observer">>] = None
      /\ code' = [code EXCEPT ![r] = "idle"]
      /\ UNCHANGED <<plan, phase, filterOf, filter, writer, pools, goroutines, adding,
                     callouts, panicked, added, alone, effects>>
  BY DEF OnResponseReturn
<1>2. code' \in [Requests -> {"idle", "handler", "observer"}] /\ code'[r] = "idle"
      /\ \A q \in Requests \ {r} : code'[q] = code[q]
  BY <1>1 DEF Inv, Typed
<1>3. Typed'
  BY <1>1, <1>2 DEF Inv, Typed
<1>4. RunningInv'
  BY <1>1, <1>2 DEF Inv, RunningInv
<1>5. AddingInv'
  <2> SUFFICES ASSUME NEW q \in Requests, NEW c \in Codes, adding[<<q, c>>] # None
               PROVE  /\ Mine(adding[<<q, c>>], q) /\ Own(q)'
                      /\ c # "goroutine" => code'[q] = c
    BY <1>1 DEF AddingInv
  <2>1. /\ Mine(adding[<<q, c>>], q) /\ Own(q)
        /\ c # "goroutine" => code[q] = c
    BY DEF Inv, AddingInv
  <2>2. c # "goroutine" => q # r
    BY <1>1, <2>1 DEF Codes
  <2> QED
    BY <1>1, <1>2, <2>1, <2>2 DEF Own, Serving
<1> QED
  BY <1>1, <1>3, <1>4, <1>5, PoolFrame, ContentFrame, CalloutFrame, EffectsFrame,
     CancelledFrame, ResultsFrame DEF Inv

-----------------------------------------------------------------------------
(* Writer calls                                                            *)

LEMMA StepAdd ==
    ASSUME Inv, ~Outlives, NEW r \in Requests, NEW c \in Codes, Add(r, c)
    PROVE  Inv'
<1> USE DEF envoy, pools, goroutines, callouts, effects
<1>1. /\ MayUse(r, c)
      /\ adding' = [adding EXCEPT ![<<r, c>>] = writer[given[r]].queued]
      /\ UNCHANGED <<plan, envoy, filter, writer, pools, goroutines, callouts, panicked,
                     added, alone, effects>>
  BY DEF Add
<1>2. Own(r)
  BY <1>1, UserOwns
<1>3. /\ writer[given[r]].queued \in Seq(Mutations)
      /\ Mine(writer[given[r]].queued, r)
  BY <1>2, OwnWriter DEF Writer, Inv, ContentInv, ContentOf
<1>4. adding \in [Mutations -> Seq(Mutations) \union {None}] /\ <<r, c>> \in Mutations
  BY DEF Inv, Typed, Mutations
<1>5. /\ adding' \in [Mutations -> Seq(Mutations) \union {None}]
      /\ adding'[<<r, c>>] = writer[given[r]].queued
      /\ \A m \in Mutations \ {<<r, c>>} : adding'[m] = adding[m]
  BY <1>1, <1>3, <1>4
<1>6. Typed'
  BY <1>1, <1>5 DEF Inv, Typed
<1>7. AddingInv'
  <2> SUFFICES ASSUME NEW q \in Requests, NEW d \in Codes, adding'[<<q, d>>] # None
               PROVE  /\ Mine(adding'[<<q, d>>], q) /\ Own(q)
                      /\ d # "goroutine" => code[q] = d
    BY <1>1 DEF AddingInv, Own, Serving
  <2>1. CASE <<q, d>> = <<r, c>>
    <3>1. c # "goroutine" => code[r] = c
      BY <1>1 DEF MayUse, Codes
    <3> QED
      BY <1>2, <1>3, <1>5, <2>1, <3>1
  <2>2. CASE <<q, d>> # <<r, c>>
    <3>1. adding'[<<q, d>>] = adding[<<q, d>>]
      BY <1>5, <2>2 DEF Mutations
    <3> QED
      BY <3>1 DEF Inv, AddingInv
  <2> QED
    BY <2>1, <2>2
<1>8. RunningInv'
  BY <1>1 DEF Inv, RunningInv
<1> QED
  BY <1>1, <1>6, <1>7, <1>8, PoolFrame, ContentFrame, CalloutFrame, EffectsFrame,
     CancelledFrame, ResultsFrame DEF Inv

LEMMA StepAddReturn ==
    ASSUME Inv, ~Outlives, NEW r \in Requests, NEW c \in Codes, AddReturn(r, c)
    PROVE  Inv'
<1> USE DEF envoy, pools, goroutines, callouts, effects
<1> DEFINE m == <<r, c>>
           w == given[r]
           new == [writer[w] EXCEPT !.queued = Append(adding[m], m)]
<1>1. /\ MayUse(r, c) /\ adding[m] # None
      /\ writer' = [writer EXCEPT ![w] = new]
      /\ adding' = [adding EXCEPT ![m] = None]
      /\ added' = added \union {m}
      /\ alone' = alone \union {m} \/ alone' = alone
      /\ UNCHANGED <<plan, envoy, filter, pools, goroutines, callouts, panicked, effects>>
  BY DEF AddReturn
<1>2. Own(r) /\ Mine(adding[m], r)
  BY <1>1, UserOwns DEF Inv, AddingInv
<1>3. /\ adding \in [Mutations -> Seq(Mutations) \union {None}] /\ m \in Mutations
      /\ writer \in [Writers -> Writer] /\ added \subseteq Mutations
  BY DEF Inv, Typed, Mutations
<1>4. w \in Writers /\ writer[w] \in Writer /\ ContentOf(writer[w], r, goroutine[r] # "none")
  BY <1>2, OwnWriter DEF Inv, ContentInv
<1>5. adding[m] \in Seq(Mutations) /\ m[1] = r
  BY <1>1, <1>3
<1>6. Append(adding[m], m) \in Seq(Mutations) /\ Mine(Append(adding[m], m), r)
  <2> HIDE DEF m
  <2>1. /\ Append(adding[m], m) \in Seq(Mutations)
        /\ \A i \in DOMAIN Append(adding[m], m) :
             \/ i \in DOMAIN adding[m] /\ Append(adding[m], m)[i] = adding[m][i]
             \/ Append(adding[m], m)[i] = m
    BY <1>3, <1>5
  <2> QED
    BY <1>2, <1>5, <2>1 DEF Mine
<1>7. new \in Writer /\ ContentOf(new, r, goroutine[r] # "none")
  <2> DEFINE q == Append(adding[m], m)
  <2> HIDE DEF m, q
  <2>1. q \in Seq(Mutations) /\ Mine(q, r)
    BY <1>6 DEF q
  <2>2. new = [writer[w] EXCEPT !.queued = q]
    BY DEF q
  <2>3. new \in Writer
    BY <1>4, <2>1, <2>2 DEF Writer
  <2> QED
    BY <1>4, <2>1, <2>2, <2>3 DEF Writer, ContentOf
<1> HIDE DEF m, new, w
<1>8. /\ writer' \in [Writers -> Writer] /\ writer'[w] = new
      /\ \A v \in Writers \ {w} : writer'[v] = writer[v]
  BY <1>1, <1>3, <1>4, <1>7
<1>9. /\ adding' \in [Mutations -> Seq(Mutations) \union {None}] /\ adding'[m] = None
      /\ \A n \in Mutations \ {m} : adding'[n] = adding[n]
      /\ added' \subseteq Mutations /\ alone' \subseteq added'
  BY <1>1, <1>3 DEF Inv, Typed
<1>10. Typed'
  BY <1>1, <1>8, <1>9 DEF Inv, Typed
<1>11. ContentInv'
  BY <1>1, <1>2, <1>7, <1>8, ContentCall DEF w
<1>12. AddingInv'
  <2> SUFFICES ASSUME NEW q \in Requests, NEW d \in Codes, adding'[<<q, d>>] # None
               PROVE  /\ Mine(adding'[<<q, d>>], q) /\ Own(q)
                      /\ d # "goroutine" => code[q] = d
    BY <1>1 DEF AddingInv, Own, Serving
  <2>1. <<q, d>> \in Mutations \ {m}
    BY <1>9 DEF Mutations
  <2>2. adding'[<<q, d>>] = adding[<<q, d>>]
    BY <1>9, <2>1
  <2> QED
    BY <2>2 DEF Inv, AddingInv
<1>13. RunningInv'
  BY <1>1 DEF Inv, RunningInv
<1> QED
  BY <1>1, <1>10, <1>11, <1>12, <1>13, PoolFrame, CalloutFrame, EffectsFrame,
     CancelledFrame, ResultsFrame DEF Inv

LEMMA StepSend ==
    ASSUME Inv, ~Outlives, NEW r \in Requests, NEW c \in Codes, Send(r, c)
    PROVE  Inv'
<1> USE DEF envoy, pools, goroutines, callouts
<1> DEFINE w == given[r]
           later == [writer[w] EXCEPT !.responded = TRUE, !.localResp = r]
           now == [writer[w] EXCEPT !.responded = TRUE]
<1>1. /\ MayUse(r, c)
      /\ \/ writer' = [writer EXCEPT ![w] = later] /\ UNCHANGED answered
         \/ /\ writer' = [writer EXCEPT ![w] = now]
            /\ answered' = answered \union {<<writer[w].handle, r>>}
      /\ UNCHANGED <<plan, envoy, filter, pools, goroutines, adding, callouts, panicked,
                     added, alone, applied, released>>
  BY DEF Send
<1>2. Own(r)
  BY <1>1, UserOwns
<1>3. /\ w \in Writers /\ writer[w] \in Writer /\ ContentOf(writer[w], r, goroutine[r] # "none")
      /\ writer \in [Writers -> Writer]
  BY <1>2, OwnWriter DEF Inv, Typed, ContentInv
<1>4. /\ later \in Writer /\ ContentOf(later, r, goroutine[r] # "none")
      /\ now \in Writer /\ ContentOf(now, r, goroutine[r] # "none")
  BY <1>3 DEF Writer, ContentOf
<1> HIDE DEF w, later, now
<1>5. PICK new \in {later, now} : writer' = [writer EXCEPT ![w] = new]
  BY <1>1
<1>6. /\ writer' \in [Writers -> Writer] /\ writer'[w] = new
      /\ \A v \in Writers \ {w} : writer'[v] = writer[v]
      /\ ContentOf(new, r, goroutine[r] # "none")
  BY <1>3, <1>4, <1>5
<1>7. answered' \subseteq Requests \X Requests /\ OwnEffects'
  <2>1. writer[w].handle = r
    BY <1>3 DEF ContentOf
  <2> QED
    BY <1>1, <2>1 DEF Inv, Typed, OwnEffects
<1>8. Typed'
  BY <1>1, <1>6, <1>7 DEF Inv, Typed
<1>9. ContentInv'
  BY <1>1, <1>2, <1>6, ContentCall DEF w
<1>10. RunningInv'
  BY <1>1 DEF Inv, RunningInv
<1> QED
  BY <1>1, <1>7, <1>8, <1>9, <1>10, PoolFrame, AddingFrame, CalloutFrame, CancelledFrame,
     ResultsFrame DEF Inv

LEMMA StepGo ==
    ASSUME Inv, ~Outlives, NEW r \in Requests, Go(r)
    PROVE  Inv'
<1> USE DEF envoy, pools, callouts, effects
<1> DEFINE w == given[r]
           new == [writer[w] EXCEPT !.goStarted = TRUE, !.goCancel = r]
<1>1. MayUse(r, "handler") /\ goroutine[r] = "none"
  BY DEF Go, MayUse
<1>2. Own(r)
  BY <1>1, UserOwns DEF Codes
<1>3. /\ w \in Writers /\ writer[w] \in Writer /\ ContentOf(writer[w], r, FALSE)
      /\ writer \in [Writers -> Writer]
  BY <1>1, <1>2, OwnWriter DEF Inv, Typed, ContentInv, ContentOf
<1>4. ~writer[w].goStarted
  BY <1>3 DEF ContentOf
<1>5. /\ writer' = [writer EXCEPT ![w] = new]
      /\ goroutine' = [goroutine EXCEPT ![r] = "running"]
      /\ UNCHANGED panicked
      /\ UNCHANGED <<plan, envoy, filter, pools, given, cancelled, adding, callouts, added, alone,
                     effects>>
  BY <1>4 DEF Go
<1>6. new \in Writer /\ ContentOf(new, r, TRUE)
  BY <1>3 DEF Writer, ContentOf
<1> HIDE DEF w, new
<1>7. /\ writer' \in [Writers -> Writer] /\ writer'[w] = new
      /\ \A v \in Writers \ {w} : writer'[v] = writer[v]
  BY <1>3, <1>5, <1>6
<1>8. /\ goroutine' \in [Requests -> {"none", "running", "waiting", "done"}]
      /\ goroutine'[r] = "running" /\ \A q \in Requests \ {r} : goroutine'[q] = goroutine[q]
  BY <1>5 DEF Inv, Typed
<1>9. Typed'
  BY <1>5, <1>7, <1>8 DEF Inv, Typed
<1>10. ContentInv'
  <2>1. ContentOf(writer'[given[r]], r, goroutine'[r] # "none")
    BY <1>6, <1>7, <1>8 DEF w, ContentOf
  <2> QED
    BY <1>2, <1>5, <1>7, <1>8, <2>1, ContentCall DEF w
<1>11. RunningInv'
  BY <1>2, <1>5, <1>8 DEF Inv, RunningInv, Own
<1>12. CancelledByOwnEnd'
  BY <1>1, <1>5, <1>8, CancelledFrame
<1> QED
  BY <1>5, <1>9, <1>10, <1>11, <1>12, PoolFrame, AddingFrame, CalloutFrame, EffectsFrame,
     ResultsFrame DEF Inv

(* What a step of a goroutine leaves alone that starts or stops nothing    *)
LEMMA GoroutineFrame ==
    ASSUME Inv, NEW r \in Requests, goroutine[r] \notin {"none", "done"},
           NEW state \in {"running", "waiting", "done"},
           goroutine' = [goroutine EXCEPT ![r] = state],
           state = "waiting" => asked'[r] # 0, asked' \in [Requests -> 0..MaxCallouts],
           \A q \in Requests \ {r} : asked'[q] = asked[q],
           UNCHANGED <<envoy, given, writer, filter, pools, adding>>
    PROVE  /\ goroutine' \in [Requests -> {"none", "running", "waiting", "done"}]
           /\ goroutine'[r] = state
           /\ PoolInv' /\ RunningInv' /\ ContentInv' /\ AddingInv'
           /\ cancelled' = cancelled => CancelledByOwnEnd'
<1> USE DEF envoy
<1>1. /\ goroutine' \in [Requests -> {"none", "running", "waiting", "done"}]
      /\ goroutine'[r] = state /\ \A q \in Requests \ {r} : goroutine'[q] = goroutine[q]
  BY DEF Inv, Typed
<1>2. RunningInv'
  BY <1>1 DEF Inv, RunningInv
<1> QED
  BY <1>1, <1>2, PoolFrame, ContentFrame, AddingFrame, CancelledFrame

LEMMA StepGoReturn ==
    ASSUME Inv, NEW r \in Requests, GoReturn(r)
    PROVE  Inv'
<1> USE DEF pools, effects, envoy
<1> DEFINE new == [stream |-> r, runs |-> "flush", by |-> <<r, 0>>]
<1>1. /\ goroutine[r] = "running"
      /\ goroutine' = [goroutine EXCEPT ![r] = "done"]
      /\ cancelled' = cancelled \union {r}
      /\ tasks' = tasks \union {new}
      /\ UNCHANGED <<plan, envoy, filter, writer, pools, given, adding, asked, channel,
                     inflight, blocked, results, panicked, added, alone, effects>>
  BY DEF GoReturn
<1>2. new \in Task /\ new.stream = new.by[1] /\ new.runs # "callout"
  BY DEF Task
<1> HIDE DEF new
<1>3. asked \in [Requests -> 0..MaxCallouts]
  BY DEF Inv, Typed
<1>4. /\ goroutine' \in [Requests -> {"none", "running", "waiting", "done"}]
      /\ goroutine'[r] = "done"
      /\ PoolInv' /\ RunningInv' /\ ContentInv' /\ AddingInv'
  BY <1>1, <1>3, GoroutineFrame
<1>5. Typed'
  BY <1>1, <1>2, <1>4 DEF Inv, Typed
<1>6. CalloutInv'
  BY <1>1, <1>2 DEF Inv, CalloutInv
<1>7. CancelledByOwnEnd'
  <2>1. \A q \in Requests : goroutine[q] = "done" => goroutine'[q] = "done"
    BY <1>1 DEF Inv, Typed
  <2> QED
    BY <1>1, <1>4, <2>1 DEF Inv, Typed, CancelledByOwnEnd, Over
<1> QED
  BY <1>1, <1>4, <1>5, <1>6, <1>7, EffectsFrame, ResultsFrame DEF Inv

-----------------------------------------------------------------------------
(* Do                                                                      *)

LEMMA CalloutType == \A c \in Callouts : c[1] \in Requests /\ c[2] \in 1..MaxCallouts /\ c = <<c[1], c[2]>>
  BY DEF Callouts

LEMMA StepDo ==
    ASSUME Inv, ~Outlives, NEW r \in Requests, Do(r)
    PROVE  Inv'
<1> USE DEF pools, effects, envoy
<1> DEFINE w == given[r]
           c == <<r, asked[r] + 1>>
           new == [stream |-> r, runs |-> "callout", by |-> c]
<1>1. MayUse(r, "goroutine") /\ goroutine[r] = "running" /\ asked[r] < MaxCallouts
  BY DEF Do, MayUse
<1>2. Own(r)
  BY <1>1, UserOwns DEF Codes
<1>3. ContentOf(writer[w], r, TRUE)
  BY <1>1, <1>2 DEF Inv, ContentInv, ContentOf
<1>4. writer[w].goStarted /\ writer[w].handle = r
  BY <1>3 DEF ContentOf
<1>5. /\ goroutine' = [goroutine EXCEPT ![r] = "waiting"]
      /\ asked' = [asked EXCEPT ![r] = @ + 1]
      /\ tasks' = tasks \union {new}
      /\ UNCHANGED <<panicked, plan, envoy, filter, writer, pools, given, cancelled, adding,
                     channel, inflight, blocked, results, added, alone, effects>>
  BY <1>4 DEF Do
<1>6. asked \in [Requests -> 0..MaxCallouts] /\ asked[r] \in Nat /\ MaxCallouts \in Nat
  BY BoundAssumption DEF Inv, Typed
<1>7. c \in Callouts /\ c[1] = r /\ c[2] = asked[r] + 1
  BY <1>1, <1>6 DEF Callouts
<1>8. new \in Task /\ new.stream = r /\ new.by = c
  BY <1>6 DEF Task
<1> HIDE DEF new, w
<1>9. /\ asked' \in [Requests -> 0..MaxCallouts] /\ asked'[r] = asked[r] + 1
      /\ \A q \in Requests \ {r} : asked'[q] = asked[q]
  BY <1>1, <1>5, <1>6
<1>10. /\ goroutine' \in [Requests -> {"none", "running", "waiting", "done"}]
       /\ PoolInv' /\ RunningInv' /\ ContentInv' /\ AddingInv'
       /\ CancelledByOwnEnd'
  <2>1. asked'[r] # 0
    BY <1>6, <1>9
  <2>2. "waiting" \in {"running", "waiting", "done"} /\ goroutine[r] \notin {"none", "done"}
    BY <1>1
  <2> QED
    BY <1>5, <1>9, <2>1, <2>2, GoroutineFrame
<1>11. Typed'
  BY <1>5, <1>8, <1>9, <1>10 DEF Inv, Typed
<1> HIDE DEF c
<1>12. CalloutInv'
  <2>1. \A q \in Requests : asked[q] \in Nat /\ asked'[q] \in Nat /\ asked[q] <= asked'[q]
    BY <1>6, <1>9
  <2>2. ASSUME NEW d \in Callouts, d[2] <= asked[d[1]] PROVE d[2] <= asked'[d[1]]
    BY <2>1, <2>2, CalloutType
  <2>3. channel[c] = << >>
    BY <1>6, <1>7 DEF Inv, CalloutInv
  <2>4. \A s \in Requests : <<s, c>> \notin inflight
    <3> SUFFICES ASSUME NEW s \in Requests, <<s, c>> \in inflight PROVE FALSE
      OBVIOUS
    <3>1. c[2] <= asked[c[1]]
      BY DEF Inv, CalloutInv
    <3> QED
      BY <1>6, <1>7, <3>1
  <2>5. ASSUME NEW t \in tasks'
        PROVE  /\ t.stream = t.by[1]
               /\ t.runs = "callout" =>
                    /\ t.by \in Callouts /\ t.by[2] <= asked'[t.by[1]]
                    /\ channel[t.by] = << >>
                    /\ \A s \in Requests : <<s, t.by>> \notin inflight
    <3>1. CASE t = new
      BY <1>6, <1>7, <1>8, <1>9, <2>3, <2>4, <3>1
    <3>2. CASE t \in tasks
      BY <2>2, <3>2 DEF Inv, CalloutInv
    <3> QED
      BY <1>5, <3>1, <3>2
  <2>6. ASSUME NEW p \in inflight
        PROVE  p[1] = p[2][1] /\ p[2][2] <= asked'[p[2][1]] /\ channel[p[2]] = << >>
    <3>1. p[2] \in Callouts
      BY DEF Inv, Typed
    <3> QED
      BY <2>2, <3>1 DEF Inv, CalloutInv
  <2>7. ASSUME NEW d \in Callouts
        PROVE  /\ channel[d] = << >> \/ channel[d] = <<d>>
               /\ d[2] > asked'[d[1]] => channel[d] = << >>
    <3>1. d[2] > asked'[d[1]] => d[2] > asked[d[1]]
      BY <2>1, CalloutType
    <3> QED
      BY <3>1 DEF Inv, CalloutInv
  <2> QED
    BY <1>5, <2>5, <2>6, <2>7 DEF CalloutInv
<1> QED
  BY <1>5, <1>10, <1>11, <1>12, EffectsFrame, ResultsFrame DEF Inv

LEMMA StepDoGivesUp ==
    ASSUME Inv, NEW r \in Requests, DoGivesUp(r)
    PROVE  Inv'
<1> USE DEF pools, effects, envoy, callouts
<1>1. /\ goroutine[r] = "waiting"
      /\ goroutine' = [goroutine EXCEPT ![r] = "running"]
      /\ UNCHANGED <<plan, envoy, filter, writer, pools, given, cancelled, adding, callouts,
                     panicked, added, alone, effects>>
  BY DEF DoGivesUp
<1>2. asked \in [Requests -> 0..MaxCallouts]
  BY DEF Inv, Typed
<1>3. /\ goroutine' \in [Requests -> {"none", "running", "waiting", "done"}]
      /\ PoolInv' /\ RunningInv' /\ ContentInv' /\ AddingInv'
      /\ CancelledByOwnEnd'
  BY <1>1, <1>2, GoroutineFrame
<1>4. Typed'
  BY <1>1, <1>3 DEF Inv, Typed
<1> QED
  BY <1>1, <1>3, <1>4, CalloutFrame, EffectsFrame, ResultsFrame DEF Inv

LEMMA StepDoResult ==
    ASSUME Inv, NEW r \in Requests, DoResult(r)
    PROVE  Inv'
<1> USE DEF pools, effects, envoy
<1> DEFINE c == <<r, asked[r]>>
<1>1. /\ goroutine[r] = "waiting" /\ channel[c] # << >>
      /\ results' = results \union {<<c, Head(channel[c])>>}
      /\ channel' = [channel EXCEPT ![c] = Tail(channel[c])]
      /\ goroutine' = [goroutine EXCEPT ![r] = "running"]
      /\ UNCHANGED <<plan, envoy, filter, writer, pools, given, cancelled, adding, asked,
                     tasks, inflight, blocked, panicked, added, alone, effects>>
  BY DEF DoResult, ChannelOf
<1>2. asked \in [Requests -> 0..MaxCallouts] /\ asked[r] # 0 /\ MaxCallouts \in Nat
  BY <1>1, BoundAssumption DEF Inv, Typed, RunningInv
<1>3. c \in Callouts
  BY <1>2 DEF Callouts
<1>4. channel[c] = <<c>> /\ DOMAIN channel = Callouts
  BY <1>1, <1>3 DEF Inv, Typed, CalloutInv
<1> HIDE DEF c
<1>5. results' = results \union {<<c, c>>} /\ channel' = [channel EXCEPT ![c] = << >>]
  <2>1. Head(<<c>>) = c /\ Tail(<<c>>) = << >>
    OBVIOUS
  <2> QED
    BY <1>1, <1>4, <2>1
<1>6. /\ goroutine' \in [Requests -> {"none", "running", "waiting", "done"}]
      /\ PoolInv' /\ RunningInv' /\ ContentInv' /\ AddingInv'
      /\ CancelledByOwnEnd'
  BY <1>1, <1>2, GoroutineFrame
<1>7. DOMAIN channel' = Callouts /\ channel'[c] = << >>
      /\ \A d \in Callouts \ {c} : channel'[d] = channel[d]
  BY <1>3, <1>4, <1>5
<1>8. Typed'
  BY <1>1, <1>3, <1>5, <1>6, <1>7 DEF Inv, Typed
<1>9. \A d \in Callouts : channel'[d] = << >> \/ channel'[d] = channel[d]
  BY <1>7
<1>10. CalloutInv'
  <2>1. \A p \in inflight : p[2] \in Callouts
    BY DEF Inv, Typed
  <2> QED
    BY <1>1, <1>9, <2>1 DEF Inv, CalloutInv
<1>11. DoAnswersItsCall' /\ NoPanic' /\ WorkerNeverBlocks'
  BY <1>1, <1>5 DEF Inv, DoAnswersItsCall, NoPanic, WorkerNeverBlocks
<1> QED
  BY <1>1, <1>6, <1>8, <1>10, <1>11, EffectsFrame DEF Inv

-----------------------------------------------------------------------------
(* What was scheduled, and callouts that are done                          *)

LEMMA OpenStream ==
    ASSUME Inv, NEW t \in tasks, Deliverable(t)
    PROVE  /\ t.stream \in Requests /\ t.by[1] = t.stream /\ Own(t.stream)
           /\ writer[given[t.stream]].handle = t.stream
<1>1. t.stream \in Requests /\ t.stream = t.by[1] /\ phase[t.stream] = "open"
  BY DEF Inv, Typed, Task, CalloutInv, Deliverable
<1>2. Own(t.stream)
  BY <1>1, OpenOwns
<1> QED
  BY <1>1, <1>2, OwnWriter

(* A result that is still to come finds its channel empty.                 *)
LEMMA ChannelHasRoom ==
    ASSUME Inv, NEW r \in Requests, NEW c \in Callouts, channel[c] = << >>, Deliver(r, c)
    PROVE  /\ blocked' = blocked /\ DOMAIN channel' = Callouts
           /\ channel'[c] = <<c>> /\ \A d \in Callouts \ {c} : channel'[d] = channel[d]
<1>1. Len(channel[c]) < 1 /\ Append(channel[c], c) = <<c>>
  <2>1. Len(<< >>) < 1 /\ Append(<< >>, c) = <<c>>
    OBVIOUS
  <2> QED
    BY <2>1
<1>2. channel' = [channel EXCEPT ![c] = <<c>>] /\ blocked' = blocked
  BY <1>1 DEF Deliver, ChannelOf, Capacity
<1> QED
  BY <1>2 DEF Inv, Typed

LEMMA StepRunFlush ==
    ASSUME Inv, NEW t \in tasks, RunFlush(t)
    PROVE  Inv'
<1> USE DEF pools, envoy, goroutines
<1>1. /\ Deliverable(t) /\ tasks' = tasks \ {t} /\ flush(given[t.by[1]])
      /\ UNCHANGED <<plan, envoy, filter, writer, pools, goroutines, adding, asked, channel,
                     inflight, blocked, results, panicked, added, alone>>
  BY DEF RunFlush
<1>2. t.stream \in Requests /\ Own(t.stream) /\ flush(given[t.stream])
  BY <1>1, OpenStream
<1>3. /\ applied' \subseteq Requests \X Mutations
      /\ answered' \subseteq Requests \X Requests
      /\ released' \subseteq Requests
      /\ OwnEffects'
  BY <1>2, FlushOwn
<1>4. Typed'
  BY <1>1, <1>3 DEF Inv, Typed
<1>5. CalloutInv' /\ RunningInv'
  BY <1>1 DEF Inv, CalloutInv, RunningInv
<1> QED
  BY <1>1, <1>3, <1>4, <1>5, PoolFrame, ContentFrame, AddingFrame, CancelledFrame,
     ResultsFrame DEF Inv

LEMMA StepDropTask ==
    ASSUME Inv, NEW t \in tasks, DropTask(t)
    PROVE  Inv'
<1> USE DEF pools, envoy, goroutines, effects
<1>1. /\ tasks' = tasks \ {t}
      /\ UNCHANGED <<plan, envoy, filter, writer, pools, goroutines, adding, asked, channel,
                     inflight, blocked, results, panicked, added, alone, effects>>
  BY DEF DropTask
<1>2. Typed'
  BY <1>1 DEF Inv, Typed
<1>3. CalloutInv' /\ RunningInv'
  BY <1>1 DEF Inv, CalloutInv, RunningInv
<1> QED
  BY <1>1, <1>2, <1>3, PoolFrame, ContentFrame, AddingFrame, EffectsFrame, CancelledFrame,
     ResultsFrame DEF Inv

LEMMA StepRunCallout ==
    ASSUME Inv, NEW t \in tasks, RunCallout(t)
    PROVE  Inv'
<1> USE DEF pools, envoy, goroutines, effects
<1> DEFINE c == t.by
           s == t.stream
<1>1. /\ t.runs = "callout" /\ Deliverable(t) /\ tasks' = tasks \ {t}
      /\ \/ /\ inflight' = inflight \union {<<writer[given[c[1]]].handle, c>>}
            /\ UNCHANGED <<channel, blocked>>
         \/ Deliver(s, c) /\ UNCHANGED inflight
      /\ UNCHANGED <<plan, envoy, filter, writer, pools, goroutines, adding, asked, results,
                     panicked, added, alone, effects>>
  BY DEF RunCallout
<1>2. s \in Requests /\ c[1] = s /\ writer[given[c[1]]].handle = s
  BY <1>1, OpenStream
<1>3. /\ c \in Callouts /\ c[2] <= asked[c[1]] /\ channel[c] = << >>
      /\ \A q \in Requests : <<q, c>> \notin inflight
  BY <1>1 DEF Inv, CalloutInv
<1>4. \A u \in tasks \ {t} : u.runs = "callout" => u.by # c
  <2> SUFFICES ASSUME NEW u \in tasks, u.runs = "callout", u.by = c PROVE u = t
    OBVIOUS
  <2>1. u \in Task /\ t \in Task /\ u.stream = u.by[1] /\ t.stream = t.by[1]
    BY DEF Inv, Typed, CalloutInv
  <2> QED
    BY <1>1, <2>1 DEF Task
<1>5. \A p \in inflight : p[2] # c /\ p[2] \in Callouts
  <2> SUFFICES ASSUME NEW p \in inflight PROVE p[2] # c /\ p[2] \in Callouts
    OBVIOUS
  <2>1. p = <<p[1], p[2]>> /\ p[1] \in Requests /\ p[2] \in Callouts
    BY DEF Inv, Typed
  <2> QED
    BY <1>3, <2>1
<1> HIDE DEF c, s
<1>6. CASE inflight' = inflight \union {<<s, c>>} /\ UNCHANGED <<channel, blocked>>
  <2>1. Typed'
    BY <1>1, <1>2, <1>3, <1>6 DEF Inv, Typed
  <2>2. ASSUME NEW u \in tasks'
        PROVE  /\ u.stream = u.by[1]
               /\ u.runs = "callout" =>
                    /\ u.by \in Callouts /\ u.by[2] <= asked[u.by[1]]
                    /\ channel[u.by] = << >>
                    /\ \A q \in Requests : <<q, u.by>> \notin inflight'
    BY <1>1, <1>4, <1>6 DEF Inv, CalloutInv
  <2>3. ASSUME NEW p \in inflight'
        PROVE  p[1] = p[2][1] /\ p[2][2] <= asked[p[2][1]] /\ channel[p[2]] = << >>
    BY <1>2, <1>3, <1>6 DEF Inv, CalloutInv
  <2>4. CalloutInv'
    BY <1>1, <1>6, <2>2, <2>3 DEF Inv, CalloutInv
  <2>5. RunningInv'
    BY <1>1 DEF Inv, RunningInv
  <2> QED
    BY <1>1, <1>6, <2>1, <2>4, <2>5, PoolFrame, ContentFrame, AddingFrame, EffectsFrame,
       CancelledFrame, ResultsFrame DEF Inv
<1>7. CASE Deliver(s, c) /\ UNCHANGED inflight
  <2>1. /\ blocked' = blocked /\ DOMAIN channel' = Callouts
        /\ channel'[c] = <<c>> /\ \A d \in Callouts \ {c} : channel'[d] = channel[d]
    BY <1>2, <1>3, <1>7, ChannelHasRoom
  <2>2. Typed'
    BY <1>1, <1>7, <2>1 DEF Inv, Typed
  <2>3. ASSUME NEW u \in tasks'
        PROVE  /\ u.stream = u.by[1]
               /\ u.runs = "callout" =>
                    /\ u.by \in Callouts /\ u.by[2] <= asked[u.by[1]]
                    /\ channel'[u.by] = << >>
                    /\ \A q \in Requests : <<q, u.by>> \notin inflight
    BY <1>1, <1>4, <2>1 DEF Inv, CalloutInv
  <2>4. ASSUME NEW p \in inflight
        PROVE  p[1] = p[2][1] /\ p[2][2] <= asked[p[2][1]] /\ channel'[p[2]] = << >>
    BY <1>5, <2>1 DEF Inv, CalloutInv
  <2>5. ASSUME NEW d \in Callouts
        PROVE  /\ channel'[d] = << >> \/ channel'[d] = <<d>>
               /\ d[2] > asked[d[1]] => channel'[d] = << >>
    <3>1. CASE d = c
      <4>1. asked[c[1]] \in Nat /\ c[2] \in Nat
        BY <1>3, CalloutType, BoundAssumption DEF Inv, Typed
      <4> QED
        BY <1>3, <2>1, <3>1, <4>1
    <3>2. CASE d # c
      BY <2>1, <3>2 DEF Inv, CalloutInv
    <3> QED
      BY <3>1, <3>2
  <2>6. CalloutInv'
    BY <1>1, <1>7, <2>3, <2>4, <2>5 DEF CalloutInv
  <2>7. RunningInv'
    BY <1>1 DEF Inv, RunningInv
  <2> QED
    BY <1>1, <2>1, <2>2, <2>6, <2>7, PoolFrame, ContentFrame, AddingFrame, EffectsFrame,
       CancelledFrame, ResultsFrame DEF Inv
<1> QED
  BY <1>1, <1>2, <1>6, <1>7

LEMMA StepOnHttpCalloutDone ==
    ASSUME Inv, NEW r \in Requests, NEW c \in Callouts, OnHttpCalloutDone(r, c)
    PROVE  Inv'
<1> USE DEF pools, envoy, goroutines, effects
<1>1. /\ <<r, c>> \in inflight /\ inflight' = inflight \ {<<r, c>>}
      /\ Deliver(r, c) \/ UNCHANGED <<channel, blocked>>
      /\ UNCHANGED <<plan, envoy, filter, writer, pools, goroutines, adding, asked, tasks,
                     results, panicked, added, alone, effects>>
  BY DEF OnHttpCalloutDone
<1>2. channel[c] = << >> /\ r = c[1] /\ c[2] <= asked[c[1]]
  BY <1>1 DEF Inv, CalloutInv
<1>3. blocked' = blocked /\ DOMAIN channel' = Callouts
      /\ (channel'[c] = <<c>> \/ channel'[c] = << >>)
      /\ \A d \in Callouts \ {c} : channel'[d] = channel[d]
  <2>1. CASE Deliver(r, c)
    BY <1>2, <2>1, ChannelHasRoom
  <2>2. CASE UNCHANGED <<channel, blocked>>
    BY <1>2, <2>2 DEF Inv, Typed
  <2> QED
    BY <1>1, <2>1, <2>2
<1>4. \A u \in tasks : u.runs = "callout" => u.by # c
  BY <1>1 DEF Inv, CalloutInv
<1>5. \A p \in inflight' : p[2] # c /\ p[2] \in Callouts
  <2> SUFFICES ASSUME NEW p \in inflight' PROVE p[2] # c /\ p[2] \in Callouts
    OBVIOUS
  <2>1. p = <<p[1], p[2]>> /\ p[2] \in Callouts /\ p \in inflight /\ p # <<r, c>>
    BY <1>1 DEF Inv, Typed
  <2>2. p[1] = p[2][1]
    BY <2>1 DEF Inv, CalloutInv
  <2> QED
    BY <1>2, <2>1, <2>2
<1>6. Typed'
  BY <1>1, <1>3 DEF Inv, Typed
<1>7. ASSUME NEW u \in tasks
      PROVE  /\ u.stream = u.by[1]
             /\ u.runs = "callout" =>
                  /\ u.by \in Callouts /\ u.by[2] <= asked[u.by[1]]
                  /\ channel'[u.by] = << >>
                  /\ \A q \in Requests : <<q, u.by>> \notin inflight'
  BY <1>1, <1>3, <1>4 DEF Inv, CalloutInv
<1>8. ASSUME NEW p \in inflight'
      PROVE  p[1] = p[2][1] /\ p[2][2] <= asked[p[2][1]] /\ channel'[p[2]] = << >>
  BY <1>1, <1>3, <1>5 DEF Inv, CalloutInv
<1>9. ASSUME NEW d \in Callouts
      PROVE  /\ channel'[d] = << >> \/ channel'[d] = <<d>>
             /\ d[2] > asked[d[1]] => channel'[d] = << >>
  <2>1. CASE d = c
    <3>1. asked[c[1]] \in Nat /\ c[2] \in Nat
      BY CalloutType, BoundAssumption DEF Inv, Typed
    <3> QED
      BY <1>2, <1>3, <2>1, <3>1
  <2>2. CASE d # c
    BY <1>3, <2>2 DEF Inv, CalloutInv
  <2> QED
    BY <2>1, <2>2
<1>10. CalloutInv'
  BY <1>1, <1>7, <1>8, <1>9 DEF CalloutInv
<1>11. RunningInv'
  BY <1>1 DEF Inv, RunningInv
<1> QED
  BY <1>1, <1>3, <1>6, <1>10, <1>11, PoolFrame, ContentFrame, AddingFrame, EffectsFrame,
     CancelledFrame, ResultsFrame DEF Inv

-----------------------------------------------------------------------------
LEMMA InvInit == Init => Inv
<1> SUFFICES ASSUME Init PROVE Inv
  OBVIOUS
<1>1. \A r \in Requests : ~Serving(r) /\ ~Own(r)
  BY DEF Init, Serving, Own
<1>2. Typed
  BY BlankType, BoundAssumption DEF Init, Typed
<1>3. PoolInv
  BY <1>1 DEF Init, PoolInv, Served, BlankFilter
<1>4. RunningInv /\ ContentInv
  BY <1>1 DEF Init, RunningInv, ContentInv
<1>5. AddingInv
  BY DEF Init, AddingInv, Mutations
<1>6. CalloutInv
  BY DEF Init, CalloutInv
<1>7. /\ OwnEffects /\ CancelledByOwnEnd /\ DoAnswersItsCall
      /\ NoPanic /\ WorkerNeverBlocks
  BY DEF Init, OwnEffects, CancelledByOwnEnd, DoAnswersItsCall, NoPanic, WorkerNeverBlocks
<1> QED
  BY <1>2, <1>3, <1>4, <1>5, <1>6, <1>7 DEF Inv

LEMMA InvStep ==
    ASSUME ~Outlives
    PROVE  Inv /\ [Next]_vars => Inv'
<1> SUFFICES ASSUME Inv, [Next]_vars PROVE Inv'
  OBVIOUS
<1>1. ASSUME NEW r \in Requests, HostStep(r) PROVE Inv'
  BY <1>1, StepNewSahlFilter, StepOnRequestHeaders, StepOnRequestHeadersReturn,
     StepOnResponse, StepOnResponseReturn, StepOnStreamComplete, StepOnDestroy,
     StepOnHttpCalloutDone DEF HostStep
<1>2. ASSUME NEW r \in Requests, AuthorStep(r) PROVE Inv'
  BY <1>2, StepAdd, StepAddReturn, StepSend, StepGo, StepGoReturn, StepDo, StepDoResult,
     StepDoGivesUp DEF AuthorStep
<1>3. ASSUME NEW t \in tasks, Scheduled(t) PROVE Inv'
  BY <1>3, StepRunFlush, StepRunCallout, StepDropTask DEF Scheduled
<1>4. CASE UNCHANGED vars
  <2> USE DEF vars, envoy, pools, goroutines, callouts, effects
  <2>1. Typed'
    BY <1>4 DEF Inv, Typed
  <2>2. RunningInv'
    BY <1>4 DEF Inv, RunningInv
  <2> QED
    BY <1>4, <2>1, <2>2, PoolFrame, ContentFrame, AddingFrame, CalloutFrame, EffectsFrame,
       CancelledFrame, ResultsFrame DEF Inv
<1> QED
  BY <1>1, <1>2, <1>3, <1>4 DEF Next

LEMMA Invariance ==
    ASSUME ~Outlives
    PROVE  Spec => []Inv
  BY InvInit, InvStep, PTL DEF Spec

-----------------------------------------------------------------------------
(* Every variable keeps its type.                                          *)
THEOREM TypeCorrect ==
    ASSUME ~Outlives
    PROVE  Spec => []TypeOK
  BY Invariance, InvImpliesTypeOK, PTL

(* Writer.reset, flush: what reaches a stream was asked for by the code of *)
(* its own request, however many requests its filter and its Writer served *)
(* before and whatever those left in them.                                 *)
THEOREM EffectsAreOwn ==
    ASSUME ~Outlives
    PROVE  Spec => []OwnEffects
<1>1. Inv => OwnEffects
  BY DEF Inv
<1> QED
  BY <1>1, Invariance, PTL

(* OnDestroy, the pools' Get: no two requests share a filter or a Writer,  *)
(* and none is in a pool while it serves, also when a goroutine goes on    *)
(* using a Writer that was returned.                                       *)
THEOREM ObjectsAreExclusive == Spec => []Exclusive
  BY SharedInit, SharedNext, SharedImpliesExclusive, PTL DEF Spec

(* newSahlFilter, Go, Do: their panics are out of reach.                   *)
THEOREM PoolsNeverPanic ==
    ASSUME ~Outlives
    PROVE  Spec => []NoPanic
<1>1. Inv => NoPanic
  BY DEF Inv
<1> QED
  BY <1>1, Invariance, PTL

(* goCancel: no request's end cancels the goroutine of another.            *)
THEOREM GoroutinesEndWithOwnRequest ==
    ASSUME ~Outlives
    PROVE  Spec => []CancelledByOwnEnd
<1>1. Inv => CancelledByOwnEnd
  BY DEF Inv
<1> QED
  BY <1>1, Invariance, PTL

(* The channel of Do: a result always finds room, so the worker thread     *)
(* never waits for a goroutine, also one that gave up.                     *)
THEOREM WorkersGoOn ==
    ASSUME ~Outlives
    PROVE  Spec => []WorkerNeverBlocks
<1>1. Inv => WorkerNeverBlocks
  BY DEF Inv
<1> QED
  BY <1>1, Invariance, PTL

(* Do returns the result of its own callout and of no other.               *)
THEOREM ResultsMatchCalls ==
    ASSUME ~Outlives
    PROVE  Spec => []DoAnswersItsCall
<1>1. Inv => DoAnswersItsCall
  BY DEF Inv
<1> QED
  BY <1>1, Invariance, PTL

-----------------------------------------------------------------------------
(* No mutation is lost                                                     *)

(* While a stream is open its queue holds what lone appends queued, and so *)
(* does the slice of every append that is under way: it was read later, or *)
(* the other append would not have been a lone one.                        *)
QueueHolds(r) ==
    phase[r] = "open" =>
        \A c \in Codes : <<r, c>> \in alone => <<r, c>> \in ToSet(writer[given[r]].queued)

SliceHolds(r) ==
    \A c \in Codes : adding[<<r, c>>] # None =>
        /\ r \in DOMAIN plan /\ c \in plan[r]
        /\ phase[r] = "open" =>
             \A d \in Codes : <<r, d>> \in alone => <<r, d>> \in ToSet(adding[<<r, c>>])

(* What may still queue has not released its request.                      *)
ReleasedLast(r) ==
    r \in released =>
        /\ code[r] # "handler" /\ goroutine[r] \in {"none", "done"}
        /\ phase[r] \notin {"none", "created"}

AddedInside(r) ==
    /\ phase[r] # "none" => r \in DOMAIN plan
    /\ \A c \in Codes : <<r, c>> \in alone =>
         /\ phase[r] \notin {"none", "created"}
         /\ c = "observer" => "observer" \in plan[r]

DueIsApplied(r) ==
    \A c \in Codes :
        LET due == IF c = "observer" THEN Over(r) ELSE r \in released IN
        <<r, c>> \in alone /\ due => <<r, <<r, c>> >> \in applied

FlushOf(r) ==
    QueueHolds(r) /\ SliceHolds(r) /\ ReleasedLast(r) /\ AddedInside(r) /\ DueIsApplied(r)

FlushAfterGo == \A t \in tasks : t.runs = "flush" => goroutine[t.stream] = "done"

FlushInv == (\A r \in Requests : FlushOf(r)) /\ FlushAfterGo

LEMMA FlushImplies == Inv /\ FlushInv => LoneAppendsAreApplied
<1> SUFFICES ASSUME Inv, FlushInv, NEW m \in alone
             PROVE  Due(m) => <<m[1], m>> \in applied
  BY DEF LoneAppendsAreApplied
<1>1. m[1] \in Requests /\ m[2] \in Codes /\ m = <<m[1], m[2]>>
  BY DEF Inv, Typed, Mutations
<1> QED
  BY <1>1 DEF FlushInv, FlushOf, DueIsApplied, Due

LEMMA FlushFrame ==
    ASSUME NEW q \in Requests, FlushOf(q),
           plan' = plan, phase'[q] = phase[q], given'[q] = given[q],
           code'[q] = code[q], goroutine'[q] = goroutine[q],
           phase[q] = "open" =>
             writer'[given[q]].queued = writer[given[q]].queued,
           \A c \in Codes : adding'[<<q, c>>] = adding[<<q, c>>],
           \A c \in Codes : <<q, c>> \in alone' => <<q, c>> \in alone,
           applied \subseteq applied',
           q \in released' => q \in released
    PROVE  FlushOf(q)'
<1>1. QueueHolds(q)'
  BY DEF FlushOf, QueueHolds
<1>2. SliceHolds(q)'
  BY DEF FlushOf, SliceHolds
<1>3. ReleasedLast(q)' /\ AddedInside(q)'
  BY DEF FlushOf, ReleasedLast, AddedInside
<1>4. DueIsApplied(q)'
  <2>1. Over(q)' <=> Over(q)
    BY DEF Over
  <2> QED
    BY <2>1 DEF FlushOf, DueIsApplied
<1> QED
  BY <1>1, <1>2, <1>3, <1>4 DEF FlushOf

(* The Writers of other open requests are not r's.                         *)
LEMMA OtherQueues ==
    ASSUME Inv, NEW r \in Requests, Own(r),
           \A w \in Writers \ {given[r]} : writer'[w] = writer[w]
    PROVE  \A q \in Requests \ {r} : phase[q] = "open" => writer'[given[q]] = writer[given[q]]
<1> SUFFICES ASSUME NEW q \in Requests \ {r}, phase[q] = "open"
             PROVE  writer'[given[q]] = writer[given[q]]
  OBVIOUS
<1>1. Own(q)
  BY OpenOwns
<1>2. given[q] \in Writers \ {given[r]}
  BY <1>1, OwnWriter
<1> QED
  BY <1>2

(* flush of the Writer of an open stream applies what was queued.          *)
LEMMA FlushReleases ==
    ASSUME Inv, FlushInv, NEW r \in Requests, phase[r] = "open", flush(given[r]),
           code'[r] # "handler", goroutine[r] \in {"none", "done"},
           UNCHANGED <<plan, phase, given, writer, goroutine, adding, added, alone>>,
           \A q \in Requests \ {r} : code'[q] = code[q]
    PROVE  \A q \in Requests : FlushOf(q)'
<1>1. Own(r) /\ writer[given[r]].handle = r
  BY OpenOwns, OwnWriter
<1>2. \/ UNCHANGED <<applied, released>>
      \/ applied' = applied \union Applied(given[r]) /\ released' = released \union {r}
  BY <1>1 DEF flush, effects
<1>3. applied \subseteq applied' /\ released' \subseteq released \union {r}
  BY <1>2
<1>4. \A q \in Requests \ {r} : FlushOf(q)'
  BY <1>3, FlushFrame DEF FlushInv
<1>5. QueueHolds(r) /\ SliceHolds(r) /\ ReleasedLast(r) /\ AddedInside(r) /\ DueIsApplied(r)
  BY DEF FlushInv, FlushOf
<1>6. QueueHolds(r)'
  BY <1>5 DEF QueueHolds
<1>7. SliceHolds(r)'
  BY <1>5 DEF SliceHolds
<1>8. ReleasedLast(r)' /\ AddedInside(r)'
  BY <1>5 DEF ReleasedLast, AddedInside
<1>9. DueIsApplied(r)'
  <2>1. ~Over(r) /\ ~Over(r)'
    BY DEF Over
  <2>2. ASSUME NEW c \in Codes, c # "observer", <<r, c>> \in alone, r \in released'
        PROVE  <<r, <<r, c>> >> \in applied'
    <3>1. CASE r \in released
      BY <1>3, <1>5, <2>2, <3>1 DEF DueIsApplied
    <3>2. CASE r \notin released
      <4>1. applied' = applied \union Applied(given[r])
        BY <1>2, <2>2, <3>2
      <4>2. <<r, c>> \in ToSet(writer[given[r]].queued)
        BY <1>5, <2>2 DEF QueueHolds
      <4> QED
        BY <1>1, <4>1, <4>2 DEF Applied
    <3> QED
      BY <3>1, <3>2
  <2> QED
    BY <2>1, <2>2 DEF DueIsApplied
<1>10. FlushOf(r)'
  BY <1>6, <1>7, <1>8, <1>9 DEF FlushOf
<1> QED
  BY <1>4, <1>10

LEMMA FlushInit == Init => FlushInv
<1> SUFFICES ASSUME Init PROVE FlushInv
  OBVIOUS
<1>1. FlushAfterGo
  BY DEF Init, FlushAfterGo
<1>2. ASSUME NEW r \in Requests PROVE FlushOf(r)
  <2>1. QueueHolds(r) /\ ReleasedLast(r) /\ AddedInside(r) /\ DueIsApplied(r)
    BY DEF Init, QueueHolds, ReleasedLast, AddedInside, DueIsApplied
  <2>2. SliceHolds(r)
    BY DEF Init, SliceHolds, Mutations
  <2> QED
    BY <2>1, <2>2 DEF FlushOf
<1> QED
  BY <1>1, <1>2 DEF FlushInv

LEMMA FlushNewSahlFilter ==
    ASSUME Inv, FlushInv, NEW r \in Requests, newSahlFilter(r)
    PROVE  FlushInv'
<1> USE DEF goroutines, callouts, effects
<1>1. /\ phase[r] = "none" /\ r \in DOMAIN plan
      /\ phase' = phase \/ phase' = [phase EXCEPT ![r] = "created"]
      /\ UNCHANGED <<plan, code, writer, goroutines, adding, callouts, added, alone, effects>>
  BY DEF newSahlFilter
<1>2. /\ \A q \in Requests \ {r} : phase'[q] = phase[q]
      /\ phase'[r] \in {"none", "created"}
  BY <1>1 DEF Inv, Typed
<1>3. \A q \in Requests \ {r} : FlushOf(q)'
  BY <1>1, <1>2, FlushFrame DEF FlushInv
<1>4. FlushOf(r)'
  <2>1. r \notin released /\ \A c \in Codes : <<r, c>> \notin alone
    BY <1>1 DEF FlushInv, FlushOf, ReleasedLast, AddedInside
  <2>2. \A c \in Codes : adding[<<r, c>>] = None
    BY <1>1 DEF Inv, AddingInv, RunningInv, Own
  <2> QED
    BY <1>1, <2>1, <2>2 DEF FlushOf, QueueHolds, SliceHolds, ReleasedLast, AddedInside, DueIsApplied
<1>5. FlushAfterGo'
  BY <1>1 DEF FlushInv, FlushAfterGo
<1> QED
  BY <1>3, <1>4, <1>5 DEF FlushInv

LEMMA FlushOnRequestHeaders ==
    ASSUME Inv, FlushInv, NEW r \in Requests, OnRequestHeaders(r)
    PROVE  FlushInv'
<1> USE DEF callouts, effects
<1>1. PICK w \in Gettable(Writers, writerPool) :
        /\ writer' = [writer EXCEPT ![w] = reset(w, r)]
        /\ given' = [given EXCEPT ![r] = w]
  BY DEF OnRequestHeaders
<1>2. /\ phase[r] = "created"
      /\ phase' = [phase EXCEPT ![r] = "open"]
      /\ code' = [code EXCEPT ![r] = "handler"]
      /\ UNCHANGED <<plan, goroutine, adding, callouts, added, alone, effects>>
  BY DEF OnRequestHeaders
<1>3. w \in Writers /\ \A q \in Requests : Own(q) => given[q] # w
  BY TakenIsFree, InvImpliesShared
<1>4. \A q \in Requests \ {r} :
        /\ phase'[q] = phase[q] /\ given'[q] = given[q] /\ code'[q] = code[q]
        /\ phase[q] = "open" => writer'[given[q]] = writer[given[q]]
  <2> SUFFICES ASSUME NEW q \in Requests \ {r}
               PROVE  /\ phase'[q] = phase[q] /\ given'[q] = given[q] /\ code'[q] = code[q]
                      /\ phase[q] = "open" => writer'[given[q]] = writer[given[q]]
    OBVIOUS
  <2>1. phase'[q] = phase[q] /\ given'[q] = given[q] /\ code'[q] = code[q]
    BY <1>1, <1>2 DEF Inv, Typed
  <2>2. ASSUME phase[q] = "open" PROVE writer'[given[q]] = writer[given[q]]
    <3>1. given[q] \in Writers \ {w}
      BY <1>3, <2>2, OpenOwns, OwnWriter
    <3> QED
      BY <1>1, <3>1 DEF Inv, Typed
  <2> QED
    BY <2>1, <2>2
<1>5. \A q \in Requests \ {r} : FlushOf(q)'
  BY <1>2, <1>4, FlushFrame DEF FlushInv
<1>6. FlushOf(r)'
  <2>1. r \notin released /\ \A c \in Codes : <<r, c>> \notin alone
    BY <1>2 DEF FlushInv, FlushOf, ReleasedLast, AddedInside
  <2>2. \A c \in Codes : adding[<<r, c>>] = None
    BY <1>2 DEF Inv, AddingInv, RunningInv, Own
  <2>3. r \in DOMAIN plan'
    BY <1>2 DEF FlushInv, FlushOf, AddedInside
  <2> QED
    BY <1>2, <2>1, <2>2, <2>3 DEF FlushOf, QueueHolds, SliceHolds, ReleasedLast, AddedInside, DueIsApplied
<1>7. FlushAfterGo'
  BY <1>2 DEF FlushInv, FlushAfterGo
<1> QED
  BY <1>5, <1>6, <1>7 DEF FlushInv

LEMMA FlushOnRequestHeadersReturn ==
    ASSUME Inv, FlushInv, NEW r \in Requests, OnRequestHeadersReturn(r)
    PROVE  FlushInv'
<1> USE DEF goroutines, callouts
<1> DEFINE w == given[r]
<1>1. /\ code[r] = "handler"
      /\ code' = [code EXCEPT ![r] = "idle"]
      /\ UNCHANGED effects \/ (~writer[w].goStarted /\ flush(w))
      /\ UNCHANGED <<plan, phase, writer, goroutines, adding, callouts, added, alone>>
  BY DEF OnRequestHeadersReturn, Undecided
<1>2. phase[r] = "open" /\ Own(r)
  BY <1>1, OpenOwns DEF Inv, RunningInv
<1>3. code'[r] = "idle" /\ \A q \in Requests \ {r} : code'[q] = code[q]
  BY <1>1 DEF Inv, Typed
<1>4. FlushAfterGo'
  BY <1>1 DEF FlushInv, FlushAfterGo
<1>5. CASE ~writer[w].goStarted /\ flush(w)
  <2>1. goroutine[r] = "none"
    BY <1>2, <1>5 DEF Inv, ContentInv, ContentOf
  <2> QED
    BY <1>1, <1>2, <1>3, <1>4, <1>5, <2>1, FlushReleases DEF FlushInv
<1>6. CASE UNCHANGED effects
  <2>1. \A q \in Requests \ {r} : FlushOf(q)'
    BY <1>1, <1>3, <1>6, FlushFrame DEF FlushInv, effects
  <2>2. FlushOf(r)'
    BY <1>1, <1>3, <1>6
    DEF FlushInv, FlushOf, QueueHolds, SliceHolds, ReleasedLast, AddedInside, DueIsApplied,
        Over, effects
  <2> QED
    BY <1>4, <2>1, <2>2 DEF FlushInv
<1> QED
  BY <1>1, <1>5, <1>6

LEMMA FlushObserver ==
    ASSUME Inv, FlushInv, NEW r \in Requests, OnResponse(r) \/ OnResponseReturn(r)
    PROVE  FlushInv'
<1> USE DEF goroutines, callouts, effects
<1>1. /\ code' = [code EXCEPT ![r] = "observer"] \/ code' = [code EXCEPT ![r] = "idle"]
      /\ UNCHANGED <<plan, phase, writer, goroutines, adding, callouts, added, alone, effects>>
  BY DEF OnResponse, OnResponseReturn
<1>2. code'[r] # "handler" /\ \A q \in Requests \ {r} : code'[q] = code[q]
  BY <1>1 DEF Inv, Typed
<1>3. \A q \in Requests \ {r} : FlushOf(q)'
  BY <1>1, <1>2, FlushFrame DEF FlushInv
<1>4. FlushOf(r)'
  BY <1>1, <1>2
  DEF FlushInv, FlushOf, QueueHolds, SliceHolds, ReleasedLast, AddedInside, DueIsApplied, Over
<1>5. FlushAfterGo'
  BY <1>1 DEF FlushInv, FlushAfterGo
<1> QED
  BY <1>3, <1>4, <1>5 DEF FlushInv

(* The end of the stream applies what an observer queued.                  *)
LEMMA FlushOnStreamComplete ==
    ASSUME Inv, FlushInv, NEW r \in Requests, OnStreamComplete(r)
    PROVE  FlushInv'
<1> USE DEF pools, callouts
<1> DEFINE w == filter[filterOf[r]].writer
           flushes == "observer" \in plan[r] /\ w # None
<1>1. /\ phase[r] \in {"created", "open"} /\ code[r] = "idle"
      /\ phase' = [phase EXCEPT ![r] = "complete"]
      /\ applied' = applied \union (IF flushes THEN Applied(w) ELSE {})
      /\ writer' = (IF flushes THEN [writer EXCEPT ![w].queued = << >>] ELSE writer)
      /\ UNCHANGED <<plan, code, goroutine, given, adding, callouts, added, alone, released>>
  BY DEF OnStreamComplete, Free
<1>2. w = given[r] /\ Serving(r)
  BY <1>1 DEF Serving, Inv, PoolInv, FilterOfOwn
<1> HIDE DEF w
<1>3. phase'[r] = "complete" /\ \A q \in Requests \ {r} : phase'[q] = phase[q]
  BY <1>1 DEF Inv, Typed
<1>4. applied \subseteq applied'
  BY <1>1
<1>5. \A q \in Requests \ {r} : phase[q] = "open" => writer'[given[q]] = writer[given[q]]
  <2>1. CASE flushes
    <3>1. Own(r)
      BY <1>2, <2>1 DEF Own
    <3>2. \A v \in Writers \ {given[r]} : writer'[v] = writer[v]
      BY <1>1, <1>2, <2>1 DEF Inv, Typed
    <3> QED
      BY <3>1, <3>2, OtherQueues
  <2>2. CASE ~flushes
    BY <1>1, <2>2
  <2> QED
    BY <2>1, <2>2
<1>6. \A q \in Requests \ {r} : FlushOf(q)'
  BY <1>1, <1>3, <1>4, <1>5, FlushFrame DEF FlushInv
<1>7. QueueHolds(r) /\ SliceHolds(r) /\ ReleasedLast(r) /\ AddedInside(r) /\ DueIsApplied(r)
  BY DEF FlushInv, FlushOf
<1>8. QueueHolds(r)'
  BY <1>3 DEF QueueHolds
<1>9. SliceHolds(r)'
  BY <1>1, <1>3, <1>7 DEF SliceHolds
<1>10. ReleasedLast(r)' /\ AddedInside(r)'
  BY <1>1, <1>3, <1>7 DEF ReleasedLast, AddedInside
<1>11. DueIsApplied(r)'
  <2>1. ASSUME NEW c \in Codes, c # "observer", <<r, c>> \in alone, r \in released
        PROVE  <<r, <<r, c>> >> \in applied'
    BY <1>4, <1>7, <2>1 DEF DueIsApplied
  <2>2. ASSUME <<r, "observer">> \in alone
        PROVE  <<r, <<r, "observer">> >> \in applied'
    <3>1. "observer" \in Codes
      BY DEF Codes
    <3>2. "observer" \in plan[r] /\ phase[r] = "open"
      BY <1>1, <1>7, <2>2, <3>1 DEF AddedInside
    <3>3. <<r, "observer">> \in ToSet(writer[w].queued)
      BY <1>2, <1>7, <2>2, <3>1, <3>2 DEF QueueHolds
    <3>4. Own(r) /\ writer[w].handle = r /\ w # None
      BY <1>2, <3>2, OpenOwns, OwnWriter DEF Own
    <3>5. applied' = applied \union Applied(w)
      BY <1>1, <3>2, <3>4
    <3> QED
      BY <3>3, <3>4, <3>5 DEF Applied
  <2> QED
    BY <1>1, <2>1, <2>2 DEF DueIsApplied
<1>12. FlushOf(r)'
  BY <1>8, <1>9, <1>10, <1>11 DEF FlushOf
<1>13. FlushAfterGo'
  BY <1>1 DEF FlushInv, FlushAfterGo
<1> QED
  BY <1>6, <1>12, <1>13 DEF FlushInv

LEMMA FlushOnDestroy ==
    ASSUME Inv, FlushInv, NEW r \in Requests, OnDestroy(r)
    PROVE  FlushInv'
<1> USE DEF goroutines, callouts, effects
<1>1. /\ phase[r] = "complete"
      /\ phase' = [phase EXCEPT ![r] = "destroyed"]
      /\ UNCHANGED <<plan, code, writer, goroutines, adding, callouts, added, alone, effects>>
  BY DEF OnDestroy
<1>2. phase'[r] = "destroyed" /\ \A q \in Requests \ {r} : phase'[q] = phase[q]
  BY <1>1 DEF Inv, Typed
<1>3. \A q \in Requests \ {r} : FlushOf(q)'
  BY <1>1, <1>2, FlushFrame DEF FlushInv
<1>4. FlushOf(r)'
  <2>1. Over(r)
    BY <1>1 DEF Over
  <2> QED
    BY <1>1, <1>2, <2>1
    DEF FlushInv, FlushOf, QueueHolds, SliceHolds, ReleasedLast, AddedInside, DueIsApplied
<1>5. FlushAfterGo'
  BY <1>1 DEF FlushInv, FlushAfterGo
<1> QED
  BY <1>3, <1>4, <1>5 DEF FlushInv

LEMMA FlushAdd ==
    ASSUME Inv, FlushInv, ~Outlives, NEW r \in Requests, NEW c \in Codes, Add(r, c)
    PROVE  FlushInv'
<1> USE DEF envoy, pools, goroutines, callouts, effects
<1>1. /\ MayUse(r, c) /\ c \in plan[r]
      /\ adding' = [adding EXCEPT ![<<r, c>>] = writer[given[r]].queued]
      /\ UNCHANGED <<plan, envoy, writer, goroutines, callouts, added, alone, effects>>
  BY DEF Add
<1>2. /\ adding'[<<r, c>>] = writer[given[r]].queued
      /\ \A m \in Mutations \ {<<r, c>>} : adding'[m] = adding[m]
  BY <1>1 DEF Inv, Typed, Mutations
<1>3. \A q \in Requests \ {r} : FlushOf(q)'
  BY <1>1, <1>2, FlushFrame DEF FlushInv, Mutations
<1>4. QueueHolds(r) /\ SliceHolds(r) /\ ReleasedLast(r) /\ AddedInside(r) /\ DueIsApplied(r)
  BY DEF FlushInv, FlushOf
<1>5. SliceHolds(r)'
  <2> SUFFICES ASSUME NEW d \in Codes, adding'[<<r, d>>] # None
               PROVE  /\ r \in DOMAIN plan /\ d \in plan[r]
                      /\ phase[r] = "open" =>
                           \A e \in Codes :
                             <<r, e>> \in alone => <<r, e>> \in ToSet(adding'[<<r, d>>])
    BY <1>1 DEF SliceHolds
  <2>1. CASE d = c
    <3>1. r \in DOMAIN plan
      BY <1>1, <1>4, UserOwns DEF Own, Serving, AddedInside
    <3> QED
      BY <1>1, <1>2, <1>4, <2>1, <3>1 DEF QueueHolds, MayUse
  <2>2. CASE d # c
    <3>1. adding'[<<r, d>>] = adding[<<r, d>>]
      BY <1>2, <2>2 DEF Mutations
    <3> QED
      BY <1>4, <3>1 DEF SliceHolds
  <2> QED
    BY <2>1, <2>2
<1>6. QueueHolds(r)' /\ ReleasedLast(r)' /\ AddedInside(r)' /\ DueIsApplied(r)'
  BY <1>1, <1>4 DEF QueueHolds, ReleasedLast, AddedInside, DueIsApplied, Over
<1>7. FlushAfterGo'
  BY <1>1 DEF FlushInv, FlushAfterGo
<1> QED
  BY <1>3, <1>5, <1>6, <1>7 DEF FlushInv, FlushOf

LEMMA FlushAddReturn ==
    ASSUME Inv, FlushInv, ~Outlives, NEW r \in Requests, NEW c \in Codes,
           AddReturn(r, c)
    PROVE  FlushInv'
<1> USE DEF envoy, pools, goroutines, callouts, effects
<1> DEFINE m == <<r, c>>
           w == given[r]
<1>1. /\ MayUse(r, c) /\ adding[m] # None
      /\ writer' = [writer EXCEPT ![w].queued = Append(adding[m], m)]
      /\ adding' = [adding EXCEPT ![m] = None]
      /\ alone' = alone \union {m}
         \/ alone' = alone
      /\ \A d \in Codes \ {c} : adding[<<r, d>>] # None => alone' = alone
      /\ UNCHANGED <<plan, envoy, goroutines, callouts, effects>>
  BY DEF AddReturn
<1>2. Own(r) /\ w \in Writers /\ writer[w] \in Writer
  BY <1>1, UserOwns, OwnWriter
<1>3. m \in Mutations /\ adding[m] \in Seq(Mutations)
  BY <1>1 DEF Inv, Typed, Mutations
<1>4. /\ \A v \in Writers \ {w} : writer'[v] = writer[v]
      /\ writer'[w].queued = Append(adding[m], m)
  <2> HIDE DEF m
  <2> DEFINE q == Append(adding[m], m)
  <2> HIDE DEF q
  <2>1. writer' = [writer EXCEPT ![w].queued = q] /\ writer \in [Writers -> Writer]
    BY <1>1 DEF q, Inv, Typed
  <2>2. [writer[w] EXCEPT !.queued = q].queued = q
    BY <1>2 DEF Writer
  <2> QED
    BY <1>2, <2>1, <2>2 DEF q
<1>5. ToSet(Append(adding[m], m)) = ToSet(adding[m]) \union {m}
  <2> DEFINE s == adding[m]
  <2>1. s \in Seq(Mutations) /\ m \in Mutations
    BY <1>3
  <2> HIDE DEF s, m
  <2>2. /\ Len(s) \in Nat /\ DOMAIN s = 1..Len(s) /\ DOMAIN Append(s, m) = 1..(Len(s) + 1)
        /\ \A i \in 1..Len(s) : Append(s, m)[i] = s[i]
        /\ Append(s, m)[Len(s) + 1] = m
    BY <2>1
  <2>3. 1..(Len(s) + 1) = (1..Len(s)) \union {Len(s) + 1}
    BY <2>2
  <2> QED
    BY <2>2, <2>3 DEF ToSet, s
<1>6. adding'[m] = None /\ \A n \in Mutations \ {m} : adding'[n] = adding[n]
  BY <1>1, <1>3 DEF Inv, Typed
<1>7. \A q \in Requests \ {r} : phase[q] = "open" => writer'[given[q]] = writer[given[q]]
  BY <1>2, <1>4, OtherQueues
<1>8. \A q \in Requests \ {r} : FlushOf(q)'
  <2> SUFFICES ASSUME NEW q \in Requests \ {r} PROVE FlushOf(q)'
    OBVIOUS
  <2>1. \A d \in Codes : <<q, d>> \in Mutations \ {m}
    BY DEF Mutations
  <2>2. \A d \in Codes : adding'[<<q, d>>] = adding[<<q, d>>]
                         /\ (<<q, d>> \in alone' => <<q, d>> \in alone)
    BY <1>1, <1>6, <2>1
  <2> QED
    BY <1>1, <1>7, <2>2, FlushFrame DEF FlushInv
<1>9. QueueHolds(r) /\ SliceHolds(r) /\ ReleasedLast(r) /\ AddedInside(r) /\ DueIsApplied(r)
  BY DEF FlushInv, FlushOf
<1>10. /\ r \in DOMAIN plan /\ c \in plan[r]
       /\ phase[r] = "open" =>
            \A d \in Codes : <<r, d>> \in alone => <<r, d>> \in ToSet(adding[m])
  BY <1>1, <1>9 DEF SliceHolds
<1>11. QueueHolds(r)'
  BY <1>1, <1>4, <1>5, <1>10 DEF QueueHolds
<1>12. SliceHolds(r)'
  <2> SUFFICES ASSUME NEW d \in Codes, adding'[<<r, d>>] # None
               PROVE  /\ r \in DOMAIN plan /\ d \in plan[r]
                      /\ phase[r] = "open" =>
                           \A e \in Codes :
                             <<r, e>> \in alone' => <<r, e>> \in ToSet(adding'[<<r, d>>])
    BY <1>1 DEF SliceHolds
  <2>1. d # c /\ adding'[<<r, d>>] = adding[<<r, d>>]
    BY <1>6 DEF Mutations
  <2>2. alone' = alone
    BY <1>1, <2>1
  <2> QED
    BY <1>9, <2>1, <2>2 DEF SliceHolds
<1>13. ReleasedLast(r)'
  BY <1>1, <1>9 DEF ReleasedLast
<1>14. phase[r] \notin {"none", "created"}
  BY <1>2 DEF Inv, RunningInv, Own
<1>15. AddedInside(r)'
  BY <1>1, <1>9, <1>10, <1>14 DEF AddedInside
<1>16. DueIsApplied(r)'
  <2>1. c = "observer" => ~Over(r)
    BY <1>1 DEF MayUse, Inv, RunningInv, Over
  <2>2. c # "observer" => r \notin released
    BY <1>1, <1>9 DEF MayUse, ReleasedLast
  <2>3. \A d \in Codes : d # c => (<<r, d>> \in alone' => <<r, d>> \in alone)
    BY <1>1
  <2> QED
    BY <1>1, <1>9, <2>1, <2>2, <2>3 DEF DueIsApplied, Over
<1>17. FlushAfterGo'
  BY <1>1 DEF FlushInv, FlushAfterGo
<1> QED
  BY <1>8, <1>11, <1>12, <1>13, <1>15, <1>16, <1>17 DEF FlushInv, FlushOf

(* What leaves queues, slices and streams alone, and no goroutine that     *)
(* could queue is started or ended                                         *)
LEMMA FlushCall ==
    ASSUME Inv, FlushInv, NEW r \in Requests,
           goroutine[r] \in {"running", "waiting"} => goroutine'[r] \in {"running", "waiting"},
           goroutine[r] = "running" /\ goroutine'[r] # "running" =>
               adding[<<r, "goroutine">>] = None,
           goroutine[r] \notin {"running", "waiting"} => goroutine'[r] = goroutine[r],
           \A q \in Requests \ {r} : goroutine'[q] = goroutine[q],
           \A w \in Writers : writer'[w].queued = writer[w].queued,
           \A t \in tasks' : t.runs = "flush" => t \in tasks,
           UNCHANGED <<plan, phase, code, given, adding, added, alone, applied, released>>
    PROVE  FlushInv'
<1>1. \A q \in Requests : phase[q] = "open" => writer'[given[q]].queued = writer[given[q]].queued
  BY OpenOwns, OwnWriter
<1>2. \A q \in Requests \ {r} : FlushOf(q)'
  BY <1>1, FlushFrame DEF FlushInv
<1>3. QueueHolds(r) /\ SliceHolds(r) /\ ReleasedLast(r) /\ AddedInside(r) /\ DueIsApplied(r)
  BY DEF FlushInv, FlushOf
<1>4. QueueHolds(r)'
  BY <1>1, <1>3 DEF QueueHolds
<1>5. SliceHolds(r)'
  BY <1>3 DEF SliceHolds
<1>6. ReleasedLast(r)' /\ AddedInside(r)' /\ DueIsApplied(r)'
  BY <1>3 DEF ReleasedLast, AddedInside, DueIsApplied, Over
<1>7. FlushOf(r)'
  BY <1>4, <1>5, <1>6 DEF FlushOf
<1>8. FlushAfterGo'
  <2> SUFFICES ASSUME NEW t \in tasks', t.runs = "flush" PROVE goroutine'[t.stream] = "done"
    BY DEF FlushAfterGo
  <2>1. t \in tasks /\ goroutine[t.stream] = "done" /\ t.stream \in Requests
    BY DEF FlushInv, FlushAfterGo, Inv, Typed, Task
  <2> QED
    BY <2>1
<1> QED
  BY <1>2, <1>7, <1>8 DEF FlushInv

LEMMA FlushSend ==
    ASSUME Inv, FlushInv, ~Outlives, NEW r \in Requests, NEW c \in Codes, Send(r, c)
    PROVE  FlushInv'
<1> USE DEF envoy, goroutines, callouts
<1> DEFINE w == given[r]
<1>1. /\ MayUse(r, c)
      /\ \/ writer' = [writer EXCEPT ![w].responded = TRUE, ![w].localResp = r]
         \/ writer' = [writer EXCEPT ![w].responded = TRUE]
      /\ UNCHANGED <<plan, envoy, goroutines, adding, callouts, added, alone, applied, released>>
  BY DEF Send
<1>2. w \in Writers
  BY <1>1, UserOwns, OwnWriter
<1>3. \A v \in Writers : writer'[v].queued = writer[v].queued
  <2> HIDE DEF w
  <2>1. writer \in [Writers -> Writer]
    BY DEF Inv, Typed
  <2>2. CASE writer' = [writer EXCEPT ![w].responded = TRUE, ![w].localResp = r]
    BY <1>2, <2>1, <2>2 DEF Writer
  <2>3. CASE writer' = [writer EXCEPT ![w].responded = TRUE]
    BY <1>2, <2>1, <2>3 DEF Writer
  <2> QED
    BY <1>1, <2>2, <2>3
<1> QED
  BY <1>1, <1>3, FlushCall

LEMMA FlushGo ==
    ASSUME Inv, FlushInv, ~Outlives, NEW r \in Requests, Go(r)
    PROVE  FlushInv'
<1> USE DEF envoy, callouts, effects
<1> DEFINE w == given[r]
<1>1. /\ MayUse(r, "handler") /\ adding[<<r, "handler">>] = None
      /\ goroutine[r] = "none"
      /\ \/ UNCHANGED <<writer, goroutine>>
         \/ /\ writer' = [writer EXCEPT ![w].goStarted = TRUE, ![w].goCancel = r]
            /\ goroutine' = [goroutine EXCEPT ![r] = "running"]
      /\ UNCHANGED <<plan, envoy, given, adding, callouts, added, alone, effects>>
  BY DEF Go
<1>2. code[r] = "handler" /\ goroutine[r] = "none"
  BY <1>1 DEF MayUse
<1>3. w \in Writers
  BY <1>1, UserOwns, OwnWriter DEF Codes
<1>4. \A v \in Writers : writer'[v].queued = writer[v].queued
  <2> HIDE DEF w
  <2>1. writer \in [Writers -> Writer]
    BY DEF Inv, Typed
  <2>2. CASE writer' = [writer EXCEPT ![w].goStarted = TRUE, ![w].goCancel = r]
    BY <1>3, <2>1, <2>2 DEF Writer
  <2> QED
    BY <1>1, <2>2
<1>5. /\ \A q \in Requests \ {r} : goroutine'[q] = goroutine[q]
      /\ goroutine'[r] \in {"none", "running"}
  BY <1>1, <1>2 DEF Inv, Typed
<1>6. \A q \in Requests : phase[q] = "open" => writer'[given[q]].queued = writer[given[q]].queued
  BY <1>4, OpenOwns, OwnWriter
<1>7. \A q \in Requests \ {r} : FlushOf(q)'
  BY <1>1, <1>5, <1>6, FlushFrame DEF FlushInv
<1>8. QueueHolds(r) /\ SliceHolds(r) /\ ReleasedLast(r) /\ AddedInside(r) /\ DueIsApplied(r)
  BY DEF FlushInv, FlushOf
<1>9. QueueHolds(r)'
  BY <1>1, <1>6, <1>8 DEF QueueHolds
<1>10. SliceHolds(r)'
  BY <1>1, <1>6, <1>8 DEF SliceHolds
<1>11. ReleasedLast(r)' /\ AddedInside(r)' /\ DueIsApplied(r)'
  BY <1>1, <1>2, <1>8 DEF ReleasedLast, AddedInside, DueIsApplied, Over
<1>12. FlushAfterGo'
  <2> SUFFICES ASSUME NEW t \in tasks, t.runs = "flush" PROVE goroutine'[t.stream] = "done"
    BY <1>1 DEF FlushAfterGo
  <2>1. goroutine[t.stream] = "done" /\ t.stream \in Requests
    BY DEF FlushInv, FlushAfterGo, Inv, Typed, Task
  <2> QED
    BY <1>2, <1>5, <2>1
<1> QED
  BY <1>7, <1>9, <1>10, <1>11, <1>12 DEF FlushInv, FlushOf

(* The goroutine schedules the flush when it has stopped to queue.         *)
LEMMA FlushGoReturn ==
    ASSUME Inv, FlushInv, NEW r \in Requests, GoReturn(r)
    PROVE  FlushInv'
<1> USE DEF envoy, effects
<1> DEFINE new == [stream |-> r, runs |-> "flush", by |-> <<r, 0>>]
<1>1. /\ goroutine[r] = "running" /\ adding[<<r, "goroutine">>] = None
      /\ goroutine' = [goroutine EXCEPT ![r] = "done"]
      /\ tasks' = tasks \union {new}
      /\ UNCHANGED <<plan, envoy, writer, given, adding, added, alone, effects>>
  BY DEF GoReturn
<1>2. /\ \A q \in Requests \ {r} : goroutine'[q] = goroutine[q]
      /\ goroutine'[r] = "done"
  BY <1>1 DEF Inv, Typed
<1>3. \A q \in Requests \ {r} : FlushOf(q)'
  BY <1>1, <1>2, FlushFrame DEF FlushInv
<1>4. QueueHolds(r) /\ SliceHolds(r) /\ ReleasedLast(r) /\ AddedInside(r) /\ DueIsApplied(r)
  BY DEF FlushInv, FlushOf
<1>5. SliceHolds(r)'
  BY <1>1, <1>4 DEF SliceHolds
<1>6. QueueHolds(r)' /\ ReleasedLast(r)' /\ AddedInside(r)' /\ DueIsApplied(r)'
  BY <1>1, <1>2, <1>4 DEF QueueHolds, ReleasedLast, AddedInside, DueIsApplied, Over
<1>7. FlushAfterGo'
  <2> SUFFICES ASSUME NEW t \in tasks', t.runs = "flush" PROVE goroutine'[t.stream] = "done"
    BY DEF FlushAfterGo
  <2>1. CASE t \in tasks
    <3>1. goroutine[t.stream] = "done" /\ t.stream \in Requests
      BY <2>1 DEF FlushInv, FlushAfterGo, Inv, Typed, Task
    <3> QED
      BY <1>2, <3>1
  <2>2. CASE t = new
    BY <1>2, <2>2
  <2> QED
    BY <1>1, <2>1, <2>2
<1> QED
  BY <1>3, <1>5, <1>6, <1>7 DEF FlushInv, FlushOf

LEMMA FlushDo ==
    ASSUME Inv, FlushInv, NEW r \in Requests, Do(r) \/ DoResult(r) \/ DoGivesUp(r)
    PROVE  FlushInv'
<1> USE DEF envoy, callouts, effects
<1>1. /\ goroutine[r] \in {"running", "waiting"}
      /\ goroutine[r] = "running" => adding[<<r, "goroutine">>] = None
      /\ \/ goroutine' = goroutine
         \/ goroutine' = [goroutine EXCEPT ![r] = "waiting"]
         \/ goroutine' = [goroutine EXCEPT ![r] = "running"]
      /\ UNCHANGED <<plan, envoy, writer, given, adding, added, alone, effects>>
  BY DEF Do, DoResult, DoGivesUp, MayUse
<1>2. \A t \in tasks' : t.runs = "flush" => t \in tasks
  BY DEF Do, DoResult, DoGivesUp
<1>3. /\ \A q \in Requests \ {r} : goroutine'[q] = goroutine[q]
      /\ goroutine'[r] \in {"running", "waiting"}
  BY <1>1 DEF Inv, Typed
<1> QED
  BY <1>1, <1>2, <1>3, FlushCall

LEMMA FlushRun ==
    ASSUME Inv, FlushInv, NEW t \in tasks, RunFlush(t)
    PROVE  FlushInv'
<1> USE DEF envoy, goroutines
<1> DEFINE r == t.stream
<1>1. /\ t.runs = "flush" /\ phase[r] = "open" /\ code[r] = "idle"
      /\ tasks' = tasks \ {t}
      /\ flush(given[t.by[1]])
      /\ UNCHANGED <<plan, envoy, writer, goroutines, adding, added, alone>>
  BY DEF RunFlush, Deliverable, Free
<1>2. r \in Requests /\ t.by[1] = r /\ goroutine[r] = "done"
  BY <1>1 DEF Inv, Typed, Task, CalloutInv, FlushInv, FlushAfterGo
<1>3. \A q \in Requests : FlushOf(q)'
  <2>1. flush(given[r]) /\ code'[r] # "handler"
    BY <1>1, <1>2
  <2> HIDE DEF r
  <2> QED
    BY <1>1, <1>2, <2>1, FlushReleases
<1>4. FlushAfterGo'
  BY <1>1 DEF FlushInv, FlushAfterGo
<1> QED
  BY <1>3, <1>4 DEF FlushInv

LEMMA FlushUntouched ==
    ASSUME Inv, FlushInv, \A t \in tasks' : t \in tasks,
           UNCHANGED <<plan, envoy, writer, goroutine, given, adding, added, alone, effects>>
    PROVE  FlushInv'
<1> USE DEF envoy, effects
<1>1. \A q \in Requests : FlushOf(q)'
  BY FlushFrame DEF FlushInv
<1>2. FlushAfterGo'
  BY DEF FlushInv, FlushAfterGo
<1> QED
  BY <1>1, <1>2 DEF FlushInv

LEMMA FlushStep ==
    ASSUME ~Outlives
    PROVE  Inv /\ FlushInv /\ [Next]_vars => FlushInv'
<1> SUFFICES ASSUME Inv, FlushInv, [Next]_vars PROVE FlushInv'
  OBVIOUS
<1>1. ASSUME NEW r \in Requests, NEW c \in Callouts, OnHttpCalloutDone(r, c) PROVE FlushInv'
  BY <1>1, FlushUntouched DEF OnHttpCalloutDone, goroutines
<1>2. ASSUME NEW r \in Requests, HostStep(r) PROVE FlushInv'
  BY <1>1, <1>2, FlushNewSahlFilter, FlushOnRequestHeaders, FlushOnRequestHeadersReturn,
     FlushObserver, FlushOnStreamComplete, FlushOnDestroy DEF HostStep
<1>3. ASSUME NEW r \in Requests, AuthorStep(r) PROVE FlushInv'
  BY <1>3, FlushAdd, FlushAddReturn, FlushSend, FlushGo, FlushGoReturn, FlushDo
  DEF AuthorStep
<1>4. ASSUME NEW t \in tasks, RunCallout(t) \/ DropTask(t) PROVE FlushInv'
  BY <1>4, FlushUntouched DEF RunCallout, DropTask, goroutines
<1>5. ASSUME NEW t \in tasks, Scheduled(t) PROVE FlushInv'
  BY <1>4, <1>5, FlushRun DEF Scheduled
<1>6. CASE UNCHANGED vars
  BY <1>6, FlushUntouched DEF vars, goroutines, callouts
<1> QED
  BY <1>2, <1>3, <1>5, <1>6 DEF Next

(* flush, OnStreamComplete: whatever a handler, goroutine and observer of  *)
(* one request queue, and however their calls interleave, a mutation whose *)
(* call met no other is applied when it is due.                            *)
THEOREM LoneMutationsAreNotLost ==
    ASSUME ~Outlives
    PROVE  Spec => []LoneAppendsAreApplied
  BY Invariance, FlushInit, FlushStep, FlushImplies, PTL DEF Spec

-----------------------------------------------------------------------------
(* Each request is decided at most once, and as RequestOutcome says        *)

Answered(r) == \E a \in answered : a[1] = r

FlushWaits(r) == \E t \in tasks : t.runs = "flush" /\ t.stream = r

(* What has been decided about a request, and what its Writer, its code and*)
(* its flush task may still do about it                                    *)
OutcomeOf(r) ==
    /\ r \in released =>
         /\ ~Answered(r) /\ ~FlushWaits(r)
         /\ code[r] # "handler" /\ goroutine[r] \in {"none", "done"}
    /\ r \in released \/ Answered(r) => given[r] # None
    /\ FlushWaits(r) => goroutine[r] = "done"
    /\ phase[r] = "open" =>
         LET w == writer[given[r]] IN
         /\ Answered(r) => w.responded
         /\ w.localResp # None =>
              /\ w.responded /\ goroutine[r] # "none"
              /\ Answered(r) => goroutine[r] = "done" /\ ~FlushWaits(r)

FlushTasks == \A t \in tasks : t.runs = "flush" => t.by = <<t.stream, 0>>

OutcomeInv == (\A r \in Requests : OutcomeOf(r)) /\ FlushTasks

LEMMA OutcomeInit == Init => OutcomeInv /\ \A r \in Requests : Outcome(r)!Init
<1> SUFFICES ASSUME Init PROVE OutcomeInv /\ \A r \in Requests : Outcome(r)!Init
  OBVIOUS
<1>1. OutcomeInv
  BY DEF Init, OutcomeInv, OutcomeOf, FlushTasks, Answered, FlushWaits
<1>2. \A r \in Requests : Outcome(r)!Init
  BY DEF Init, Outcome!Init, Over
<1> QED
  BY <1>1, <1>2

LEMMA OutcomeImplies == Inv /\ OutcomeInv => ReleasedIsLast
<1> SUFFICES ASSUME Inv, OutcomeInv, NEW r \in released
             PROVE  /\ code[r] # "handler" /\ goroutine[r] \in {"none", "done"}
                    /\ \A t \in tasks : t.runs = "flush" => t.stream # r
  BY DEF ReleasedIsLast
<1>1. r \in Requests
  BY DEF Inv, Typed
<1> QED
  BY <1>1 DEF OutcomeInv, OutcomeOf, FlushWaits

LEMMA OutcomeFrame ==
    ASSUME NEW q \in Requests, OutcomeOf(q),
           q \in released' => q \in released,
           Answered(q)' => Answered(q),
           FlushWaits(q)' => FlushWaits(q),
           given'[q] = given[q],
           code'[q] = "handler" => code[q] = "handler",
           goroutine'[q] = goroutine[q]
               \/ {goroutine[q], goroutine'[q]} \subseteq {"running", "waiting"},
           phase'[q] = "open" =>
               /\ phase[q] = "open"
               /\ writer'[given[q]].responded = writer[given[q]].responded
               /\ writer'[given[q]].localResp = writer[given[q]].localResp
    PROVE  OutcomeOf(q)'
  BY DEF OutcomeOf

(* The counts of RequestOutcome do not move.                               *)
LEMMA StepStays ==
    ASSUME NEW q \in Requests, given'[q] = given[q],
           q \in released' <=> q \in released, Answered(q)' <=> Answered(q),
           Over(q) => Over(q)'
    PROVE  OutcomeStep(q)
<1>1. CASE Over(q)' <=> Over(q)
  BY <1>1 DEF OutcomeStep, Outcome!vars, Answered, Over
<1>2. CASE Over(q)'
  BY <1>2 DEF OutcomeStep, Outcome!Next, Outcome!Close, Answered
<1> QED
  BY <1>1, <1>2

(* What neither decides a request nor gives anybody a Writer.              *)
LEMMA OutcomeQuiet ==
    ASSUME OutcomeInv, UNCHANGED <<given, answered, released>>,
           \A t \in tasks' : t.runs = "flush" => t \in tasks,
           \A q \in Requests :
             /\ code'[q] = "handler" => code[q] = "handler"
             /\ goroutine'[q] = goroutine[q]
                  \/ {goroutine[q], goroutine'[q]} \subseteq {"running", "waiting"}
             /\ Over(q) => Over(q)'
             /\ phase'[q] = "open" =>
                  /\ phase[q] = "open"
                  /\ writer'[given[q]].responded = writer[given[q]].responded
                  /\ writer'[given[q]].localResp = writer[given[q]].localResp
    PROVE  OutcomeInv' /\ \A q \in Requests : OutcomeStep(q)
<1>1. \A q \in Requests : (Answered(q)' <=> Answered(q)) /\ (FlushWaits(q)' => FlushWaits(q))
  BY DEF Answered, FlushWaits
<1>2. \A q \in Requests : OutcomeOf(q)'
  BY <1>1, OutcomeFrame DEF OutcomeInv
<1>3. FlushTasks'
  BY DEF OutcomeInv, FlushTasks
<1> QED
  BY <1>1, <1>2, <1>3, StepStays DEF OutcomeInv

(* flush in the Writer of an open stream releases or answers its request,  *)
(* once, or leaves it.                                                     *)
LEMMA FlushOutcome ==
    ASSUME Inv, OutcomeInv, NEW r \in Requests, phase[r] = "open", flush(given[r]),
           FlushWaits(r) \/ (code[r] = "handler" /\ Undecided(given[r])),
           UNCHANGED <<phase, given, writer, goroutine>>,
           \A q \in Requests \ {r} : code'[q] = code[q],
           code'[r] = "idle", goroutine[r] \in {"none", "done"},
           \A t \in tasks' : t.runs = "flush" => t \in tasks,
           ~FlushWaits(r)'
    PROVE  OutcomeInv' /\ \A q \in Requests : OutcomeStep(q)
<1> DEFINE w == writer[given[r]]
<1>1. OutcomeOf(r) /\ w.handle = r /\ w.localResp \in {None, r} /\ given[r] # None
  BY OpenOwns, OwnWriter DEF OutcomeInv, Inv, ContentInv, ContentOf, Own
<1>2. r \notin released
  BY <1>1 DEF OutcomeOf
<1>3. \A q \in Requests : FlushWaits(q)' => FlushWaits(q)
  BY DEF FlushWaits
<1>4. FlushTasks'
  BY DEF OutcomeInv, FlushTasks
<1>5. ~Over(r) /\ ~Over(r)' /\ \A q \in Requests : Over(q)' <=> Over(q)
  BY DEF Over
<1>6. w.localResp # None => ~Answered(r) /\ w.responded /\ goroutine[r] # "none"
  BY <1>1 DEF OutcomeOf, Undecided
<1>7. ASSUME \A q \in Requests \ {r} :
               (q \in released' <=> q \in released) /\ (Answered(q)' <=> Answered(q)),
             OutcomeOf(r)', OutcomeStep(r)
      PROVE  OutcomeInv' /\ \A q \in Requests : OutcomeStep(q)
  <2>1. \A q \in Requests \ {r} : OutcomeOf(q)'
    BY <1>3, <1>7, OutcomeFrame DEF OutcomeInv
  <2>2. \A q \in Requests \ {r} : OutcomeStep(q)
    BY <1>5, <1>7, StepStays
  <2> QED
    BY <1>4, <1>7, <2>1, <2>2 DEF OutcomeInv
<1>8. CASE w.localResp # None
  <2>1. answered' = answered \union {<<r, r>>} /\ released' = released
    BY <1>1, <1>8 DEF flush
  <2>2. \A q \in Requests : Answered(q)' <=> Answered(q) \/ q = r
    <3> SUFFICES ASSUME NEW q \in Requests PROVE Answered(q)' <=> Answered(q) \/ q = r
      OBVIOUS
    <3>1. \A a \in answered' : a \in answered \/ a[1] = r
      BY <2>1
    <3>2. <<r, r>> \in answered' /\ <<r, r>>[1] = r /\ answered \subseteq answered'
      BY <2>1
    <3> QED
      BY <3>1, <3>2 DEF Answered
  <2>3. OutcomeOf(r)'
    BY <1>1, <1>2, <1>6, <1>8, <2>1 DEF OutcomeOf
  <2>4. OutcomeStep(r)
    BY <1>1, <1>2, <1>5, <1>6, <1>8, <2>1, <2>2
    DEF OutcomeStep, Outcome!Next, Outcome!Answer, Outcome!Undecided, Answered, Over
  <2> QED
    BY <1>7, <2>1, <2>2, <2>3, <2>4
<1>9. CASE w.localResp = None /\ w.responded
  <2>1. UNCHANGED <<answered, released>>
    BY <1>9 DEF flush, effects
  <2>2. \A q \in Requests : Answered(q)' <=> Answered(q)
    BY <2>1 DEF Answered
  <2>3. OutcomeOf(r)'
    BY <1>1, <1>2, <1>9, <2>1, <2>2 DEF OutcomeOf
  <2>4. OutcomeStep(r)
    BY <1>5, <2>1, <2>2, StepStays
  <2> QED
    BY <1>7, <2>1, <2>2, <2>3, <2>4
<1>10. CASE w.localResp = None /\ ~w.responded
  <2>1. answered' = answered /\ released' = released \union {r}
    BY <1>1, <1>10 DEF flush
  <2>2. ~Answered(r) /\ \A q \in Requests : Answered(q)' <=> Answered(q)
    BY <1>1, <1>10, <2>1 DEF Answered, OutcomeOf
  <2>3. OutcomeOf(r)'
    BY <1>1, <1>10, <2>1, <2>2 DEF OutcomeOf
  <2>4. OutcomeStep(r)
    BY <1>1, <1>2, <1>5, <2>1, <2>2
    DEF OutcomeStep, Outcome!Next, Outcome!Forward, Outcome!Undecided, Answered, Over
  <2> QED
    BY <1>7, <2>1, <2>2, <2>3, <2>4
<1> QED
  BY <1>8, <1>9, <1>10

LEMMA OutcomeOnRequestHeadersReturn ==
    ASSUME Inv, OutcomeInv, NEW r \in Requests, OnRequestHeadersReturn(r)
    PROVE  OutcomeInv' /\ \A q \in Requests : OutcomeStep(q)
<1> USE DEF goroutines, callouts
<1> DEFINE w == given[r]
<1>1. /\ code[r] = "handler"
      /\ code' = [code EXCEPT ![r] = "idle"]
      /\ UNCHANGED effects \/ (Undecided(w) /\ flush(w))
      /\ UNCHANGED <<phase, writer, goroutine, given, tasks>>
  BY DEF OnRequestHeadersReturn
<1>2. phase[r] = "open" /\ Own(r)
  BY <1>1, OpenOwns DEF Inv, RunningInv
<1>3. code'[r] = "idle" /\ \A q \in Requests \ {r} : code'[q] = code[q]
  BY <1>1 DEF Inv, Typed
<1>4. CASE Undecided(w) /\ flush(w)
  <2>1. goroutine[r] = "none"
    BY <1>2, <1>4 DEF Undecided, Inv, ContentInv, ContentOf
  <2>2. ~FlushWaits(r) /\ (FlushWaits(r)' <=> FlushWaits(r))
    BY <1>1, <2>1 DEF OutcomeInv, OutcomeOf, FlushWaits
  <2> QED
    BY <1>1, <1>2, <1>3, <1>4, <2>1, <2>2, FlushOutcome
<1>5. CASE UNCHANGED effects
  BY <1>1, <1>3, <1>5, OutcomeQuiet DEF effects, Over
<1> QED
  BY <1>1, <1>4, <1>5

LEMMA OutcomeRunFlush ==
    ASSUME Inv, OutcomeInv, NEW t \in tasks, RunFlush(t)
    PROVE  OutcomeInv' /\ \A q \in Requests : OutcomeStep(q)
<1> USE DEF envoy, goroutines
<1> DEFINE r == t.stream
<1>1. /\ t.runs = "flush" /\ phase[r] = "open" /\ code[r] = "idle"
      /\ tasks' = tasks \ {t}
      /\ flush(given[t.by[1]])
      /\ UNCHANGED <<phase, writer, goroutine, given, code>>
  BY DEF RunFlush, Deliverable, Free
<1>2. r \in Requests /\ t.by[1] = r /\ t \in Task
  BY DEF Inv, Typed, Task, CalloutInv
<1>3. FlushWaits(r)
  BY <1>1 DEF FlushWaits
<1>4. goroutine[r] = "done"
  BY <1>2, <1>3 DEF OutcomeInv, OutcomeOf
<1>5. ~FlushWaits(r)'
  <2> SUFFICES ASSUME NEW u \in tasks, u # t, u.runs = "flush", u.stream = r PROVE FALSE
    BY <1>1 DEF FlushWaits
  <2>1. u \in Task /\ u.by = <<r, 0>> /\ t.by = <<r, 0>>
    BY <1>1 DEF Inv, Typed, OutcomeInv, FlushTasks
  <2> QED
    BY <1>1, <1>2, <2>1 DEF Task
<1> HIDE DEF r
<1> QED
  BY <1>1, <1>2, <1>3, <1>4, <1>5, FlushOutcome

LEMMA OutcomeOnRequestHeaders ==
    ASSUME Inv, OutcomeInv, NEW r \in Requests, OnRequestHeaders(r)
    PROVE  OutcomeInv' /\ \A q \in Requests : OutcomeStep(q)
<1> USE DEF callouts, effects
<1>1. PICK w \in Gettable(Writers, writerPool) :
        /\ writer' = [writer EXCEPT ![w] = reset(w, r)]
        /\ given' = [given EXCEPT ![r] = w]
  BY DEF OnRequestHeaders
<1>2. /\ phase[r] = "created"
      /\ phase' = [phase EXCEPT ![r] = "open"]
      /\ code' = [code EXCEPT ![r] = "handler"]
      /\ UNCHANGED <<goroutine, tasks, answered, released>>
  BY DEF OnRequestHeaders
<1>3. w \in Writers /\ \A q \in Requests : Own(q) => given[q] # w
  BY TakenIsFree, InvImpliesShared
<1>4. /\ \A q \in Requests \ {r} : /\ phase'[q] = phase[q] /\ code'[q] = code[q]
                                  /\ given'[q] = given[q]
      /\ phase'[r] = "open" /\ given'[r] = w
      /\ writer'[w] = reset(w, r)
      /\ \A v \in Writers \ {w} : writer'[v] = writer[v]
  BY <1>1, <1>2, <1>3 DEF Inv, Typed
<1>5. \A q \in Requests : (Answered(q)' <=> Answered(q)) /\ (FlushWaits(q)' <=> FlushWaits(q))
  BY <1>2 DEF Answered, FlushWaits
<1>6. given[r] = None /\ goroutine[r] = "none" /\ OutcomeOf(r)
  BY <1>2 DEF Inv, RunningInv, OutcomeInv
<1>7. r \notin released /\ ~Answered(r) /\ ~FlushWaits(r)
  BY <1>6 DEF OutcomeOf
<1>8. ASSUME NEW q \in Requests \ {r} PROVE OutcomeOf(q)' /\ OutcomeStep(q)
  <2>1. phase[q] = "open" => writer'[given[q]] = writer[given[q]]
    <3> SUFFICES ASSUME phase[q] = "open" PROVE writer'[given[q]] = writer[given[q]]
      OBVIOUS
    <3>1. Own(q) /\ given[q] \in Writers
      BY OpenOwns, OwnWriter
    <3> QED
      BY <1>3, <1>4, <3>1
  <2>2. OutcomeOf(q)'
    BY <1>2, <1>4, <1>5, <2>1, OutcomeFrame DEF OutcomeInv
  <2>3. OutcomeStep(q)
    BY <1>2, <1>4, <1>5, StepStays DEF Over
  <2> QED
    BY <2>2, <2>3
<1>9. OutcomeOf(r)'
  <2>1. writer'[w].localResp = None
    BY <1>4 DEF reset, BlankWriter
  <2> QED
    BY <1>2, <1>4, <1>5, <1>7, <2>1 DEF OutcomeOf
<1>10. OutcomeStep(r)
  <2>1. ~Over(r) /\ ~Over(r)'
    BY <1>2, <1>4 DEF Over
  <2>2. given'[r] # None
    BY <1>3, <1>4, ValuesAssumption
  <2> QED
    BY <1>2, <2>1, <2>2
    DEF OutcomeStep, Outcome!Next, Outcome!Handle, Over
<1>11. FlushTasks'
  BY <1>2 DEF OutcomeInv, FlushTasks
<1> QED
  BY <1>8, <1>9, <1>10, <1>11 DEF OutcomeInv

(* A handler that answers at once, or leaves the answer to the flush of the*)
(* goroutine                                                               *)
LEMMA OutcomeSend ==
    ASSUME Inv, OutcomeInv, ~Outlives, NEW r \in Requests, NEW c \in Codes, Send(r, c)
    PROVE  OutcomeInv' /\ \A q \in Requests : OutcomeStep(q)
<1> USE DEF envoy, goroutines, callouts
<1> DEFINE w == given[r]
<1>1. /\ MayUse(r, c) /\ c \in {"handler", "goroutine"}
      /\ ~writer[w].responded
      /\ UNCHANGED <<phase, code, goroutine, given, tasks, released>>
  BY DEF Send
<1>2. Own(r) /\ w \in Writers /\ writer[w] \in Writer /\ writer[w].handle = r /\ w # None
  BY <1>1, UserOwns, OwnWriter DEF Own
<1>3. writer[w].goStarted <=> goroutine[r] # "none"
  BY <1>2 DEF Inv, ContentInv, ContentOf
<1>4. /\ c = "handler" => code[r] = "handler" /\ phase[r] = "open"
      /\ c = "goroutine" => goroutine[r] = "running"
  BY <1>1 DEF MayUse, Inv, RunningInv
<1>5. OutcomeOf(r) /\ FlushTasks'
  BY <1>1 DEF OutcomeInv, FlushTasks
<1>6. r \notin released
  BY <1>1, <1>4, <1>5 DEF OutcomeOf
<1>7. phase[r] = "open" => ~Answered(r) /\ writer[w].localResp = None
  BY <1>1, <1>5 DEF OutcomeOf
<1>8. \A q \in Requests : (FlushWaits(q)' <=> FlushWaits(q)) /\ (Over(q)' <=> Over(q))
  BY <1>1 DEF FlushWaits, Over
<1>9. \A v \in Writers \ {w} : writer'[v] = writer[v]
  BY <1>2 DEF Send, Inv, Typed
<1>10. ASSUME NEW q \in Requests \ {r}, Answered(q)' <=> Answered(q)
       PROVE  OutcomeOf(q)' /\ OutcomeStep(q)
  <2>1. phase[q] = "open" => writer'[given[q]] = writer[given[q]]
    BY <1>2, <1>9, OtherQueues
  <2>2. OutcomeOf(q)'
    BY <1>1, <1>8, <1>10, <2>1, OutcomeFrame DEF OutcomeInv
  <2>3. OutcomeStep(q)
    BY <1>1, <1>8, <1>10, StepStays
  <2> QED
    BY <2>2, <2>3
<1>11. CASE writer[w].goStarted
  <2>1. answered' = answered /\ writer' = [writer EXCEPT ![w].responded = TRUE, ![w].localResp = r]
    BY <1>11 DEF Send
  <2>2. \A q \in Requests : Answered(q)' <=> Answered(q)
    BY <2>1 DEF Answered
  <2>3. writer'[w].responded /\ writer'[w].localResp = r
    <3> HIDE DEF w
    <3> QED
      BY <1>2, <2>1 DEF Inv, Typed, Writer
  <2>4. OutcomeOf(r)'
    BY <1>1, <1>2, <1>3, <1>5, <1>6, <1>7, <1>8, <1>11, <2>2, <2>3 DEF OutcomeOf
  <2>5. OutcomeStep(r)
    BY <1>1, <1>8, <2>2, StepStays
  <2> QED
    BY <1>5, <1>10, <2>2, <2>4, <2>5 DEF OutcomeInv
<1>12. CASE ~writer[w].goStarted
  <2>1. answered' = answered \union {<<r, r>>} /\ writer' = [writer EXCEPT ![w].responded = TRUE]
    BY <1>2, <1>12 DEF Send
  <2>2. c = "handler" /\ phase[r] = "open"
    BY <1>1, <1>3, <1>4, <1>12
  <2>3. \A q \in Requests : Answered(q)' <=> Answered(q) \/ q = r
    <3> SUFFICES ASSUME NEW q \in Requests PROVE Answered(q)' <=> Answered(q) \/ q = r
      OBVIOUS
    <3>1. \A a \in answered' : a \in answered \/ a[1] = r
      BY <2>1
    <3>2. <<r, r>> \in answered' /\ <<r, r>>[1] = r /\ answered \subseteq answered'
      BY <2>1
    <3> QED
      BY <3>1, <3>2 DEF Answered
  <2>4. writer'[w].responded /\ writer'[w].localResp = None
    <3> HIDE DEF w
    <3> QED
      BY <1>2, <1>7, <2>1, <2>2 DEF Inv, Typed, Writer
  <2>5. OutcomeOf(r)'
    BY <1>1, <1>2, <1>5, <1>6, <1>8, <2>2, <2>3, <2>4 DEF OutcomeOf
  <2>6. OutcomeStep(r)
    <3>1. ~Over(r)
      BY <2>2 DEF Over
    <3> QED
      BY <1>1, <1>2, <1>6, <1>7, <1>8, <2>2, <2>3, <3>1
      DEF OutcomeStep, Outcome!Next, Outcome!Answer, Outcome!Undecided, Answered, Over
  <2> QED
    BY <1>5, <1>10, <2>3, <2>5, <2>6 DEF OutcomeInv
<1> QED
  BY <1>11, <1>12

(* Storing a queue or starting a goroutine leaves the reply of all Writers.*)
LEMMA ReplyKept ==
    ASSUME Inv, NEW w, NEW x, NEW r,
           \/ writer' = writer
           \/ writer' = [writer EXCEPT ![w].queued = x]
           \/ writer' = [writer EXCEPT ![w].goStarted = TRUE, ![w].goCancel = r],
           NEW v \in Writers
    PROVE  /\ writer'[v].responded = writer[v].responded
           /\ writer'[v].localResp = writer[v].localResp
<1>1. writer \in [Writers -> Writer]
  BY DEF Inv, Typed
<1>2. CASE writer' = [writer EXCEPT ![w].queued = x]
  <2>1. CASE v = w
    <3>1. writer'[v] = [writer[v] EXCEPT !.queued = x]
      BY <1>1, <1>2, <2>1
    <3> QED
      BY <1>1, <3>1 DEF Writer
  <2>2. CASE v # w
    BY <1>1, <1>2, <2>2
  <2> QED
    BY <2>1, <2>2
<1>3. CASE writer' = [writer EXCEPT ![w].goStarted = TRUE, ![w].goCancel = r]
  <2>1. CASE v = w
    <3>1. writer'[v] = [writer[v] EXCEPT !.goStarted = TRUE, !.goCancel = r]
      BY <1>1, <1>3, <2>1
    <3> QED
      BY <1>1, <3>1 DEF Writer
  <2>2. CASE v # w
    BY <1>1, <1>3, <2>2
  <2> QED
    BY <2>1, <2>2
<1> QED
  BY <1>2, <1>3

LEMMA OutcomeGo ==
    ASSUME Inv, OutcomeInv, ~Outlives, NEW r \in Requests, Go(r) \/ GoReturn(r)
    PROVE  OutcomeInv' /\ \A q \in Requests : OutcomeStep(q)
<1> USE DEF envoy, effects
<1> DEFINE w == given[r]
           new == [stream |-> r, runs |-> "flush", by |-> <<r, 0>>]
<1>1. OutcomeOf(r)
  BY DEF OutcomeInv
<1>2. /\ goroutine' = goroutine \/ goroutine' = [goroutine EXCEPT ![r] = "running"]
         \/ goroutine' = [goroutine EXCEPT ![r] = "done"]
      /\ UNCHANGED <<phase, code, given, answered, released>>
  BY DEF Go, GoReturn
<1>3. \A q \in Requests \ {r} : goroutine'[q] = goroutine[q]
  BY <1>2 DEF Inv, Typed
<1>4. \A q \in Requests : (Answered(q)' <=> Answered(q)) /\ (Over(q)' <=> Over(q))
  BY <1>2 DEF Answered, Over
<1>5. \A q \in Requests : OutcomeStep(q)
  BY <1>2, <1>4, StepStays
<1>6. ASSUME OutcomeOf(r)', FlushTasks',
             \A q \in Requests \ {r} : FlushWaits(q)' => FlushWaits(q),
             \A q \in Requests \ {r} : phase[q] = "open" =>
               /\ writer'[given[q]].responded = writer[given[q]].responded
               /\ writer'[given[q]].localResp = writer[given[q]].localResp
      PROVE  OutcomeInv'
  <2>1. \A q \in Requests \ {r} : OutcomeOf(q)'
    BY <1>2, <1>3, <1>4, <1>6, OutcomeFrame DEF OutcomeInv
  <2> QED
    BY <1>6, <2>1 DEF OutcomeInv
<1>7. CASE Go(r)
  <2>1. /\ MayUse(r, "handler") /\ goroutine[r] = "none" /\ UNCHANGED tasks
        /\ \/ UNCHANGED <<writer, goroutine>>
           \/ /\ writer' = [writer EXCEPT ![w].goStarted = TRUE, ![w].goCancel = r]
              /\ goroutine' = [goroutine EXCEPT ![r] = "running"]
    BY <1>7 DEF Go, callouts
  <2>2. code[r] = "handler" /\ goroutine[r] = "none" /\ phase[r] = "open"
    BY <2>1 DEF MayUse, Inv, RunningInv
  <2>3. w \in Writers
    BY <2>1, UserOwns, OwnWriter DEF Codes
  <2>4. \A v \in Writers : /\ writer'[v].responded = writer[v].responded
                           /\ writer'[v].localResp = writer[v].localResp
    <3> HIDE DEF w
    <3> QED
      BY <2>1, ReplyKept
  <2>5. \A q \in Requests : phase[q] = "open" => given[q] \in Writers
    BY OpenOwns, OwnWriter
  <2>6. r \notin released /\ ~FlushWaits(r) /\ writer[w].localResp = None
    BY <1>1, <2>2 DEF OutcomeOf
  <2>7. \A q \in Requests : FlushWaits(q)' <=> FlushWaits(q)
    BY <2>1 DEF FlushWaits
  <2>8. OutcomeOf(r)'
    BY <1>1, <1>2, <1>4, <2>2, <2>3, <2>4, <2>6, <2>7 DEF OutcomeOf
  <2>9. FlushTasks'
    BY <2>1 DEF OutcomeInv, FlushTasks
  <2> QED
    BY <1>5, <1>6, <2>4, <2>5, <2>7, <2>8, <2>9
<1>8. CASE GoReturn(r)
  <2>1. /\ goroutine[r] = "running" /\ goroutine' = [goroutine EXCEPT ![r] = "done"]
        /\ tasks' = tasks \union {new} /\ UNCHANGED writer
    BY <1>8 DEF GoReturn
  <2>2. goroutine'[r] = "done"
    BY <2>1 DEF Inv, Typed
  <2>3. r \notin released
    BY <1>1, <2>1 DEF OutcomeOf
  <2>4. \A q \in Requests \ {r} : FlushWaits(q)' => FlushWaits(q)
    BY <2>1 DEF FlushWaits
  <2>5. OutcomeOf(r)'
    BY <1>1, <1>2, <1>4, <2>1, <2>2, <2>3 DEF OutcomeOf
  <2>6. FlushTasks'
    BY <2>1 DEF OutcomeInv, FlushTasks
  <2> QED
    BY <1>5, <1>6, <2>1, <2>4, <2>5, <2>6
<1> QED
  BY <1>7, <1>8

(* The steps that decide nothing                                           *)
LEMMA OutcomeHost ==
    ASSUME Inv, OutcomeInv, NEW r \in Requests,
           \/ newSahlFilter(r) \/ OnResponse(r) \/ OnResponseReturn(r)
           \/ OnStreamComplete(r) \/ OnDestroy(r)
           \/ \E c \in Callouts : OnHttpCalloutDone(r, c)
    PROVE  OutcomeInv' /\ \A q \in Requests : OutcomeStep(q)
<1> USE DEF envoy, goroutines, callouts, effects
<1>1. UNCHANGED <<given, goroutine, answered, released, tasks>>
  BY DEF newSahlFilter, OnResponse, OnResponseReturn, OnStreamComplete, OnDestroy,
     OnHttpCalloutDone
<1>2. /\ \/ phase' = phase
         \/ phase[r] = "none" /\ phase' = [phase EXCEPT ![r] = "created"]
         \/ phase' = [phase EXCEPT ![r] = "complete"]
         \/ phase' = [phase EXCEPT ![r] = "destroyed"]
      /\ \/ code' = code \/ code' = [code EXCEPT ![r] = "observer"]
         \/ code' = [code EXCEPT ![r] = "idle"]
  BY DEF newSahlFilter, OnResponse, OnResponseReturn, OnStreamComplete, OnDestroy,
     OnHttpCalloutDone
<1>3. \A q \in Requests : /\ code'[q] = "handler" => code[q] = "handler"
                          /\ Over(q) => Over(q)'
                          /\ phase'[q] = "open" => phase[q] = "open"
  BY <1>2 DEF Inv, Typed, Over
<1>4. \A v \in Writers : /\ writer'[v].responded = writer[v].responded
                         /\ writer'[v].localResp = writer[v].localResp
  <2>1. \/ writer' = writer
        \/ writer' = [writer EXCEPT ![filter[filterOf[r]].writer].queued = << >>]
    BY DEF newSahlFilter, OnResponse, OnResponseReturn, OnStreamComplete, OnDestroy,
       OnHttpCalloutDone
  <2> QED
    BY <2>1, ReplyKept
<1>5. \A q \in Requests : phase[q] = "open" => given[q] \in Writers
  BY OpenOwns, OwnWriter
<1> QED
  BY <1>1, <1>3, <1>4, <1>5, OutcomeQuiet

LEMMA OutcomeAuthor ==
    ASSUME Inv, OutcomeInv, NEW r \in Requests,
           \/ \E c \in Codes : Add(r, c) \/ AddReturn(r, c)
           \/ Do(r) \/ DoResult(r) \/ DoGivesUp(r)
    PROVE  OutcomeInv' /\ \A q \in Requests : OutcomeStep(q)
<1> USE DEF envoy, goroutines, callouts, effects
<1>1. UNCHANGED <<phase, code, given, answered, released>>
  <2>1. CASE \E c \in Codes : Add(r, c) \/ AddReturn(r, c)
    BY <2>1 DEF Add, AddReturn
  <2>2. CASE Do(r) \/ DoResult(r) \/ DoGivesUp(r)
    BY <2>2 DEF Do, DoResult, DoGivesUp
  <2> QED
    BY <2>1, <2>2
<1>2. \A t \in tasks' : t.runs = "flush" => t \in tasks
  <2>1. CASE \E c \in Codes : Add(r, c) \/ AddReturn(r, c)
    <3>1. tasks' = tasks
      BY <2>1 DEF Add, AddReturn
    <3> QED
      BY <3>1
  <2>2. CASE Do(r)
    <3>1. \/ tasks' = tasks
          \/ tasks' = tasks \union {[stream |-> writer[given[r]].handle, runs |-> "callout",
                                     by |-> <<r, asked[r] + 1>>]}
      BY <2>2 DEF Do
    <3> QED
      BY <3>1
  <2>3. CASE DoResult(r) \/ DoGivesUp(r)
    BY <2>3 DEF DoResult, DoGivesUp
  <2> QED
    BY <2>1, <2>2, <2>3
<1>3. \A q \in Requests : goroutine'[q] = goroutine[q]
          \/ {goroutine[q], goroutine'[q]} \subseteq {"running", "waiting"}
  <2>1. \/ goroutine' = goroutine
        \/ goroutine[r] = "running" /\ goroutine' = [goroutine EXCEPT ![r] = "waiting"]
        \/ goroutine[r] = "waiting" /\ goroutine' = [goroutine EXCEPT ![r] = "running"]
    BY DEF Add, AddReturn, Do, DoResult, DoGivesUp, MayUse
  <2> QED
    BY <2>1 DEF Inv, Typed
<1>4. \A v \in Writers : /\ writer'[v].responded = writer[v].responded
                         /\ writer'[v].localResp = writer[v].localResp
  <2>1. \/ writer' = writer
        \/ \E m \in Mutations :
             writer' = [writer EXCEPT ![given[r]].queued = Append(adding[m], m)]
    BY DEF Add, AddReturn, Do, DoResult, DoGivesUp, Mutations
  <2> QED
    BY <2>1, ReplyKept
<1>5. \A q \in Requests : phase[q] = "open" => given[q] \in Writers
  BY OpenOwns, OwnWriter
<1> QED
  BY <1>1, <1>2, <1>3, <1>4, <1>5, OutcomeQuiet DEF Over

LEMMA OutcomeNext ==
    ASSUME ~Outlives, Inv, OutcomeInv, [Next]_vars
    PROVE  OutcomeInv' /\ \A q \in Requests : OutcomeStep(q)
<1>1. ASSUME NEW r \in Requests, HostStep(r)
      PROVE  OutcomeInv' /\ \A q \in Requests : OutcomeStep(q)
  BY <1>1, OutcomeHost, OutcomeOnRequestHeaders, OutcomeOnRequestHeadersReturn DEF HostStep
<1>2. ASSUME NEW r \in Requests, AuthorStep(r)
      PROVE  OutcomeInv' /\ \A q \in Requests : OutcomeStep(q)
  BY <1>2, OutcomeAuthor, OutcomeSend, OutcomeGo DEF AuthorStep
<1>3. ASSUME NEW t \in tasks, RunCallout(t) \/ DropTask(t)
      PROVE  OutcomeInv' /\ \A q \in Requests : OutcomeStep(q)
  <2>1. /\ UNCHANGED <<phase, code, writer, given, goroutine, answered, released>>
        /\ \A u \in tasks' : u \in tasks
    BY <1>3 DEF RunCallout, DropTask, envoy, goroutines, effects
  <2> QED
    BY <2>1, OutcomeQuiet DEF Over
<1>4. ASSUME NEW t \in tasks, Scheduled(t)
      PROVE  OutcomeInv' /\ \A q \in Requests : OutcomeStep(q)
  BY <1>3, <1>4, OutcomeRunFlush DEF Scheduled
<1>5. CASE UNCHANGED vars
  BY <1>5, OutcomeQuiet DEF vars, envoy, goroutines, callouts, effects, Over
<1> QED
  BY <1>1, <1>2, <1>4, <1>5 DEF Next

(* OnRequestHeaders, flush: a request goes on when its handler and its     *)
(* goroutine have returned and no flush of its Writer waits.               *)
THEOREM NothingFollowsRelease ==
    ASSUME ~Outlives
    PROVE  Spec => []ReleasedIsLast
  BY Invariance, OutcomeInit, OutcomeNext, OutcomeImplies, PTL DEF Spec

(* flush, SendBytes: every request of any number that share pooled filters *)
(* and Writers keeps the promise of RequestOutcome, the promise SahlFilter *)
(* is shown to keep for one.                                               *)
THEOREM RequestsImplementOutcome ==
    ASSUME ~Outlives
    PROVE  Spec => ImplementsOutcomes
<1>1. Inv /\ OutcomeInv /\ [Next]_vars => [\A r \in Requests : OutcomeStep(r)]_vars
  BY OutcomeNext
<1>2. Init => \A r \in Requests : Outcome(r)!Init
  BY OutcomeInit
<1> QED
  BY <1>1, <1>2, Invariance, OutcomeInit, OutcomeNext, PTL DEF Spec, ImplementsOutcomes

-----------------------------------------------------------------------------
(* A goroutine that waits in Do is still going to be woken                 *)

(* Its Writer knows whom to cancel, and does it when the stream ends.      *)
Told(r) ==
    /\ Own(r) /\ goroutine[r] # "none" => writer[given[r]].goCancel = r
    /\ Over(r) /\ goroutine[r] \in {"running", "waiting"} => r \in cancelled

CalloutIsOut(r, c) ==
    \/ \E t \in tasks : t.runs = "callout" /\ t.by = c
    \/ <<r, c>> \in inflight

CanReturn(r) ==
    goroutine[r] = "waiting" =>
        \/ r \in cancelled
        \/ channel[<<r, asked[r]>>] # << >>
        \/ phase[r] = "open" /\ CalloutIsOut(r, <<r, asked[r]>>)

DoInv == \A r \in Requests : Told(r) /\ CanReturn(r)

LEMMA DoImplies == DoInv => DoCanReturn
  BY DEF DoInv, CanReturn, CalloutIsOut, DoCanReturn, ChannelOf

LEMMA ToldFrame ==
    ASSUME NEW q \in Requests, Told(q), given'[q] = given[q],
           Own(q)' => Own(q) /\ writer'[given[q]].goCancel = writer[given[q]].goCancel,
           Over(q)' => Over(q),
           goroutine'[q] # "none" => goroutine[q] # "none",
           goroutine'[q] \in {"running", "waiting"} =>
               goroutine[q] \in {"running", "waiting"},
           cancelled \subseteq cancelled'
    PROVE  Told(q)'
  BY DEF Told

LEMMA CanReturnFrame ==
    ASSUME NEW q \in Requests, CanReturn(q), asked'[q] = asked[q],
           goroutine'[q] = "waiting" => goroutine[q] = "waiting",
           cancelled \subseteq cancelled',
           phase[q] = "open" => phase'[q] = "open" \/ q \in cancelled',
           channel'[<<q, asked[q]>>] = channel[<<q, asked[q]>>]
               \/ channel'[<<q, asked[q]>>] # << >>,
           phase[q] = "open" /\ CalloutIsOut(q, <<q, asked[q]>>) =>
               CalloutIsOut(q, <<q, asked[q]>>)' \/ channel'[<<q, asked[q]>>] # << >>
    PROVE  CanReturn(q)'
  BY DEF CanReturn

(* What leaves tasks, callouts and streams alone and starts no goroutine   *)
LEMMA DoFrame ==
    ASSUME DoInv, UNCHANGED <<phase, given, asked, channel, inflight>>,
           cancelled \subseteq cancelled',
           \A t \in tasks : t.runs = "callout" => t \in tasks',
           \A q \in Requests :
             /\ Own(q) => writer'[given[q]].goCancel = writer[given[q]].goCancel
             /\ goroutine'[q] # "none" => goroutine[q] # "none"
             /\ goroutine'[q] \in {"running", "waiting"} =>
                  goroutine[q] \in {"running", "waiting"}
             /\ goroutine'[q] = "waiting" => goroutine[q] = "waiting"
    PROVE  DoInv'
<1> SUFFICES ASSUME NEW q \in Requests PROVE Told(q)' /\ CanReturn(q)'
  BY DEF DoInv
<1>1. Told(q)'
  BY ToldFrame DEF DoInv, Own, Serving, Over
<1>2. CalloutIsOut(q, <<q, asked[q]>>) => CalloutIsOut(q, <<q, asked[q]>>)'
  BY DEF CalloutIsOut
<1>3. CanReturn(q)'
  BY <1>2, CanReturnFrame DEF DoInv
<1> QED
  BY <1>1, <1>3

LEMMA CancelKept ==
    ASSUME Inv, NEW w, NEW x, NEW r,
           \/ writer' = writer
           \/ writer' = [writer EXCEPT ![w].queued = x]
           \/ writer' = [writer EXCEPT ![w].responded = TRUE]
           \/ writer' = [writer EXCEPT ![w].responded = TRUE, ![w].localResp = r]
    PROVE  \A q \in Requests : Own(q) =>
             writer'[given[q]].goCancel = writer[given[q]].goCancel
<1> SUFFICES ASSUME NEW v \in Writers PROVE writer'[v].goCancel = writer[v].goCancel
  BY OwnWriter
<1>1. writer \in [Writers -> Writer]
  BY DEF Inv, Typed
<1>2. CASE v # w
  BY <1>1, <1>2
<1>3. CASE v = w
  <2>1. \/ writer'[v] = writer[v]
        \/ writer'[v] = [writer[v] EXCEPT !.queued = x]
        \/ writer'[v] = [writer[v] EXCEPT !.responded = TRUE]
        \/ writer'[v] = [writer[v] EXCEPT !.responded = TRUE, !.localResp = r]
    BY <1>1, <1>3
  <2> QED
    BY <1>1, <2>1 DEF Writer
<1> QED
  BY <1>2, <1>3

LEMMA DoNewSahlFilter ==
    ASSUME Inv, DoInv, NEW r \in Requests, newSahlFilter(r)
    PROVE  DoInv'
<1> USE DEF goroutines, callouts
<1>1. /\ phase[r] = "none"
      /\ phase' = phase \/ phase' = [phase EXCEPT ![r] = "created"]
      /\ UNCHANGED <<writer, goroutine, given, cancelled, asked, channel, tasks, inflight>>
  BY DEF newSahlFilter
<1>2. given[r] = None /\ goroutine[r] = "none"
  BY <1>1 DEF Inv, RunningInv
<1>3. \A q \in Requests \ {r} : phase'[q] = phase[q]
  BY <1>1 DEF Inv, Typed
<1>4. ASSUME NEW q \in Requests \ {r} PROVE Told(q)' /\ CanReturn(q)'
  BY <1>1, <1>3, ToldFrame, CanReturnFrame DEF DoInv, Own, Serving, Over, CalloutIsOut
<1>5. Told(r)' /\ CanReturn(r)'
  BY <1>1, <1>2 DEF Told, CanReturn, Own
<1> QED
  BY <1>4, <1>5 DEF DoInv

LEMMA DoOnRequestHeaders ==
    ASSUME Inv, DoInv, NEW r \in Requests, OnRequestHeaders(r)
    PROVE  DoInv'
<1> USE DEF callouts
<1>1. PICK w \in Gettable(Writers, writerPool) :
        /\ writer' = [writer EXCEPT ![w] = reset(w, r)]
        /\ given' = [given EXCEPT ![r] = w]
  BY DEF OnRequestHeaders
<1>2. /\ phase[r] = "created" /\ phase' = [phase EXCEPT ![r] = "open"]
      /\ UNCHANGED <<goroutine, cancelled, asked, channel, tasks, inflight>>
  BY DEF OnRequestHeaders
<1>3. w \in Writers /\ \A q \in Requests : Own(q) => given[q] # w /\ given[q] \in Writers
  BY TakenIsFree, InvImpliesShared, OwnWriter
<1>4. given[r] = None /\ goroutine[r] = "none"
  BY <1>2 DEF Inv, RunningInv
<1>5. /\ \A q \in Requests \ {r} : phase'[q] = phase[q] /\ given'[q] = given[q]
      /\ \A v \in Writers \ {w} : writer'[v] = writer[v]
  BY <1>1, <1>2, <1>3 DEF Inv, Typed
<1>6. ASSUME NEW q \in Requests \ {r} PROVE Told(q)' /\ CanReturn(q)'
  <2>1. Own(q)' => Own(q) /\ writer'[given[q]] = writer[given[q]]
    BY <1>3, <1>5 DEF Own, Serving
  <2>2. Told(q)'
    BY <1>2, <1>5, <2>1, ToldFrame DEF DoInv, Over
  <2>3. CanReturn(q)'
    BY <1>2, <1>5, CanReturnFrame DEF DoInv, CalloutIsOut
  <2> QED
    BY <2>2, <2>3
<1>7. Told(r)' /\ CanReturn(r)'
  BY <1>2, <1>4 DEF Told, CanReturn
<1> QED
  BY <1>6, <1>7 DEF DoInv

(* The stream ends, and with it the context of its goroutine.              *)
LEMMA DoOnStreamComplete ==
    ASSUME Inv, DoInv, NEW r \in Requests, OnStreamComplete(r)
    PROVE  DoInv'
<1> USE DEF goroutines, callouts
<1> DEFINE w == filter[filterOf[r]].writer
<1>1. /\ phase[r] \in {"created", "open"} /\ phase' = [phase EXCEPT ![r] = "complete"]
      /\ writer' = writer \/ writer' = [writer EXCEPT ![w].queued = << >>]
      /\ cancelled' = cancelled \union IF w = None THEN {} ELSE Cancels(w)
      /\ UNCHANGED <<goroutine, given, asked, channel, tasks, inflight>>
  BY DEF OnStreamComplete
<1>2. w = given[r] /\ Serving(r)
  BY <1>1 DEF Inv, PoolInv, FilterOfOwn, Serving
<1>3. \A q \in Requests \ {r} : phase'[q] = phase[q]
  BY <1>1 DEF Inv, Typed
<1>a. phase'[r] = "complete"
  BY <1>1 DEF Inv, Typed
<1>4. \A q \in Requests : Own(q) => writer'[given[q]].goCancel = writer[given[q]].goCancel
  BY <1>1, CancelKept
<1>5. cancelled \subseteq cancelled'
  BY <1>1
<1>6. ASSUME NEW q \in Requests \ {r} PROVE Told(q)' /\ CanReturn(q)'
  <2>1. Own(q)' => Own(q)
    BY <1>1, <1>3 DEF Own, Serving
  <2>2. Told(q)'
    BY <1>1, <1>3, <1>4, <1>5, <2>1, ToldFrame DEF DoInv, Over
  <2>3. CanReturn(q)'
    BY <1>1, <1>3, <1>5, CanReturnFrame DEF DoInv, CalloutIsOut
  <2> QED
    BY <2>2, <2>3
<1>7. goroutine[r] # "none" => r \in cancelled'
  <2> SUFFICES ASSUME goroutine[r] # "none" PROVE r \in cancelled'
    OBVIOUS
  <2>1. Own(r)
    BY <1>2 DEF Inv, RunningInv, Own
  <2>2. writer[w].goCancel = r /\ w # None /\ r # None
    BY <1>2, <2>1, ValuesAssumption DEF DoInv, Told, Own
  <2> QED
    BY <1>1, <2>2 DEF Cancels
<1>8. Told(r)' /\ CanReturn(r)'
  <2>1. Own(r)' => Own(r)
    BY <1>1, <1>2 DEF Own
  <2>2. Told(r)'
    BY <1>1, <1>4, <1>7, <2>1 DEF DoInv, Told
  <2>3. CanReturn(r)'
    BY <1>1, <1>7 DEF CanReturn
  <2> QED
    BY <2>2, <2>3
<1> QED
  BY <1>6, <1>8 DEF DoInv

LEMMA DoOnDestroy ==
    ASSUME Inv, DoInv, NEW r \in Requests, OnDestroy(r)
    PROVE  DoInv'
<1> USE DEF goroutines, callouts
<1>1. /\ phase[r] = "complete" /\ phase' = [phase EXCEPT ![r] = "destroyed"]
      /\ UNCHANGED <<writer, goroutine, given, cancelled, asked, channel, tasks, inflight>>
  BY DEF OnDestroy
<1>2. ASSUME NEW q \in Requests
      PROVE  /\ Own(q)' => Own(q)
             /\ Over(q)' => Over(q)
             /\ phase[q] = "open" => phase'[q] = "open"
  BY <1>1 DEF Inv, Typed, Own, Serving, Over
<1>3. ASSUME NEW q \in Requests PROVE Told(q)' /\ CanReturn(q)'
  BY <1>1, <1>2, ToldFrame, CanReturnFrame DEF DoInv, CalloutIsOut
<1> QED
  BY <1>3 DEF DoInv

LEMMA DoGo ==
    ASSUME Inv, DoInv, ~Outlives, NEW r \in Requests, Go(r)
    PROVE  DoInv'
<1> USE DEF envoy, callouts, effects
<1> DEFINE w == given[r]
<1>1. /\ MayUse(r, "handler") /\ goroutine[r] = "none"
      /\ writer[w].goStarted \/
           /\ writer' = [writer EXCEPT ![w].goStarted = TRUE, ![w].goCancel = r]
           /\ goroutine' = [goroutine EXCEPT ![r] = "running"]
      /\ UNCHANGED <<phase, given, cancelled, asked, channel, tasks, inflight>>
  BY DEF Go
<1>2. code[r] = "handler" /\ goroutine[r] = "none" /\ phase[r] = "open"
  BY <1>1 DEF MayUse, Inv, RunningInv
<1>3. Own(r) /\ w \in Writers /\ \A q \in Requests \ {r} : Own(q) => given[q] \in Writers \ {w}
  BY <1>1, UserOwns, OwnWriter DEF Codes
<1>4. ~writer[w].goStarted
  BY <1>2, <1>3 DEF Inv, ContentInv, ContentOf
<1>5. /\ \A v \in Writers \ {w} : writer'[v] = writer[v]
      /\ writer'[w] = [writer[w] EXCEPT !.goStarted = TRUE, !.goCancel = r]
      /\ goroutine'[r] = "running"
      /\ \A q \in Requests \ {r} : goroutine'[q] = goroutine[q]
  BY <1>1, <1>3, <1>4 DEF Inv, Typed
<1>6. writer'[w].goCancel = r
  BY <1>3, <1>5 DEF Inv, Typed, Writer
<1>7. ASSUME NEW q \in Requests \ {r} PROVE Told(q)' /\ CanReturn(q)'
  BY <1>1, <1>3, <1>5, ToldFrame, CanReturnFrame DEF DoInv, Own, Serving, Over, CalloutIsOut
<1>8. Told(r)' /\ CanReturn(r)'
  BY <1>1, <1>2, <1>5, <1>6 DEF Told, CanReturn, Over
<1> QED
  BY <1>7, <1>8 DEF DoInv

(* Do has its callout scheduled, or its stream has ended and it was told.  *)
LEMMA DoDo ==
    ASSUME Inv, DoInv, ~Outlives, NEW r \in Requests, Do(r)
    PROVE  DoInv'
<1> USE DEF envoy, callouts, effects
<1> DEFINE w == given[r]
           c == <<r, asked[r] + 1>>
           new == [stream |-> writer[w].handle, runs |-> "callout", by |-> c]
<1>1. /\ MayUse(r, "goroutine")
      /\ ~writer[w].goStarted \/
           /\ goroutine' = [goroutine EXCEPT ![r] = "waiting"]
           /\ asked' = [asked EXCEPT ![r] = @ + 1]
           /\ tasks' = tasks \union {new}
      /\ UNCHANGED <<writer, phase, given, cancelled, channel, inflight>>
  BY DEF Do
<1>2. goroutine[r] = "running" /\ phase[r] # "destroyed"
  BY <1>1 DEF MayUse
<1>3. Own(r)
  BY <1>1, UserOwns DEF Codes
<1>4. writer[w].goStarted
  BY <1>2, <1>3 DEF Inv, ContentInv, ContentOf
<1>5. /\ goroutine'[r] = "waiting" /\ asked'[r] = asked[r] + 1
      /\ \A q \in Requests \ {r} : goroutine'[q] = goroutine[q] /\ asked'[q] = asked[q]
  BY <1>1, <1>4 DEF Inv, Typed
<1>6. ASSUME NEW q \in Requests \ {r} PROVE Told(q)' /\ CanReturn(q)'
  <2>1. CalloutIsOut(q, <<q, asked[q]>>) => CalloutIsOut(q, <<q, asked[q]>>)'
    BY <1>1, <1>4, <1>5 DEF CalloutIsOut
  <2>2. Told(q)'
    BY <1>1, <1>5, ToldFrame DEF DoInv, Own, Serving, Over
  <2>3. CanReturn(q)'
    BY <1>1, <1>5, <2>1, CanReturnFrame DEF DoInv
  <2> QED
    BY <2>2, <2>3
<1>7. Told(r)'
  BY <1>1, <1>2, ToldFrame DEF DoInv, Own, Serving, Over
<1>8. CanReturn(r)'
  <2>1. CASE phase[r] = "open"
    <3>1. new \in tasks'
      BY <1>1, <1>4
    <3>2. new.runs = "callout" /\ new.by = <<r, asked'[r]>>
      BY <1>5
    <3>3. CalloutIsOut(r, <<r, asked[r]>>)'
      BY <3>1, <3>2 DEF CalloutIsOut
    <3> QED
      BY <1>1, <2>1, <3>3 DEF CanReturn
  <2>2. CASE phase[r] # "open"
    <3>1. Over(r)
      BY <1>2, <1>3, <2>2 DEF Own, Serving, Over, Inv, RunningInv
    <3>2. r \in cancelled
      BY <1>2, <3>1 DEF DoInv, Told
    <3> QED
      BY <1>1, <3>2 DEF CanReturn
  <2> QED
    BY <2>1, <2>2
<1> QED
  BY <1>6, <1>7, <1>8 DEF DoInv

LEMMA DoDoResult ==
    ASSUME Inv, DoInv, NEW r \in Requests, DoResult(r)
    PROVE  DoInv'
<1> USE DEF envoy, effects
<1> DEFINE c == <<r, asked[r]>>
<1>1. /\ goroutine[r] = "waiting" /\ goroutine' = [goroutine EXCEPT ![r] = "running"]
      /\ channel' = [channel EXCEPT ![c] = Tail(@)]
      /\ UNCHANGED <<writer, phase, given, cancelled, asked, tasks, inflight>>
  BY DEF DoResult, ChannelOf
<1>2. /\ goroutine'[r] = "running"
      /\ \A q \in Requests \ {r} : goroutine'[q] = goroutine[q]
  BY <1>1 DEF Inv, Typed
<1>3. ASSUME NEW q \in Requests \ {r} PROVE Told(q)' /\ CanReturn(q)'
  <2>1. <<q, asked[q]>> # c
    OBVIOUS
  <2>2. channel'[<<q, asked[q]>>] = channel[<<q, asked[q]>>] \/ goroutine[q] # "waiting"
    <3> SUFFICES ASSUME goroutine[q] = "waiting"
                 PROVE  channel'[<<q, asked[q]>>] = channel[<<q, asked[q]>>]
      OBVIOUS
    <3>1. <<q, asked[q]>> \in Callouts
      <4>1. asked[q] \in 1..MaxCallouts
        BY BoundAssumption DEF Inv, Typed, RunningInv
      <4> QED
        BY <4>1 DEF Callouts
    <3> QED
      BY <1>1, <2>1, <3>1 DEF Inv, Typed
  <2>3. Told(q)'
    BY <1>1, <1>2, ToldFrame DEF DoInv, Own, Serving, Over
  <2>4. CanReturn(q)'
    BY <1>1, <1>2, <2>2 DEF DoInv, CanReturn, CalloutIsOut
  <2> QED
    BY <2>3, <2>4
<1>4. Told(r)'
  BY <1>1, <1>2, ToldFrame DEF DoInv, Own, Serving, Over
<1>5. CanReturn(r)'
  BY <1>2 DEF CanReturn
<1> QED
  BY <1>3, <1>4, <1>5 DEF DoInv

(* The callout leaves the scheduler for Envoy or, refused, its error goes  *)
(* to the channel.                                                         *)
LEMMA DoRunCallout ==
    ASSUME Inv, DoInv, NEW t \in tasks, RunCallout(t)
    PROVE  DoInv'
<1> USE DEF envoy, goroutines, effects
<1> DEFINE c == t.by
           s == t.stream
<1>1. /\ t.runs = "callout" /\ Deliverable(t) /\ tasks' = tasks \ {t}
      /\ \/ /\ inflight' = inflight \union {<<writer[given[c[1]]].handle, c>>}
            /\ channel' = channel
         \/ Deliver(s, c) /\ inflight' = inflight
      /\ UNCHANGED <<writer, phase, given, goroutine, cancelled, asked>>
  BY DEF RunCallout
<1>2. s \in Requests /\ c[1] = s /\ writer[given[c[1]]].handle = s
  BY <1>1, OpenStream
<1>3. c \in Callouts /\ channel[c] = << >> /\ <<c>> # << >>
  BY <1>1 DEF Inv, CalloutInv
<1> HIDE DEF c, s
<1>4. /\ inflight \subseteq inflight'
      /\ \A d \in Callouts \ {c} : channel'[d] = channel[d]
      /\ <<s, c>> \in inflight' \/ channel'[c] # << >>
      /\ channel' = channel \/ channel'[c] # << >>
  BY <1>1, <1>2, <1>3, ChannelHasRoom
<1>5. ASSUME NEW q \in Requests PROVE Told(q)' /\ CanReturn(q)'
  <2> DEFINE d == <<q, asked[q]>>
  <2>1. Told(q)'
    BY <1>1, ToldFrame DEF DoInv, Own, Serving, Over
  <2>2. CASE c = d
    <3>1. s = q
      BY <1>2, <2>2
    <3>2. phase[q] = "open"
      BY <1>1, <3>1 DEF Deliverable, s
    <3> QED
      BY <1>1, <1>4, <2>1, <2>2, <3>1, <3>2 DEF CanReturn, CalloutIsOut
  <2>3. CASE c # d /\ goroutine[q] = "waiting"
    <3>1. d \in Callouts
      <4>1. asked[q] \in 1..MaxCallouts
        BY <2>3, BoundAssumption DEF Inv, Typed, RunningInv
      <4> QED
        BY <4>1 DEF Callouts
    <3>2. channel'[d] = channel[d]
      BY <1>4, <2>3, <3>1
    <3>3. CalloutIsOut(q, d) => CalloutIsOut(q, d)'
      BY <1>1, <1>4, <2>3 DEF CalloutIsOut, c
    <3>4. CanReturn(q)'
      BY <1>1, <3>2, <3>3 DEF DoInv, CanReturn
    <3> QED
      BY <2>1, <3>4
  <2>4. CASE goroutine[q] # "waiting"
    BY <1>1, <2>1, <2>4 DEF CanReturn
  <2> QED
    BY <2>2, <2>3, <2>4
<1> QED
  BY <1>5 DEF DoInv

LEMMA DoOnHttpCalloutDone ==
    ASSUME Inv, DoInv, NEW r \in Requests, NEW c \in Callouts, OnHttpCalloutDone(r, c)
    PROVE  DoInv'
<1> USE DEF envoy, goroutines, effects
<1>1. /\ <<r, c>> \in inflight /\ inflight' = inflight \ {<<r, c>>}
      /\ \/ phase[r] = "open" /\ Deliver(r, c)
         \/ phase[r] = "complete" /\ channel' = channel
      /\ UNCHANGED <<writer, phase, given, goroutine, cancelled, asked, tasks>>
  BY DEF OnHttpCalloutDone
<1>2. channel[c] = << >> /\ r = c[1] /\ <<c>> # << >>
  BY <1>1 DEF Inv, CalloutInv
<1>3. /\ \A d \in Callouts \ {c} : channel'[d] = channel[d]
      /\ phase[r] = "open" => channel'[c] # << >>
      /\ channel' = channel \/ channel'[c] # << >>
  BY <1>1, <1>2, ChannelHasRoom
<1>4. ASSUME NEW q \in Requests PROVE Told(q)' /\ CanReturn(q)'
  <2> DEFINE d == <<q, asked[q]>>
  <2>1. Told(q)'
    BY <1>1, ToldFrame DEF DoInv, Own, Serving, Over
  <2>2. CASE c = d
    <3>1. r = q
      BY <1>2, <2>2
    <3> QED
      BY <1>1, <1>3, <2>1, <2>2, <3>1 DEF DoInv, CanReturn
  <2>3. CASE c # d /\ goroutine[q] = "waiting"
    <3>1. d \in Callouts
      <4>1. asked[q] \in 1..MaxCallouts
        BY <2>3, BoundAssumption DEF Inv, Typed, RunningInv
      <4> QED
        BY <4>1 DEF Callouts
    <3>2. channel'[d] = channel[d]
      BY <1>3, <2>3, <3>1
    <3>3. CalloutIsOut(q, d) => CalloutIsOut(q, d)'
      BY <1>1, <2>3 DEF CalloutIsOut
    <3>4. CanReturn(q)'
      BY <1>1, <3>2, <3>3 DEF DoInv, CanReturn
    <3> QED
      BY <2>1, <3>4
  <2>4. CASE goroutine[q] # "waiting"
    BY <1>1, <2>1, <2>4 DEF CanReturn
  <2> QED
    BY <2>2, <2>3, <2>4
<1> QED
  BY <1>4 DEF DoInv

(* A task is dropped only when its stream has ended.                       *)
LEMMA DoDropTask ==
    ASSUME Inv, DoInv, NEW t \in tasks, DropTask(t)
    PROVE  DoInv'
<1> USE DEF envoy, goroutines, effects
<1>1. /\ phase[t.stream] \in {"complete", "destroyed"} /\ tasks' = tasks \ {t}
      /\ UNCHANGED <<writer, phase, given, goroutine, cancelled, asked, channel, inflight>>
  BY DEF DropTask
<1>2. t.stream = t.by[1]
  BY DEF Inv, CalloutInv
<1>3. ASSUME NEW q \in Requests PROVE Told(q)' /\ CanReturn(q)'
  <2> DEFINE d == <<q, asked[q]>>
  <2>1. Told(q)'
    BY <1>1, ToldFrame DEF DoInv, Own, Serving, Over
  <2>2. phase[q] = "open" => t.by # d
    BY <1>1, <1>2
  <2>3. phase[q] = "open" /\ CalloutIsOut(q, d) => CalloutIsOut(q, d)'
    BY <1>1, <2>2 DEF CalloutIsOut
  <2>4. CanReturn(q)'
    BY <1>1, <2>3 DEF DoInv, CanReturn
  <2> QED
    BY <2>1, <2>4
<1> QED
  BY <1>3 DEF DoInv

(* The cancellation of its context wakes what its end leaves.              *)
LEMMA DoGoReturn ==
    ASSUME Inv, DoInv, NEW r \in Requests, GoReturn(r)
    PROVE  DoInv'
<1> USE DEF envoy, pools, effects
<1>1. /\ goroutine[r] = "running" /\ goroutine' = [goroutine EXCEPT ![r] = "done"]
      /\ cancelled \subseteq cancelled' /\ tasks \subseteq tasks'
      /\ UNCHANGED <<phase, given, writer, asked, channel, inflight>>
  BY DEF GoReturn
<1>2. goroutine'[r] = "done" /\ \A q \in Requests \ {r} : goroutine'[q] = goroutine[q]
  BY <1>1 DEF Inv, Typed
<1> QED
  BY <1>1, <1>2, DoFrame

LEMMA DoDoGivesUp ==
    ASSUME Inv, DoInv, NEW r \in Requests, DoGivesUp(r)
    PROVE  DoInv'
<1> USE DEF envoy, callouts
<1>1. /\ goroutine[r] = "waiting" /\ goroutine' = [goroutine EXCEPT ![r] = "running"]
      /\ UNCHANGED <<phase, given, writer, cancelled, asked, channel, tasks, inflight>>
  BY DEF DoGivesUp
<1>2. goroutine'[r] = "running" /\ \A q \in Requests \ {r} : goroutine'[q] = goroutine[q]
  BY <1>1 DEF Inv, Typed
<1> QED
  BY <1>1, <1>2, DoFrame

(* What no waiting goroutine notices                                       *)
LEMMA DoQuiet ==
    ASSUME Inv, DoInv,
           \/ \E r \in Requests, c \in Codes : Add(r, c) \/ AddReturn(r, c) \/ Send(r, c)
           \/ \E r \in Requests :
                OnRequestHeadersReturn(r) \/ OnResponse(r) \/ OnResponseReturn(r)
           \/ \E t \in tasks : RunFlush(t)
    PROVE  DoInv'
<1>1. ASSUME NEW r \in Requests, NEW c \in Codes, Add(r, c) \/ AddReturn(r, c) \/ Send(r, c)
      PROVE  DoInv'
  <2> USE DEF envoy, goroutines, callouts
  <2>1. UNCHANGED <<phase, goroutine, given, cancelled, asked, channel, tasks, inflight>>
    BY <1>1 DEF Add, AddReturn, Send
  <2>2. \/ writer' = writer
        \/ writer' = [writer EXCEPT ![given[r]].queued = Append(adding[<<r, c>>], <<r, c>>)]
        \/ writer' = [writer EXCEPT ![given[r]].responded = TRUE]
        \/ writer' = [writer EXCEPT ![given[r]].responded = TRUE, ![given[r]].localResp = r]
    BY <1>1 DEF Add, AddReturn, Send
  <2>3. \A q \in Requests : Own(q) => writer'[given[q]].goCancel = writer[given[q]].goCancel
    BY <2>2, CancelKept
  <2> QED
    BY <2>1, <2>3, DoFrame
<1>2. ASSUME NEW r \in Requests,
             OnRequestHeadersReturn(r) \/ OnResponse(r) \/ OnResponseReturn(r)
      PROVE  DoInv'
  <2>1. UNCHANGED <<phase, writer, goroutine, given, cancelled, asked, channel, tasks,
                    inflight>>
    BY <1>2 DEF OnRequestHeadersReturn, OnResponse, OnResponseReturn, goroutines, callouts
  <2> QED
    BY <2>1, DoFrame
<1>3. ASSUME NEW t \in tasks, RunFlush(t)
      PROVE  DoInv'
  <2>1. /\ UNCHANGED <<phase, writer, goroutine, given, cancelled, asked, channel, inflight>>
        /\ t.runs = "flush" /\ tasks' = tasks \ {t}
    BY <1>3 DEF RunFlush, envoy, goroutines
  <2>2. \A u \in tasks : u.runs = "callout" => u \in tasks'
    BY <2>1
  <2> QED
    BY <2>1, <2>2, DoFrame
<1> QED
  BY <1>1, <1>2, <1>3

LEMMA DoStep ==
    ASSUME Inv, DoInv, ~Outlives, [Next]_vars
    PROVE  DoInv'
<1>1. CASE Next
  <2>1. ASSUME NEW r \in Requests, HostStep(r) PROVE DoInv'
    BY <2>1, DoNewSahlFilter, DoOnRequestHeaders, DoQuiet, DoOnStreamComplete,
       DoOnDestroy, DoOnHttpCalloutDone DEF HostStep
  <2>2. ASSUME NEW r \in Requests, AuthorStep(r) PROVE DoInv'
    BY <2>2, DoQuiet, DoGo, DoGoReturn, DoDo, DoDoResult, DoDoGivesUp DEF AuthorStep
  <2>3. ASSUME NEW t \in tasks, Scheduled(t) PROVE DoInv'
    BY <2>3, DoQuiet, DoRunCallout, DoDropTask DEF Scheduled
  <2> QED
    BY <1>1, <2>1, <2>2, <2>3 DEF Next
<1>2. CASE UNCHANGED vars
  <2>1. UNCHANGED <<phase, writer, goroutine, given, cancelled, asked, channel, tasks,
                    inflight>>
    BY <1>2 DEF vars, envoy, goroutines, callouts
  <2> QED
    BY <2>1, DoFrame
<1> QED
  BY <1>1, <1>2

(* A goroutine that waits in Do has its callout under way, its result      *)
(* ready, or a context that has ended: OnStreamComplete cancels it through *)
(* the Writer, and the worker drops no callout of an open stream (do.go,   *)
(* filter.go OnStreamComplete).                                            *)
THEOREM WaitersAreWoken ==
    ASSUME ~Outlives
    PROVE  Spec => []DoCanReturn
<1>1. Init => DoInv
  <2> SUFFICES ASSUME Init, NEW r \in Requests PROVE Told(r) /\ CanReturn(r)
    BY DEF DoInv
  <2>1. goroutine[r] = "none"
    BY DEF Init
  <2> QED
    BY <2>1 DEF Told, CanReturn
<1>2. Inv /\ DoInv /\ [Next]_vars => DoInv'
  BY DoStep
<1> QED
  BY <1>1, <1>2, Invariance, DoImplies, PTL DEF Spec

=============================================================================

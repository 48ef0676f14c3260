------------------------- MODULE BodyBuffersProofs -------------------------
(***************************************************************************)
(* Theorems about BodyBuffers, for every capacity and every sequence of    *)
(* writes, readings and resets.                                            *)
(***************************************************************************)
EXTENDS BodyBuffers, TLAPS

(* Bytes written up to the one last copied to the ring.                    *)
Copies == written - rest

(* The slab holds the stream's first bytes.                                *)
SlabHolds ==
    /\ headN = Smaller(headSize, Received)
    /\ \A i \in 1..headN : head[i] = since + i

(* Before pos the ring holds the latest bytes, and once it is full, behind *)
(* pos the ones just before those.                                         *)
RingHolds ==
    /\ \A i \in 1..pos : data[i] + pos = Copies + i
    /\ full => /\ Copies - from >= tailSize
               /\ \A i \in (pos + 1)..tailSize : data[i] + pos + tailSize = Copies + i
    /\ ~full => pos = Copies - from

IInv == TypeOK /\ SlabHolds /\ RingHolds

-----------------------------------------------------------------------------
LEMMA TypeInit == Init => TypeOK
<1> SUFFICES ASSUME Init PROVE TypeOK
  OBVIOUS
<1>1. headSize \in Nat /\ tailSize \in Nat \ {0}
  BY SizesAssumption DEF Init
<1>2. head \in [1..headSize -> Nat] /\ headN \in 0..headSize
  BY <1>1 DEF Init
<1>3. data \in [1..tailSize -> Nat] /\ pos \in 0..(tailSize - 1)
  BY <1>1 DEF Init
<1>4. /\ written \in Nat /\ since \in 0..written /\ rest \in 0..(written - since)
      /\ from \in since..(written - rest)
  BY DEF Init
<1>5. headSize \in HeadSizes /\ tailSize \in TailSizes /\ full \in BOOLEAN
  BY Zenon DEF Init
<1> QED
  BY <1>2, <1>3, <1>4, <1>5, Zenon DEF TypeOK

(* Copying bytes, reversing a stretch and taking the smaller of two numbers*)
(* stay within the ranges TypeOK names.                                    *)
LEMMA CopiedType ==
    ASSUME NEW m \in Nat, NEW d \in [1..m -> Nat],
           NEW at \in Nat, NEW first \in Nat, NEW n \in Nat
    PROVE  Copied(d, at, first, n) \in [1..m -> Nat]
  BY DEF Copied

LEMMA ReversedType ==
    ASSUME NEW m \in Nat, NEW d \in [1..m -> Nat],
           NEW a \in Nat \ {0}, NEW b \in 0..m
    PROVE  Reversed(d, a, b) \in [1..m -> Nat]
<1>1. ASSUME NEW i \in 1..m, a <= i, i <= b
      PROVE  d[a + b - i] \in Nat
  <2>1. a + b - i \in 1..m
    BY <1>1
  <2> QED
    BY <2>1
<1> QED
  BY <1>1 DEF Reversed

(* The three reversals rotate the ring so that its oldest byte comes first.*)
LEMMA LinearRotates ==
    ASSUME TypeOK
    PROVE  /\ Linear \in [1..tailSize -> Nat]
           /\ \A i \in 1..tailSize :
                Linear[i] = IF i <= tailSize - pos THEN data[pos + i]
                            ELSE data[pos + i - tailSize]
<1> DEFINE A == Reversed(data, 1, pos)
           B == Reversed(A, pos + 1, tailSize)
<1>1. tailSize \in Nat \ {0} /\ pos \in 0..(tailSize - 1) /\ data \in [1..tailSize -> Nat]
  BY SizesAssumption DEF TypeOK
<1> HIDE DEF A, B
<1>0. /\ tailSize \in Nat /\ tailSize \in 0..tailSize /\ pos \in 0..tailSize
      /\ 1 \in Nat \ {0} /\ pos + 1 \in Nat \ {0}
  BY <1>1
<1>2. A \in [1..tailSize -> Nat]
  BY <1>0, <1>1, ReversedType DEF A
<1>3. B \in [1..tailSize -> Nat]
  BY <1>0, <1>2, ReversedType DEF B
<1>4. Linear = Reversed(B, 1, tailSize)
  BY DEF Linear, A, B
<1>5. Linear \in [1..tailSize -> Nat]
  BY <1>0, <1>3, <1>4, ReversedType
<1>6. ASSUME NEW i \in 1..tailSize
      PROVE  Linear[i] = IF i <= tailSize - pos THEN data[pos + i]
                         ELSE data[pos + i - tailSize]
  <2>1. tailSize + 1 - i \in 1..tailSize
    BY <1>1
  <2>2. Linear[i] = B[tailSize + 1 - i]
    BY <1>1, <1>3, <1>4, <1>6 DEF Reversed
  <2>3. CASE i <= tailSize - pos
    <3>1. B[tailSize + 1 - i] = A[pos + i]
      BY <1>1, <1>2, <2>1, <2>3 DEF Reversed, B
    <3>2. A[pos + i] = data[pos + i]
      BY <1>1, <2>3 DEF Reversed, A
    <3> QED
      BY <2>2, <2>3, <3>1, <3>2
  <2>4. CASE ~(i <= tailSize - pos)
    <3>1. B[tailSize + 1 - i] = A[tailSize + 1 - i]
      BY <1>1, <1>2, <2>1, <2>4 DEF Reversed, B
    <3>2. A[tailSize + 1 - i] = data[pos + i - tailSize]
      BY <1>1, <2>1, <2>4 DEF Reversed, A
    <3> QED
      BY <2>2, <2>4, <3>1, <3>2
  <2> QED
    BY <2>3, <2>4
<1> QED
  BY <1>5, <1>6

-----------------------------------------------------------------------------
LEMMA InvInit == Init => IInv
<1> SUFFICES ASSUME Init PROVE IInv
  OBVIOUS
<1>1. TypeOK
  BY TypeInit
<1>2. SlabHolds
  BY <1>1, SizesAssumption DEF Init, TypeOK, SlabHolds, Smaller, Received
<1>3. RingHolds
  BY <1>1 DEF Init, TypeOK, RingHolds, Copies
<1> QED
  BY <1>1, <1>2, <1>3 DEF IInv

(* A write fills what is left of the slab; the ring has yet to follow.     *)
LEMMA WriteStep ==
    ASSUME IInv, NEW n \in 1..MaxChunk, Write(n)
    PROVE  IInv'
<1> DEFINE k == Smaller(headSize - headN, n)
<1>1. headSize \in Nat /\ headN \in 0..headSize /\ n \in Nat /\ n > 0
  BY SizesAssumption, BoundsAssumption DEF IInv, TypeOK
<1>2. k \in Nat /\ headN + k \in 0..headSize
  BY <1>1 DEF Smaller
<1>3. written \in Nat /\ since \in 0..written /\ rest = 0 /\ from \in since..written
  BY DEF IInv, TypeOK, Write
<1>4. head' = Copied(head, headN, written, k) /\ headN' = headN + k
  BY DEF Write
<1>5. head' \in [1..headSize -> Nat]
  <2>1. head \in [1..headSize -> Nat] /\ headN \in Nat
    BY <1>1 DEF IInv, TypeOK
  <2>2. Copied(head, headN, written, k) \in [1..headSize -> Nat]
    BY <1>1, <1>2, <1>3, <2>1, CopiedType
  <2> QED
    BY <1>4, <2>2
<1>6. /\ rest' = n /\ written' = written + n
      /\ UNCHANGED <<headSize, tailSize, data, pos, full, since, from>>
  BY DEF Write, sizes, ring
<1>7. TypeOK'
  <2>1. /\ written + n \in Nat /\ since \in 0..(written + n) /\ n \in 0..(written + n - since)
        /\ from \in since..(written + n - n)
    BY <1>1, <1>3
  <2> QED
    BY <1>2, <1>4, <1>5, <1>6, <2>1 DEF IInv, TypeOK
<1>8. SlabHolds'
  <2>1. headN' = Smaller(headSize, written + n - since)
    BY <1>1, <1>3, <1>4 DEF IInv, SlabHolds, Smaller, Received
  <2>2. ASSUME NEW i \in 1..headN'
        PROVE  head'[i] = since + i
    <3>1. i \in 1..headSize /\ head'[i] = IF headN < i THEN written + (i - headN) ELSE head[i]
      BY <1>1, <1>2, <1>4, <2>2 DEF Copied, IInv, TypeOK
    <3>2. CASE headN < i
      <4>1. headN = written - since
        BY <1>1, <1>2, <1>3, <1>4, <2>2, <3>1, <3>2 DEF IInv, SlabHolds, Smaller, Received
      <4> QED
        BY <1>1, <1>3, <3>1, <3>2, <4>1
    <3>3. CASE ~(headN < i)
      BY <1>1, <2>2, <3>1, <3>3 DEF IInv, SlabHolds
    <3> QED
      BY <3>2, <3>3
  <2>3. headN' = Smaller(headSize', Received')
    BY <1>1, <1>3, <1>6, <2>1 DEF Received, Smaller
  <2>4. (\A i \in 1..headN : head[i] = since + i)'
    BY <1>6, <2>2
  <2> QED
    BY <2>3, <2>4, Zenon DEF SlabHolds
<1>9. RingHolds'
  <2>1. (written + n) - n = written - rest
    BY <1>1, <1>3
  <2> QED
    BY <1>3, <1>6, <2>1 DEF IInv, RingHolds, Copies
<1> QED
  BY <1>7, <1>8, <1>9 DEF IInv

(* A round of the loop moves the ring on by the bytes it copied.           *)
LEMMA CopyStep ==
    ASSUME IInv, CopyRound
    PROVE  IInv'
<1> DEFINE n == Smaller(tailSize - pos, rest)
<1>1. /\ tailSize \in Nat \ {0} /\ pos \in 0..(tailSize - 1)
      /\ rest \in Nat /\ rest > 0
      /\ written \in Nat /\ since \in 0..written /\ rest <= written - since
      /\ from \in since..(written - rest)
  BY SizesAssumption DEF IInv, TypeOK, CopyRound
<1>2. n \in Nat /\ n > 0 /\ n <= rest /\ pos + n <= tailSize
  BY <1>1 DEF Smaller
<1>3. data' = Copied(data, pos, written - rest, n) /\ rest' = rest - n
  BY DEF CopyRound
<1>4. data' \in [1..tailSize -> Nat]
  <2>1. data \in [1..tailSize -> Nat] /\ written - rest \in Nat
        /\ tailSize \in Nat /\ pos \in Nat
    BY <1>1 DEF IInv, TypeOK
  <2>2. Copied(data, pos, written - rest, n) \in [1..tailSize -> Nat]
    BY <1>2, <2>1, CopiedType
  <2> QED
    BY <1>3, <2>2
<1>5. UNCHANGED <<headSize, tailSize, head, headN, written, since, from>>
  BY DEF CopyRound, sizes, slab
<1>6. \/ pos + n = tailSize /\ pos' = 0 /\ full' = TRUE
      \/ pos + n < tailSize /\ pos' = pos + n /\ full' = full
  BY <1>1, <1>2 DEF CopyRound, Wraps
<1>7. TypeOK'
  <2>1. rest' \in 0..(written - since) /\ from \in since..(written - rest')
    BY <1>1, <1>2, <1>3
  <2>2. pos' \in 0..(tailSize - 1)
    BY <1>1, <1>2, <1>6
  <2>3. full' \in BOOLEAN
    BY <1>6, Zenon DEF IInv, TypeOK
  <2> QED
    BY <1>4, <1>5, <2>1, <2>2, <2>3 DEF IInv, TypeOK
<1>8. SlabHolds'
  BY <1>5 DEF IInv, SlabHolds, Received
<1>0. RingHolds
  BY DEF IInv
<1>9. ASSUME NEW i \in 1..(pos + n)
      PROVE  data'[i] + pos = written - rest + i
  <2>1. data'[i] = IF pos < i THEN written - rest + (i - pos) ELSE data[i]
    BY <1>1, <1>2, <1>3, <1>9 DEF Copied, IInv, TypeOK
  <2>2. CASE pos < i
    BY <1>1, <2>1, <2>2
  <2>3. CASE ~(pos < i)
    BY <1>0, <1>1, <2>1, <2>3, <1>9 DEF RingHolds, Copies
  <2> QED
    BY <2>2, <2>3
<1>10. ASSUME NEW i \in (pos + n + 1)..tailSize
       PROVE  data'[i] = data[i]
  BY <1>1, <1>2, <1>3, <1>10 DEF Copied, IInv, TypeOK
<1>11. RingHolds'
  <2>1. CASE pos + n = tailSize /\ pos' = 0 /\ full' = TRUE
    <3>1. written - rest' - from >= tailSize
      BY <1>0, <1>1, <1>2, <1>3, <1>6, <2>1 DEF RingHolds, Copies
    <3>2. \A i \in 1..tailSize : data'[i] + tailSize = written - rest' + i
      <4> SUFFICES ASSUME NEW i \in 1..tailSize
                   PROVE  data'[i] + tailSize = written - rest' + i
        OBVIOUS
      <4>1. data'[i] + pos = written - rest + i /\ data'[i] \in Nat
        BY <1>4, <1>9, <2>1
      <4> QED
        BY <1>1, <1>2, <1>3, <2>1, <4>1
    <3>3. \A i \in 1..0 : data'[i] + 0 = written - rest' + i
      OBVIOUS
    <3>4. \A i \in 1..tailSize : data'[i] + 0 + tailSize = written - rest' + i
      BY <1>4, <3>2
    <3>5. 0 + 1 = 1
      OBVIOUS
    <3> QED
      BY <1>5, <2>1, <3>1, <3>3, <3>4, <3>5 DEF RingHolds, Copies
  <2>2. CASE pos + n < tailSize /\ pos' = pos + n /\ full' = full
    <3>1. n = rest
      BY <1>1, <2>2 DEF Smaller
    <3>2. \A i \in 1..pos' : data'[i] + pos' = written - rest' + i
      <4> SUFFICES ASSUME NEW i \in 1..pos'
                   PROVE  data'[i] + pos' = written - rest' + i
        OBVIOUS
      <4>1. data'[i] + pos = written - rest + i /\ data'[i] \in Nat
        BY <1>1, <1>2, <1>4, <1>9, <2>2
      <4> QED
        BY <1>1, <1>2, <1>3, <2>2, <4>1
    <3>3. full => /\ written - rest' - from >= tailSize
                  /\ \A i \in (pos' + 1)..tailSize :
                       data'[i] + pos' + tailSize = written - rest' + i
      <4> SUFFICES ASSUME full
                   PROVE  /\ written - rest' - from >= tailSize
                          /\ \A i \in (pos' + 1)..tailSize :
                               data'[i] + pos' + tailSize = written - rest' + i
        OBVIOUS
      <4>1. written - rest - from >= tailSize
        BY <1>0 DEF RingHolds, Copies
      <4>2. written - rest' - from >= tailSize
        BY <1>1, <1>2, <1>3, <4>1
      <4>3. ASSUME NEW i \in (pos' + 1)..tailSize
            PROVE  data'[i] + pos' + tailSize = written - rest' + i
        <5>1. data[i] + pos + tailSize = written - rest + i
          BY <1>0, <1>1, <1>2, <2>2, <4>3 DEF RingHolds, Copies
        <5>2. data'[i] = data[i] /\ data[i] \in Nat
          BY <1>1, <1>2, <1>4, <1>10, <2>2, <4>3
        <5> QED
          BY <1>1, <1>2, <1>3, <2>2, <4>3, <5>1, <5>2
      <4> QED
        BY <4>2, <4>3
    <3>4. ~full => pos' = written - rest' - from
      BY <1>0, <1>1, <1>2, <1>3, <2>2 DEF RingHolds, Copies
    <3> QED
      BY <1>5, <2>2, <3>2, <3>3, <3>4 DEF RingHolds, Copies
  <2> QED
    BY <1>6, <2>1, <2>2
<1> QED
  BY <1>7, <1>8, <1>11 DEF IInv

(* Tail returns the last bytes, rotated into order if the ring was full.   *)
LEMMA TailReturns ==
    ASSUME IInv, Tail
    PROVE  tail' = {LastAfter(from)}
<1>1. /\ tailSize \in Nat \ {0} /\ pos \in 0..(tailSize - 1)
      /\ data \in [1..tailSize -> Nat]
      /\ written \in Nat /\ from \in 0..written
  BY SizesAssumption DEF IInv, TypeOK
<1>2. RingHolds /\ Copies = written
  BY <1>1 DEF Tail, IInv, Copies
<1>3. CASE full
  <2>1. /\ Linear \in [1..tailSize -> Nat]
        /\ \A i \in 1..tailSize :
             Linear[i] = IF i <= tailSize - pos THEN data[pos + i]
                         ELSE data[pos + i - tailSize]
    BY LinearRotates DEF IInv
  <2>2. ASSUME NEW i \in 1..tailSize
        PROVE  Linear[i] = written - tailSize + i
    <3>0. pos \in Nat /\ tailSize \in Nat /\ written \in Nat /\ i \in Nat
      BY <1>1
    <3>1. CASE i <= tailSize - pos
      <4>1. Linear[i] = data[pos + i] /\ pos + i \in (pos + 1)..tailSize
        BY <1>1, <2>1, <2>2, <3>1
      <4>2. data[pos + i] + pos + tailSize = written + (pos + i)
        BY <1>2, <1>3, <4>1 DEF RingHolds
      <4>3. data[pos + i] \in Nat
        BY <1>1, <4>1
      <4> QED
        BY <3>0, <4>1, <4>2, <4>3
    <3>2. CASE ~(i <= tailSize - pos)
      <4>1. Linear[i] = data[pos + i - tailSize] /\ pos + i - tailSize \in 1..pos
        BY <1>1, <2>1, <2>2, <3>2
      <4>2. /\ data[pos + i - tailSize] + pos = written + (pos + i - tailSize)
            /\ data[pos + i - tailSize] \in Nat
        BY <1>1, <1>2, <4>1 DEF RingHolds
      <4> QED
        BY <3>0, <4>1, <4>2
    <3> QED
      BY <3>1, <3>2
  <2>3. Smaller(tailSize, written - from) = tailSize
    BY <1>1, <1>2, <1>3 DEF RingHolds, Smaller
  <2>4. Linear = [i \in 1..tailSize |-> written - tailSize + i]
    BY <2>1, <2>2
  <2> QED
    BY <1>3, <2>3, <2>4 DEF Tail, LastAfter
<1>4. CASE ~full
  <2>1. Smaller(tailSize, written - from) = pos /\ pos = written - from
    BY <1>1, <1>2, <1>4 DEF RingHolds, Smaller
  <2>2. ASSUME NEW i \in 1..pos
        PROVE  data[i] = written - pos + i
    <3>1. data[i] + pos = written + i /\ data[i] \in Nat
      BY <1>1, <1>2, <2>2 DEF RingHolds
    <3> QED
      BY <1>1, <2>2, <3>1
  <2>3. [i \in 1..pos |-> data[i]] = [i \in 1..pos |-> written - pos + i]
    BY <2>2
  <2> QED
    BY <1>4, <2>1, <2>3 DEF Tail, LastAfter
<1> QED
  BY <1>3, <1>4

(* A full ring that was read is empty, one that was not full stays.        *)
LEMMA TailStep ==
    ASSUME IInv, Tail
    PROVE  IInv'
<1>1. /\ tailSize \in Nat \ {0} /\ written \in Nat /\ since \in 0..written
      /\ rest = 0
  BY SizesAssumption DEF IInv, TypeOK, Tail
<1>2. UNCHANGED <<headSize, tailSize, head, headN, rest, written, since>>
  BY DEF Tail, sizes, slab
<1>3. SlabHolds'
  BY <1>2 DEF IInv, SlabHolds, Received
<1>4. CASE full
  <2>1. data' = Linear /\ pos' = 0 /\ full' = FALSE /\ from' = written
    BY <1>4 DEF Tail
  <2>2. Linear \in [1..tailSize -> Nat]
    BY LinearRotates DEF IInv
  <2>3. /\ 0 \in 0..(tailSize - 1) /\ FALSE \in BOOLEAN
        /\ written \in since..(written - rest)
    BY <1>1
  <2>4. TypeOK'
    BY <1>2, <2>1, <2>2, <2>3, Zenon DEF IInv, TypeOK
  <2>5. RingHolds'
    BY <1>1, <1>2, <2>1 DEF RingHolds, Copies
  <2> QED
    BY <1>3, <2>4, <2>5 DEF IInv
<1>5. CASE ~full
  <2>1. UNCHANGED <<data, pos, full, from>>
    BY <1>5 DEF Tail, ring
  <2>2. TypeOK'
    BY <1>2, <2>1 DEF IInv, TypeOK
  <2>3. RingHolds'
    BY <1>2, <2>1 DEF IInv, RingHolds, Copies
  <2> QED
    BY <1>3, <2>2, <2>3 DEF IInv
<1> QED
  BY <1>4, <1>5

LEMMA ResetStep ==
    ASSUME IInv, Reset
    PROVE  IInv'
<1>1. /\ tailSize \in Nat \ {0} /\ headSize \in Nat
      /\ written \in Nat /\ since \in 0..written /\ rest = 0
  BY SizesAssumption DEF IInv, TypeOK, Reset
<1>2. /\ headN' = 0 /\ pos' = 0 /\ full' = FALSE /\ since' = written /\ from' = written
      /\ UNCHANGED <<headSize, tailSize, head, data, rest, written>>
  BY DEF Reset, headAfterReset, sizes
<1>0. /\ 0 \in 0..headSize /\ 0 \in 0..(tailSize - 1)
      /\ written \in 0..written /\ 0 \in 0..(written - written)
      /\ written \in written..(written - rest)
  BY <1>1
<1>3. TypeOK'
  BY <1>0, <1>1, <1>2 DEF IInv, TypeOK
<1>4. SlabHolds'
  BY <1>1, <1>2 DEF SlabHolds, Smaller, Received
<1>5. RingHolds'
  BY <1>1, <1>2 DEF RingHolds, Copies
<1> QED
  BY <1>3, <1>4, <1>5 DEF IInv

LEMMA Invariance == Spec => []IInv
<1>1. IInv /\ [Next]_vars => IInv'
  <2> SUFFICES ASSUME IInv, [Next]_vars PROVE IInv'
    OBVIOUS
  <2>1. CASE \E n \in 1..MaxChunk : Write(n)
    BY <2>1, WriteStep
  <2>2. CASE CopyRound
    BY <2>2, CopyStep
  <2>3. CASE Tail
    BY <2>3, TailStep
  <2>4. CASE Reset
    BY <2>4, ResetStep
  <2>5. CASE UNCHANGED vars
    BY <2>5 DEF vars, sizes, slab, ring, IInv, TypeOK, SlabHolds, RingHolds,
       Copies, Received
  <2> QED
    BY <2>1, <2>2, <2>3, <2>4, <2>5 DEF Next
<1> QED
  BY <1>1, InvInit, PTL DEF Spec

(* However often it is called, Tail returns the last bytes written since  *)
(* the ring was last emptied, in the order they came, wherever the chunks  *)
(* wrapped around the ring.                                                *)
THEOREM TailCorrect == Spec => TailIsRecent
<1>1. IInv /\ [Next]_vars => [Tail => tail' = {LastAfter(from)}]_vars
  BY TailReturns
<1> QED
  BY <1>1, Invariance, PTL DEF Spec, TailIsRecent

(* Head returns the first bytes of the stream.                             *)
THEOREM HeadCorrect == Spec => []HeadIsFirst
<1>1. IInv => HeadIsFirst
  BY DEF IInv, SlabHolds, HeadIsFirst, Head
<1> QED
  BY <1>1, Invariance, PTL

(* Len is the number of bytes the next Tail would return.                  *)
THEOREM LenCorrect == Spec => []LenIsStored
<1>1. IInv => LenIsStored
  BY SizesAssumption
  DEF IInv, TypeOK, RingHolds, Copies, LenIsStored, Len, Smaller
<1> QED
  BY <1>1, Invariance, PTL

(* The ring's write position never leaves the ring, nor the slab's its     *)
(* capacity: no index of the code is out of range.                         *)
THEOREM BuffersTypeCorrect == Spec => []TypeOK
<1>1. IInv => TypeOK
  BY DEF IInv
<1> QED
  BY <1>1, Invariance, PTL

=============================================================================

---------------------------- MODULE BodyBuffers ----------------------------
(***************************************************************************)
(* HeadTail and its Ring (buffer.go): the first and the last bytes of a    *)
(* stream of response chunks.  The code never looks at a byte, so a byte is*)
(* named by its place among all bytes ever written, which also tells those *)
(* of one stream from those of the stream before a Reset.                  *)
(***************************************************************************)
EXTENDS Naturals, FiniteSets

CONSTANTS
    HeadSizes, TailSizes,  \* capacities considered
    MaxChunk,              \* bound: bytes in one Write
    MaxWritten             \* bound: bytes written in all

ASSUME SizesAssumption == HeadSizes \subseteq Nat /\ TailSizes \subseteq Nat \ {0}
ASSUME BoundsAssumption == MaxChunk \in Nat /\ MaxWritten \in Nat

VARIABLES
    headSize, tailSize,    \* chosen initially, never changed
    head, headN,           \* the slab and how much of it is used
    data, pos, full,       \* the ring
    rest,                  \* bytes of the current Write not in the ring yet
    written,               \* bytes written in all
    since,                 \* of these, the ones written before the last Reset
    from,                  \* and the ones written before the ring was last
                           \* emptied, by a Reset or by reading it when full
    tail                   \* what Tail returned, until the next Write

slab == <<head, headN>>
ring == <<data, pos, full>>
sizes == <<headSize, tailSize>>
vars == <<sizes, slab, ring, rest, written, since, from, tail>>

Smaller(a, b) == IF a <= b THEN a ELSE b

TypeOK ==
    /\ headSize \in HeadSizes /\ tailSize \in TailSizes
    /\ head \in [1..headSize -> Nat] /\ headN \in 0..headSize
    /\ data \in [1..tailSize -> Nat] /\ pos \in 0..(tailSize - 1)
    /\ full \in BOOLEAN
    /\ written \in Nat /\ since \in 0..written
    /\ rest \in 0..(written - since) /\ from \in since..(written - rest)

Init ==
    /\ headSize \in HeadSizes /\ tailSize \in TailSizes
    /\ head = [i \in 1..headSize |-> 0] /\ headN = 0
    /\ data = [i \in 1..tailSize |-> 0] /\ pos = 0 /\ full = FALSE
    /\ rest = 0 /\ written = 0 /\ since = 0 /\ from = 0
    /\ tail = {}

(* Go's copy of n consecutive bytes, from byte first + 1, to d[at:]        *)
Copied(d, at, first, n) ==
    [i \in DOMAIN d |-> IF at < i /\ i <= at + n THEN first + (i - at) ELSE d[i]]

(* HeadTail.Write of n bytes, up to Ring.Write                             *)
Write(n) ==
    /\ rest = 0 /\ written + n <= MaxWritten
    /\ LET k == Smaller(headSize - headN, n) IN
       /\ head' = Copied(head, headN, written, k)
       /\ headN' = headN + k
    /\ rest' = n /\ written' = written + n /\ tail' = {}
    /\ UNCHANGED <<sizes, ring, since, from>>

Wraps_Late(p) == p > tailSize

Wraps(p) == p >= tailSize

(* One round of the loop of Ring.Write                                     *)
CopyRound ==
    /\ rest > 0
    /\ LET n == Smaller(tailSize - pos, rest) IN
       /\ data' = Copied(data, pos, written - rest, n)
       /\ rest' = rest - n
       /\ \/ Wraps(pos + n) /\ pos' = 0 /\ full' = TRUE
          \/ ~Wraps(pos + n) /\ pos' = pos + n /\ UNCHANGED full
    /\ UNCHANGED <<sizes, slab, written, since, from, tail>>

Reversed(d, a, b) ==
    [i \in DOMAIN d |-> IF a <= i /\ i <= b THEN d[a + b - i] ELSE d[i]]

(* The three reversals of Ring.Bytes                                       *)
Linear_Unsplit == Reversed(Reversed(data, 1, pos), 1, tailSize)

Linear ==
    Reversed(Reversed(Reversed(data, 1, pos), pos + 1, tailSize), 1, tailSize)

(* HeadTail.Tail, Ring.Bytes: reading a full ring leaves it empty.         *)
Tail ==
    /\ rest = 0
    /\ \/ /\ full
          /\ data' = Linear /\ pos' = 0 /\ full' = FALSE
          /\ from' = written /\ tail' = {Linear}
       \/ /\ ~full
          /\ tail' = {[i \in 1..pos |-> data[i]]}
          /\ UNCHANGED <<ring, from>>
    /\ UNCHANGED <<sizes, slab, rest, written, since>>

Head == [i \in 1..headN |-> head[i]]

Len_Position == pos

Len == IF full THEN tailSize ELSE pos

(* HeadTail.Reset, Ring.Reset                                              *)
headAfterReset_Kept == headN

headAfterReset == 0

Reset ==
    /\ rest = 0
    /\ headN' = headAfterReset /\ pos' = 0 /\ full' = FALSE
    /\ since' = written /\ from' = written /\ tail' = {}
    /\ UNCHANGED <<sizes, head, data, rest, written>>

Next == (\E n \in 1..MaxChunk : Write(n)) \/ CopyRound \/ Tail \/ Reset

Spec == Init /\ [][Next]_vars

(* Write's loop runs on.                                                   *)
FairSpec == Spec /\ WF_vars(CopyRound)

-----------------------------------------------------------------------------
Received == written - since

(* The last bytes written, oldest first: all of them after byte b, and at  *)
(* most as many as the ring holds.                                         *)
LastAfter(b) ==
    LET k == Smaller(tailSize, written - b) IN [i \in 1..k |-> written - k + i]

(* Every Tail, however many there are in a stream, returns the last bytes  *)
(* written since the ring was last emptied: whatever the chunks were,      *)
(* wherever they wrapped, and with nothing of the stream before the Reset. *)
TailIsRecent == [][Tail => tail' = {LastAfter(from)}]_vars

(* The comments promise more.  The tail "always holds the final tailSize   *)
(* bytes" (buffer.go:105-106), and after Bytes "the ring is in a clean     *)
(* linearised state; subsequent Write calls continue normally" (71-72): a  *)
(* Tail returns the last bytes of the stream, whether or not it was read   *)
(* before.                                                                 *)
TailIsLast == \A t \in tail : t = LastAfter(since)

(* Head returns the first headSize bytes of the stream, at any time.       *)
HeadIsFirst ==
    Head = [i \in 1..Smaller(headSize, Received) |-> since + i]

(* Len is the number of bytes the next Tail would return.                  *)
LenIsStored == rest = 0 => Len = Smaller(tailSize, written - from)

(* Ring.Write leaves its loop, however often a chunk wraps.                *)
WriteReturns == rest > 0 ~> rest = 0

=============================================================================

--------------------------- MODULE RequestOutcome ---------------------------
(***************************************************************************)
(* What sahl promises Envoy about one request, whatever the filter does in *)
(* between (synchronous handler, Go, HTTPCallout, HTTPStream): the request *)
(* is decided at most once, by forwarding it upstream or by answering it   *)
(* locally, only after the filter's handler has been entered, and never    *)
(* once Envoy has reported the stream complete.                            *)
(***************************************************************************)
EXTENDS Naturals

VARIABLES
    handled,     \* the filter's request handler has been entered
    forwards,    \* how often the request was released towards the upstream
    sent,        \* how many local responses were handed to Envoy
    closed       \* OnStreamComplete has run

vars == <<handled, forwards, sent, closed>>

Init ==
    /\ handled = FALSE
    /\ forwards = 0
    /\ sent = 0
    /\ closed = FALSE

Undecided == forwards = 0 /\ sent = 0

Handle ==
    /\ ~closed
    /\ handled' = TRUE
    /\ UNCHANGED <<forwards, sent, closed>>

Forward ==
    /\ handled /\ ~closed /\ Undecided
    /\ forwards' = 1
    /\ UNCHANGED <<handled, sent, closed>>

Answer ==
    /\ handled /\ ~closed /\ Undecided
    /\ sent' = 1
    /\ UNCHANGED <<handled, forwards, closed>>

Close ==
    /\ closed' = TRUE
    /\ UNCHANGED <<handled, forwards, sent>>

Next == Handle \/ Forward \/ Answer \/ Close

Spec == Init /\ [][Next]_vars

=============================================================================

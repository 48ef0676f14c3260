----------------------------- MODULE TaskBridge -----------------------------
(***************************************************************************)
(* What shared.Scheduler promises one filter: a function scheduled from any*)
(* thread runs at most once, on the filter's own thread and never after    *)
(* the filter's processing is complete, when it "may be ignored"           *)
(* (shared/base.go).                                                       *)
(***************************************************************************)
EXTENDS Naturals

CONSTANT Tasks

VARIABLES
    submitted,   \* functions handed to Schedule
    runs,        \* how often each has run
    closed       \* the filter's processing is complete

vars == <<submitted, runs, closed>>

Init ==
    /\ submitted = {}
    /\ runs = [t \in Tasks |-> 0]
    /\ closed = FALSE

Submit(t) ==
    /\ t \notin submitted
    /\ submitted' = submitted \union {t}
    /\ UNCHANGED <<runs, closed>>

Run(t) ==
    /\ t \in submitted /\ runs[t] = 0 /\ ~closed
    /\ runs' = [runs EXCEPT ![t] = 1]
    /\ UNCHANGED <<submitted, closed>>

Close ==
    /\ closed' = TRUE
    /\ UNCHANGED <<submitted, runs>>

Next == Close \/ \E t \in Tasks : Submit(t) \/ Run(t)

Spec == Init /\ [][Next]_vars

=============================================================================

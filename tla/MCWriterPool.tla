---------------------------- MODULE MCWriterPool ----------------------------
(***************************************************************************)
(* What the code of up to three requests does, for TLC.                    *)
(***************************************************************************)
EXTENDS WriterPoolProperties

CONSTANTS r1, r2, r3

Plan1(a) == [r \in {r1} |-> a]

Plan2(a, b) == [r \in {r1, r2} |-> IF r = r1 THEN a ELSE b]

Plan3(a, b, c) == [r \in {r1, r2, r3} |-> CASE r = r1 -> a [] r = r2 -> b [] r = r3 -> c]

(* A handler that goes on queueing after Go, and an observer of a response *)
(* Envoy makes while the goroutine works                                   *)
AppendPlans ==
    {Plan1({"handler", "Go", "goroutine"}),
     Plan1({"handler", "observer", "Go", "goroutine"})}

(* An object used twice, or taken twice; answers next to goroutines; calls *)
(* of Do; two or three pieces of code that queue mutations at a time.      *)
SharingPlans ==
    {Plan3({"Go"}, {"observer"}, {"Go"}),
     Plan2({"handler"}, {"Go", "goroutine"}),
     Plan2({"Go", "goroutine", "GoSend"}, {"handler", "Send"}),
     Plan2({"handler", "observer"}, {"Go", "Do"}),
     Plan1({"handler", "Send", "Go", "goroutine"}),
     Plan1({"observer", "Go", "Do"}),
     Plan1({"handler", "Go", "Do", "goroutine"})}
    \union AppendPlans

(* A goroutine that queues while an observer does and answers late, and a  *)
(* request that queues nothing after it                                    *)
OutlivingPlans == {Plan2({"observer", "Go", "goroutine", "GoSend"}, {})}

=============================================================================

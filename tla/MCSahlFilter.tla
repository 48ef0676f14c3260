---------------------------- MODULE MCSahlFilter ----------------------------
(***************************************************************************)
(* Profiles for TLC: one record per way of registering a sahl filter and   *)
(* per shape of request that tells the code paths apart.                   *)
(***************************************************************************)
EXTENDS SahlFilterProperties

Plain ==
    [bodyAware |-> FALSE, observer |-> FALSE, calls |-> {"header", "counter", "Send"},
     observes |-> {}, chunks |-> 0, trailers |-> FALSE, discipline |-> "full",
     bodyAfterStopAll |-> TRUE, scheduledReplies |-> TRUE]

Doing(calls) == [Plain EXCEPT !.calls = calls]

Observing(p) == [p EXCEPT !.observer = TRUE, !.observes = {"meta", "counter"}]

WithRequest(p, n, t) == [p EXCEPT !.chunks = n, !.trailers = t]

BodyAware(p) == [p EXCEPT !.bodyAware = TRUE]

(* Hosts that do as api.go and as do.go say                                *)
WithholdingBody(p) == [p EXCEPT !.bodyAfterStopAll = FALSE]

IgnoringReplies(p) == [p EXCEPT !.scheduledReplies = FALSE]

(* Requests whose body a body-aware filter never sees                      *)
StopAllProfiles == {WithholdingBody(WithRequest(BodyAware(Plain), 1, FALSE))}

HeadersOnlyProfiles == {BodyAware(Plain)}

(* Synchronous handlers, body-aware handlers, each with and without an     *)
(* observer, and one asynchronous operation of each kind; and the requests *)
(* that Envoy leaves waiting.                                              *)
SupportedProfiles ==
    StopAllProfiles \union HeadersOnlyProfiles \union
    {Doing(Kinds \union {"Send"}),
     WithRequest(Plain, 2, TRUE),
     Observing(WithRequest(Doing({"header", "route", "Send"}), 1, FALSE)),
     WithRequest(BodyAware(Doing({"header", "counter", "route", "Send"})), 2, FALSE),
     Observing(WithRequest(BodyAware(Doing({"header", "Send"})), 2, FALSE)),
     Doing({"header", "counter", "Send", "Go"}),
     IgnoringReplies(Doing({"header", "counter", "Send", "Go"})),
     Doing({"header", "counter", "Send", "HTTPCallout"}),
     Doing({"header", "meta", "Send", "HTTPStream"}),
     Doing({"header", "Send", "Go", "HTTPCallout", "HTTPStream"})}

(* Authors who start the same operation again and again, which Go and     *)
(* HTTPStream answer with a panic                                          *)
RepeatingProfiles ==
    {[Doing({op}) EXCEPT !.discipline = "none"] : op \in Async}

AllProfiles == SupportedProfiles \union RepeatingProfiles

(* Filters and requests outside Supported, and the kinds of request a      *)
(* body-aware filter never runs its handler for                            *)
ObserverProfiles == {Observing(Doing({"counter"}))}

TrailerProfiles == {WithRequest(BodyAware(Plain), 1, TRUE)}

BodyAwareProfiles == StopAllProfiles \union HeadersOnlyProfiles \union TrailerProfiles

GoProfiles == {IgnoringReplies(WithRequest(Doing({"Send", "Go"}), 1, FALSE))}

=============================================================================

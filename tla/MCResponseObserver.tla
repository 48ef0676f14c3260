------------------------ MODULE MCResponseObserver ------------------------
(***************************************************************************)
(* Responses and response handlers, for TLC.                               *)
(***************************************************************************)
EXTENDS ResponseObserver

Observed ==
    [headers |-> {"status", "contentType"}, reply |-> FALSE, early |-> FALSE,
     body |-> <<1, 0>>, ends |-> "data", mutable |-> FALSE, edit |-> "metadata"]

Editing(edit, body) ==
    [Observed EXCEPT !.mutable = TRUE, !.edit = edit, !.body = body]

(* One slice per callback; edits of responses that end in an empty         *)
(* callback, as HTTP/2 and chunked bodies do, in one with data, and in     *)
(* trailers; local replies before and after the request reached the filter.*)
LastChunkResponses == {Editing("set", <<1, 1>>)}

TrailerResponses == {[Editing("set", <<1>>) EXCEPT !.ends = "trailers"]}

PlainResponses ==
    {Observed,
     [Observed EXCEPT !.headers = {"status", "flags"}, !.body = <<1, 1, 1>>],
     [Observed EXCEPT !.body = << >>, !.ends = "headers"],
     [Observed EXCEPT !.body = <<1, 1>>, !.ends = "trailers"],
     [Observed EXCEPT !.headers = Fields, !.reply = TRUE, !.body = <<1>>],
     [Observed EXCEPT !.reply = TRUE, !.early = TRUE, !.body = <<1>>, !.edit = "none"],
     [Observed EXCEPT !.early = TRUE, !.edit = "none", !.headers = {}],
     [Observed EXCEPT !.edit = "append", !.body = <<1, 1>>],
     Editing("set", <<1, 1, 0>>), Editing("append", <<1, 1, 0>>),
     Editing("set", <<0>>), Editing("append", <<1, 1>>), Editing("none", <<1, 1>>),
     [Editing("none", <<1, 1>>) EXCEPT !.ends = "trailers"]}
    \union LastChunkResponses \union TrailerResponses

(* An observer that counts something at the end, and a response that a     *)
(* filter in front of it made, with a body of two slices                   *)
EarlyResponses == {[Observed EXCEPT !.early = TRUE, !.body = <<2>>]}

=============================================================================

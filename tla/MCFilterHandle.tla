--------------------------- MODULE MCFilterHandle ---------------------------
(***************************************************************************)
(* Kinds of handle and what their filters do, for TLC.                     *)
(***************************************************************************)
EXTENDS FilterHandleProperties

CONSTANTS s1, s2, s3

Does(kind, ops, streams) == [kind |-> kind, ops |-> ops, streams |-> streams]

(* Three streams where one must outlive another's address; two elsewhere.  *)
AllUses ==
    {Does("http", {"data"}, {s1, s2, s3}), Does("http", {"task"}, {s1, s2}),
     Does("http", {"callout"}, {s1, s2}), Does("http", {"stream"}, {s1, s2}),
     Does("http", {"reply", "watermark"}, {s1, s2}),
     Does("network", {"callout", "task"}, {s1}),
     Does("config", {"callout", "stream"}, {s1}), Does("config", {"task"}, {s1}),
     Does("networkConfig", {"task"}, {s1})}

(* The callouts of an HTTP filter, as sahl's HTTPCalloutE makes them       *)
CalloutUses == {Does("http", {"callout"}, {s1})}

=============================================================================

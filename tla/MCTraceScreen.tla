----------------------------- MODULE MCTraceScreen -----------------------------
(* The kinds of messages that tell the caps, the columns and the modes apart: a *)
(* narrow one, one with a wide level, and one with a wide name and too large.   *)
EXTENDS TraceScreen

MCKinds == {
    [level |-> 1, api |-> 1, size |-> 1, global |-> FALSE],
    [level |-> 2, api |-> 1, size |-> 2, global |-> TRUE],
    [level |-> 1, api |-> 2, size |-> 5, global |-> FALSE]}
=============================================================================

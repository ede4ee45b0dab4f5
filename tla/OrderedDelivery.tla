---------------------------- MODULE OrderedDelivery ----------------------------
(***************************************************************************)
(* What a connection promises of the trace messages its consumer receives: *)
(* each is shown on the screen at most once and handed to the webhook pool *)
(* at most once, and both see them in the order in which Oracle AQ         *)
(* delivers them.  Nothing promises that a message is shown at all.        *)
(* Messages are numbered by their publication.                             *)
(***************************************************************************)
EXTENDS Naturals, Sequences

VARIABLES
    published, \* the number of messages published so far
    shown,     \* the messages shown on the screen
    forwarded  \* the messages handed to the webhook pool

vars == <<published, shown, forwarded>>

Init ==
    /\ published = 0
    /\ shown = <<>>
    /\ forwarded = <<>>

Publish ==
    /\ published' = published + 1
    /\ UNCHANGED <<shown, forwarded>>

Later(m, seen) == \A i \in DOMAIN seen : seen[i] < m

Show(m) ==
    /\ Later(m, shown)
    /\ shown' = Append(shown, m)
    /\ UNCHANGED <<published, forwarded>>

Forward(m) ==
    /\ Later(m, forwarded)
    /\ forwarded' = Append(forwarded, m)
    /\ UNCHANGED <<published, shown>>

Next == Publish \/ \E m \in 1..published : Show(m) \/ Forward(m)

Spec == Init /\ [][Next]_vars
=============================================================================

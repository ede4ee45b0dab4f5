---------------------------- MODULE WebhookPromise ----------------------------
(***************************************************************************)
(* What the webhook dispatcher of internal/service/tracer promises to its  *)
(* callers, with no queue, no lock and no worker in it: a job is either    *)
(* accepted or refused, once; an accepted job is posted at most once;      *)
(* after the gate has closed no job is accepted; and the shutdown call     *)
(* returns only when every accepted job has been posted.                   *)
(***************************************************************************)
CONSTANT Jobs

VARIABLES
    open,      \* does the dispatcher still accept jobs?
    accepted,  \* the jobs taken into the pool
    refused,   \* the jobs dropped
    posted,    \* the accepted jobs whose delivery attempt has ended
    flushed    \* has the shutdown call returned?

vars == <<open, accepted, refused, posted, flushed>>

Init ==
    /\ open = TRUE
    /\ accepted = {}
    /\ refused = {}
    /\ posted = {}
    /\ flushed = FALSE

Fresh(j) == j \notin accepted \cup refused

Accept(j) ==
    /\ open
    /\ Fresh(j)
    /\ accepted' = accepted \cup {j}
    /\ UNCHANGED <<open, refused, posted, flushed>>

Refuse(j) ==
    /\ Fresh(j)
    /\ refused' = refused \cup {j}
    /\ UNCHANGED <<open, accepted, posted, flushed>>

Post(j) ==
    /\ j \in accepted \ posted
    /\ posted' = posted \cup {j}
    /\ UNCHANGED <<open, accepted, refused, flushed>>

Close ==
    /\ open
    /\ open' = FALSE
    /\ UNCHANGED <<accepted, refused, posted, flushed>>

Flush ==
    /\ ~open
    /\ ~flushed
    /\ accepted = posted
    /\ flushed' = TRUE
    /\ UNCHANGED <<open, accepted, refused, posted>>

Next ==
    \/ \E j \in Jobs : Accept(j) \/ Refuse(j) \/ Post(j)
    \/ Close
    \/ Flush

Spec == Init /\ [][Next]_vars
=============================================================================

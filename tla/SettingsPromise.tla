---------------------------- MODULE SettingsPromise ----------------------------
(***************************************************************************)
(* What the settings store promises its user: a connection is stored, moved *)
(* or removed only when the user asks for it, and the default is one of the *)
(* stored connections, changed only by the user's choice.                  *)
(***************************************************************************)
CONSTANTS
    Keys,  \* storage keys, one for each database ID
    Conns, \* what a connection says: where to connect, and as whom
    None

VARIABLES
    entries, \* the connection stored under a key, or None
    default  \* the key of the connection the program starts with, or None

vars == <<entries, default>>

Init ==
    /\ entries \in [Keys -> Conns \cup {None}]
    /\ default \in {k \in Keys : entries[k] # None} \cup {None}

\* The first connection, entered when there is none to start with
First(k, c) ==
    /\ default = None
    /\ entries' = [entries EXCEPT ![k] = c]
    /\ default' = k

Add(k, c) ==
    /\ k # default
    /\ entries' = [entries EXCEPT ![k] = c]
    /\ UNCHANGED default

\* An edit may change the database ID, and with it the key.
Move(old, k, c) ==
    /\ entries[old] # None
    /\ default \notin {old, k}
    /\ entries' = [entries EXCEPT ![old] = None, ![k] = c]
    /\ UNCHANGED default

Remove(k) ==
    /\ k # default
    /\ entries' = [entries EXCEPT ![k] = None]
    /\ UNCHANGED default

Choose(k) ==
    /\ entries[k] # None
    /\ default' = k
    /\ UNCHANGED entries

Next ==
    \E k \in Keys :
        \/ \E c \in Conns : First(k, c) \/ Add(k, c)
        \/ \E c \in Conns, old \in Keys : Move(old, k, c)
        \/ Remove(k)
        \/ Choose(k)

Spec == Init /\ [][Next]_vars
=============================================================================

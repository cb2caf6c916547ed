---------------------------- MODULE BroadcastFifo ----------------------------
(***************************************************************************)
(* What a stream buffer promises the blocks around it: every attached      *)
(* reader has its own queue, each item that is sent goes to all of them,   *)
(* and a send that would overflow any queue does not happen.               *)
(***************************************************************************)
EXTENDS Integers, Sequences

CONSTANTS
    Readers,   \* the readers that may attach
    Preload,   \* how many zeros a reader's queue starts with
    Capacity   \* items a queue can hold

VARIABLES
    attached,  \* the readers that have a queue
    queue,     \* the items each reader has yet to receive
    next       \* the item to be sent next

vars == <<attached, queue, next>>

Init ==
    /\ attached = {}
    /\ queue = [r \in Readers |-> <<>>]
    /\ next = 0

Attach(r) ==
    /\ r \notin attached
    /\ next = 0
    /\ attached' = attached \cup {r}
    /\ queue' = [queue EXCEPT ![r] = [k \in 1 .. Preload[r] |-> k - 1 - Preload[r]]]
    /\ next' = next

\* The items next, ..., next + n - 1 behind those already queued.
Extended(q, n) ==
    [k \in 1 .. Len(q) + n |-> IF k <= Len(q) THEN q[k] ELSE next + k - Len(q) - 1]

Send(n) ==
    /\ \A r \in attached : Len(queue[r]) + n <= Capacity
    /\ queue' = [r \in Readers |-> IF r \in attached THEN Extended(queue[r], n)
                                   ELSE queue[r]]
    /\ next' = next + n
    /\ attached' = attached

Receive(r, n) ==
    /\ r \in attached
    /\ n <= Len(queue[r])
    /\ queue' = [queue EXCEPT ![r] = [k \in 1 .. Len(@) - n |-> @[k + n]]]
    /\ UNCHANGED <<attached, next>>

Next ==
    \/ \E r \in Readers : Attach(r)
    \/ \E n \in 1 .. Capacity : Send(n)
    \/ \E r \in Readers, n \in 1 .. Capacity : Receive(r, n)

Spec == Init /\ [][Next]_vars
=============================================================================

----------------------------- MODULE BoundedFifo -----------------------------
(* What a queue between two threads promises: what is put into it comes out  *)
(* once and in the order it was put, and it never holds more than Capacity.  *)
(* The n-th thing ever put is n.                                             *)
EXTENDS Integers, Sequences

CONSTANT Capacity

VARIABLES
    queue,   \* what has been put and not yet got
    next     \* what will be put next

vars == <<queue, next>>

Init == queue = <<>> /\ next = 0

Put(n) ==
    /\ Len(queue) + n <= Capacity
    /\ queue' = [k \in 1 .. Len(queue) + n |-> IF k <= Len(queue) THEN queue[k]
                                               ELSE next + k - Len(queue) - 1]
    /\ next' = next + n

Get(n) ==
    /\ n <= Len(queue)
    /\ queue' = [k \in 1 .. Len(queue) - n |-> queue[k + n]]
    /\ UNCHANGED next

Next == \E n \in 1 .. Capacity : Put(n) \/ Get(n)

Spec == Init /\ [][Next]_vars
=============================================================================

------------------------------ MODULE BoundedFifo ------------------------------
(***************************************************************************)
(* What SpscQueue promises (concurrency/spsc_queue.hpp): a first-in        *)
(* first-out queue of bounded length whose pushes and pops are single      *)
(* steps.                                                                  *)
(***************************************************************************)
EXTENDS Naturals, Sequences

CONSTANTS Capacity, Values

VARIABLES
    queue,      \* the values pushed and not popped, oldest first
    received    \* the values popped, in the order they were

vars == <<queue, received>>

Init == queue = <<>> /\ received = <<>>

Push(v) ==
    /\ Len(queue) < Capacity
    /\ queue' = Append(queue, v)
    /\ UNCHANGED received

Pop ==
    /\ queue # <<>>
    /\ received' = Append(received, Head(queue))
    /\ queue' = Tail(queue)

Next == Pop \/ \E v \in Values : Push(v)

Spec == Init /\ [][Next]_vars

=============================================================================

------------------------- MODULE SpscQueueRefinement -------------------------
(***************************************************************************)
(* The ring implements the bounded queue: storing the tail (Q3) is the     *)
(* push, storing the head (Q2) is the pop.                                 *)
(***************************************************************************)
EXTENDS SpscQueue

Queue == INSTANCE BoundedFifo WITH
    Capacity <- Capacity, Values <- Values,
    queue <- SubSeq(pushed, Len(popped) + 1, Len(pushed)),
    received <- popped

(* SpscQueue is a BoundedFifo of its capacity: no value is lost,           *)
(* duplicated, reordered or torn, and never more than Capacity wait.       *)
ImplementsFifo == Queue!Spec

=============================================================================

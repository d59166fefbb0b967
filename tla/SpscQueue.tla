------------------------------- MODULE SpscQueue -------------------------------
(***************************************************************************)
(* SpscQueue<T> (concurrency/spsc_queue.hpp): the bounded ring between one *)
(* producer and one consumer.                                              *)
(*                                                                         *)
(* head and tail each have a single writer.  The other side's acquire load *)
(* may return any value from the last one it saw to the current one, and   *)
(* what it returns is all it knows of the other side's progress.  The      *)
(* plain accesses to a cell take two steps: a cell that is being written   *)
(* holds Torn, and a copy during which the cell changes is Torn.           *)
(*                                                                         *)
(* A third thread may read Size() for a depth gauge.  It writes nothing.   *)
(*                                                                         *)
(* Producer and consumer may live in different processes (RegionStorage):  *)
(* either may be killed at any point and attach again, finding the control *)
(* block as it was left.                                                   *)
(***************************************************************************)
EXTENDS Naturals, Sequences

CONSTANTS
    Depth,      \* the depth declared to the constructor
    Values,     \* the values pushed
    Torn,       \* what a cell holds in mid-write
    MaxPushes,  \* bound: pushes accepted
    MaxDeaths   \* bound: times either side is killed

ASSUME QueueAssumption ==
    /\ Depth \in Nat /\ MaxPushes \in Nat /\ MaxDeaths \in Nat
    /\ Torn \notin Values

VARIABLES
    head, tail,     \* ctrl_->head, ctrl_->tail
    cells,          \* cells_
    ppc, pVal,      \* TryPush: where the producer is, and its argument
    headSeen,       \* the last value of head the producer loaded
    cpc, out,       \* TryPop: where the consumer is, and its copy
    tailSeen,       \* the last value of tail the consumer loaded
    gpc,            \* Size() in a third thread: which load is next
    gHead, gTail,   \* the last values of head and tail it loaded
    depth,          \* the last size it returned there
    pushed, popped, \* ghosts: all values published and all values taken
    room,           \* ghost: Full() said no and nothing was pushed since
    pending,        \* ghost: Size() was not 0 and nothing was popped since
    refusedPush,    \* ghost: the last TryPush returned false
    refusedPop,     \* ghost: the last TryPop returned false
    deaths          \* ghost: deaths so far

producer == <<tail, ppc, pVal, headSeen, pushed, room, refusedPush>>
consumer == <<head, cpc, out, tailSeen, popped, pending, refusedPop>>
gauge == <<gpc, gHead, gTail, depth>>
sides == <<producer, consumer, cells, deaths>>
vars == <<sides, gauge>>

(* A declared depth of 0 is a queue of 1. *)
Capacity == IF Depth = 0 THEN 1 ELSE Depth
CellOf(p) == p % Capacity

Init ==
    /\ head = 0 /\ tail = 0
    /\ cells = [n \in 0 .. Capacity - 1 |-> Torn]
    /\ ppc = "idle" /\ pVal = Torn /\ headSeen = 0
    /\ cpc = "idle" /\ out = Torn /\ tailSeen = 0
    /\ gpc = "head" /\ gHead = 0 /\ gTail = 0 /\ depth = 0
    /\ pushed = <<>> /\ popped = <<>>
    /\ room = FALSE /\ pending = FALSE
    /\ refusedPush = FALSE /\ refusedPop = FALSE
    /\ deaths = 0

-----------------------------------------------------------------------------
(* The producer. *)

(* Fault: one value too many. *)
IsFullLate(h) == tail - h > Capacity

IsFull(h) == tail - h >= Capacity

(* (Q1) and the test for room *)
TryPush(v) ==
    /\ ppc = "idle"
    /\ tail < MaxPushes
    /\ \E h \in headSeen .. head :
         /\ headSeen' = h
         /\ refusedPush' = IsFull(h)
         /\ IF IsFull(h) THEN UNCHANGED <<ppc, pVal, room>>
                         ELSE ppc' = "write" /\ pVal' = v /\ room' = FALSE
    /\ UNCHANGED <<tail, pushed, cells, consumer, deaths>>

BeginWrite ==
    /\ ppc = "write"
    /\ cells' = [cells EXCEPT ![CellOf(tail)] = Torn]
    /\ ppc' = "writing"
    /\ UNCHANGED <<tail, pVal, headSeen, pushed, room, refusedPush, consumer, deaths>>

EndWrite ==
    /\ ppc = "writing"
    /\ cells' = [cells EXCEPT ![CellOf(tail)] = pVal]
    /\ ppc' = "publish"
    /\ UNCHANGED <<tail, pVal, headSeen, pushed, room, refusedPush, consumer, deaths>>

(* (Q3) *)
PublishTail ==
    /\ ppc = "publish"
    /\ tail' = tail + 1
    /\ pushed' = Append(pushed, pVal)
    /\ ppc' = "idle"
    /\ UNCHANGED <<pVal, headSeen, room, refusedPush, cells, consumer, deaths>>

(* Fault: Full() lets one value too many through. *)
FullLate ==
    /\ ppc = "idle"
    /\ \E h \in headSeen .. head :
         /\ headSeen' = h
         /\ room' = ~IsFullLate(h)
    /\ refusedPush' = FALSE
    /\ UNCHANGED <<tail, ppc, pVal, pushed, cells, consumer, deaths>>

Full ==
    /\ ppc = "idle"
    /\ \E h \in headSeen .. head :
         /\ headSeen' = h
         /\ room' = ~IsFull(h)
    /\ refusedPush' = FALSE
    /\ UNCHANGED <<tail, ppc, pVal, pushed, cells, consumer, deaths>>

-----------------------------------------------------------------------------
(* The consumer. *)

(* Fault: no test for a value. *)
TryPopUnchecked ==
    /\ cpc = "idle"
    /\ \E t \in tailSeen .. tail :
         /\ tailSeen' = t
         /\ refusedPop' = FALSE
    /\ cpc' = "read" /\ pending' = FALSE
    /\ UNCHANGED <<head, out, popped, cells, producer, deaths>>

(* (Q4) and the test for a value *)
TryPop ==
    /\ cpc = "idle"
    /\ \E t \in tailSeen .. tail :
         /\ tailSeen' = t
         /\ refusedPop' = (head = t)
         /\ IF head = t THEN UNCHANGED <<cpc, pending>>
                        ELSE cpc' = "read" /\ pending' = FALSE
    /\ UNCHANGED <<head, out, popped, cells, producer, deaths>>

BeginRead ==
    /\ cpc = "read"
    /\ out' = cells[CellOf(head)]
    /\ cpc' = "reading"
    /\ UNCHANGED <<head, tailSeen, popped, pending, refusedPop, cells, producer, deaths>>

EndRead ==
    /\ cpc = "reading"
    /\ out' = IF cells[CellOf(head)] = out THEN out ELSE Torn
    /\ cpc' = "release"
    /\ UNCHANGED <<head, tailSeen, popped, pending, refusedPop, cells, producer, deaths>>

(* (Q2) *)
ReleaseHead ==
    /\ cpc = "release"
    /\ head' = head + 1
    /\ popped' = Append(popped, out)
    /\ cpc' = "idle"
    /\ UNCHANGED <<out, tailSeen, pending, refusedPop, cells, producer, deaths>>

(* Fault: the indices are taken to be in order. *)
SizeOfUnguarded(h, t) == t - h

(* What Size() makes of the indices it loaded *)
SizeOf(h, t) == IF t >= h THEN t - h ELSE 0

(* Size() in the consumer's thread, the predicate of a parked worker: head *)
(* is the consumer's own, and only the load of tail tells it something.    *)
Size ==
    /\ cpc = "idle"
    /\ \E t \in tailSeen .. tail :
         /\ tailSeen' = t
         /\ pending' = (SizeOf(head, t) # 0)
    /\ refusedPop' = FALSE
    /\ UNCHANGED <<head, cpc, out, popped, cells, producer, deaths>>

-----------------------------------------------------------------------------
(* Size() in any other thread: two relaxed loads, between which both sides *)
(* go on, and of which either may return an old value.                     *)

LoadHead ==
    /\ gpc = "head"
    /\ gHead' \in gHead .. head
    /\ gpc' = "tail"
    /\ UNCHANGED <<gTail, depth>>

LoadTail ==
    /\ gpc = "tail"
    /\ gTail' \in gTail .. tail
    /\ depth' = SizeOf(gHead, gTail')
    /\ gpc' = "head"
    /\ UNCHANGED gHead

-----------------------------------------------------------------------------
(* A side is killed and a new process attaches to the region: Initialize() *)
(* is false, so indices and cells stay as they were left.                  *)

(* Fault: the attaching side initializes the control block. *)
AttachProducerAnew ==
    /\ deaths < MaxDeaths
    /\ deaths' = deaths + 1
    /\ tail' = 0 /\ headSeen' = 0
    /\ ppc' = "idle" /\ room' = FALSE /\ refusedPush' = FALSE
    /\ UNCHANGED <<pVal, pushed, consumer, cells>>

AttachProducer ==
    /\ deaths < MaxDeaths
    /\ deaths' = deaths + 1
    /\ ppc' = "idle" /\ room' = FALSE /\ refusedPush' = FALSE
    /\ UNCHANGED <<tail, pVal, headSeen, pushed, consumer, cells>>

AttachConsumer ==
    /\ deaths < MaxDeaths
    /\ deaths' = deaths + 1
    /\ cpc' = "idle" /\ pending' = FALSE /\ refusedPop' = FALSE
    /\ UNCHANGED <<head, out, tailSeen, popped, producer, cells>>

Produce ==
    \/ \E v \in Values : TryPush(v)
    \/ BeginWrite \/ EndWrite \/ PublishTail \/ Full
Consume == TryPop \/ BeginRead \/ EndRead \/ ReleaseHead \/ Size

Sides == Produce \/ Consume \/ AttachProducer \/ AttachConsumer
Observe == LoadHead \/ LoadTail

Next ==
    \/ Sides /\ UNCHANGED gauge
    \/ Observe /\ UNCHANGED sides

Spec == Init /\ [][Next]_vars

-----------------------------------------------------------------------------
(* Properties. *)

(* The types of the control block, the cells and both sides' locals.       *)
TypeOK ==
    /\ head \in Nat /\ tail \in Nat /\ headSeen \in Nat /\ tailSeen \in Nat
    /\ cells \in [0 .. Capacity - 1 -> Values \cup {Torn}]
    /\ ppc \in {"idle", "write", "writing", "publish"}
    /\ cpc \in {"idle", "read", "reading", "release"}
    /\ pVal \in Values \cup {Torn} /\ out \in Values \cup {Torn}
    /\ pushed \in Seq(Values) /\ popped \in Seq(Values \cup {Torn})
    /\ room \in BOOLEAN /\ pending \in BOOLEAN
    /\ refusedPush \in BOOLEAN /\ refusedPop \in BOOLEAN
    /\ deaths \in Nat

(* The consumer takes exactly the values that were pushed, in order, each  *)
(* once and whole.                                                         *)
Fifo ==
    /\ Len(popped) <= Len(pushed)
    /\ \A i \in 1 .. Len(popped) : popped[i] = pushed[i]

(* The plain copy-in and the plain copy-out are never under way in the     *)
(* same cell: (Q1)/(Q2) and (Q3)/(Q4) keep them apart.                     *)
NoDataRace ==
    ~(ppc = "writing" /\ cpc = "reading" /\ CellOf(tail) = CellOf(head))

(* Full() is exact in the producer's thread: when it says there is room,   *)
(* the next TryPush is accepted.  So is a Size() that is not zero in the   *)
(* consumer's: the next TryPop succeeds.  In any other thread Size() is    *)
(* advisory: it may be above Capacity when its head is old, but it does    *)
(* not wrap when its tail is the older one, nor exceed what was pushed.    *)
AnswersHold ==
    /\ ~(room /\ refusedPush)
    /\ ~(pending /\ refusedPop)
    /\ depth \in 0 .. Len(pushed)

-----------------------------------------------------------------------------
(* Why: the inductive invariant. *)

(* Each side knows no more of the other's index than what it is. *)
IndexInv ==
    /\ headSeen <= head /\ head <= tailSeen /\ tailSeen <= tail
    /\ tail <= head + Capacity
    /\ Len(pushed) = tail /\ Len(popped) = head

(* The cells from head to tail hold the values not yet taken. *)
CellInv == \A p \in head .. tail - 1 : cells[CellOf(p)] = pushed[p + 1]

ProducerInv ==
    /\ ppc # "idle" => tail < headSeen + Capacity /\ pVal \in Values
    /\ ppc = "publish" => cells[CellOf(tail)] = pVal

ConsumerInv ==
    /\ cpc # "idle" => head < tailSeen
    /\ cpc \in {"reading", "release"} => out = pushed[head + 1]

(* What the ghosts remember of Full() and Size(). *)
AnswerInv ==
    /\ room => tail < headSeen + Capacity /\ ~refusedPush
    /\ pending => head < tailSeen /\ ~refusedPop
    /\ ppc # "idle" => ~room
    /\ cpc # "idle" => ~pending

SidesInv ==
    TypeOK /\ IndexInv /\ CellInv /\ ProducerInv /\ ConsumerInv /\ AnswerInv /\ Fifo

(* The observer knows no more of the indices than what they are. *)
GaugeInv ==
    /\ gpc \in {"head", "tail"}
    /\ gHead \in Nat /\ gHead <= head
    /\ gTail \in Nat /\ gTail <= tail
    /\ depth \in Nat /\ depth <= tail

IInv == SidesInv /\ GaugeInv

=============================================================================

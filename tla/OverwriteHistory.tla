--------------------------- MODULE OverwriteHistory ---------------------------
(***************************************************************************)
(* What MessageSlot and MessageBuffer promise their users                  *)
(* (concurrency/message_slot.hpp, concurrency/message_buffer.hpp): a       *)
(* history to which Store appends in one step, and three verbs whose whole *)
(* answer is taken from that history at one moment between their call and  *)
(* their return.  There are no cells, sequences, indexes or words here,    *)
(* and a writer that dies takes nothing out of the history; only a call    *)
(* that was running while its successor repaired the ring is promised      *)
(* nothing but an answer.                                                  *)
(***************************************************************************)
EXTENDS Naturals, Sequences

CONSTANTS
    Depth,      \* how many of the last values can be asked for
    Readers,
    Values,     \* the values stored
    Sizes       \* how many a Snapshot may ask for

VARIABLES
    history,    \* the values stored, oldest first
    call        \* each reader's current or last call

vars == <<history, call>>

Verbs == {"Load", "LoadBounded", "Snapshot"}

NoCall == [busy |-> FALSE, op |-> "Load", k |-> 0, floor |-> 0,
           res |-> "none", out |-> <<>>, void |-> FALSE]

Init ==
    /\ history = <<>>
    /\ call = [r \in Readers |-> NoCall]

Store(v) ==
    /\ history' = Append(history, v)
    /\ UNCHANGED call

(* A new writer repairs what a dead one left: the running calls are void. *)
Retract ==
    /\ call' = [r \in Readers |-> [call[r] EXCEPT !.void = @ \/ call[r].busy]]
    /\ UNCHANGED history

(* The call remembers how much had been stored when it began. *)
Invoke(r, op, k) ==
    /\ ~call[r].busy
    /\ call' = [call EXCEPT ![r] =
                   [busy |-> TRUE, op |-> op, k |-> k, floor |-> Len(history),
                    res |-> "none", out |-> <<>>, void |-> FALSE]]
    /\ UNCHANGED history

Answer(r, res, out) ==
    /\ call[r].busy
    /\ call' = [call EXCEPT ![r].busy = FALSE, ![r].res = res, ![r].out = out]
    /\ UNCHANGED history

(* The n values that end at the c-th, newest first. *)
Newest(c, n) == [j \in 1 .. n |-> [pos |-> c - j, val |-> history[c - j + 1]]]

(* "Nothing was ever published": only if nothing was when the call began. *)
AnswerEmpty(r) ==
    /\ call[r].op # "Snapshot"
    /\ call[r].floor = 0
    /\ Answer(r, "kEmpty", <<>>)

(* The newest value of some moment of the call, so never one older than    *)
(* the newest when it began.                                               *)
AnswerValue(r) ==
    /\ call[r].op # "Snapshot"
    /\ \E c \in call[r].floor .. Len(history) :
         c > 0 /\ Answer(r, "kValue", Newest(c, 1))

AnswerStalled(r) ==
    /\ call[r].op = "LoadBounded"
    /\ Answer(r, "kStalled", <<>>)

(* A newest-first run that ends at the newest value of some moment of the  *)
(* call; a racing writer may shorten it.                                   *)
AnswerSnapshot(r) ==
    /\ call[r].op = "Snapshot"
    /\ \E c \in call[r].floor .. Len(history) :
       \E n \in 0 .. Depth :
         n <= c /\ n <= call[r].k /\ Answer(r, "count", Newest(c, n))

(* A void call returns whatever it has. *)
AnswerVoid(r) ==
    /\ call[r].void
    /\ Answer(r, call'[r].res, call'[r].out)

Return(r) ==
    \/ AnswerEmpty(r) \/ AnswerValue(r) \/ AnswerStalled(r)
    \/ AnswerSnapshot(r) \/ AnswerVoid(r)

Next ==
    \/ \E v \in Values : Store(v)
    \/ Retract
    \/ \E r \in Readers :
         \/ \E op \in Verbs, k \in Sizes : Invoke(r, op, k)
         \/ Return(r)

Spec == Init /\ [][Next]_vars

=============================================================================

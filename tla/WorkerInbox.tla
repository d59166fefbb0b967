----------------------------- MODULE WorkerInbox -----------------------------
(***************************************************************************)
(* The bounded worker inbox (examples/concurrency_worker_inbox_example):   *)
(* one producer pushes commands into an SpscQueue and notifies a worker    *)
(* that drains the queue, looks at the shutdown flag and parks.  The queue *)
(* is the BoundedFifo that SpscQueue implements; the waiter is any of the  *)
(* three that concurrency/event_count.hpp has, chosen at wiring time:      *)
(*   "futex"    EventCount on Linux                                        *)
(*   "sleep"    EventCount elsewhere: Wake does nothing, WaitOn sleeps     *)
(*   "condvar"  CondvarEventCount                                          *)
(* The worker's predicate reads the queue and the flag in two steps.  That *)
(* the epoch is a 32-bit word is EventCount's matter and left out here.    *)
(***************************************************************************)
EXTENDS Naturals, Sequences

CONSTANTS
    Policies,   \* the waiters to choose from
    Capacity,   \* of the inbox
    Commands    \* how many commands the producer has

ASSUME InboxAssumption ==
    /\ Policies \subseteq {"futex", "sleep", "condvar"}
    /\ Capacity \in Nat \ {0}
    /\ Commands \in Nat

VARIABLES
    policy,     \* the waiter that was wired
    inbox,      \* the commands pushed and not popped
    handled,    \* the commands the worker has popped
    shutdown,   \* the flag
    next,       \* producer: the command to push
    ppc,        \* producer: its next step
    wpc,        \* worker: its next step, "parked" or "stopped"
    epoch,      \* *word_
    gen,        \* worker: the epoch it loaded
    mutex,      \* CondvarEventCount::mutex_: held by the worker?
    expired,    \* the deadline of the worker's wait has passed
    last        \* this look at the predicate is the last of its wait

queue == <<inbox, handled>>
producer == <<next, ppc>>
waiter == <<gen, expired, last>>
vars == <<policy, queue, shutdown, producer, wpc, epoch, mutex, waiter>>

Inbox == INSTANCE BoundedFifo WITH
    Values <- 1 .. Commands, queue <- inbox, received <- handled

Init ==
    /\ policy \in Policies
    /\ Inbox!Init
    /\ shutdown = FALSE
    /\ next = 1 /\ ppc = "push"
    /\ wpc = "drain"
    /\ epoch = 0 /\ gen = 0 /\ mutex = FALSE
    /\ expired = FALSE /\ last = FALSE

-----------------------------------------------------------------------------
(* The producer's loop: a full inbox rejects the command. *)

Rejected ==
    /\ ppc = "push" /\ next <= Commands
    /\ Len(inbox) = Capacity
    /\ next' = next + 1
    /\ UNCHANGED <<policy, queue, shutdown, ppc, wpc, epoch, mutex, waiter>>

(* Fault: nobody is told of the push. *)
PushedSilently ==
    /\ ppc = "push" /\ next <= Commands
    /\ Inbox!Push(next)
    /\ next' = next + 1
    /\ UNCHANGED <<policy, shutdown, ppc, wpc, epoch, mutex, waiter>>

Pushed ==
    /\ ppc = "push" /\ next <= Commands
    /\ Inbox!Push(next)
    /\ next' = next + 1
    /\ ppc' = "notify"
    /\ UNCHANGED <<policy, shutdown, wpc, epoch, mutex, waiter>>

(* Fault: the flag is set and nobody is told. *)
ShutDownSilently ==
    /\ ppc = "push" /\ next > Commands
    /\ shutdown' = TRUE
    /\ ppc' = "join"
    /\ UNCHANGED <<policy, queue, next, wpc, epoch, mutex, waiter>>

ShutDown ==
    /\ ppc = "push" /\ next > Commands
    /\ shutdown' = TRUE
    /\ ppc' = "notify"
    /\ UNCHANGED <<policy, queue, next, wpc, epoch, mutex, waiter>>

(* EventCount::NotifyAll *)
Bump ==
    /\ ppc = "notify" /\ policy # "condvar"
    /\ epoch' = epoch + 1
    /\ ppc' = "wake"
    /\ UNCHANGED <<policy, queue, shutdown, next, wpc, mutex, waiter>>

(* Fault: no critical section before the notify. *)
NoSection ==
    /\ ppc = "notify" /\ policy = "condvar"
    /\ ppc' = "wake"
    /\ UNCHANGED <<policy, queue, shutdown, next, wpc, epoch, mutex, waiter>>

(* CondvarEventCount::NotifyAll: the empty critical section, taken and     *)
(* left in one step.                                                       *)
EmptySection ==
    /\ ppc = "notify" /\ policy = "condvar"
    /\ ~mutex
    /\ ppc' = "wake"
    /\ UNCHANGED <<policy, queue, shutdown, next, wpc, epoch, mutex, waiter>>

(* Where a worker that leaves its park goes on: it takes the mutex back,   *)
(* or loads the epoch again.                                               *)
Woken == IF policy = "condvar" THEN "lock" ELSE "load"

(* FUTEX_WAKE or notify_all; nothing wakes a sleeping thread. *)
Wake ==
    /\ ppc = "wake"
    /\ wpc' = IF wpc = "parked" /\ policy # "sleep" THEN Woken ELSE wpc
    /\ ppc' = IF shutdown THEN "join" ELSE "push"
    /\ UNCHANGED <<policy, queue, shutdown, next, epoch, mutex, waiter>>

Join ==
    /\ ppc = "join" /\ wpc = "stopped"
    /\ ppc' = "done"
    /\ UNCHANGED <<policy, queue, shutdown, next, wpc, epoch, mutex, waiter>>

NotifyAll == Bump \/ EmptySection \/ Wake

-----------------------------------------------------------------------------
(* The worker: drain, look at the flag, park. *)

WorkerStep == UNCHANGED <<policy, shutdown, producer, epoch>>

TryPop ==
    /\ wpc = "drain"
    /\ IF inbox = <<>> THEN wpc' = "flag" /\ UNCHANGED queue
                       ELSE Inbox!Pop /\ UNCHANGED wpc
    /\ WorkerStep
    /\ UNCHANGED <<mutex, waiter>>

(* The loop ends, or WaitFor sets a new deadline. *)
TestShutdown ==
    /\ wpc = "flag"
    /\ wpc' = IF shutdown THEN "stopped" ELSE Woken
    /\ expired' = FALSE
    /\ WorkerStep
    /\ UNCHANGED <<queue, mutex, gen, last>>

LoadEpoch ==
    /\ wpc = "load"
    /\ gen' = epoch
    /\ wpc' = "size"
    /\ WorkerStep
    /\ UNCHANGED <<queue, mutex, expired, last>>

Lock ==
    /\ wpc = "lock" /\ ~mutex
    /\ mutex' = TRUE
    /\ wpc' = "size"
    /\ WorkerStep
    /\ UNCHANGED <<queue, waiter>>

Return ==
    /\ wpc' = "drain"
    /\ mutex' = FALSE /\ last' = FALSE

(* The predicate: inbox.Size() != 0 ... *)
CheckSize ==
    /\ wpc = "size"
    /\ IF inbox # <<>> THEN Return
                       ELSE wpc' = "shut" /\ UNCHANGED <<mutex, last>>
    /\ WorkerStep
    /\ UNCHANGED <<queue, gen, expired>>

(* ... || shutdown *)
CheckShutdown ==
    /\ wpc = "shut"
    /\ IF shutdown \/ last
         THEN Return
         ELSE /\ wpc' = IF policy = "condvar" THEN "wait" ELSE "deadline"
              /\ UNCHANGED <<mutex, last>>
    /\ WorkerStep
    /\ UNCHANGED <<queue, gen, expired>>

(* EventCount::WaitUntil: past the deadline the predicate is looked at     *)
(* once more.                                                              *)
CheckDeadline ==
    /\ wpc = "deadline"
    /\ wpc' = IF expired THEN "size" ELSE "wait"
    /\ last' = expired
    /\ WorkerStep
    /\ UNCHANGED <<queue, mutex, gen, expired>>

(* FUTEX_WAIT returns at once if the epoch has moved; sleep_for does not   *)
(* look; the condition variable gives the mutex up and parks in one step.  *)
Park ==
    /\ wpc = "wait"
    /\ wpc' = IF policy = "futex" /\ gen # epoch THEN "load" ELSE "parked"
    /\ mutex' = FALSE
    /\ WorkerStep
    /\ UNCHANGED <<queue, waiter>>

(* The park ends by itself: on timeout, or early, or because the sleep is  *)
(* over.  A condition variable that timed out takes its last look.         *)
TimeOut ==
    /\ wpc = "parked" /\ policy # "sleep" /\ expired
    /\ wpc' = Woken
    /\ last' = (policy = "condvar")
    /\ WorkerStep
    /\ UNCHANGED <<queue, mutex, gen, expired>>

Interrupted ==
    /\ wpc = "parked" /\ policy # "sleep" /\ ~expired
    /\ wpc' = Woken
    /\ WorkerStep
    /\ UNCHANGED <<queue, mutex, waiter>>

SleepEnds ==
    /\ wpc = "parked" /\ policy = "sleep"
    /\ wpc' = Woken
    /\ WorkerStep
    /\ UNCHANGED <<queue, mutex, waiter>>

(* The monotonic clock reaches the deadline. *)
Expire ==
    /\ wpc \notin {"drain", "flag", "stopped"} /\ ~expired
    /\ expired' = TRUE
    /\ WorkerStep
    /\ UNCHANGED <<queue, wpc, mutex, gen, last>>

Work ==
    \/ TryPop \/ TestShutdown \/ LoadEpoch \/ Lock \/ CheckSize
    \/ CheckShutdown \/ CheckDeadline \/ Park

Next ==
    \/ Rejected \/ Pushed \/ ShutDown \/ NotifyAll \/ Join
    \/ Work \/ TimeOut \/ Interrupted \/ SleepEnds \/ Expire

Spec == Init /\ [][Next]_vars

(* The threads run, a sleep ends, and a thread that waits for the mutex    *)
(* gets it if it is free again and again.  Nothing makes the producer push *)
(* or shut down, and nothing is asked of the deadline.                     *)
FairSpec ==
    /\ Spec
    /\ WF_vars(Bump \/ Wake) /\ SF_vars(EmptySection) /\ WF_vars(Join)
    /\ WF_vars(Work) /\ WF_vars(SleepEnds)

-----------------------------------------------------------------------------
(* Properties. *)

Pending == inbox # <<>> \/ shutdown

(* "The producer's NotifyAll after a push can never slip between the       *)
(* worker's emptiness check and its sleep": while the worker is parked on  *)
(* a futex or a condition variable with a command or the shutdown pending, *)
(* the producer is still on its way to wake it.                            *)
NoSleepOnWork ==
    wpc = "parked" /\ policy # "sleep" /\ Pending => ppc \in {"notify", "wake"}

(* What is pushed is taken, without help from the worker's 50 ms bound     *)
(* where there is a wake, within a sleep where there is none.              *)
InboxDrains == inbox # <<>> ~> inbox = <<>> \/ shutdown

(* After the flag is set the worker stops and the join returns, again      *)
(* without the bound, whatever the worker was doing.                       *)
ShutdownJoins == shutdown ~> ppc = "done"

-----------------------------------------------------------------------------
(* Why no sleep slips in: the inductive invariant. *)

(* The types and places of the two threads; the epoch a worker loaded is   *)
(* not ahead of the word, and the mutex is held from the worker's lock to  *)
(* its park.                                                               *)
PlaceInv ==
    /\ policy \in {"futex", "sleep", "condvar"}
    /\ shutdown \in BOOLEAN /\ mutex \in BOOLEAN
    /\ epoch \in Nat /\ gen \in Nat /\ gen <= epoch
    /\ ppc \in {"push", "notify", "wake", "join", "done"}
    /\ wpc \in {"drain", "flag", "load", "lock", "size", "shut", "deadline",
                "wait", "parked", "stopped"}
    /\ wpc = "lock" => policy = "condvar"
    /\ wpc \in {"load", "deadline"} => policy # "condvar"
    /\ mutex = (policy = "condvar" /\ wpc \in {"size", "shut", "wait"})

(* The worker will park, unless the notifier gets past "notify" first: the *)
(* epoch it loaded is the current one, or it holds the mutex.              *)
Committed == policy = "condvar" \/ (policy = "futex" /\ gen = epoch)

(* What a committed worker has looked at came after its look, and the one  *)
(* who brought it has not notified yet.                                    *)
CommitInv ==
    Committed =>
        /\ wpc = "shut" /\ inbox # <<>> => ppc = "notify"
        /\ wpc \in {"deadline", "wait"} /\ Pending => ppc = "notify"

IInv == PlaceInv /\ CommitInv /\ NoSleepOnWork

=============================================================================

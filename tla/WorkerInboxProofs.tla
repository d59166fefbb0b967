--------------------------- MODULE WorkerInboxProofs ---------------------------
(***************************************************************************)
(* The worker never sleeps on a command or on the shutdown that somebody   *)
(* has announced: with a futex and with a condition variable, for every    *)
(* capacity and number of commands.                                        *)
(***************************************************************************)
EXTENDS WorkerInbox, TLAPS

LEMMA InitInv == Init => IInv
  <1> SUFFICES ASSUME Init PROVE IInv
    OBVIOUS
  <1>1. policy \in {"futex", "sleep", "condvar"}
    BY InboxAssumption DEF InboxAssumption, Init
  <1>2. /\ wpc = "drain" /\ ppc = "push" /\ epoch = 0 /\ gen = 0
        /\ mutex = FALSE /\ shutdown = FALSE
    BY DEF Init
  <1>3. PlaceInv
    <2>1. mutex = (policy = "condvar" /\ wpc \in {"size", "shut", "wait"})
      BY <1>2, Zenon
    <2>2. epoch \in Nat /\ gen \in Nat /\ gen <= epoch
      BY <1>2
    <2> QED BY <1>1, <1>2, <2>1, <2>2 DEF PlaceInv
  <1> QED BY <1>2, <1>3 DEF IInv, CommitInv, NoSleepOnWork

-----------------------------------------------------------------------------
(* The producer. *)

(* A push or the shutdown puts the producer in front of its notification,  *)
(* which is all that a committed or parked worker asks for.                *)
LEMMA AnnounceInv ==
    ASSUME IInv, Pushed \/ ShutDown PROVE IInv'
  <1>1. /\ ppc' = "notify" /\ shutdown' \in BOOLEAN
        /\ UNCHANGED <<policy, wpc, epoch, mutex, gen>>
    BY DEF Pushed, ShutDown, waiter, IInv, PlaceInv
  <1> QED BY <1>1 DEF IInv, PlaceInv, CommitInv, NoSleepOnWork

(* A rejected command changes nothing that anybody waits for. *)
LEMMA RejectedInv == ASSUME IInv, Rejected PROVE IInv'
  BY DEF Rejected, queue, waiter, IInv, PlaceInv, CommitInv, NoSleepOnWork,
         Pending, Committed

(* The bump takes the commitment back from a worker with the old epoch. *)
LEMMA BumpInv == ASSUME IInv, Bump PROVE IInv'
  <1>1. /\ ppc = "notify" /\ ppc' = "wake" /\ policy # "condvar" /\ epoch' = epoch + 1
        /\ UNCHANGED <<policy, inbox, shutdown, wpc, mutex, gen>>
    BY DEF Bump, queue, waiter
  <1>2. PlaceInv' /\ ~Committed'
    BY <1>1 DEF IInv, PlaceInv, Committed
  <1> QED BY <1>1, <1>2 DEF IInv, CommitInv, NoSleepOnWork

(* The empty critical section waits for a committed worker to park. *)
LEMMA EmptySectionInv == ASSUME IInv, EmptySection PROVE IInv'
  <1>1. /\ ppc = "notify" /\ ppc' = "wake" /\ policy = "condvar" /\ ~mutex
        /\ UNCHANGED <<policy, inbox, shutdown, wpc, epoch, mutex, gen>>
    BY DEF EmptySection, queue, waiter
  <1>2. wpc \notin {"shut", "wait", "deadline"}
    BY <1>1 DEF IInv, PlaceInv
  <1>3. PlaceInv' /\ CommitInv'
    BY <1>1, <1>2 DEF IInv, PlaceInv, CommitInv
  <1> QED BY <1>1, <1>3 DEF IInv, NoSleepOnWork

(* The wake leaves nobody parked who can be woken, and finds nobody        *)
(* committed with something pending.                                       *)
LEMMA WakeInv == ASSUME IInv, Wake PROVE IInv'
  <1>1. /\ ppc = "wake" /\ ppc' \in {"join", "push"}
        /\ wpc' = IF wpc = "parked" /\ policy # "sleep" THEN Woken ELSE wpc
        /\ UNCHANGED <<policy, inbox, shutdown, epoch, mutex, gen>>
    BY DEF Wake, queue, waiter
  <1>2. PlaceInv'
    BY <1>1 DEF IInv, PlaceInv, Woken
  <1>3. CommitInv'
    BY <1>1 DEF IInv, CommitInv, Committed, Pending, Woken
  <1>4. NoSleepOnWork'
    BY <1>1 DEF NoSleepOnWork, Woken
  <1> QED BY <1>2, <1>3, <1>4 DEF IInv

LEMMA JoinInv == ASSUME IInv, Join PROVE IInv'
  BY DEF Join, queue, waiter, IInv, PlaceInv, CommitInv, NoSleepOnWork

-----------------------------------------------------------------------------
(* The worker. *)

(* Outside its wait the worker is neither committed nor parked. *)
LEMMA AwakeInv ==
    ASSUME IInv, TryPop \/ TestShutdown \/ LoadEpoch \/ Lock PROVE IInv'
  <1>1. UNCHANGED <<policy, shutdown, ppc, epoch>>
    BY DEF TryPop, TestShutdown, LoadEpoch, Lock, WorkerStep, producer
  <1>2. wpc' \in {"drain", "flag", "stopped", "load", "lock", "size"}
    BY DEF TryPop, TestShutdown, LoadEpoch, Lock, Woken
  <1>3. PlaceInv'
    <2>1. CASE TryPop
      <3>1. wpc = "drain" /\ wpc' \in {"drain", "flag"} /\ UNCHANGED <<mutex, gen>>
        BY <2>1 DEF TryPop, waiter
      <3> QED BY <1>1, <3>1 DEF IInv, PlaceInv
    <2>2. CASE TestShutdown
      <3>1. /\ wpc = "flag" /\ wpc' \in {"stopped", Woken}
            /\ UNCHANGED <<mutex, gen>>
        BY <2>2 DEF TestShutdown
      <3> QED BY <1>1, <3>1 DEF IInv, PlaceInv, Woken
    <2>3. CASE LoadEpoch
      <3>1. wpc = "load" /\ wpc' = "size" /\ mutex' = mutex /\ gen' = epoch
        BY <2>3 DEF LoadEpoch
      <3> QED BY <1>1, <3>1 DEF IInv, PlaceInv
    <2>4. CASE Lock
      <3>1. wpc = "lock" /\ wpc' = "size" /\ mutex' = TRUE /\ gen' = gen
        BY <2>4 DEF Lock, waiter
      <3> QED BY <1>1, <3>1 DEF IInv, PlaceInv
    <2> QED BY <2>1, <2>2, <2>3, <2>4
  <1> QED BY <1>2, <1>3 DEF IInv, CommitInv, NoSleepOnWork

(* The first half of the predicate: the inbox was empty. *)
LEMMA CheckSizeInv == ASSUME IInv, CheckSize PROVE IInv'
  <1>1. /\ UNCHANGED <<policy, shutdown, ppc, epoch, inbox, gen>> /\ wpc = "size"
        /\ \/ wpc' = "drain" /\ mutex' = FALSE
           \/ wpc' = "shut" /\ mutex' = mutex /\ inbox = <<>>
    BY DEF CheckSize, Return, WorkerStep, producer, queue
  <1> QED BY <1>1 DEF IInv, PlaceInv, CommitInv, NoSleepOnWork

(* The second half: what is pending now was announced in between. *)
LEMMA CheckShutdownInv == ASSUME IInv, CheckShutdown PROVE IInv'
  <1>1. /\ UNCHANGED <<policy, shutdown, ppc, epoch, inbox, gen>> /\ wpc = "shut"
        /\ \/ wpc' = "drain" /\ mutex' = FALSE
           \/ /\ wpc' = IF policy = "condvar" THEN "wait" ELSE "deadline"
              /\ mutex' = mutex /\ ~shutdown
    BY DEF CheckShutdown, Return, WorkerStep, producer, queue
  <1>2. PlaceInv'
    BY <1>1 DEF IInv, PlaceInv
  <1>3. CommitInv'
    BY <1>1 DEF IInv, CommitInv, Committed, Pending
  <1> QED BY <1>1, <1>2, <1>3 DEF IInv, NoSleepOnWork

LEMMA CheckDeadlineInv == ASSUME IInv, CheckDeadline PROVE IInv'
  <1>1. /\ UNCHANGED <<policy, shutdown, ppc, epoch, inbox, gen, mutex>>
        /\ wpc = "deadline" /\ wpc' \in {"size", "wait"}
    BY DEF CheckDeadline, WorkerStep, producer, queue
  <1>2. PlaceInv'
    BY <1>1 DEF IInv, PlaceInv
  <1>3. CommitInv'
    BY <1>1 DEF IInv, CommitInv, Committed, Pending
  <1> QED BY <1>1, <1>2, <1>3 DEF IInv, NoSleepOnWork

(* Only a committed worker parks where a wake is needed. *)
LEMMA ParkInv == ASSUME IInv, Park PROVE IInv'
  <1>1. /\ UNCHANGED <<policy, shutdown, ppc, epoch, inbox, gen>> /\ mutex' = FALSE
        /\ wpc = "wait"
        /\ wpc' = IF policy = "futex" /\ gen # epoch THEN "load" ELSE "parked"
    BY DEF Park, WorkerStep, producer, queue, waiter
  <1>2. PlaceInv' /\ CommitInv'
    BY <1>1 DEF IInv, PlaceInv, CommitInv
  <1>3. wpc' = "parked" /\ policy # "sleep" => Committed
    BY <1>1 DEF IInv, PlaceInv, Committed
  <1>4. NoSleepOnWork'
    BY <1>1, <1>3 DEF IInv, CommitInv, NoSleepOnWork, Pending
  <1> QED BY <1>2, <1>4 DEF IInv

(* A park that ends by itself starts over. *)
LEMMA UnparkInv ==
    ASSUME IInv, TimeOut \/ Interrupted \/ SleepEnds PROVE IInv'
  <1>1. /\ UNCHANGED <<policy, shutdown, ppc, epoch, inbox, gen, mutex>>
        /\ wpc = "parked" /\ wpc' = Woken
    BY DEF TimeOut, Interrupted, SleepEnds, WorkerStep, producer, queue, waiter
  <1> QED BY <1>1 DEF IInv, PlaceInv, CommitInv, NoSleepOnWork, Woken

LEMMA ExpireInv == ASSUME IInv, Expire PROVE IInv'
  BY DEF Expire, WorkerStep, producer, queue, IInv, PlaceInv, CommitInv,
         NoSleepOnWork, Pending, Committed

-----------------------------------------------------------------------------

LEMMA NextInv == IInv /\ [Next]_vars => IInv'
  <1> SUFFICES ASSUME IInv, [Next]_vars PROVE IInv'
    OBVIOUS
  <1>1. CASE Rejected \/ Pushed \/ ShutDown \/ NotifyAll \/ Join
    BY <1>1, RejectedInv, AnnounceInv, BumpInv, EmptySectionInv, WakeInv, JoinInv
       DEF NotifyAll
  <1>2. CASE Work
    BY <1>2, AwakeInv, CheckSizeInv, CheckShutdownInv, CheckDeadlineInv, ParkInv
       DEF Work
  <1>3. CASE TimeOut \/ Interrupted \/ SleepEnds \/ Expire
    BY <1>3, UnparkInv, ExpireInv
  <1>4. CASE UNCHANGED vars
    BY <1>4 DEF vars, queue, producer, waiter, IInv, PlaceInv, CommitInv,
                NoSleepOnWork, Pending, Committed
  <1> QED BY <1>1, <1>2, <1>3, <1>4 DEF Next

(* While the worker is parked on a futex or a condition variable with a    *)
(* command in the inbox or the shutdown flag set, the producer has yet to  *)
(* bump or to wake: for every capacity and any number of commands.         *)
THEOREM NeverSleepsOnWork == Spec => []NoSleepOnWork
  <1>1. IInv => NoSleepOnWork
    BY DEF IInv
  <1> QED BY <1>1, InitInv, NextInv, PTL DEF Spec
=============================================================================

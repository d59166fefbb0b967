------------------------------ MODULE EventCount ------------------------------
(***************************************************************************)
(* EventCount (concurrency/event_count.hpp): bounded parking on a futex    *)
(* word.  A notifier makes the caller's predicate true, bumps the epoch    *)
(* and wakes; a waiter loads the epoch, tests the predicate and its        *)
(* deadline, and sleeps only if the epoch is still the one it loaded.      *)
(*                                                                         *)
(* The predicate is the caller's: one flag here, which a waiter that       *)
(* returned true may take, as a worker takes the command it was woken for. *)
(* The futex is external: FUTEX_WAIT compares and parks in one step,       *)
(* FUTEX_WAKE releases everyone parked, and a parked thread may also       *)
(* return on its own (EINTR, spurious wake, timeout).                      *)
(***************************************************************************)
EXTENDS Naturals

CONSTANTS
    Waiters,        \* threads that call WaitUntil
    Notifiers,      \* threads that call NotifyAll
    EpochModulus,   \* values of the futex word (2^32)
    MaxNotifies     \* bound: calls of NotifyAll

ASSUME EventCountAssumption ==
    /\ EpochModulus \in Nat \ {0, 1}
    /\ MaxNotifies \in Nat

VARIABLES
    epoch,      \* *word_
    pred,       \* the caller's predicate
    npc,        \* notifier: "idle", "bump" before and "wake" after fetch_add
    wpc,        \* waiter: the next step of WaitUntil, or "parked"
    gen,        \* waiter: the epoch it loaded
    expired,    \* waiters whose deadline has passed
    res,        \* waiter: what WaitUntil returned
    missed,     \* ghost: bumps between a waiter's load and its futex call
    notifies    \* ghost: calls of NotifyAll so far

clients == <<npc, notifies>>
vars == <<epoch, pred, npc, wpc, gen, expired, res, missed, notifies>>

Init ==
    /\ epoch = 0 /\ pred = FALSE
    /\ npc = [n \in Notifiers |-> "idle"]
    /\ wpc = [w \in Waiters |-> "idle"]
    /\ gen = [w \in Waiters |-> 0]
    /\ expired = {}
    /\ res = [w \in Waiters |-> FALSE]
    /\ missed = [w \in Waiters |-> 0]
    /\ notifies = 0

-----------------------------------------------------------------------------
(* The notifier. *)

(* The caller makes the predicate true, then calls NotifyAll. *)
MakeTrue(n) ==
    /\ npc[n] = "idle"
    /\ notifies < MaxNotifies
    /\ notifies' = notifies + 1
    /\ pred' = TRUE
    /\ npc' = [npc EXCEPT ![n] = "bump"]
    /\ UNCHANGED <<epoch, wpc, gen, expired, res, missed>>

(* Waiters between their load of the epoch and the futex call *)
Committed(w) == wpc[w] \in {"check", "deadline", "wait"}

(* fetch_add(1) on the 32-bit word *)
Bump(n) ==
    /\ npc[n] = "bump"
    /\ epoch' = (epoch + 1) % EpochModulus
    /\ npc' = [npc EXCEPT ![n] = "wake"]
    /\ missed' = [w \in Waiters |->
                    IF Committed(w) THEN missed[w] + 1 ELSE missed[w]]
    /\ UNCHANGED <<pred, wpc, gen, expired, res, notifies>>

(* Fault: nobody is woken. *)
WakeNobody(n) ==
    /\ npc[n] = "wake"
    /\ npc' = [npc EXCEPT ![n] = "idle"]
    /\ UNCHANGED <<epoch, pred, wpc, gen, expired, res, missed, notifies>>

(* FUTEX_WAKE of all *)
Wake(n) ==
    /\ npc[n] = "wake"
    /\ npc' = [npc EXCEPT ![n] = "idle"]
    /\ wpc' = [w \in Waiters |-> IF wpc[w] = "parked" THEN "load" ELSE wpc[w]]
    /\ UNCHANGED <<epoch, pred, gen, expired, res, missed, notifies>>

-----------------------------------------------------------------------------
(* The waiter: WaitUntil. *)

Begin(w) ==
    /\ wpc[w] = "idle"
    /\ wpc' = [wpc EXCEPT ![w] = "load"]
    /\ expired' = expired \ {w}
    /\ res' = [res EXCEPT ![w] = FALSE]
    /\ UNCHANGED <<epoch, pred, gen, missed, clients>>

LoadEpoch(w) ==
    /\ wpc[w] = "load"
    /\ gen' = [gen EXCEPT ![w] = epoch]
    /\ missed' = [missed EXCEPT ![w] = 0]
    /\ wpc' = [wpc EXCEPT ![w] = "check"]
    /\ UNCHANGED <<epoch, pred, expired, res, clients>>

CheckPredicate(w) ==
    /\ wpc[w] = "check"
    /\ wpc' = [wpc EXCEPT ![w] = IF pred THEN "idle" ELSE "deadline"]
    /\ res' = [res EXCEPT ![w] = pred]
    /\ UNCHANGED <<epoch, pred, gen, expired, missed, clients>>

(* Fault: an overdue waiter parks again. *)
CheckDeadlineNever(w) ==
    /\ wpc[w] = "deadline"
    /\ wpc' = [wpc EXCEPT ![w] = "wait"]
    /\ UNCHANGED <<epoch, pred, gen, expired, res, missed, clients>>

CheckDeadline(w) ==
    /\ wpc[w] = "deadline"
    /\ wpc' = [wpc EXCEPT ![w] = IF w \in expired THEN "final" ELSE "wait"]
    /\ UNCHANGED <<epoch, pred, gen, expired, res, missed, clients>>

(* Past the deadline the predicate has the last word. *)
FinalCheck(w) ==
    /\ wpc[w] = "final"
    /\ wpc' = [wpc EXCEPT ![w] = "idle"]
    /\ res' = [res EXCEPT ![w] = pred]
    /\ UNCHANGED <<epoch, pred, gen, expired, missed, clients>>

(* Fault: the thread sleeps whatever the epoch is. *)
FutexWaitBlind(w) ==
    /\ wpc[w] = "wait"
    /\ wpc' = [wpc EXCEPT ![w] = "parked"]
    /\ UNCHANGED <<epoch, pred, gen, expired, res, missed, clients>>

(* FUTEX_WAIT: EAGAIN if the epoch has moved *)
FutexWait(w) ==
    /\ wpc[w] = "wait"
    /\ wpc' = [wpc EXCEPT ![w] = IF gen[w] = epoch THEN "parked" ELSE "load"]
    /\ UNCHANGED <<epoch, pred, gen, expired, res, missed, clients>>

(* The futex call returns although nobody woke the thread: on timeout, or  *)
(* early.                                                                  *)
TimeOut(w) ==
    /\ wpc[w] = "parked" /\ w \in expired
    /\ wpc' = [wpc EXCEPT ![w] = "load"]
    /\ UNCHANGED <<epoch, pred, gen, expired, res, missed, clients>>

Interrupted(w) ==
    /\ wpc[w] = "parked" /\ w \notin expired
    /\ wpc' = [wpc EXCEPT ![w] = "load"]
    /\ UNCHANGED <<epoch, pred, gen, expired, res, missed, clients>>

(* The monotonic clock reaches the waiter's deadline. *)
Expire(w) ==
    /\ wpc[w] # "idle" /\ w \notin expired
    /\ expired' = expired \cup {w}
    /\ UNCHANGED <<epoch, pred, wpc, gen, res, missed, clients>>

(* The caller takes what it waited for. *)
Take(w) ==
    /\ wpc[w] = "idle" /\ res[w]
    /\ pred' = FALSE
    /\ res' = [res EXCEPT ![w] = FALSE]
    /\ UNCHANGED <<epoch, wpc, gen, expired, missed, clients>>

NotifyAll(n) == Bump(n) \/ Wake(n)

WaitUntil(w) ==
    \/ LoadEpoch(w) \/ CheckPredicate(w) \/ CheckDeadline(w)
    \/ FinalCheck(w) \/ FutexWait(w)

Next ==
    \/ \E n \in Notifiers : MakeTrue(n) \/ NotifyAll(n)
    \/ \E w \in Waiters :
          \/ Begin(w) \/ WaitUntil(w) \/ TimeOut(w) \/ Interrupted(w)
          \/ Expire(w) \/ Take(w)

Spec == Init /\ [][Next]_vars

(* Threads inside WaitUntil and NotifyAll keep running. *)
FairThreads ==
    /\ \A n \in Notifiers : WF_vars(NotifyAll(n))
    /\ \A w \in Waiters : WF_vars(WaitUntil(w))

(* With a clock: it advances, and the kernel returns from an overdue wait. *)
FairClock == \A w \in Waiters : WF_vars(Expire(w)) /\ WF_vars(TimeOut(w))

FairSpec == Spec /\ FairThreads

-----------------------------------------------------------------------------
(* Properties. *)

(* The types of the futex word and of the threads' places. *)
TypeOK ==
    /\ epoch \in 0 .. EpochModulus - 1
    /\ pred \in BOOLEAN
    /\ npc \in [Notifiers -> {"idle", "bump", "wake"}]
    /\ wpc \in [Waiters -> {"idle", "load", "check", "deadline", "final",
                            "wait", "parked"}]
    /\ gen \in [Waiters -> 0 .. EpochModulus - 1]
    /\ expired \subseteq Waiters
    /\ res \in [Waiters -> BOOLEAN]
    /\ missed \in [Waiters -> Nat]
    /\ notifies \in Nat

Notifying == \E n \in Notifiers : npc[n] \in {"bump", "wake"}

(* No wakeup is lost: while a thread sleeps in WaitUntil and its predicate *)
(* is true, a notifier is still on its way to wake it; unless the 32-bit   *)
(* word went all the way round between the waiter's load and its futex     *)
(* call.                                                                   *)
NoLostWakeup ==
    \A w \in Waiters :
        wpc[w] = "parked" /\ pred /\ missed[w] < EpochModulus => Notifying

(* A waiter whose predicate is true and stays true returns, whatever its   *)
(* deadline: parking is left to the timeout only when the word went all    *)
(* the way round.                                                          *)
WakesWithoutClock ==
    \A w \in Waiters :
        wpc[w] # "idle" /\ pred ~>
            wpc[w] = "idle" \/ ~pred \/ missed[w] >= EpochModulus

(* Every WaitUntil returns when there is a clock: the bound holds across   *)
(* spurious wakes, wakes for somebody else and an epoch that went all the  *)
(* way round.                                                              *)
WaitReturns ==
    FairClock => \A w \in Waiters : wpc[w] # "idle" ~> wpc[w] = "idle"

-----------------------------------------------------------------------------
(* Why no wakeup is lost: the inductive invariant. *)

(* Until it has gone all the way round, the word is ahead of what a        *)
(* waiter loaded by the bumps the waiter missed.                           *)
GenInv ==
    \A w \in Waiters :
        Committed(w) /\ missed[w] < EpochModulus =>
            gen[w] + missed[w] \in {epoch, epoch + EpochModulus}

(* A waiter that has seen the predicate false and missed no bump can count *)
(* on the notifier that made it true.                                      *)
CommitInv ==
    \A w \in Waiters :
        wpc[w] \in {"deadline", "wait"} /\ pred /\ missed[w] = 0 =>
            \E n \in Notifiers : npc[n] = "bump"

IInv == TypeOK /\ GenInv /\ CommitInv /\ NoLostWakeup

=============================================================================

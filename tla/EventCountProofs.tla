--------------------------- MODULE EventCountProofs ---------------------------
(***************************************************************************)
(* No wakeup is lost, for any number of waiters and notifiers and any      *)
(* width of the futex word.                                                *)
(***************************************************************************)
EXTENDS EventCount, Integers, TLAPS

(* The word after fetch_add(1): one more, or 0 after its last value. *)
LEMMA Increment ==
    ASSUME NEW M \in Nat \ {0, 1}, NEW e \in 0 .. M - 1
    PROVE  (e + 1) % M = IF e = M - 1 THEN 0 ELSE e + 1
  OBVIOUS

LEMMA InitInv == Init => IInv
  <1> SUFFICES ASSUME Init PROVE IInv
    OBVIOUS
  <1>1. 0 \in 0 .. EpochModulus - 1
    BY EventCountAssumption DEF EventCountAssumption
  <1>2. gen \in [Waiters -> 0 .. EpochModulus - 1] /\ missed \in [Waiters -> Nat]
    BY <1>1 DEF Init
  <1>3. res \in [Waiters -> BOOLEAN] /\ pred \in BOOLEAN
    BY DEF Init
  <1>4. TypeOK
    BY <1>1, <1>2, <1>3 DEF Init, TypeOK
  <1>5. GenInv /\ CommitInv /\ NoLostWakeup
    BY DEF Init, GenInv, CommitInv, NoLostWakeup, Committed
  <1> QED BY <1>4, <1>5 DEF IInv

LEMMA TypeInv == TypeOK /\ [Next]_vars => TypeOK'
  <1> SUFFICES ASSUME TypeOK, [Next]_vars PROVE TypeOK'
    OBVIOUS
  <1> USE EventCountAssumption DEF EventCountAssumption, TypeOK
  <1>1. ASSUME NEW n \in Notifiers, MakeTrue(n) PROVE TypeOK'
    BY <1>1 DEF MakeTrue
  <1>2. ASSUME NEW n \in Notifiers, Bump(n) PROVE TypeOK'
    <2>1. epoch' \in 0 .. EpochModulus - 1
      BY <1>2 DEF Bump
    <2>2. missed' \in [Waiters -> Nat]
      BY <1>2 DEF Bump
    <2> QED BY <1>2, <2>1, <2>2 DEF Bump
  <1>3. ASSUME NEW n \in Notifiers, Wake(n) PROVE TypeOK'
    BY <1>3 DEF Wake
  <1>4. ASSUME NEW w \in Waiters, Begin(w) PROVE TypeOK'
    <2>1. expired' \subseteq Waiters
      BY <1>4 DEF Begin
    <2>2. res' \in [Waiters -> BOOLEAN]
      BY <1>4 DEF Begin
    <2> QED BY <1>4, <2>1, <2>2 DEF Begin, clients
  <1>5. ASSUME NEW w \in Waiters, LoadEpoch(w) PROVE TypeOK'
    <2>1. missed' \in [Waiters -> Nat] /\ gen' \in [Waiters -> 0 .. EpochModulus - 1]
      BY <1>5 DEF LoadEpoch
    <2> QED BY <1>5, <2>1 DEF LoadEpoch, clients
  <1>6. ASSUME NEW w \in Waiters, CheckPredicate(w) \/ CheckDeadline(w)
        PROVE  TypeOK'
    BY <1>6 DEF CheckPredicate, CheckDeadline, clients
  <1>7. ASSUME NEW w \in Waiters,
               FinalCheck(w) \/ FutexWait(w) \/ TimeOut(w) \/ Interrupted(w)
        PROVE  TypeOK'
    BY <1>7 DEF FinalCheck, FutexWait, TimeOut, Interrupted, clients
  <1>8. ASSUME NEW w \in Waiters, Expire(w) \/ Take(w) PROVE TypeOK'
    BY <1>8 DEF Expire, Take, clients
  <1>9. CASE UNCHANGED vars
    BY <1>9 DEF vars
  <1> QED BY <1>1, <1>2, <1>3, <1>4, <1>5, <1>6, <1>7, <1>8, <1>9
             DEF Next, NotifyAll, WaitUntil

-----------------------------------------------------------------------------
(* The notifier's steps. *)

LEMMA MakeTrueInv ==
    ASSUME IInv, NEW n \in Notifiers, MakeTrue(n)
    PROVE  GenInv' /\ CommitInv' /\ NoLostWakeup'
  <1>1. /\ npc' = [npc EXCEPT ![n] = "bump"]
        /\ UNCHANGED <<epoch, wpc, gen, missed>>
    BY DEF MakeTrue
  <1>2. npc'[n] = "bump"
    BY <1>1 DEF IInv, TypeOK
  <1>3. GenInv'
    BY <1>1 DEF IInv, GenInv, Committed
  <1> QED BY <1>2, <1>3 DEF CommitInv, NoLostWakeup, Notifying

LEMMA BumpInv ==
    ASSUME IInv, NEW n \in Notifiers, Bump(n)
    PROVE  GenInv' /\ CommitInv' /\ NoLostWakeup'
  <1>1. /\ epoch' = (epoch + 1) % EpochModulus
        /\ npc' = [npc EXCEPT ![n] = "wake"]
        /\ missed' = [w \in Waiters |->
                        IF Committed(w) THEN missed[w] + 1 ELSE missed[w]]
        /\ UNCHANGED <<pred, wpc, gen>>
    BY DEF Bump
  <1>2. /\ EpochModulus \in Nat \ {0, 1} /\ epoch \in 0 .. EpochModulus - 1
        /\ npc'[n] = "wake"
    BY <1>1, EventCountAssumption DEF EventCountAssumption, IInv, TypeOK
  <1>3. epoch' = IF epoch = EpochModulus - 1 THEN 0 ELSE epoch + 1
    BY <1>1, <1>2, Increment
  <1>4. ASSUME NEW w \in Waiters, Committed(w), missed[w] + 1 < EpochModulus
        PROVE  gen[w] + (missed[w] + 1) \in {epoch', epoch' + EpochModulus}
    <2>1. missed[w] \in Nat /\ gen[w] \in 0 .. EpochModulus - 1
      BY DEF IInv, TypeOK
    <2>2. missed[w] < EpochModulus
      BY <1>2, <1>4, <2>1
    <2>3. gen[w] + missed[w] \in {epoch, epoch + EpochModulus}
      BY <1>4, <2>2 DEF IInv, GenInv
    <2> QED BY <1>2, <1>3, <1>4, <2>1, <2>3
  <1>5. GenInv'
    <2> SUFFICES ASSUME NEW w \in Waiters, Committed(w)', missed'[w] < EpochModulus
                 PROVE  gen'[w] + missed'[w] \in {epoch', epoch' + EpochModulus}
      BY DEF GenInv
    <2>1. Committed(w) /\ missed'[w] = missed[w] + 1 /\ gen'[w] = gen[w]
      BY <1>1 DEF Committed
    <2> QED BY <2>1, <1>4
  <1>6. CommitInv'
    <2> SUFFICES ASSUME NEW w \in Waiters, wpc[w] \in {"deadline", "wait"}
                 PROVE  missed'[w] # 0
      BY <1>1 DEF CommitInv
    <2>1. missed[w] \in Nat /\ missed'[w] = missed[w] + 1
      BY <1>1 DEF IInv, TypeOK, Committed
    <2> QED BY <2>1
  <1>7. NoLostWakeup'
    BY <1>2 DEF NoLostWakeup, Notifying
  <1> QED BY <1>5, <1>6, <1>7

LEMMA WakeInv ==
    ASSUME IInv, NEW n \in Notifiers, Wake(n)
    PROVE  GenInv' /\ CommitInv' /\ NoLostWakeup'
  <1>1. /\ npc[n] = "wake" /\ npc' = [npc EXCEPT ![n] = "idle"]
        /\ wpc' = [w \in Waiters |-> IF wpc[w] = "parked" THEN "load" ELSE wpc[w]]
        /\ UNCHANGED <<epoch, pred, gen, missed>>
    BY DEF Wake
  <1>2. \A w \in Waiters :
           wpc'[w] # "parked" /\ (wpc'[w] # "load" => wpc'[w] = wpc[w])
    BY <1>1
  <1>3. \A m \in Notifiers : npc[m] = "bump" => npc'[m] = "bump"
    BY <1>1 DEF IInv, TypeOK
  <1>4. GenInv'
    BY <1>1, <1>2 DEF IInv, GenInv, Committed
  <1>5. CommitInv'
    BY <1>1, <1>2, <1>3 DEF IInv, CommitInv
  <1>6. NoLostWakeup'
    BY <1>2 DEF NoLostWakeup
  <1> QED BY <1>4, <1>5, <1>6

-----------------------------------------------------------------------------
(* The waiter's steps.  A step that neither changes what the notifiers do  *)
(* nor takes the waiter closer to the futex call preserves the invariant.  *)

LEMMA HarmlessStep ==
    ASSUME IInv, NEW w \in Waiters, NEW pc,
           wpc' = [wpc EXCEPT ![w] = pc],
           \/ pc \in {"idle", "load", "final"}
           \/ pc = "deadline" /\ ~pred' /\ wpc[w] = "check"
           \/ pc = "wait" /\ wpc[w] = "deadline",
           pred' => pred, UNCHANGED <<epoch, npc, gen, missed>>
    PROVE  GenInv' /\ CommitInv' /\ NoLostWakeup'
  <1>1. wpc'[w] = pc /\ \A u \in Waiters \ {w} : wpc'[u] = wpc[u]
    BY DEF IInv, TypeOK
  <1>2. GenInv'
    BY <1>1 DEF IInv, GenInv, Committed
  <1>3. CommitInv'
    BY <1>1 DEF IInv, CommitInv
  <1>4. NoLostWakeup'
    BY <1>1 DEF IInv, NoLostWakeup, Notifying
  <1> QED BY <1>2, <1>3, <1>4

LEMMA LoadEpochInv ==
    ASSUME IInv, NEW w \in Waiters, LoadEpoch(w)
    PROVE  GenInv' /\ CommitInv' /\ NoLostWakeup'
  <1>1. /\ gen' = [gen EXCEPT ![w] = epoch]
        /\ missed' = [missed EXCEPT ![w] = 0]
        /\ wpc' = [wpc EXCEPT ![w] = "check"]
        /\ UNCHANGED <<epoch, pred, npc>>
    BY DEF LoadEpoch, clients
  <1>2. /\ wpc'[w] = "check" /\ gen'[w] = epoch /\ missed'[w] = 0
        /\ \A u \in Waiters \ {w} :
              wpc'[u] = wpc[u] /\ gen'[u] = gen[u] /\ missed'[u] = missed[u]
    BY <1>1 DEF IInv, TypeOK
  <1>3. epoch \in Nat
    BY DEF IInv, TypeOK
  <1>4. GenInv'
    BY <1>1, <1>2, <1>3 DEF IInv, GenInv, Committed
  <1>5. CommitInv'
    BY <1>1, <1>2 DEF IInv, CommitInv
  <1>6. NoLostWakeup'
    BY <1>1, <1>2 DEF IInv, NoLostWakeup, Notifying
  <1> QED BY <1>4, <1>5, <1>6

LEMMA FutexWaitInv ==
    ASSUME IInv, NEW w \in Waiters, FutexWait(w)
    PROVE  GenInv' /\ CommitInv' /\ NoLostWakeup'
  <1>1. /\ wpc[w] = "wait"
        /\ wpc' = [wpc EXCEPT ![w] = IF gen[w] = epoch THEN "parked" ELSE "load"]
        /\ UNCHANGED <<epoch, pred, npc, gen, missed>>
    BY DEF FutexWait, clients
  <1>2. CASE gen[w] # epoch
    BY <1>1, <1>2, HarmlessStep
  <1>3. CASE gen[w] = epoch
    <2>1. wpc'[w] = "parked" /\ \A u \in Waiters \ {w} : wpc'[u] = wpc[u]
      BY <1>1, <1>3 DEF IInv, TypeOK
    <2>2. GenInv'
      BY <1>1, <2>1 DEF IInv, GenInv, Committed
    <2>3. CommitInv'
      BY <1>1, <2>1 DEF IInv, CommitInv
    <2>4. ASSUME pred, missed[w] < EpochModulus PROVE Notifying
      <3>1. /\ EpochModulus \in Nat /\ epoch \in 0 .. EpochModulus - 1
            /\ gen[w] \in 0 .. EpochModulus - 1 /\ missed[w] \in Nat
        BY EventCountAssumption DEF EventCountAssumption, IInv, TypeOK
      <3>2. gen[w] + missed[w] \in {epoch, epoch + EpochModulus}
        BY <1>1, <2>4 DEF IInv, GenInv, Committed
      <3>3. missed[w] = 0
        BY <1>3, <2>4, <3>1, <3>2
      <3> QED BY <1>1, <2>4, <3>3 DEF IInv, CommitInv, Notifying
    <2>5. NoLostWakeup'
      BY <1>1, <2>1, <2>4 DEF IInv, NoLostWakeup, Notifying
    <2> QED BY <2>2, <2>3, <2>5
  <1> QED BY <1>2, <1>3

LEMMA NextInv == IInv /\ [Next]_vars => IInv'
  <1> SUFFICES ASSUME IInv, [Next]_vars PROVE IInv'
    OBVIOUS
  <1>1. TypeOK'
    BY TypeInv DEF IInv
  <1> SUFFICES GenInv' /\ CommitInv' /\ NoLostWakeup'
    BY <1>1 DEF IInv
  <1>2. ASSUME NEW w \in Waiters, CheckPredicate(w)
        PROVE  GenInv' /\ CommitInv' /\ NoLostWakeup'
    <2>1. CASE pred
      BY <1>2, <2>1, HarmlessStep DEF CheckPredicate, clients
    <2>2. CASE ~pred
      BY <1>2, <2>2, HarmlessStep DEF CheckPredicate, clients
    <2> QED BY <2>1, <2>2
  <1>3. ASSUME NEW w \in Waiters, CheckDeadline(w)
        PROVE  GenInv' /\ CommitInv' /\ NoLostWakeup'
    <2>1. CASE w \in expired
      BY <1>3, <2>1, HarmlessStep DEF CheckDeadline, clients
    <2>2. CASE w \notin expired
      BY <1>3, <2>2, HarmlessStep DEF CheckDeadline, clients
    <2> QED BY <2>1, <2>2
  <1>4. ASSUME NEW w \in Waiters,
               Begin(w) \/ FinalCheck(w) \/ TimeOut(w) \/ Interrupted(w)
        PROVE  GenInv' /\ CommitInv' /\ NoLostWakeup'
    <2>1. \E pc \in {"idle", "load"} : wpc' = [wpc EXCEPT ![w] = pc]
      BY <1>4 DEF Begin, FinalCheck, TimeOut, Interrupted
    <2>2. UNCHANGED <<epoch, pred, npc, gen, missed>>
      BY <1>4 DEF Begin, FinalCheck, TimeOut, Interrupted, clients
    <2> QED BY <2>1, <2>2, HarmlessStep
  <1>5. ASSUME UNCHANGED <<epoch, npc, wpc, gen, missed>>, pred' => pred
        PROVE  GenInv' /\ CommitInv' /\ NoLostWakeup'
    BY <1>5 DEF IInv, GenInv, CommitInv, NoLostWakeup, Notifying, Committed
  <1>6. ASSUME NEW w \in Waiters, Expire(w) \/ Take(w)
        PROVE  GenInv' /\ CommitInv' /\ NoLostWakeup'
    BY <1>5, <1>6 DEF Expire, Take, clients
  <1>7. CASE UNCHANGED vars
    BY <1>5, <1>7 DEF vars
  <1> QED BY <1>2, <1>3, <1>4, <1>6, <1>7, MakeTrueInv, BumpInv, WakeInv,
             LoadEpochInv, FutexWaitInv DEF Next, NotifyAll, WaitUntil

-----------------------------------------------------------------------------
(* The invariant holds of WaitUntil and NotifyAll. *)
THEOREM InvariantHolds == Spec => []IInv
  BY InitInv, NextInv, PTL DEF Spec

(* A thread parked in WaitUntil whose predicate is true has a notifier on  *)
(* its way, unless the word went all the way round.                        *)
THEOREM NoWakeupIsLost == Spec => []NoLostWakeup
  <1>1. IInv => NoLostWakeup
    BY DEF IInv
  <1> QED BY <1>1, InvariantHolds, PTL

=============================================================================

----------------------------- MODULE MetricSlots -----------------------------
(***************************************************************************)
(* The aggregates behind Counter, Gauge and Histogram handles: CounterSlot,*)
(* GaugeSlot and HistogramSlot of binding.hpp.  A handle is a pointer to a *)
(* slot, so that every thread that holds one for the same name, or got it  *)
(* from the console binding, works on the same slot without a lock.        *)
(*                                                                         *)
(* Every atomic access is a step.  A compare_exchange_weak fails when the  *)
(* value is not the expected one, and may fail although it is; either way  *)
(* the expected value becomes the one found.                               *)
(*                                                                         *)
(* A double is an integer, an infinity or NaN: rounding is left out, so    *)
(* that a sum does not depend on the order of its terms.                   *)
(***************************************************************************)
EXTENDS Integers, FiniteSets, FiniteSetsExt

CONSTANTS
    Callers,            \* threads that hold a handle
    Samples,            \* finite numbers that are added, set or recorded
    NaN, PosInf, NegInf,
    kHistogramBuckets,  \* 24
    MaxCalls            \* bound: calls of all threads

ASSUME SlotAssumption ==
    /\ Samples \subseteq Int
    /\ NaN \notin Int /\ PosInf \notin Int /\ NegInf \notin Int
    /\ NaN # PosInf /\ NaN # NegInf /\ PosInf # NegInf
    /\ kHistogramBuckets \in Nat /\ kHistogramBuckets >= 2
    /\ MaxCalls \in Nat

Doubles == Samples \cup {NaN, PosInf, NegInf}
Buckets == 0 .. kHistogramBuckets - 1

VARIABLES
    counter, gauge,                 \* CounterSlot::value, GaugeSlot::value
    count, sum, min, max, buckets,  \* HistogramSlot
    pc,         \* a thread's next step, or "idle"
    v, cur,     \* its argument, and cur, c, m or x: the expected value
    calls,      \* ghost: calls so far
    added, recorded     \* ghost: the calls of Add and of Record

slots == <<counter, gauge, count, sum, min, max, buckets>>
slotVars == <<slots, pc, v, cur, calls, added, recorded>>

(* A sum, from the set of its terms and what they add up to if finite *)
DoubleSum(terms, n) ==
    IF NaN \in terms \/ {PosInf, NegInf} \subseteq terms THEN NaN
    ELSE IF PosInf \in terms THEN PosInf
    ELSE IF NegInf \in terms THEN NegInf
    ELSE n

Plus(x, y) == DoubleSum({x, y}, x + y)

Less(x, y) ==
    /\ NaN \notin {x, y} /\ x # y
    /\ x = NegInf \/ y = PosInf \/ (x \in Int /\ y \in Int /\ x < y)

(* std::ilogb of a finite x >= 1 *)
ilogb(x) == CHOOSE e \in 0 .. x : 2^e <= x /\ x < 2^(e + 1)

LastBucket == kHistogramBuckets - 1
Clamped(i) == IF i >= LastBucket THEN LastBucket ELSE i

(* An index that is not in the array: a negative one, converted *)
Outside == -1

(* Fault: the bucket of a power of two is the one below. *)
HistogramBucketOfBelow(x) ==
    IF x = NaN \/ Less(x, 2) THEN {0}
    ELSE IF x = PosInf THEN {LastBucket, Outside}
    ELSE {Clamped(ilogb(x - 1) + 1)}

(* The indices it may return.  The exponent of +infinity is INT_MAX and    *)
(* e + 1 overflows, which is undefined: a build that tests e >= 22 instead *)
(* returns the last bucket, one that wraps a negative number.              *)
HistogramBucketOf(x) ==
    IF x = NaN \/ Less(x, 1) THEN {0}
    ELSE IF x = PosInf THEN {LastBucket, Outside}
    ELSE {Clamped(ilogb(x) + 1)}

HistogramBucketUpperBound(i) ==
    IF i >= LastBucket THEN PosInf ELSE 2^i

SlotInit ==
    /\ counter = 0 /\ gauge = 0
    /\ count = 0 /\ sum = 0 /\ min = PosInf /\ max = NegInf
    /\ buckets = [i \in Buckets |-> 0]
    /\ pc = [t \in Callers |-> "idle"]
    /\ v = [t \in Callers |-> 0] /\ cur = [t \in Callers |-> 0]
    /\ calls = [t \in Callers |-> 0]
    /\ added = {} /\ recorded = {}

Goto(t, l) == pc' = [pc EXCEPT ![t] = l]

(* A call by its thread, its place among that thread's calls and argument *)
ThisCall(t, x) == [by |-> t, nth |-> calls[t] + 1, value |-> x]

Call(t, x) ==
    /\ pc[t] = "idle" /\ SumFunction(calls) < MaxCalls
    /\ calls' = [calls EXCEPT ![t] = @ + 1]
    /\ v' = [v EXCEPT ![t] = x]
    /\ UNCHANGED <<cur, slots>>

-----------------------------------------------------------------------------
(* Counter::Add, Gauge::Set, Histogram::Record *)

Add(t, x) ==
    /\ Call(t, x)
    /\ Goto(t, "add")
    /\ added' = added \cup {ThisCall(t, x)}
    /\ UNCHANGED recorded

(* One store, at the call *)
Set(t, x) ==
    /\ pc[t] = "idle" /\ SumFunction(calls) < MaxCalls
    /\ calls' = [calls EXCEPT ![t] = @ + 1]
    /\ gauge' = x
    /\ UNCHANGED <<counter, count, sum, min, max, buckets, pc, v, cur, added,
                   recorded>>

Record(t, x) ==
    /\ Call(t, x)
    /\ Goto(t, "count")
    /\ recorded' = recorded \cup {ThisCall(t, x)}
    /\ UNCHANGED added

IncrementCount(t) ==
    /\ pc[t] = "count"
    /\ count' = count + 1
    /\ Goto(t, "bucket")
    /\ UNCHANGED <<counter, gauge, sum, min, max, buckets, v, cur, calls, added,
                   recorded>>

(* Outside the array the increment goes astray. *)
IncrementBucket(t) ==
    /\ pc[t] = "bucket"
    /\ \E i \in HistogramBucketOf(v[t]) :
         buckets' = [j \in Buckets |-> IF j = i THEN buckets[j] + 1 ELSE buckets[j]]
    /\ Goto(t, "sum")
    /\ UNCHANGED <<counter, gauge, count, sum, min, max, v, cur, calls, added,
                   recorded>>

(* The load before a loop, from its label to the loop's *)
LoadFirst(t, from, to, slot) ==
    /\ pc[t] = from
    /\ cur' = [cur EXCEPT ![t] = slot]
    /\ Goto(t, to)
    /\ UNCHANGED <<slots, v, calls, added, recorded>>

(* Fault: the expected value of the first try is kept. *)
ExchangeFailsStale(t, label, slot) ==
    /\ pc[t] = label /\ cur[t] # slot
    /\ UNCHANGED slotVars

(* compare_exchange_weak that fails, for either reason *)
ExchangeFails(t, label, slot) ==
    /\ pc[t] = label
    /\ cur' = [cur EXCEPT ![t] = slot]
    /\ UNCHANGED <<slots, pc, v, calls, added, recorded>>

(* Fault: a store of the result in place of the compare-and-swap. *)
ExchangeAnyway(t, slot) == TRUE

(* compare_exchange_weak that finds the expected value *)
Exchange(t, slot) == cur[t] = slot

AddCounter(t) ==
    /\ pc[t] = "addcas" /\ Exchange(t, counter)
    /\ counter' = Plus(cur[t], v[t])
    /\ Goto(t, "idle")
    /\ UNCHANGED <<gauge, count, sum, min, max, buckets, v, cur, calls, added,
                   recorded>>

AddSum(t) ==
    /\ pc[t] = "sumcas" /\ Exchange(t, sum)
    /\ sum' = Plus(cur[t], v[t])
    /\ Goto(t, "min")
    /\ UNCHANGED <<counter, gauge, count, min, max, buckets, v, cur, calls, added,
                   recorded>>

LowerMin(t) ==
    /\ pc[t] = "mincas" /\ Less(v[t], cur[t]) /\ Exchange(t, min)
    /\ min' = v[t]
    /\ Goto(t, "max")
    /\ UNCHANGED <<counter, gauge, count, sum, max, buckets, v, cur, calls, added,
                   recorded>>

RaiseMax(t) ==
    /\ pc[t] = "maxcas" /\ Less(cur[t], v[t]) /\ Exchange(t, max)
    /\ max' = v[t]
    /\ Goto(t, "idle")
    /\ UNCHANGED <<counter, gauge, count, sum, min, buckets, v, cur, calls, added,
                   recorded>>

(* The loops over min and max end when the sample is no new extreme. *)
KeepMin(t) ==
    /\ pc[t] = "mincas" /\ ~Less(v[t], cur[t])
    /\ Goto(t, "max")
    /\ UNCHANGED <<slots, v, cur, calls, added, recorded>>

KeepMax(t) ==
    /\ pc[t] = "maxcas" /\ ~Less(cur[t], v[t])
    /\ Goto(t, "idle")
    /\ UNCHANGED <<slots, v, cur, calls, added, recorded>>

(* Progress of a call, the failed exchanges left out *)
Advance(t) ==
    \/ LoadFirst(t, "add", "addcas", counter) \/ AddCounter(t)
    \/ IncrementCount(t) \/ IncrementBucket(t)
    \/ LoadFirst(t, "sum", "sumcas", sum) \/ AddSum(t)
    \/ LoadFirst(t, "min", "mincas", min) \/ LowerMin(t) \/ KeepMin(t)
    \/ LoadFirst(t, "max", "maxcas", max) \/ RaiseMax(t) \/ KeepMax(t)

(* The loop condition of min and max is tested before the exchange. *)
Again(t) ==
    \/ ExchangeFails(t, "addcas", counter)
    \/ ExchangeFails(t, "sumcas", sum)
    \/ Less(v[t], cur[t]) /\ ExchangeFails(t, "mincas", min)
    \/ Less(cur[t], v[t]) /\ ExchangeFails(t, "maxcas", max)

BeginCall(t) == \E x \in Doubles : Add(t, x) \/ Set(t, x) \/ Record(t, x)

SlotNext == \E t \in Callers : BeginCall(t) \/ Advance(t) \/ Again(t)

SlotSpec == SlotInit /\ [][SlotNext]_slotVars

(* Threads are scheduled, and a weak exchange does not fail spuriously for *)
(* ever: a step that stays possible is taken, a failed exchange that finds *)
(* a new value among them.                                                 *)
FairSlotSpec ==
    /\ SlotSpec
    /\ \A t \in Callers : WF_slotVars(Advance(t)) /\ WF_slotVars(Again(t))

-----------------------------------------------------------------------------
(* Properties. *)

(* The calls of S that are past the step that leads to a label in Labels *)
Past(S, Labels) ==
    {r \in S : r.nth < calls[r.by] \/ pc[r.by] \in Labels \cup {"idle"}}

Counted == Past(recorded, {"bucket", "sum", "sumcas", "min", "mincas", "max", "maxcas"})
Bucketed == Past(recorded, {"sum", "sumcas", "min", "mincas", "max", "maxcas"})
Summed == Past(recorded, {"min", "mincas", "max", "maxcas"})
Minned == Past(recorded, {"max", "maxcas"})
Maxed == Past(recorded, {})

Total(S) == DoubleSum({r.value : r \in S}, SumFunction([r \in S |-> r.value]))

(* No Add and no Record is lost or counted twice, however the loops of the *)
(* threads interleave and however often an exchange fails.                 *)
NothingLost ==
    /\ counter = Total(Past(added, {}))
    /\ count = Cardinality(Counted)
    /\ sum = Total(Summed)

(* The samples that passed the loops over min and max; a NaN is no extreme *)
Low == ({PosInf} \cup {r.value : r \in Minned}) \ {NaN}
High == ({NegInf} \cup {r.value : r \in Maxed}) \ {NaN}

(* min and max are the extremes of the samples that passed their loops,    *)
(* also when a loop ended on an expected value that was stale.             *)
ExtremesExact ==
    /\ min \in Low /\ \A y \in Low : ~Less(y, min)
    /\ max \in High /\ \A y \in High : ~Less(max, y)

(* The samples that were counted in a bucket and lie below the bound of i, *)
(* a NaN among them *)
Below(i) ==
    {r \in Bucketed : r.value = NaN \/ Less(r.value, HistogramBucketUpperBound(i))}

(* What a percentile is estimated from: the buckets up to i hold as many   *)
(* samples as lie below the upper bound of bucket i, and all of them hold  *)
(* every sample, except that one of +infinity may have gone astray.        *)
BucketsRankSamples ==
    \A i \in Buckets :
        LET rank == SumFunctionOnSet(buckets, 0 .. i) IN
        /\ i < LastBucket => rank = Cardinality(Below(i))
        /\ i = LastBucket => rank \in Cardinality(Below(i)) .. Cardinality(Bucketed)

(* Every call returns: the loops are lock-free, and the bounded calls of   *)
(* the others cannot keep one of them from ending.                         *)
CallsReturn == \A t \in Callers : pc[t] # "idle" ~> pc[t] = "idle"

-----------------------------------------------------------------------------
(* What is inductive. *)

(* Doubles as results of an addition, and those that are ordered *)
Ordered == Int \cup {PosInf, NegInf}
Values == Ordered \cup {NaN}

(* The steps of Add and of Record *)
AddLabels == {"add", "addcas"}
RecordLabels ==
    {"count", "bucket", "sum", "sumcas", "min", "mincas", "max", "maxcas"}

Calls == [by : Callers, nth : Nat, value : Doubles]

SlotTypeOK ==
    /\ counter \in Values /\ gauge \in Values
    /\ count \in Nat /\ sum \in Values /\ min \in Ordered /\ max \in Ordered
    /\ buckets \in [Buckets -> Nat]
    /\ pc \in [Callers -> {"idle"} \cup AddLabels \cup RecordLabels]
    /\ v \in [Callers -> Values] /\ cur \in [Callers -> Values]
    /\ calls \in [Callers -> Nat]
    /\ added \subseteq Calls /\ IsFiniteSet(added)
    /\ recorded \subseteq Calls /\ IsFiniteSet(recorded)

(* The call thread t is in *)
Current(t) == [by |-> t, nth |-> calls[t], value |-> v[t]]

(* A thread that is in a call is in one it announced, and no other         *)
(* announced call has its place.                                           *)
InCall(t, S, Labels) ==
    /\ pc[t] \in Labels => Current(t) \in S
    /\ \A r \in S : r.by = t /\ r.nth = calls[t] /\ pc[t] # "idle" =>
           pc[t] \in Labels /\ r = Current(t)

CallInv ==
    /\ \A r \in added \cup recorded : r.nth <= calls[r.by]
    /\ \A t \in Callers :
           InCall(t, added, AddLabels) /\ InCall(t, recorded, RecordLabels)

(* The value a loop over min or max compares with is stale on the safe     *)
(* side: others only lowered the minimum and raised the maximum since.     *)
StaleInv ==
    \A t \in Callers :
        /\ pc[t] = "mincas" => cur[t] \in Ordered /\ ~Less(cur[t], min)
        /\ pc[t] = "maxcas" => cur[t] \in Ordered /\ ~Less(max, cur[t])

SlotInv ==
    /\ SlotTypeOK /\ CallInv /\ StaleInv
    /\ NothingLost /\ ExtremesExact /\ BucketsRankSamples

=============================================================================

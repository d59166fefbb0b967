------------------------------ MODULE BenchStats ------------------------------
(***************************************************************************)
(* The statistics of a benchmark's report row (testing/bench_harness.hpp). *)
(* Samples are numbers, a quantile is in thousandths.  The product of a    *)
(* double quantile and a sample count is rounded before ceil sees it; for  *)
(* the three quantiles in use no count up to 200000 crosses an integer by  *)
(* it, so the exact ceiling stands for it here.                            *)
(***************************************************************************)
EXTENDS Integers, Sequences, FiniteSets
LOCAL INSTANCE TLC

(* std::ceil(q * size), an offset below it, and the end of the vector *)
Rank(q, size) == (q * size + 999) \div 1000
Index(q, size) ==
    LET below == IF Rank(q, size) = 0 THEN 0 ELSE Rank(q, size) - 1
    IN  IF below < size - 1 THEN below ELSE size - 1

PercentileSorted(sorted, q) ==
    IF sorted = <<>> THEN 0 ELSE sorted[Index(q, Len(sorted)) + 1]

(* The mean, which nothing here depends on, is left out. *)
ComputeStats(samples) ==
    LET sorted == SortSeq(samples, <) IN
    [p50 |-> PercentileSorted(sorted, 500),
     p99 |-> PercentileSorted(sorted, 990),
     p999 |-> PercentileSorted(sorted, 999),
     max |-> IF sorted = <<>> THEN 0 ELSE sorted[Len(sorted)],
     samples |-> Len(samples)]

LOCAL UpTo(samples, v) == Cardinality({i \in DOMAIN samples : samples[i] <= v})
LOCAL Below(samples, v) == Cardinality({i \in DOMAIN samples : samples[i] < v})

(* The nearest rank: q of the samples are v or less, and fewer are less. *)
LOCAL IsQuantile(samples, q, v) ==
    /\ \E i \in DOMAIN samples : samples[i] = v
    /\ 1000 * UpTo(samples, v) >= q * Len(samples)
    /\ 1000 * Below(samples, v) < q * Len(samples)

(* Short rows with ties in any order, and falling rows of the counts at    *)
(* which p99 and p99.9 leave the maximum                                   *)
LOCAL Rows ==
    UNION {[1 .. n -> 1 .. 3] : n \in 1 .. 5}
    \cup {[i \in 1 .. n |-> n - i + 1] :
            n \in (98 .. 102) \cup (199 .. 202) \cup (999 .. 1002)}

(* Each percentile of a row is its nearest rank, whatever the order the    *)
(* samples came in, and the tails are in order.                            *)
ASSUME TailsAreNearestRanks ==
    \A row \in Rows :
        LET s == ComputeStats(row) IN
        /\ IsQuantile(row, 500, s.p50)
        /\ IsQuantile(row, 990, s.p99)
        /\ IsQuantile(row, 999, s.p999)
        /\ s.p50 <= s.p99 /\ s.p99 <= s.p999 /\ s.p999 <= s.max

(* No quantile, not even 0 or 1, reads outside the vector.         *)
ASSUME IndexIsInside ==
    \A q \in 0 .. 1000 : \A size \in 1 .. 30 : Index(q, size) \in 0 .. size - 1
===============================================================================

---------------------------- MODULE MCMetricSlots ----------------------------
(* An instance of MetricSlots with a sample in each of four buckets, the   *)
(* least there is but in the first.  The functions of checksum.hpp and the *)
(* statistics of bench_harness.hpp keep no state and need no run: TLC      *)
(* evaluates the assumptions of Checksum and BenchStats before it starts   *)
(* here.                                                                   *)
EXTENDS MetricSlots, Checksum, BenchStats

SamplesMC == {-3, 1, 2, 4}
=============================================================================

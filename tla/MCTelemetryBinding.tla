-------------------------- MODULE MCTelemetryBinding --------------------------
(* An instance of TelemetryBinding: threads and names of sources are alike. *)
EXTENDS TelemetryBinding, TLC

Alike == Permutations(Threads) \cup Permutations(Names)
=============================================================================

---------------------------- MODULE MCTraceContext ----------------------------
(* An instance of TraceContext.  With four ids two traces exist, or one    *)
(* with three spans; the carrier adds others.  Its envelopes may have a    *)
(* span without a trace, a trace that nobody minted and no span, and a     *)
(* trace that exists with the span of another.                             *)
EXTENDS TraceContext, TLC

GarbageMC ==
    {[trace |-> 0, span |-> 2], [trace |-> 7, span |-> 0],
     [trace |-> 1, span |-> 4]}

(* The threads are interchangeable, and the properties are invariants. *)
ThreadSymmetry == Permutations(Threads)
=============================================================================

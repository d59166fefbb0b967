SPECIFICATION Spec
CONSTANTS
    Threads = {t1, t2}
    kMaxSpanLinks = 1
    Garbage <- GarbageMC
    MaxIds = 4
    MaxDepth = 2
    MaxEnvelopes = 1
INVARIANTS
    NoPollution
    SpanIsCurrent
    RecordsFormTrees
SYMMETRY ThreadSymmetry

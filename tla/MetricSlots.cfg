SPECIFICATION FairSlotSpec
CONSTANTS
    Callers = {t1, t2}
    Samples <- SamplesMC
    NaN = nan
    PosInf = inf
    NegInf = minf
    kHistogramBuckets = 4
    MaxCalls = 3
INVARIANTS
    NothingLost
    ExtremesExact
    BucketsRankSamples
PROPERTY
    CallsReturn
CHECK_DEADLOCK FALSE

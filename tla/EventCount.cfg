SPECIFICATION FairSpec
CONSTANTS
    Waiters = {w1, w2}
    Notifiers = {n1, n2}
    EpochModulus = 2
    MaxNotifies = 3
INVARIANTS
    IInv
    NoLostWakeup
PROPERTIES
    WakesWithoutClock
    WaitReturns

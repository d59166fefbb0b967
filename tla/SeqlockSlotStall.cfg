SPECIFICATION CrashSpec
CONSTANTS
    N = 1
    kWords = 2
    Readers = {r1}
    Operations = {"LoadBounded"}
    MaxRetries = 1
    SnapshotSizes = {0, 1, 2, 3}
    MaxStores = 3
    MaxCrashes = 1
INVARIANTS
    RepairedRingDoesNotStall

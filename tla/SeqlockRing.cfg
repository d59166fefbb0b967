SPECIFICATION FairReadersSpec
CONSTANTS
    N = 3
    kWords = 2
    Readers = {r1}
    Operations = {"Load", "LoadBounded", "Snapshot"}
    MaxRetries = 1
    SnapshotSizes = {0, 2, 4}
    MaxStores = 6
    MaxCrashes = 1
INVARIANTS
    TypeOK
    IInv
    ReadsAreWhole
    SnapshotLosesNothing
    EmptyIsHonest
    QuietReadsSucceed
PROPERTIES
    ImplementsHistory
    NothingComesBack
    LoadReturns

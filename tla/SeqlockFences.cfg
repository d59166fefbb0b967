SPECIFICATION Spec
CONSTANTS
    N = 2
    kWords = 2
    MaxStores = 5
INVARIANTS
    FencedReadsAreWhole
    LossesAreLaps

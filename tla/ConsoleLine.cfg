SPECIFICATION LineSpec
CONSTANTS
    kMaxArgs = 3
    kBufBytes = 26
    Cap = 12
    TmpBytes = 8
    kMaxWidth = 6
    kMaxPrec = 4
    StrSizes = {0, 15, 300}
    NumberSizes = {1, 9}
    Widths = {3, 9}
    Precs = {0, 9}
    MaxGiven = 4
    MaxPieces = 5
    LineBytes = 16
    PrefixSizes = {4, 9}
    TextSizes = {0, 11, 14}
INVARIANTS
    PackInv
    OutputInBounds
    StringsAreCutNotDropped
    FittingEventsAlign
    LineArrives

SPECIFICATION Spec
CONSTANTS
    Depth = 2
    Values = {v1, v2}
    Torn = torn
    MaxPushes = 4
    MaxDeaths = 2
INVARIANTS
    Fifo
    IInv
    NoDataRace
    AnswersHold
PROPERTY
    ImplementsFifo

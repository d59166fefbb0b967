SPECIFICATION FairSpec
CONSTANTS
    Policies = {"futex", "sleep", "condvar"}
    Capacity = 2
    Commands = 4
INVARIANT
    NoSleepOnWork
PROPERTIES
    InboxDrains
    ShutdownJoins
CHECK_DEADLOCK FALSE

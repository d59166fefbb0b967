SPECIFICATION Spec
CONSTANTS
    Threads = {t1, t2}
    Tables = {sdk, old}
    Compatible = {sdk}
    Console = console
    Null = null
    LoggingBuilt = TRUE
    Names = {imu, nav}
    Anonymous = anonymous
    Severities = {2, 4}
    Env = 3
    HealthStates = {0, 1, 2}
    MaxCalls = 3
INVARIANTS
    InstallWins
    UnboundOnlyIfExplicit
    LevelSticks
    LinesAttributed
    FaultsAreHeard
SYMMETRY Alike
CHECK_DEADLOCK FALSE

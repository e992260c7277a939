SPECIFICATION FairSpec
CONSTANTS
    Cmds = {c1, c2}
    NoCmd = NoCmd
    ExecCanFail = TRUE
    SignalCanFail = TRUE
INVARIANTS NoOrphan StopLeavesNoChild CrashReported
PROPERTIES CallReturns
\* A Start whose exec failed keeps the mutex: the caller really may stop for good.
CHECK_DEADLOCK FALSE

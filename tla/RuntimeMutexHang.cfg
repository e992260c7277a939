SPECIFICATION FairSpec
CONSTANTS
    Cmds = {c1, c2}
    NoCmd = NoCmd
    ExecCanFail = TRUE
    SignalCanFail = FALSE
    Faults = {}
PROPERTIES SignalTerminates
CHECK_DEADLOCK FALSE

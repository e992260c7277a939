SPECIFICATION FairSpec
CONSTANTS
    Cmds = {c1, c2}
    NoCmd = NoCmd
    ExecCanFail = FALSE
    SignalCanFail = FALSE
    Faults = {"child"}
PROPERTIES SignalTerminates ChildDeathNoticed

SPECIFICATION Spec
CONSTANTS
    Cmds = {c1, c2}
    NoCmd = NoCmd
    ExecCanFail = TRUE
    SignalCanFail = FALSE
    Faults = {"child", "cleanup", "server", "shutdown", "tunnel"}
SYMMETRY Symmetry
INVARIANTS TypeOK ReadyConsistent ExitLeavesNoChild LeftoverExplained ParkedShutdownClean

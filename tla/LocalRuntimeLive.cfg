\* Two goroutines, fair: no symmetry, which liveness would not allow.
CONSTANTS
    Procs = {p1, p2}
    Sessions = {s1}
    NoProc = NoProc
    NoSession = NoSession
    Ops = {"file", "bash", "cleanup", "close"}
    MaxCalls = 3
    TTLEnabled = TRUE
    KeepOnClose = FALSE
    SerializedCleanup = TRUE
SPECIFICATION FairSpec
PROPERTY CallsReturn

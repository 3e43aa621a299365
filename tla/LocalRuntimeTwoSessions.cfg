\* Two sessions: Close's loops and the sweep meet the calls of both.
CONSTANTS
    Procs = {p1, p2}
    Sessions = {s1, s2}
    NoProc = NoProc
    NoSession = NoSession
    Ops = {"bash", "cleanup", "close"}
    MaxCalls = 3
    TTLEnabled = TRUE
    KeepOnClose = FALSE
    SerializedCleanup = TRUE
SPECIFICATION Spec
SYMMETRY GoroutineSymmetry
INVARIANT CloseStopsAll
PROPERTY NothingRevives

\* Three goroutines on one session; the host serialises CleanupSession.
CONSTANTS
    Procs = {p1, p2, p3}
    Sessions = {s1}
    NoProc = NoProc
    NoSession = NoSession
    Ops = {"file", "bash", "cleanup", "expire", "close"}
    MaxCalls = 3
    TTLEnabled = TRUE
    KeepOnClose = FALSE
    SerializedCleanup = TRUE
SPECIFICATION Spec
SYMMETRY GoroutineSymmetry
INVARIANT NoLostEdit
PROPERTIES ExplicitRemovalIsQuiet SweepSparesRunning

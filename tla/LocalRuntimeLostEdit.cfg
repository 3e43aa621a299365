\* Two overlapping CleanupSession calls of one session, then two edits.
CONSTANTS
    Procs = {p1, p2}
    Sessions = {s1}
    NoProc = NoProc
    NoSession = NoSession
    Ops = {"file", "cleanup"}
    MaxCalls = 4
    TTLEnabled = FALSE
    KeepOnClose = FALSE
    SerializedCleanup = FALSE
SPECIFICATION Spec
INVARIANT NoLostEdit

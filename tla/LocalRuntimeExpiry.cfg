\* A tool call arrives while a sweep removes expired workspaces.
CONSTANTS
    Procs = {p1, p2}
    Sessions = {s1}
    NoProc = NoProc
    NoSession = NoSession
    Ops = {"bash", "expire"}
    MaxCalls = 3
    TTLEnabled = TRUE
    KeepOnClose = FALSE
    SerializedCleanup = TRUE
SPECIFICATION Spec
PROPERTY ExpiryIsInactive

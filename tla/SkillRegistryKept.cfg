\* One name; whole revisions may fail to be read.
CONSTANTS
    Procs = {p1, p2}
    NoProc = NoProc
    Names = {n1}
    LocalNames = {n1}
    Versions = {v1}
    LastSource = 1
    Optional = {}
    Revisions <- SomeRevisions
    Local = Local
    NoEntry = NoEntry
    Flaky = TRUE
    Disk <- EmptyDisk
    MaxCalls = 4
SPECIFICATION RegistrySpec
SYMMETRY GoroutineSymmetry
INVARIANT KeptWhileOpen

\* Two goroutines; a strict source and an optional one that list two names.
CONSTANTS
    Procs = {p1, p2}
    NoProc = NoProc
    Names = {n1, n2}
    LocalNames = {n1}
    Versions = {v1}
    LastSource = 2
    Optional = {2}
    Revisions <- SomeRevisions
    Local = Local
    NoEntry = NoEntry
    Flaky = FALSE
    Disk <- SomeDisk
    MaxCalls = 4
SPECIFICATION RegistrySpec
SYMMETRY GoroutineSymmetry
INVARIANTS PinsExact GenerationWhole
PROPERTIES LiveKept ListingRetained

\* Two goroutines and two revisions; one crash, one damaged file.
CONSTANTS
    Procs = {p1, p2}
    Revisions = {r1, r2}
    NoProc = NoProc
    NoRevision = NoRevision
    Flaky = FALSE
    Archives <- SomeArchives
    ManifestBytes = 1
    MaxArchiveBytes = 3
    MaxExpandedBytes = 5
    MaxCacheBytes = 8
    MaxPins = 1
    MaxJobs = 4
    MaxCrashes = 1
    MaxDamages = 1
SPECIFICATION FairCacheSpec
INVARIANTS DiskBounded
PROPERTIES ImplementsStore JobsEnd

\* Two goroutines; three requests and two attempts to fetch a key; three fetches.
CONSTANTS
    Procs = {p1, p2}
    NoKey = NoKey
    MaxAttempts = 2
    MaxRequests = 3
    f1 = f1
    f2 = f2
    Fetchers <- MCFetchers
    Urls = {"home", "moved"}
    Webs <- MCWebs
    Wishes <- MCWishes
    DefaultChars = 2
    CharsCap = 3
    MaxRedirects = 1
    CacheTTL = 0
    CacheMaxEntries = 2
    FetchTime = 1
    MaxFetches = 3
    LastSecond = 2
SPECIFICATION SharedSpec
INVARIANTS KeyIsFresh RetryHasNewKey OneKeyAGeneration FetchFresh
PROPERTIES RequestsEnd FetchEnds
CHECK_DEADLOCK FALSE

\* Sessions, API keys, the event log, sources, the retry policy and the
\* token buckets, one at a time.
SPECIFICATION Spec
CONSTANTS
    Tabs = {t1, t2}
    TTL = 8
    Second = 2
    Flight = 1
    MaxTime = 9
    MaxPasswords = 2
    ApiKeyIds = {k1}
    Scopes = {read, tunnel}
    TouchTimeout = 1
    MaxTouches = 2
    MaxNow = 5
    MaxEvents = 3
    MaxDeliveries = 2
    MaxAttempts = 2
    Limits = {1, 3}
    MaxPageSize = 2
    s1 = s1
    s2 = s2
    chA = chA
    chB = chB
    chC = chC
    NoValue = NoValue
    Catalog <- SomeCatalog
    Requests <- SomeRequests
    Secrets = {s1, s2}
    Bodies <- SomeBodies
    Sample <- SomeSample
    MaxKeyLen = 1
    MaxSources = 1
    MaxStored = 2
    MaxSeconds = 2
    Backoffs <- SomeBackoffs
    Ticks = 2
    Width = 8
    MaxAttempt = 9
    Jobs = {j1, j2, j3}
    Posts = {q1, q2, q3}
    Rates = {0, 1, 2}
    Limit = 1
    PerSecond = 3
    MaxUpdates = 1
    MaxTicks = 4
INVARIANTS
    LogoutIsFinal
    LastUsedIsHonest
    SameKeySameIdentity
    RetryWithinPolicy
    PagingComplete
    TraceNotBehind
    RateKept
PROPERTIES
    ActiveStaysIn
    TestEventVerifies
    VerifiedIsGenuine
    SnoozeSuffices
CHECK_DEADLOCK FALSE

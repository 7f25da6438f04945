SPECIFICATION FairSpec
CONSTANTS
    Absent = Absent
    Part = Part
    Runs = {r1, r2}
    Areas = {a1, a2}
    RateLimit = 2
    Timeout = 1
    Backoff = 1
    MaxWait = 3
    CacheLife = 3
    RetryAfters <- MCRetryAfters
INVARIANTS
    OneCollector
PROPERTIES
    CollectionsSpaced
    CacheKept
    EveryRunEnds

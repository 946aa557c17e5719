SPECIFICATION FairSpec
CONSTANTS
    d1 = d1
    d2 = d2
    x1 = x1
    x2 = x2
    r1 = r1
    r2 = r2
    Deliveries = {d1, d2}
    Destinations = {x1, x2}
    DestinationOf <- OwnDestination
    MaxJobs = 2
    Requests = {}
    Policies <- ShortPolicies
    RateLimited = {}
    WorkerConcurrency = 1
    MaxFaults = 1
CONSTRAINT OnlyX1Edited
INVARIANTS
    AttemptBudget
PROPERTIES
    NoRepostAfterSuccess
    EventuallySettled
CHECK_DEADLOCK FALSE

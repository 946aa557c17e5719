SPECIFICATION Spec
CONSTANTS
    d1 = d1
    d2 = d2
    x1 = x1
    x2 = x2
    r1 = r1
    r2 = r2
    Deliveries = {d1}
    Destinations = {x1}
    DestinationOf <- SameDestination
    MaxJobs = 3
    Requests = {r1}
    Policies <- ShortPolicies
    RateLimited = {}
    WorkerConcurrency = 2
    MaxFaults = 0
INVARIANTS
    ExhaustedIsDeadLettered
PROPERTIES
    ImplementsLifecycle
CHECK_DEADLOCK FALSE

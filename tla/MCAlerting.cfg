SPECIFICATION Spec
CONSTANTS
    x1 = x1
    MaxRuns = 3
    MaxOverlap = 2
    Destinations = {x1}
    Deliveries = {d1}
    DestinationOf <- OneDestination
    Channels = {slack, smtp}
    Smtp = {smtp}
    Window = 5
    Cooldown = 5
    MinDeliveries = 1
    Num = 1
    Den = 2
    Timeout = 1
    Instants = {0, 1, 5}
    MaxSettled = 1
    MaxFaults = 1
INVARIANTS
    FiredMeansSent
    CooldownKept
PROPERTIES
    NothingUnsaid
CHECK_DEADLOCK FALSE

SPECIFICATION Spec
CONSTANTS
    x1 = x1
    MaxRuns = 2
    MaxOverlap = 2
    Destinations = {x1}
    Deliveries = {d1}
    DestinationOf <- OneDestination
    Channels = {slack, smtp}
    Smtp = {smtp}
    Window = 5
    Cooldown = 5
    MinDeliveries = 1
    Num = 1
    Den = 2
    Timeout = 2
    Instants = {0, 1, 3, 5}
    MaxSettled = 1
    MaxFaults = 0
INVARIANT CooldownIsMinimumGap
CHECK_DEADLOCK FALSE

SPECIFICATION MCSpec
CONSTANTS
    s1 = s1
    c1 = c1
    c2 = c2
    c3 = c3
    d1 = d1
    d2 = d2
    Sessions = {s1}
    Sources = {a, b}
    Calls = {c1, c2, c3}
    NoCall = NoCall
    Deliveries = {d1, d2}
    DeliveryOf <- RecoveredDelivery
    SessionOf <- OneSession
    MaxFaults = 1
    MinBackoff = 2
    MaxBackoff = 6
    MaxForwards = 1
INVARIANTS
    RoutedIsRegistered
    AckCreditedOnce
    ReconnectPaced
PROPERTIES
    LostSocketWakesCalls
    DisconnectDeletes
    RefusalStops
    Reattaches
CHECK_DEADLOCK FALSE

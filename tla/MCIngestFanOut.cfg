SPECIFICATION FairSpec
CONSTANTS
    x1 = x1
    x2 = x2
    Events = {e1, e2}
    NoEvent = NoEvent
    Keys = {k1}
    NoKey = NoKey
    Destinations = {x1, x2}
    RuleSets <- SomeRules
    Window = 1
    MaxTime = 0
    MaxCleanups = 0
    MaxFaults = 1
    MaxEdits = 2
INVARIANTS
    FanOutAllOrNothing
PROPERTIES
    ImplementsInbox
    EventuallyAnswered
CHECK_DEADLOCK FALSE

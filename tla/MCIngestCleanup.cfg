SPECIFICATION Spec
CONSTANTS
    x1 = x1
    x2 = x2
    Events = {e1, e2, e3}
    NoEvent = NoEvent
    Keys = {k1}
    NoKey = NoKey
    Destinations = {}
    RuleSets <- NoRules
    Window = 2
    MaxTime = 4
    MaxCleanups = 2
    MaxFaults = 1
    MaxEdits = 0
INVARIANTS
    OneClaimUntilCleanup
    ClaimsAWindowApart
    DuplicateHasOriginal
CHECK_DEADLOCK FALSE

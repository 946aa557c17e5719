SPECIFICATION FairSpec
CONSTANTS
    Replays = {r1}
    Destinations = {x1, x2}
    Filters <- TwoFilters
    MaxEvents = 2
    MaxSingles = 1
    MaxOutcomes = 1
    MaxEdits = 1
    MaxFaults = 2
INVARIANTS
    RequeuedOnce
    CountsExact
PROPERTIES
    ReplayEnds
CHECK_DEADLOCK FALSE

SPECIFICATION StreamSpec
CONSTANTS
    Results <- MCOneResult
    NoResult = NoResult
    GenEvents <- MCAllEvents
    MaxEvents = 2
    MaxFaults = 0
    MaxRestarts = 1
    Clients = {c1}
    MaxStalls = 2
    MaxDrops = 1
INVARIANTS
    OnlySeenIsSkipped
CHECK_DEADLOCK FALSE

SPECIFICATION StreamSpec
CONSTANTS
    Results <- MCOneResult
    NoResult = NoResult
    GenEvents <- MCPersistedEvents
    MaxEvents = 1
    MaxFaults = 0
    MaxRestarts = 1
    Clients = {c1}
    MaxStalls = 2
    MaxDrops = 1
INVARIANTS
    SettledReplayEnds
CHECK_DEADLOCK FALSE

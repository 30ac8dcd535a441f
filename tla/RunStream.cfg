SPECIFICATION StreamFairSpec
CONSTANTS
    Results <- MCOneResult
    NoResult = NoResult
    GenEvents <- MCAllEvents
    MaxEvents = 2
    MaxFaults = 1
    MaxRestarts = 1
    Clients = {c1}
    MaxStalls = 2
    MaxDrops = 1
INVARIANTS
    SeesTheRun
    TellsOnlyWhatIsStored
PROPERTIES
    ServedToTheEnd
    EveryClientStops
CHECK_DEADLOCK FALSE

SPECIFICATION FairSpec
CONSTANTS
    Results <- MCResults
    NoResult = NoResult
    GenEvents <- MCGenEvents
    MaxEvents = 3
    MaxFaults = 2
    MaxRestarts = 1
INVARIANTS
    TypeOK
    OneStartOneEnd
    EndingIsStored
PROPERTIES
    StartedRunEnds
    ImplementsRunOutcome
CHECK_DEADLOCK FALSE

SPECIFICATION FairSpec
CONSTANTS
    Pages = {p1}
    MaxTurns = 3
    MaxFaults = 2
INVARIANTS
    TypeOK
    CodeHasGoAhead
    ContinuesWhatWasShown
PROPERTIES
    PageIsFreed
CHECK_DEADLOCK FALSE

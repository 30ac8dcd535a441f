SPECIFICATION Spec
CONSTANTS
    Pages = {p1}
    MaxTurns = 3
    MaxFaults = 0
INVARIANTS
    ApprovesWhatWasShown
CHECK_DEADLOCK FALSE

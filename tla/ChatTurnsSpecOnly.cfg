SPECIFICATION Spec
CONSTANTS
    Pages = {p1}
    MaxTurns = 3
    MaxFaults = 0
INVARIANTS
    SpecOnlyBuildsNothing
CHECK_DEADLOCK FALSE

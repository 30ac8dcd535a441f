SPECIFICATION Spec
CONSTANTS
    Rules = {r1, r2}
    Signatures = {s1, s2}
    Interfaces = {i1, i2}
    NoInterface = NoInterface
    MaxPipeline = 4
    MaxTestFix = 2
    MaxBlocks = 2
    MaxIdentical = 2
    MaxRepairs = 2
INVARIANTS
    FixingUsesItsBudget
CHECK_DEADLOCK FALSE

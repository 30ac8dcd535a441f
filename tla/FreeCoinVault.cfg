SPECIFICATION Spec
CONSTANTS
    Parties = {g, u, w}
    Guardian = g
    Zero = zero
    MaxReward = 1
    Cooldown = 1
    MaxUint = 3
    Supply = 2
    MaxTime = 3
    MaxDepth = 2
INVARIANTS
    TypeOK
    ClaimRules
    BooksBalance
CHECK_DEADLOCK FALSE

SPECIFICATION Spec
CONSTANTS
    Wallets = {w1, w2}
    Chats = {c1}
    None = None
    MaxPending = 1
    NonceTtl = 1
    SessionTtl = 1
    HasSecret = FALSE
    MaxTime = 1
    MaxFlows = 3
    MaxFaults = 0
PROPERTIES
    ListedUntilClaimed
CHECK_DEADLOCK FALSE

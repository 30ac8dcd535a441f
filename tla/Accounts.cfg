SPECIFICATION Spec
CONSTANTS
    Wallets = {w1, w2}
    Chats = {c1}
    None = None
    MaxPending = 1
    NonceTtl = 1
    SessionTtl = 1
    HasSecret = FALSE
    MaxTime = 2
    MaxFlows = 2
    MaxFaults = 2
INVARIANTS
    TypeOK
    SessionsAreProven
    BornOwnedStays
PROPERTIES
    SignsInConnectedWallet
CHECK_DEADLOCK FALSE

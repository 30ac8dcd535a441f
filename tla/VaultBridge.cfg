SPECIFICATION FairSpec
CONSTANTS
    v = v
    Vaults = {v}
    Accounts = {a}
    None = None
    Stranger = Stranger
    Payloads <- SomePayloads
    MaxDocs = 2
    MaxSeq = 2
    MaxChanges = 1
INVARIANTS
    TypeOK
    CallsEndOnce
    OwnSuccessIsMined
PROPERTIES
    ViewCatchesUp
CHECK_DEADLOCK FALSE

SPECIFICATION Spec
CONSTANTS
    v = v
    Vaults = {v}
    Accounts = {a}
    None = None
    Stranger = Stranger
    Payloads <- SomePayloads
    MaxDocs = 2
    MaxSeq = 2
    MaxChanges = 1
INVARIANTS
    AnswersOwnCall
CHECK_DEADLOCK FALSE

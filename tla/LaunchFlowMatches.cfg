SPECIFICATION Spec
CONSTANTS
    w1 = w1
    w2 = w2
    testnet = testnet
    mainnet = mainnet
    v1 = v1
    v2 = v2
    Accounts = {w1}
    Networks = {testnet, mainnet}
    Codes = {v1, v2}
    Broken = {}
    Oversized = {}
    Descs <- MCDescs
    DescOf <- MCDescOf
    PrintOf <- MCPrint
    NoPrint = NoPrint
    NoCode = NoCode
    NoDesc = NoDesc
    Nobody = Nobody
    First = v1
    Owner = w1
    Testnet = testnet
    MaxTxs = 2
    MaxFaults = 0
    MaxMoves = 2
INVARIANTS
    RegisteredMatchesPayload
CHECK_DEADLOCK FALSE

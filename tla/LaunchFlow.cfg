SPECIFICATION Spec
CONSTANTS
    w1 = w1
    w2 = w2
    testnet = testnet
    mainnet = mainnet
    v1 = v1
    v2 = v2
    Accounts = {w1, w2}
    Networks = {testnet, mainnet}
    Codes = {v1, v2}
    Broken = {v2}
    Oversized = {}
    Descs <- MCDescs
    DescOf <- MCDescOf
    PrintOf <- MCPrint
    NoPrint = NoPrint
    NoCode = NoCode
    NoDesc = NoDesc
    Nobody = Nobody
    First = v1
    Owner = w1
    Testnet = testnet
    MaxTxs = 4
    MaxFaults = 1
    MaxMoves = 1
INVARIANTS
    TypeOK
    OneVaultPerRegistration
    RecordsAreOnChain
    BusyWhileWorking
CHECK_DEADLOCK FALSE

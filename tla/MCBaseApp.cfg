SPECIFICATION MCSpec
CONSTANTS
    Txs <- MCTxs
    InitialHeight = 3
    MaxGas = 4
    MinFee = 1
    Balance = 2
    AnteGas = 1
    BeginGas = 2
    RestartGas = 1
    ParamGas = 1
    AccountNumber = 1
    MaxBlocks = 2
    MaxBlockSize = 2
    MaxChecked = 2
    MaxCrashes = 1
    MaxOption = 4
    MaxHeight = 10
INVARIANTS
    Deterministic
    OnceAndWhole
    BlockGasBounded
PROPERTIES
    WindowsKept

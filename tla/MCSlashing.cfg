SPECIFICATION Spec
CONSTANTS
    One = 100
    Operators = {1, 2}
    Delegators = {1, 2, 3}
    MaxValidators = 1
    MaxEntries = 2
    UnbondingTime = 2
    PowerReduction = 2
    HistoricalEntries = 2
    MinCommissionRate = 0
    MaxRate = 100
    MaxChangeRate = 10
    Day = 1
    ForkHeight = 3
    SignedBlocksWindow = 2
    MinSignedPerWindow = 1
    DowntimeJailDuration = 1
    SlashFractionDowntime = 25
    SlashFractionDoubleSign = 50
    MaxAgeDuration = 2
    MaxAgeNumBlocks = 2
    Genesis <- SmallGenesis
    Amounts = {2}
    MaxStep = 1
    MaxHeight = 6
    MaxMessages = 2
    MaxIncidents = 2
INVARIANTS
    StakeExact
    TendermintAgrees
    QueuesExact
    MissedExact
CHECK_DEADLOCK FALSE

SPECIFICATION Spec
CONSTANTS
    One = 100
    PowerReduction = 2
    Operators = {1, 2}
    Delegators = {1, 2, 3}
    MaxValidators = 2
    MaxEntries = 2
    UnbondingTime = 2
    HistoricalEntries = 0
    MinCommissionRate = 10
    MaxRate = 100
    MaxChangeRate = 20
    Day = 1
    ForkHeight = 3
    InflationMin = 100
    InflationMax = 200
    InflationRateChange = 50
    GoalBonded = 67
    BlocksPerYear = 3
    CommunityTax = 2
    BaseProposerReward = 1
    BonusProposerReward = 4
    WithdrawAddrEnabled = TRUE
    SlashFraction = 33
    BlockedAddrs = {0}
    Genesis <- SmallGenesis
    Amounts = {2}
    JailAllowed = {}
    MaxBlocks = 3
    MaxMessages = 2
    WithdrawAddrs = {0, 3}
    MaxIncidents = 2
    MaxExports = 1
CHECK_DEADLOCK FALSE
INVARIANTS
    AccountExact
    ReferencesExact
    RewardsCovered
PROPERTY
    NoDilution

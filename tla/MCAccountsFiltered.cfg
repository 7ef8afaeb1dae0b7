SPECIFICATION Spec
CONSTANTS
    One = 100
    PowerReduction = 1
    UnbondingTime = 1
    MaxEntries = 1
    SlashFraction = 50
    Modules = {"fee_collector", "mint", "bonded_tokens_pool", "not_bonded_tokens_pool"}
    Minter = "mint"
    Stakers = {"bonded_tokens_pool", "not_bonded_tokens_pool"}
    Messages <- SmallMessages
    Geneses <- SmallGeneses
    Fee = 1
    Provision = 1
    Payout <- SmallPayout
    TimeSteps = {1, 3}
    MaxTime = 0
    MaxTxs = 4
    MaxSlashes = 0
    MaxPayouts = 0
CHECK_DEADLOCK FALSE
INVARIANT
    SpendLimitUpdated

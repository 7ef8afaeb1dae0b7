SPECIFICATION FairSpec
CONSTANTS
    One = 100
    Accounts <- Operators
    Contents <- TwoContents
    Ballots <- ThreeBallots
    NoBallot = NoBallot
    Stakes <- TwoStakes
    Genesis <- SmallGenesis
    Amounts = {1, 2}
    MaxProposals = 2
    MaxStep = 2
    MaxTime = 4
INVARIANTS
    CoinsExact
    QueuesExact
    TallyExact
PROPERTIES
    EventuallyDecided

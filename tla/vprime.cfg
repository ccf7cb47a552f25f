CONSTANTS
    ann = ann
    bob = bob
    Users <- OneUser
    Total = Total
    MAX_SUPPLY = 1000
    MaxTime = 6
    ONE = 1
    YEAR = 1
    DAY = 1
    Portfolios <- MixedPortfolios
SPECIFICATION Spec
INVARIANTS
    CheckpointsSorted
    LookupFinds
PROPERTIES
    PastVotesFixed
    DriftsToLimit
    SnapshotKeepsBalance
CHECK_DEADLOCK FALSE

CONSTANTS
    ann = ann
    bob = bob
    Users <- TwoUsers
    Total = Total
    MAX_SUPPLY = 1000
    MaxTime = 3
    ONE = 1
    YEAR = 1
    DAY = 1
    Portfolios <- SinglePortfolios
SPECIFICATION Spec
INVARIANT TotalIsSum
CHECK_DEADLOCK FALSE

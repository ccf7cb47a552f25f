CONSTANTS
    ann = ann
    bob = bob
    loan = loan
    PoolAddr = PoolAddr
    Depositors <- TwoDepositors
    PrimeAccounts <- OneLoan
    InitialTokens <- OneRich
    Excluded = {}
    PerMille = 1
    RateToRay = 10
    SECONDS_IN_YEAR = 1
    MaxTime = 2
    MAX_LOCK_TIME = 3
    Amounts <- MoveAmounts
    LockTimes = {1, 2}
    Caps = {0}
    Spreads = {100}
    Registries <- AllMayBorrow
    RewarderSettings = {FALSE}
    CalculatorSettings = {}
    MaxLocks = 2
    MaxAllowance = 10
SPECIFICATION Spec
INVARIANTS
    LockedIsCovered
PROPERTIES
    DepositsOnlyMove
    DebtsFollowTokens
CHECK_DEADLOCK FALSE

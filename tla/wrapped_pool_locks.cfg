CONSTANTS
    ann = ann
    bob = bob
    loan = loan
    PoolAddr = PoolAddr
    Depositors <- TwoDepositors
    PrimeAccounts <- OneLoan
    InitialTokens <- MCTokens
    Excluded = {}
    PerMille = 1
    RateToRay = 10
    SECONDS_IN_YEAR = 1
    MaxTime = 3
    MAX_LOCK_TIME = 3
    Amounts <- NativeAmounts
    LockTimes = {1}
    Caps = {0}
    Spreads = {0}
    Registries <- AllMayBorrow
    RewarderSettings = {FALSE}
    CalculatorSettings = {}
    MaxLocks = 2
    MaxAllowance = 0
SPECIFICATION NativeSpec
INVARIANT LockedIsCovered
CHECK_DEADLOCK FALSE

CONSTANTS
    ann = ann
    bob = bob
    loan = loan
    PoolAddr = PoolAddr
    Depositors <- TwoDepositors
    PrimeAccounts <- OneLoan
    InitialTokens <- MCTokens
    Excluded = {}
    PerMille = 1
    RateToRay = 10
    SECONDS_IN_YEAR = 1
    MaxTime = 3
    MAX_LOCK_TIME = 3
    Amounts <- ValueAmounts
    LockTimes = {}
    Caps = {0}
    Spreads = {0}
    Registries <- AnyRegistry
    RewarderSettings = {FALSE}
    CalculatorSettings = {TRUE, FALSE}
    MaxLocks = 0
    MaxAllowance = 0
SPECIFICATION NativeSpec
INVARIANTS
    TypeOK
    InterestNeverNegative
    SolventUpToRounding
    TotalsAgree
    IndexHistory
PROPERTIES
    EquityPreserved
CHECK_DEADLOCK FALSE

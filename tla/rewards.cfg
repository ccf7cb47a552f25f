CONSTANTS
    ann = ann
    bob = bob
    loan = loan
    PoolAddr = PoolAddr
    Depositors <- TwoDepositors
    PrimeAccounts <- OneLoan
    InitialTokens <- MCTokens
    Excluded = {}
    PerMille = 1
    RateToRay = 10
    SECONDS_IN_YEAR = 1
    MaxTime = 3
    MAX_LOCK_TIME = 3
    Amounts <- StakeAmounts
    LockTimes = {}
    Caps = {0, 10}
    Spreads = {0}
    Registries <- AllMayBorrow
    RewarderSettings = {TRUE, FALSE}
    CalculatorSettings = {}
    MaxLocks = 0
    MaxAllowance = 0
    Durations = {1, 2}
    Notifications <- Funded
    MaxFunds = 14
    PageLimit = 1
    BatchSize = 1
    Launches = {TRUE, FALSE}
SYMMETRY Symmetry
SPECIFICATION LaunchSpec
CONSTRAINT OneAtATime
INVARIANTS
    NeverOverstaked
    UnstakedIsInterest
    StakesAddUp
    RewarderNeverBlocks
    RewardsCovered
CHECK_DEADLOCK FALSE

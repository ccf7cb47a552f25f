CONSTANTS
    ann = ann
    bob = bob
    long = long
    short = short
    gm = gm
    spot = spot
    market = market
    Accounts <- TwoAccounts
    Assets <- MCAssets
    Groups <- MCGroups
    GroupOf <- MCGroupOf
    MaxExposure <- MCMaxExposure
    PoolAssets <- MCPoolAssets
    NativeToken = long
    MaxHeld <- ExchangeMaxHeld
    DebtCoverage <- MCDebtCoverage
    Prices <- ExchangePrices
    INTEREST = 40
    MAX_HEALTH_AFTER_LIQUIDATION = 1042
    MAX_LIQUIDATION_BONUS = 200
    Amounts <- ExchangeAmounts
    Repayments <- NoRepayments
    MaxTime = 2
    GmToken = gm
    LongToken = long
    ShortToken = short
    DepositOrders <- MCDepositOrders
    WithdrawalOrders <- MCWithdrawalOrders
    Slippage = {0, 2}
    MaxRequests = 3
SYMMETRY AccountSymmetry
SPECIFICATION Spec
INVARIANTS
    PendingIsRequested
    FrozenWhileRequested
    ExposureIsHeld
CHECK_DEADLOCK FALSE

CONSTANTS
    ann = ann
    bob = bob
    long = long
    short = short
    gm = gm
    spot = spot
    market = market
    Accounts <- OneAccount
    Assets <- MCAssets
    Groups <- MCGroups
    GroupOf <- MCGroupOf
    MaxExposure <- MCMaxExposure
    PoolAssets <- MCPoolAssets
    NativeToken = long
    MaxHeld <- DebtMaxHeld
    DebtCoverage <- MCDebtCoverage
    Prices <- DebtPrices
    INTEREST = 40
    MAX_HEALTH_AFTER_LIQUIDATION = 1042
    MAX_LIQUIDATION_BONUS = 200
    Amounts <- DebtAmounts
    Repayments <- DebtRepayments
    MaxTime = 3
    GmToken = gm
    LongToken = long
    ShortToken = short
    DepositOrders <- MCDepositOrders
    WithdrawalOrders <- MCWithdrawalOrders
    Slippage = {0, 2}
    MaxRequests = 1
SPECIFICATION FairSpec
INVARIANTS
    HeldIsCounted
PROPERTIES
    StaysSolvent
    LiquidationIsFair
    FrozenThaws
CHECK_DEADLOCK FALSE

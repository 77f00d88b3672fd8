SPECIFICATION CalculationSpec
CONSTANTS
    WORD = 64
    MIN_TICK_INDEX <- MCMin
    MAX_TICK_INDEX = 5
    SqrtPrice <- MCSqrtPrice
    FEE_RATE_MUL_VALUE = 10
    PROTOCOL_FEE_RATE_MUL_VALUE = 4
    ONE_IN_BASIS_POINTS = 10
    TickSpacing = 2
    NoValue = NoValue
    Nothing = Nothing
    StepPrices <- MCStepPrices
    Liquidities <- MCLiquidities
    StepAmounts <- MCStepAmounts
    FeeRates <- MCFeeRates
    Fees <- MCSettings
    Offers <- MCOffers
    Prices <- MCPrices
    Asks <- MCAsks
    Costs <- MCCosts
    MaxLength = 6
INVARIANTS WithinInput EstimateExact LimitsCover TransferFeeInverse StepSound KeepsSmallest
CHECK_DEADLOCK FALSE

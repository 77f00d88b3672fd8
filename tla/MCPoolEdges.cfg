SPECIFICATION BoundedSpec
CONSTANTS
    WORD = 64
    MIN_TICK_INDEX <- MCMin
    MAX_TICK_INDEX = 5
    SqrtPrice <- MCSqrtPrice
    FEE_RATE_MUL_VALUE = 16
    PROTOCOL_FEE_RATE_MUL_VALUE = 2
    TICK_ARRAY_SIZE = 2
    PositionIds = {p1}
    NoPosition = NoPosition
    NoSwap = NoSwap
    TickSpacing = 2
    RewardNames <- NoRewards
    MAX_FEE_RATE = 4
    MAX_PROTOCOL_FEE_RATE = 1
    DAY_IN_SECONDS = 4
    Supply = 63
    RangeInputs <- MCRanges
    LiquidityInputs = {25}
    TokenLimits = {0, 63}
    SwapAmounts = {5, 60}
    SwapThresholds = {0, 63}
    SwapLimits = {11, 362}
    ArrayInputs <- MCArrays
    FeeRates = {0, 3, 5}
    ProtocolFeeRates = {0, 1, 2}
    Emissions = {}
    FundAmounts = {}
    InitialPrices = {11, 60, 362}
    Times = {0}
    FirstArrays = {}
    Budget <- MCBudget
INVARIANTS PriceMatchesTick SwapProgresses
CHECK_DEADLOCK FALSE

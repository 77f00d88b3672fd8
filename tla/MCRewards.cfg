SPECIFICATION BoundedSpec
CONSTANTS
    WORD = 64
    MIN_TICK_INDEX <- MCMin
    MAX_TICK_INDEX = 5
    SqrtPrice <- MCSqrtPrice
    FEE_RATE_MUL_VALUE = 16
    PROTOCOL_FEE_RATE_MUL_VALUE = 2
    TICK_ARRAY_SIZE = 2
    PositionIds = {p1, p2}
    NoPosition = NoPosition
    NoSwap = NoSwap
    TickSpacing = 2
    RewardNames <- MCRewardNames
    MAX_FEE_RATE = 4
    MAX_PROTOCOL_FEE_RATE = 1
    DAY_IN_SECONDS = 4
    Supply = 63
    RangeInputs <- MCRanges
    LiquidityInputs = {25}
    TokenLimits = {0, 63}
    SwapAmounts = {20}
    SwapThresholds = {0, 63}
    SwapLimits = {11, 362}
    ArrayInputs <- MCArrays
    FeeRates = {0}
    ProtocolFeeRates = {0}
    Emissions = {40, 100}
    FundAmounts = {8}
    InitialPrices = {64}
    Times = {0, 1, 6}
    FirstArrays <- MCFirstArrays
    Budget <- MCBudget
INVARIANTS RewardsWithinEmission
PROPERTIES SettledTimeMonotone
SYMMETRY PositionSymmetry
CHECK_DEADLOCK FALSE

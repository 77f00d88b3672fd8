SPECIFICATION BoundedSpec
CONSTANTS
    WORD = 64
    MIN_TICK_INDEX <- MCMin
    MAX_TICK_INDEX = 5
    SqrtPrice <- MCSqrtPrice
    FEE_RATE_MUL_VALUE = 16
    PROTOCOL_FEE_RATE_MUL_VALUE = 2
    TICK_ARRAY_SIZE = 2
    PositionIds = {p1, p2}
    NoPosition = NoPosition
    NoSwap = NoSwap
    TickSpacing = 2
    RewardNames <- NoRewards
    MAX_FEE_RATE = 4
    MAX_PROTOCOL_FEE_RATE = 1
    DAY_IN_SECONDS = 4
    Supply = 63
    RangeInputs <- MCRanges
    LiquidityInputs = {25}
    TokenLimits = {0, 63}
    SwapAmounts = {3, 20}
    SwapThresholds = {0, 63}
    SwapLimits = {11, 64, 362}
    ArrayInputs <- MCArrays
    FeeRates = {3}
    ProtocolFeeRates = {1}
    Emissions = {}
    FundAmounts = {}
    InitialPrices = {64}
    Times = {0}
    FirstArrays <- MCFirstArrays
    Budget <- MCBudget
INVARIANTS TypeOK LiquidityInRange TicksMatchPositions PriceMatchesTick GrowthNeverRunsBack EveryoneCanLeave
PROPERTIES SwapHonoursRequest
SYMMETRY PositionSymmetry
CHECK_DEADLOCK FALSE

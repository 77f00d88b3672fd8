SPECIFICATION Spec
CONSTANTS
    WORD = 64
    MIN_TICK_INDEX <- MCMin
    MAX_TICK_INDEX = 5
    SqrtPrice <- MCSqrtPrice
    FEE_RATE_MUL_VALUE = 16
    PROTOCOL_FEE_RATE_MUL_VALUE = 2
    TICK_ARRAY_SIZE = 2
    ONE_IN_BASIS_POINTS = 10
    TickSpacing = 2
    MAX_SWAP_TICK_ARRAYS = 3
    FeeRate = 3
    NoValue = NoValue
    Pools <- MCPools
    Calls <- MCCalls
INVARIANTS ArraysSuffice QuoteExact
CHECK_DEADLOCK FALSE

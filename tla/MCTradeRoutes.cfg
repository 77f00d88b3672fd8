SPECIFICATION Spec
CONSTANTS
    None = None
    Native = 2
    Tokens <- MCTokens
    PoolList <- MCPoolList
    Chains <- MCChains
    Trades <- MCTrades
    Options <- MCOptions
    Slippages <- MCSlippages
    TxSize = 4
    OtherAmounts = {2}
    MaxEvents = 2
INVARIANTS RoutesComplete BestFirst LimitsKept AcceptedAsQuoted HopsBalance
CHECK_DEADLOCK FALSE

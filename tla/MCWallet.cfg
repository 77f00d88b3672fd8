SPECIFICATION Spec
CONSTANTS
    p1 = p1
    p2 = p2
    usdc = usdc
    bonk = bonk
    orca = orca
    Native = sol
    None = None
    Positions = {p1, p2}
    Mints = {sol, usdc, bonk, orca}
    Token2022 = {bonk}
    Withholding = {bonk}
    PairOf <- MCPairOf
    RewardsOf <- MCRewardsOf
    PositionList <- MCPositionList
    Tolerance = 1
    TxSize = 5
    Starts <- MCStarts
    Prices <- MCPrices
    AccountMaps <- MCAccountMaps
    MaxRequests = 2
    MaxEvents = 2
INVARIANTS RefusedOnlyFor AloneNotRefused NothingLeftBehind
PROPERTIES EveryTaskOnce CollectsToDate
CHECK_DEADLOCK FALSE

SPECIFICATION Spec
CONSTANTS
    Configs = {c1, c2}
    Users = {u1, u2}
    Mints = {1, 2, 3, 4}
    MintInfo <- MCMintInfo
    Spacings = {1}
    Rates = {1, 2}
    MAX_FEE_RATE = 1
    MAX_PROTOCOL_FEE_RATE = 1
    NUM_REWARDS = 2
    None = None
    MaxSteps = 7
SYMMETRY MCSymmetry
INVARIANTS OnePoolPerPair PowerIsGranted RewardsFromLowest ClientAccepted
CHECK_DEADLOCK FALSE

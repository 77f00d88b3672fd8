SPECIFICATION Spec
CONSTANTS
    alice = alice
    bob = bob
    None = None
    Mints = {m1}
    Users = {alice, bob}
    BitmapUsize = 2
    ByteWidth = 2
    BundleIndexes <- MCIndexes
    MaxDelegated = 2
INVARIANTS TypeOK BitmapMatchesAccounts NoStrandedPosition OneTokenPerMint

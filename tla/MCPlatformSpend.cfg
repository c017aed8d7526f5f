SPECIFICATION Spec
CONSTANTS
    CAM = CAM
    GOLD = GOLD
    UtxoId = {1, 2, 3, 4}
    Asset = {CAM, GOLD}
    LockModes = {"Unlocked", "Stake"}
    AsOf = 2
    NoAsset = NoAsset
    UtxoSets <- MCUtxoSets
    Requests <- MCRequests
CHECK_DEADLOCK FALSE
INVARIANTS
    LockedTokensRelocked
    BurnsExactly
    BurnFallsShortByLocks
    NoInputIsSuperfluous
    LocksAreHonoured
    RefusalIsJustified
    LongestLockFirst
PROPERTY
    KeepsPromise

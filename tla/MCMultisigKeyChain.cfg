SPECIFICATION Spec
CONSTANTS
    Address = {1, 2, 3, 4, 5}
    KeyAddress = {2, 4, 5}
    MaxSignatures = 3
    SmallAddress = {1, 2, 3, 4}
    MaxAddresses = 2
    Thresholds = {1, 2}
    OwnersSet <- MCOwnersSet
    AliasMaps <- MCMaps
    TxOwnersSet <- MCTxOwners
INVARIANTS
    CountersConsistent
    NothingBelowSatisfied
    SelectionsWellFormed
    NeverAboveThreshold
    BuiltIsExact
PROPERTIES
    RefusalIsJustified
    CredentialsStillSigned
    ImplementsPromise
    WalkTerminates

SPECIFICATION Spec
CONSTANTS
    CAM = CAM
    GOLD = GOLD
    Asset = {CAM, GOLD}
    Calls <- MCCalls
    Funds <- MCFunds
CHECK_DEADLOCK FALSE
INVARIANTS
    BurnsTheFee
    AmountGoesWhereItShould
    OwnersFollowSignatures

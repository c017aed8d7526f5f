SPECIFICATION Spec
CONSTANTS
    AVAX = AVAX
    GOLD = GOLD
    ART = ART
    AvaxAsset = AVAX
    Asset = {AVAX, GOLD, ART}
    Failed = Failed
    Undefined = Undefined
    Calls <- MCCalls
    Genesis <- MCGenesis
    Funded <- MCFunded
    Holdings <- MCHoldings
    FirstId = 10
    MaxTxs = 3
    MaxStates = 3
    MaxTime = 2
CHECK_DEADLOCK FALSE
INVARIANTS
    Conserved
    NodeAccepts
    WhatIsAskedArrives
    RefusalIsJustified

\* Two calls in flight over two changes of the network.
CONSTANTS
    Network <- MCNetwork
    BondDeposit <- MCBondDeposit
    CreationTxFee <- MCCreationTxFee
    Slot <- MCSlot
    FlawsOf <- MCFlawsOf
    MaxSwitches = 2
SPECIFICATION Spec
INVARIANTS
    OneNetwork
    NoGooseEggReturned
PROPERTIES
    RequestsGoHome
\* It stops when the calls are made and the network was changed often enough.
CHECK_DEADLOCK FALSE

SPECIFICATION Spec
CONSTANTS
    Node <- MCNode
    NetworkID = {1, 2, 3}
    NetworkOf <- MCNetworkOf
    Configured = {"camino", "private"}
    Predefined = {1}
    Fetch = {f1, f2, f3}
    MaxChanges = 2
    NoID = NoID
    NoNetwork = NoNetwork
    NoAPI = NoAPI
    Unbound = Unbound
CHECK_DEADLOCK FALSE
INVARIANT CurrentNetwork

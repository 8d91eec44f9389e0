SPECIFICATION Spec
CONSTANTS
    key1 = key1
    key2 = key2
    Keys <- MCKeys
    AppOrders <- MCAppOrders
    NoLogin = NoLogin
    NoOrder = NoOrder
    MaxCalls = 2
INVARIANTS PlacedOnce DoesWhatWasMeant SentAsLoggedIn
CHECK_DEADLOCK FALSE

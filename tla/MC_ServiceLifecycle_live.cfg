CONSTANTS
    l1 = l1
    l2 = l2
    Listeners <- MCListeners
    EnableNat = TRUE
    EnableUpnp = FALSE
    BootSeeds = 2
    MaxPeers = 4
    MsgCapacity = 2
    RespCapacity = 1
    ApiCalls = 2
SPECIFICATION Spec
CHECK_DEADLOCK FALSE
INVARIANT TypeOK
PROPERTY StartCompletes
PROPERTY StopCompletes
PROPERTY TasksExit

SPECIFICATION Spec
CONSTANTS
    SIDs = {s1}
    MaxCallbacks = 1
    G_MAXINT32 = 2
    SUBSCRIPTION_TIMEOUT = 1
    MaxValue = 3
    MaxRenewals = 0
INVARIANTS PendingIsWire TimersMatchTable NothingLostSilently
PROPERTIES KeepsPromise
CHECK_DEADLOCK FALSE

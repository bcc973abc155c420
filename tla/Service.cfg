SPECIFICATION Spec
CONSTANTS
    SIDs = {s1, s2}
    MaxCallbacks = 1
    G_MAXINT32 = 2
    SUBSCRIPTION_TIMEOUT = 1
    MaxValue = 1
    MaxRenewals = 0
INVARIANTS PendingIsWire TimersMatchTable NothingLostSilently
PROPERTIES KeepsPromise
SYMMETRY Symmetry
CHECK_DEADLOCK FALSE

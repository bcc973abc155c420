SPECIFICATION Spec
CONSTANTS
    SIDs = {a, b}
    NoSid = NoSid
    G_MAXINT32 = 9
    G_MAXUINT32 = 10
    SUBSCRIPTION_TIMEOUT = 4
    MaxValue = 3
    MaxRenewals = 0
    MaxRequests = 3
    MaxPending = 2
    Happens = {"notify-lost", "freeze"}
INVARIANTS ShownOrReported
PROPERTIES KeepsPromise
SYMMETRY Symmetry
CHECK_DEADLOCK FALSE

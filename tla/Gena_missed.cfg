SPECIFICATION Spec
CONSTANTS
    SIDs = {a, b}
    NoSid = NoSid
    G_MAXINT32 = 9
    G_MAXUINT32 = 10
    SUBSCRIPTION_TIMEOUT = 4
    MaxValue = 2
    MaxRenewals = 1
    MaxRequests = 5
    MaxPending = 1
    Happens = {"unavailable", "time", "notify-lost"}
PROPERTIES MissedEventsAreNoticed
SYMMETRY Symmetry
CHECK_DEADLOCK FALSE

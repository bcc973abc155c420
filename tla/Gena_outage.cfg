SPECIFICATION LiveSpec
CONSTANTS
    SIDs = {a, b}
    NoSid = NoSid
    G_MAXINT32 = 9
    G_MAXUINT32 = 10
    SUBSCRIPTION_TIMEOUT = 4
    MaxValue = 1
    MaxRenewals = 1
    MaxRequests = 4
    MaxPending = 1
    Happens = {"time", "unavailable", "freeze"}
INVARIANTS RenewsInTime
PROPERTIES OrphansNotice CatchesUp
CHECK_DEADLOCK FALSE

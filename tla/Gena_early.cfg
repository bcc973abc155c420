SPECIFICATION LiveSpec
CONSTANTS
    SIDs = {a, b}
    NoSid = NoSid
    G_MAXINT32 = 9
    G_MAXUINT32 = 10
    SUBSCRIPTION_TIMEOUT = 4
    MaxValue = 1
    MaxRenewals = 0
    MaxRequests = 4
    MaxPending = 2
    Happens = {"early-notify"}
PROPERTIES CatchesUp
CHECK_DEADLOCK FALSE

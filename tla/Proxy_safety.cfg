SPECIFICATION Spec
CONSTANTS
    SIDs = {a, b}
    NoSid = NoSid
    Docs = {0}
    G_MAXUINT32 = 2
    Timeouts = {4}
    MaxRequests = 3
    MaxPending = 1
INVARIANTS TypeOK ExpiryHasSid SubscribedListens DelayedForAnAnswer PendingIsScheduled
SYMMETRY Symmetry
CHECK_DEADLOCK FALSE

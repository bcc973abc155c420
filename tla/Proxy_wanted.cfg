SPECIFICATION Spec
CONSTANTS
    SIDs = {a, b}
    NoSid = NoSid
    Docs = {0}
    G_MAXUINT32 = 2
    Timeouts = {4}
    MaxRequests = 5
    MaxPending = 2
PROPERTIES SubscribesOnlyIfWanted
SYMMETRY Symmetry
CHECK_DEADLOCK FALSE

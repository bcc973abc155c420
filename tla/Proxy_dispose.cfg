SPECIFICATION Spec
CONSTANTS
    SIDs = {a, b}
    NoSid = NoSid
    Docs = {0}
    G_MAXUINT32 = 2
    Timeouts = {4}
    MaxRequests = 3
    MaxPending = 1
INVARIANTS NothingAfterDispose
SYMMETRY Symmetry
CHECK_DEADLOCK FALSE

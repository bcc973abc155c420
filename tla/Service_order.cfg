SPECIFICATION Spec
CONSTANTS
    SIDs = {s1}
    MaxCallbacks = 2
    G_MAXINT32 = 2
    SUBSCRIPTION_TIMEOUT = 1
    MaxValue = 1
    MaxRenewals = 0
PROPERTIES NotificationsInOrder
CHECK_DEADLOCK FALSE

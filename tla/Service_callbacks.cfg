SPECIFICATION LiveSpec
CONSTANTS
    SIDs = {s1}
    MaxCallbacks = 2
    G_MAXINT32 = 2
    SUBSCRIPTION_TIMEOUT = 1
    MaxValue = 1
    MaxRenewals = 1
INVARIANTS TypeOK KeysAreConsecutive
PROPERTIES SilentAfterUnsubscribe SubscriptionsEnd WireDrains
CHECK_DEADLOCK FALSE

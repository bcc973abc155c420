CONSTANTS
    Actions = {a1, a2}
    Slots = {s1, s2}
    MaxCalls = 2
    Strangers <- MCStrangers
SPECIFICATION Spec
INVARIANTS AclFindsHandler
CHECK_DEADLOCK FALSE

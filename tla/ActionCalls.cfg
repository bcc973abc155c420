CONSTANTS
    Actions = {a1, a2}
    Slots = {s1, s2}
    MaxCalls = 2
    Strangers <- MCStrangers
SPECIFICATION LiveSpec
INVARIANTS TypeOK OutcomeIsThePeers ExecutedOnce OnlyAllowed
PROPERTIES CallsEnd
CHECK_DEADLOCK FALSE

SPECIFICATION Spec
CONSTANTS
    Documents <- MCDocuments
    Bits <- MCBits
    Width = 4
    LongWidth = 6
    Numbers <- MCNumbers
    Words <- MCWords
    Symbols <- MCSymbols
    UserData = {1}
    MaxCalls = 1
    CamelNames = {}
INVARIANTS ActionFound
CHECK_DEADLOCK FALSE

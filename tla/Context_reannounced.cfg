SPECIFICATION Spec
CONSTANTS
    c1 = c1
    iface = iface
    Contexts = {c1}
    Entries = {iface}
    Names <- MCNames
    RootDevices = {"d1"}
    MaxBootId = 2
INVARIANTS ToldIsActive
CHECK_DEADLOCK FALSE

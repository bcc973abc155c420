SPECIFICATION Spec
CONSTANTS
    Variables = {"v"}
    Callbacks = {"f1", "f2"}
    GType <- MCGType
INVARIANTS CallbacksMayRemove
CHECK_DEADLOCK FALSE

SPECIFICATION Spec
CONSTANTS
    Tasks = {t1, t2}
INVARIANTS IntrospectedForGood
CHECK_DEADLOCK FALSE

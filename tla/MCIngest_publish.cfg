SPECIFICATION Spec
CONSTANTS
    d1 = d1
    d2 = d2
    Delivery = {d1, d2}
    MAX_RETRIES = 1
    Faults = {"broker"}
PROPERTY ReadyIsFinal
CHECK_DEADLOCK FALSE

SPECIFICATION Spec
CONSTANTS
    Client = {c1, c2, c3}
    Threshold = 2
    Recovery = 2
    MaxAttempts = 2
INVARIANTS LeakBound
PROPERTIES CallsReturn CircuitRecloses
CHECK_DEADLOCK FALSE

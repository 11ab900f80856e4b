SPECIFICATION Spec
CONSTANTS
    Command = {c1}
    Tick = {t1}
    Worker = {w1}
    NoMessage = NoMessage
    MaxLosses = 0
    MaxTimeouts = 0
    DlqLimit = 2
INVARIANTS TimeoutsAreRetried
CHECK_DEADLOCK FALSE

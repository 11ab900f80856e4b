SPECIFICATION Spec
CONSTANTS
    Command = {c1, c2}
    Tick = {}
    Worker = {w1, w2}
    NoMessage = NoMessage
    MaxLosses = 2
    MaxTimeouts = 1
    DlqLimit = 2
INVARIANTS GoneIsReported RunsAreAccountedFor OverlapNeedsTimeout
PROPERTIES CommandsAreDone
CHECK_DEADLOCK FALSE

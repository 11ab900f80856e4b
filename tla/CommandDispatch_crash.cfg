SPECIFICATION Spec
CONSTANTS
    Request = {r1, r2}
    Key = {k1}
    NoKey = NoKey
    NoTask = NoTask
    Failed = Failed
    TaskDispatchEnabled = TRUE
    MaxExpiries = 0
    MaxFaults = 1
PROPERTIES QueuedIsDispatched
CHECK_DEADLOCK FALSE

SPECIFICATION Spec
CONSTANTS
    Request = {r1, r2, r3}
    Key = {k1, k2}
    NoKey = NoKey
    NoTask = NoTask
    Failed = Failed
    TaskDispatchEnabled = TRUE
    MaxExpiries = 2
    MaxFaults = 2
INVARIANTS OneDispatchPerWindow AnsweredIsDispatched
PROPERTIES EveryRequestAnswered ImplementsCommands
CHECK_DEADLOCK FALSE

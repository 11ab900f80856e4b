SPECIFICATION Spec
CONSTANTS
    Loop = loop
    Event = {e1}
    Schedule = {pitch, reply, answer}
    OnEvent = {reply, answer}
    Agent = {outreach1, outreach2}
    NameOf <- MCNameOf
    TargetOf <- MCTargetOf
    None = None
    MaxRetries = 1
    Interval = 1
    MaxEdits = 2
INVARIANTS AgentsAreSound EventServesUntouched
PROPERTIES StartsSpaced DueIsDispatched
CHECK_DEADLOCK FALSE

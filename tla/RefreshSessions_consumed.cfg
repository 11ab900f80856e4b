\* Two requests at a time.
SPECIFICATION Spec
CONSTANTS
    Handler = {h1, h2}
    MaxTokens = 3
    MaxCrashes = 0
INVARIANTS ConsumedOnce
CHECK_DEADLOCK FALSE

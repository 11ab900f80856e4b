\* One request at a time, one of which may die between two steps.
SPECIFICATION Spec
CONSTANTS
    Handler = {h1}
    MaxTokens = 4
    MaxCrashes = 1
INVARIANTS SuccessorBound FamilyIsSound
PROPERTIES ImplementsFamilies
CHECK_DEADLOCK FALSE

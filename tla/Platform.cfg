SPECIFICATION Spec
CONSTANTS
    Task = {"drop", "gap_young", "gap_old", "gap_twin", "haro"}
    Profile <- MCProfile
    Target <- MCTarget
    Requests = {30}
    Claims <- MCClaims
    Execution = {x1, x2}
    Action = {"mail", "note", "map", "ping", "fix", "junk"}
    KindOf <- MCKindOf
    Malformed = {"junk"}
    Gated = {"mail", "ping"}
    NoAction = NoAction
    MaxHistory = 1
    MaxExecutes = 2
    Call = {"g1", "g2", "g3", "g4"}
    Metered = {"g1", "g2", "g3"}
    MaxUsage = 3
    AgentOf <- MCAgentOf
    ApiOf <- MCApiOf
    Slots <- MCSlots
    Quota <- MCQuota
    QuotaWindow = 2
    Threshold = 2
    Recovery = 2
    Caller = {c1, c2}
    Token = 3
    Burst = 6
    Sizes = {3, 9}
    Limit = 2
    Window = 3
    Signup = {s1, s2, s3}
    Email = {m1, m2}
    NoAccount = NoAccount
    Org = {o1, o2}
    Nobody = Nobody
    Everyone = Everyone
    Reader = o1
    Id = {1, 2, 3}
    Stores = {TRUE, FALSE}
    ListCap = 2
    PageLimits = {0, 2}
INVARIANTS DecisionsAreFair ExecutionIsAccounted LimitsHold RatesHold AccountsAreSound 
PROPERTIES BreakerFollowsFailures
CHECK_DEADLOCK FALSE

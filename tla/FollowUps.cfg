SPECIFICATION Spec
CONSTANTS
    Campaign = {c1}
    Pass = {p1, p2}
    None = None
    Days1 = 1
    Days2 = 2
    DaysFinal = 1
    MaxFaults = 1
INVARIANTS TwoFollowUps
PROPERTIES NeverBack MailsAreSpaced CampaignEnds
CHECK_DEADLOCK FALSE

SPECIFICATION Spec
CONSTANTS
    Channels = {gulf}
    Articles = {links1}
    Unavailable = Unavailable
    Authorities = {signed, pending}
    Active = {signed}
    Expiring = {}
    LastDay = 0
    NoPayload = NoPayload
    MaxAttempts = 5
    MaxDay = 2
    MaxCommits = 4
INVARIANT SupersededMeansRetained
CHECK_DEADLOCK FALSE

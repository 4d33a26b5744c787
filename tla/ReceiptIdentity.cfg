SPECIFICATION Spec
CONSTANTS
    Channels = {gulf, trade}
    Articles = {links1, links2}
    Unavailable = Unavailable
    Authorities = {signed, due, pending}
    Active = {signed, due}
    Expiring = {due}
    LastDay = 2
    NoPayload = NoPayload
    MaxAttempts = 2
    MaxDay = 3
    MaxCommits = 5
SYMMETRY ReceiptSymmetry
INVARIANTS
    PredecessorAlwaysLoads
    BindingExact
    QuietRunReleases
    GreenRunServed
PROPERTIES
    ReleasedOnItsDay
    LinksStay
CHECK_DEADLOCK FALSE

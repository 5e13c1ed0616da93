CONSTANTS
    MaxIc = 2
    GcThreshold = 2
    Client = {c1}
    Late = {c1}
    Wide = {}
    NoIc = NoIc
    NoClient = NoClient
    c1 = c1
    c2 = c2
    MaxUp = 2
    MaxAsk <- LiveBudget
SPECIFICATION FairSpec
CHECK_DEADLOCK FALSE
PROPERTIES
    QueuedKeysHandled

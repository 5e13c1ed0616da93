CONSTANTS
    MaxIc = 2
    GcThreshold = 2
    Client = {c1, c2}
    Late = {c2}
    Wide = {c2}
    NoIc = NoIc
    NoClient = NoClient
    c1 = c1
    c2 = c2
    MaxUp = 2
    MaxAsk <- Budget
SPECIFICATION Spec
CHECK_DEADLOCK FALSE
INVARIANTS
    ContextsAccountedFor
    WaitingKeysAreOwed
    TextCanBeSeen
    MaskFollowsEnabled
PROPERTIES
    KeysInOrder
    ImplementsPool

CONSTANTS
    Server = {s1, s2}
    Other = {kinput}
    Ours = Ours
    NoServer = NoServer
    Client = {c1, c2}
    s1 = s1
    s2 = s2
    kinput = kinput
    c1 = c1
    c2 = c2
    Plan <- Plans
    Limit = 1
    MaxSequence = 1
    Size = {1, 2}
    MaxMessages = 6
SPECIFICATION FairSpec
CHECK_DEADLOCK FALSE
INVARIANTS
    ServersCanBeFound
PROPERTIES
    ImplementsChannel

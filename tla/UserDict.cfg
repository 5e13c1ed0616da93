CONSTANTS
    Session = {s1, s2}
    Initials = {"zh"}
    Finals = {1, 2}
    Text = {t1, t2}
    NoWord = NoWord
    NoText = NoText
    MaxId = 3
    FoundIds = 3
SPECIFICATION Spec
CHECK_DEADLOCK FALSE
SYMMETRY Symmetry
INVARIANTS
    CacheAgrees
    

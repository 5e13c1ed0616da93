SPECIFICATION Spec
CONSTANTS
    Junk = 238
    MaxLen = 5
    MaxList = 3
INVARIANTS
    WithinBuffer
    WrittenAsFramed
    ReadAsMeant

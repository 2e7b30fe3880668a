SPECIFICATION Spec
CONSTANTS
    Word = 2
    SafeZone = 6
    Buffer = 4
    Sp = 14
    Region = 15
    MemSize = 26
    MaxCalls = 2
    Chunks <- Appended
CHECK_DEADLOCK FALSE
INVARIANTS PlacedIntact GuestUntouched ReadsAgree

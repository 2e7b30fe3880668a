SPECIFICATION FairSpec
CONSTANTS
    Threads = {t1, t2}
    Modes = {m1}
    Owners = {o1}
    MaxCalls = 3
INVARIANTS SavesSerialise
PROPERTIES AloneIsRight CallEnds

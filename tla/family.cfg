SPECIFICATION FairSpec
CONSTANTS
    Kids = {k1, k2}
    FailFast = TRUE
    MaxSends = 2
INVARIANTS
    AlwaysTraced
    HandoverHidden
PROPERTY
    HandoverEnds

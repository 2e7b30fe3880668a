SPECIFICATION Spec
CONSTANTS
    Infos <- MCInfos
    Tables <- MCTables
    Numbers = {0, 1, 2, 3, 4, 5, 6, 7, 8, 9, 10, 11, 12, 13, 14, 15, 16, 17, 18, 19}
    MaxRaw = 18
    MaxNum = 19
    NoMod = 17
    Word = 32
    IdWord = 8
    Values = {1, 7, 31}
    HostId = 3
    Owners = {5}
    PrctlNum = 15
    PrSetSeccomp = 1
    MaxSets = 2
INVARIANTS
    TracedExactly
    RootAnswers

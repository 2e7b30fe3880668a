SPECIFICATION Spec
CONSTANTS
    GuestPaths <- Used
    Passthroughs = {"dev"}
    Renames <- Renaming
    Hides <- Hiding
    RootTrees <- Trees
    HostTree <- Host
    MaxAppends = 8
INVARIANT FlagHonoured

SPECIFICATION Spec
CONSTANTS
    Word = 4
    Header = 3
    Struct = 9
    Shrink = 2
    Names <- Files
    Body <- BodyOf
    Spills <- Full
    Hidden = {"h"}
    Renamed <- Rename
    Dirs <- Listings
    Buffers = {23, 24, 30, 32, 47, 54, 80, 128}
INVARIANTS Fits BatchFaithful

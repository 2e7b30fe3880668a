SPECIFICATION FairSpec
CONSTANTS
    Releases <- MCReleases
    Arch = "aarch64"
    FixAttach = FALSE
    FixMmap = FALSE
    FixSigsys = TRUE
    Gdb = TRUE
    GdbAt = 4
    GuestHandlers = TRUE
    Signals = {"SIGSYS", "SIGSYS_USER", "SIGSEGV"}
    MaxCalls = 4
    MaxSignals = 2
INVARIANTS
    InSync
    GuestCallRunsOnce
    FilteredWhenReady
PROPERTIES
    SignalsHeardAgain
    CallCompletes

SPECIFICATION Spec
CONSTANTS
    Shapes <- MCShapes
    FlagSets <- MCFlagSets
    INT = 8
    FFT_SIZE = 4
    AUTOCORR_SIZE = 3
    PDF_INTERVALS = 2
    PDF_INTERVALS_REL = 1
    Cuts = {3}
    MaxSessions = 3
    MaxDeaths = 1
INVARIANTS
    LoadedWhole
    SideFilesOwn
    DeathsExplained
PROPERTY OnlyOwnLines
CHECK_DEADLOCK FALSE

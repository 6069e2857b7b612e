CONSTANTS
    N = 3
    Vars = {"x", "y"}
    Solutions = {"sz", "zfp"}
    Programs <- MCPrograms
    Parts <- MCParts
    FlagSets <- MCFlagSets
    PDF_INTERVALS = 3
    AUTOCORR_SIZE = 2
    Fits <- MCFits
    Unit = 2
SPECIFICATION Spec
INVARIANTS Matched SomeGoesOn StatisticsExact ErrorsExact
PROPERTY Completes
CHECK_DEADLOCK FALSE

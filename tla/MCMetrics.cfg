SPECIFICATION Spec
CONSTANTS
    AUTOCORR_SIZE = 5
    LONG = 40
    MOD = 17
    ROOT = 3
    ssimSize = 7
    Cases <- MCCases
INVARIANTS
    Confined
    StencilsExact
    SobolevExact
    TransformsExact
    ImagesExact
    SeparateExact
    NormsExact
CHECK_DEADLOCK FALSE

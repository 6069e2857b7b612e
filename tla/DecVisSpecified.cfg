CONSTANTS
    Names = {"sz", "sz_d", "zfp", "fpzip"}
    Id <- MCId
    Bin <- MCBin
    Vars = {"u", "v"}
    Inputs <- MCInputs
    MaxCases = 3
    MaxRuns = 1
SPECIFICATION Spec
INVARIANT PlotsSpecified
CHECK_DEADLOCK FALSE

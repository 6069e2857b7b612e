CONSTANTS
    Names = {"sz", "sz_d", "zfp", "fpzip"}
    Id <- MCId
    Bin <- MCBin
    Vars = {"u", "v"}
    Inputs <- MCInputs
    MaxCases = 3
    MaxRuns = 2
SPECIFICATION Spec
INVARIANTS Safe HealedByRestart ReportComplete SettingsBracketed ElementsFreed
CHECK_DEADLOCK FALSE

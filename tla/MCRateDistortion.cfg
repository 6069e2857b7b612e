CONSTANTS
    sz = sz
    sz_t = sz_t
    zfp = zfp
    NAN = NAN
    Names = {sz, sz_t, zfp}
    Prefixed <- MCPrefixed
    Bounds = {2, 3}
    Vars = {"x", "y"}
    MaxKeys = 3
    Configs <- MCConfigs
    Tables <- MCTables
SPECIFICATION Spec
INVARIANTS Safe CurvesExact ReportsAgree

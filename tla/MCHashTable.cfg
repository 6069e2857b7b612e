CONSTANTS
    k1 = k1
    k2 = k2
    k3 = k3
    k4 = k4
    v1 = v1
    v2 = v2
    v3 = v3
    NULL = NULL
    Keys = {k1, k2, k3, k4}
    Values = {v1, v2, v3}
    HASHTABLE_SIZE = 2
    hash <- MCHash
SPECIFICATION Spec
INVARIANTS WellFormed Ownership KeyArray
PROPERTY ImplementsKeyMap
SYMMETRY MCSymmetry

CONSTANTS
    N = 4
    Elem = {1, 2, 3, 4}
    Key <- MCKey
    SIZE_MAX = 15
SPECIFICATION Spec
INVARIANTS InBounds Sorted Permuted
PROPERTY Terminates

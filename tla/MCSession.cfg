CONSTANTS
    j1 = j1
    j2 = j2
    Jobs = {j1, j2}
    Names = {"a", "b"}
    Stem <- MCStem
    Cases = {11, 12}
    SameCase <- MCSameCase
    FlagSets <- MCFlagSets
    Props = {1, 2, 3}
    Cmps = {4, 5}
SPECIFICATION Spec
INVARIANTS Safe NoLeak Association
SYMMETRY MCSymmetry
CHECK_DEADLOCK FALSE

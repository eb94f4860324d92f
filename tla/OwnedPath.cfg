SPECIFICATION PathSpec
CONSTANTS
    None = None
    i1 = i1
    i2 = i2
    i3 = i3
    i4 = i4
    i5 = i5
    Inodes = {i1, i2, i3, i4, i5}
SYMMETRY InodeSymmetry
INVARIANT NothingLeftBehind
PROPERTY ForeignSurvives

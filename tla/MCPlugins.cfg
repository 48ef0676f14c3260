SPECIFICATION Spec
CONSTANTS
    n1 = n1
    n2 = n2
    Names = {n1, n2}
    MaxRegistered = 3
    MaxConfigs = 2
    MaxInstances = 1
SYMMETRY NameSymmetry
INVARIANTS
    OwnCode
    PanicsAreUncheckedNils
CHECK_DEADLOCK FALSE

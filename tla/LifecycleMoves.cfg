SPECIFICATION Spec
CONSTANTS
    N = 2
    Branch = {b1, b2}
    Key = {k1}
    Proc = {s}
    None = None
    Condition = {"fit"}
    Outside = {"move", "switch"}
    Crashes = 1
    MinimumAge = FALSE
SYMMETRY Symmetry
INVARIANT UniqueActiveBranch
PROPERTY RemovedNotMissing

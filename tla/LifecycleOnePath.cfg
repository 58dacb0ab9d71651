SPECIFICATION Spec
CONSTANTS
    N = 1
    Branch = {b1}
    Key = {k1, k2}
    Proc = {s, t}
    None = None
    Condition = {"fit", "dirty", "used", "locked"}
    Outside = {"add", "remove", "switch", "dir", "branch"}
    Crashes = 1
    MinimumAge = TRUE
SYMMETRY Symmetry
INVARIANT TypeOK
PROPERTIES ImplementsReservations NoLeasedRemoval

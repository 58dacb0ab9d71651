SPECIFICATION FairSpec
CONSTANTS
    N = 2
    Branch = {b1}
    Key = {k1, k2}
    Proc = {s}
    None = None
    Condition = {"fit"}
    Outside = {"branch"}
    Crashes = 2
    MinimumAge = FALSE
INVARIANTS ReservationsDisjoint NeverWedged
PROPERTY PendingResolves

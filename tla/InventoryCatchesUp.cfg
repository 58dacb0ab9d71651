SPECIFICATION FairSpec
CONSTANTS
    N = 2
    Branch = {b1}
    Key = {k1}
    Proc = {s}
    None = None
    Condition = {"fit"}
    Outside = {"move"}
    Crashes = 0
    MinimumAge = FALSE
PROPERTY InventoryCatchesUp

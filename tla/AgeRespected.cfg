SPECIFICATION Spec
CONSTANTS
    N = 1
    Branch = {b1}
    Key = {k1}
    Proc = {s}
    None = None
    Condition = {"fit"}
    Outside = {"add", "remove"}
    Crashes = 0
    MinimumAge = TRUE
PROPERTY AgeRespected

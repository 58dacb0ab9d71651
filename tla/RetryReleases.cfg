SPECIFICATION Spec
CONSTANTS
    N = 1
    Branch = {b1}
    Key = {k1}
    Proc = {s}
    None = None
    Condition = {"fit"}
    Outside = {}
    Crashes = 1
    MinimumAge = FALSE
INVARIANT RetryReleases

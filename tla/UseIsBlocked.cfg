SPECIFICATION Spec
CONSTANTS
    Branch = {"main", "dev"}
    None = None
    Usage = {"none", "root", "below", "self"}
    Change = {"untracked"}
    MinimumAge = 1
    MaxAge = 1
    MaxTrouble = 1
INVARIANT UseIsBlocked
CHECK_DEADLOCK FALSE

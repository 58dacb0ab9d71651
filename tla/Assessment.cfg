SPECIFICATION SpecMC
CONSTANTS
    Branch = {"main", "dev"}
    None = None
    Usage = {"none", "root", "below", "self"}
    Change = {"staged", "unstaged", "untracked", "conflicted", "ignored"}
    MinimumAge = 1
    MaxAge = 1
    MaxTrouble = 2
    Text = {"new", Garbled}
    Garbled = Garbled
    Nothing = Nothing
    MaxRecords = 2
    MaxDepth = 2
    MaxTokens = 6
    Character = {0, 10, 31, 32, 34, 47, 92, 97, 127, 159, 160, 55295, 57344, 65535, 65536,
                 66559, 66560, 1114111}
    Code = {0, 97, 55295, 55296, 56319, 56320, 57343, 57344, 65535}
    MaxUnits = 3
INVARIANTS
    EligibleIsSafe
    RemoteIsRespected
    FailureBlocks
    PolicyOrder
    StatusIsUnderstood
    ListIsUnderstood
    DirtyIsAssessed
    ReadsWhatItWrites
    StringsAreRead
    SameOperation
CHECK_DEADLOCK FALSE

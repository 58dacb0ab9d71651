SPECIFICATION Spec
CONSTANTS
    Worktree = {w1, w2}
    Session = {s1, s2, s3}
    Provider = {p1}
    LeaseId = {1, 2, 3}
    MaxTTL = 2
    None = None
SYMMETRY Symmetry
INVARIANTS
    TypeOK
    LeaseExclusive
    ActiveLeaseOwner
    ToldLeaseStands
    OneBeliever
PROPERTY ImplementsLock

SPECIFICATION FairSpec
CONSTANTS
    d1 = d1
    d2 = d2
    n1 = n1
    n2 = n2
    f1 = f1
    f2 = f2
    c1 = c1
    c2 = c2
    r1 = r1
    create = create
    remove = remove
    Daemon = {d1, d2}
    Name = {n1, n2}
    Inode = {f1}
    NameOf <- TwoNames
    Client = {c1}
    OpOf <- SameOp
    File0 <- Links
    Id = {r1}
    IdOf <- SameId
    Attempts = 3
    MaxConnections = 2
    Faults = 2
    None = None
INVARIANTS
    OneAtATime
    NothingSince
PROPERTY EveryAttemptEnds
CHECK_DEADLOCK FALSE

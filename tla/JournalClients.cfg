SPECIFICATION Spec
CONSTANTS
    d1 = d1
    d2 = d2
    n1 = n1
    n2 = n2
    f1 = f1
    f2 = f2
    c1 = c1
    c2 = c2
    r1 = r1
    create = create
    remove = remove
    Daemon = {d1}
    Name = {n1}
    Inode = {f1, f2}
    NameOf <- OneName
    Client = {c1, c2}
    OpOf <- OtherOp
    File0 <- Links
    Id = {r1}
    IdOf <- SameId
    Attempts = 2
    MaxConnections = 3
    Faults = 1
    None = None
INVARIANTS
    TypeOK
    AnswerIsOwn
    ConnectionsCounted
PROPERTY ImplementsOnce
CHECK_DEADLOCK FALSE

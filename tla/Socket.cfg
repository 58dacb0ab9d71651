SPECIFICATION FairSpec
CONSTANTS
    c1 = c1
    c2 = c2
    m1 = m1
    db = db
    otherDb = otherDb
    Command = {c1, c2}
    Manual = {m1}
    Cleaner = {x}
    DbOf <- TwoDbs
    Old = Old
    Invocations = 2
    Faults = 2
    None = None
INVARIANTS
    TypeOK
    FailsForAReason
    AnswerFromOwnDatabase
    NoSocketOfAFailedChild
PROPERTY CommandEnds
CHECK_DEADLOCK FALSE

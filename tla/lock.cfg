CONSTANTS
    Procs = {p1, p2, p3}
    MaxTries = 2
SPECIFICATION FairSpec
INVARIANTS
    TypeOK
    CountMatchesHolders
    Exclusion
    RefusedAfterAllTries
PROPERTIES
    NoSelfUpgradeBySet
    SetReturns
    ImplementsRWLock

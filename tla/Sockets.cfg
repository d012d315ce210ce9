SPECIFICATION FairSpec
CONSTANTS
    Kind <- AllKinds
    ErrsCap = 1
    QLen = 1
    MaxSaid = 3
    MaxSends = 2
\* The one connection ends.
CHECK_DEADLOCK FALSE
INVARIANTS
    TypeOK
    NothingLost
PROPERTIES
    Released
    NothingLeft

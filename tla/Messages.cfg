SPECIFICATION Spec
CONSTANTS
    Time <- Seconds
    Limit <- UpToFive
INVARIANTS
    RangeIsLatest

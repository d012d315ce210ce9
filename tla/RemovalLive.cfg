SPECIFICATION FairSpec
CONSTANTS
    c1 = c1
    c2 = c2
    r1 = r1
    Notifs = Notifs
    Stream = {r1}
    Conn = {c1, c2}
    RiverOf <- OneEach
    Deleter = {d1}
INVARIANTS
    PresentAreHungUp
PROPERTIES
    RemovalReturns
    RemovalEmpties

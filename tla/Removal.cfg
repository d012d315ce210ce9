SPECIFICATION Spec
CONSTANTS
    c1 = c1
    c2 = c2
    r1 = r1
    Notifs = Notifs
    Stream = {r1}
    Conn = {c1, c2}
    RiverOf <- TwoNotifs
    Deleter = {d1, d2}
SYMMETRY Symmetric
INVARIANTS
    FoundHaveLeft
PROPERTIES
    HangupContract

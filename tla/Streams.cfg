SPECIFICATION Spec
CONSTANTS
    ann = ann
    bob = bob
    c1 = c1
    c2 = c2
    c3 = c3
    None = None
    User = {ann, bob}
    Group <- OneOrTwo
    Conn = {c1, c2, c3}
    UserOf <- ThreeConns
    Putter = {p1}
    Deleter = {d1}
INVARIANTS
    RiversAreLive
    Meshed
    AskedAreHungUp
    PresentAreHungUp
PROPERTIES
    DeletedStaysGone
    HangupContract

SPECIFICATION Spec
CONSTANTS
    ann = ann
    bob = bob
    c1 = c1
    c2 = c2
    m1 = m1
    m2 = m2
    e1 = e1
    e2 = e2
    None = None
    User = {ann, bob}
    Owner = ann
    Group <- OneOrTwo
    Conn = {c1, c2}
    UserOf <- TwoConns
    Editor = {e1}
    Message = {}
    SecondOf <- NoMessage
    MaxBuffer = 2
INVARIANTS
    AskedHaveLeft
PROPERTIES
    HangupContract
    ScribeContract

SPECIFICATION Spec
CONSTANTS
    ann = ann
    bob = bob
    c1 = c1
    c2 = c2
    m1 = m1
    m2 = m2
    e1 = e1
    e2 = e2
    None = None
    User = {ann, bob}
    Owner = ann
    Group <- OnlyTwo
    Conn = {c1, c2}
    UserOf <- TwoConns
    Editor = {}
    Message = {m1}
    SecondOf <- OneMessage
    MaxBuffer = 2
PROPERTIES
    LastHangsUp

SPECIFICATION FairSpec
CONSTANTS
    ann = ann
    bob = bob
    c1 = c1
    c2 = c2
    m1 = m1
    m2 = m2
    e1 = e1
    e2 = e2
    None = None
    User = {ann, bob}
    Owner = ann
    Group <- OneOrTwo
    Conn = {c2}
    UserOf <- OneConn
    Editor = {e1, e2}
    Message = {m1, m2}
    SecondOf <- TwoMessages
    MaxBuffer = 2
INVARIANTS
    ConvoHasMessages
PROPERTIES
    DeletedStaysGone
    ReceivedIsLogged

SPECIFICATION Spec
CONSTANTS
    s1 = s1
    s2 = s2
    Free = Free
    Conn = {1, 2}
    MaxTries = 1
    Surveyor <- TwoSurveys
    Foreign <- SecondOnly
INVARIANTS
    CreditedOnce
PROPERTIES
    HangupContract

SPECIFICATION FairSpec
CONSTANTS
    s1 = s1
    s2 = s2
    Free = Free
    Conn = {1, 2}
    MaxTries = 3
    Surveyor <- OneSurvey
    Foreign <- NoSurvey
INVARIANTS
    TypeOK
PROPERTIES
    SurveyEnds
    HungUpLeaves

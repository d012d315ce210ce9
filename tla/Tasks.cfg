SPECIFICATION Spec
CONSTANTS
    ann = ann
    bob = bob
    n1 = n1
    n2 = n2
    None = None
    User = {ann, bob}
    TaskId = {i1}
    Note = {n1, n2}
    Req = {q1, q2, q3, q4}
    Parallel = 2
    Body <- AllBodies
    Grant = {1}
SYMMETRY Symmetric
INVARIANTS
    CoinConserved
    NotesLoad
PROPERTIES
    StoredMembersExist
    DeletionIsFinal
    OwnerSetsTerms

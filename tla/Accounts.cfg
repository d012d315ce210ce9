SPECIFICATION Spec
CONSTANTS
    User = {u1, u2}
    Ticket = {k1, k2}
    Token = {t1, t2}
    Req = {q1, q2}
    None = None
SYMMETRY Symmetric
INVARIANTS
    TypeOK
    TicketAdmitsOne
    AccountsAgree
    RefreshHasContext
    DeletedIsLoggedOut
PROPERTIES
    DeletedForGood
    LogoutIsFinal

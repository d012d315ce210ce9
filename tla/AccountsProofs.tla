--------------------------- MODULE AccountsProofs ---------------------------
(***************************************************************************)
(* Proofs about Accounts, for any number of users, tickets, tokens and     *)
(* concurrent requests.                                                    *)
(***************************************************************************)
EXTENDS Accounts, FiniteSetTheorems, TLAPS

\* A request that is about to act on a user or a token has one.
ReqOK ==
    \A q \in Req :
        /\ req[q].pc \in {"incept", "newlogin", "login", "disable"}
              => req[q].user \in User
        /\ req[q].pc \in {"checkrefresh", "refresh", "recheck", "context"}
              => req[q].token \in Token

\* A request that is not in service has the type of one.
LEMMA IdleIsRequest == Idle \in Request
BY DEF Idle, Request, Pc

\* The empty store of a new server is well typed.
LEMMA InitTyped == Init => TypeOK /\ ReqOK
BY IdleIsRequest DEF Init, TypeOK, ReqOK, Idle

\* Every handler step keeps the types of the store and of the requests.
LEMMA NextTyped == TypeOK /\ ReqOK /\ [Next]_vars => TypeOK' /\ ReqOK'
<1> SUFFICES ASSUME TypeOK, ReqOK, [Next]_vars PROVE (TypeOK /\ ReqOK)'
  OBVIOUS
<1> USE IdleIsRequest
        DEF TypeOK, ReqOK, ticketVars, userVars, tokenVars, Request, Pc, Idle
<1>1. ASSUME NEW q \in Req, NEW k \in Ticket, NewTicket(q, k)
      PROVE (TypeOK /\ ReqOK)'
  <2>1. [Idle EXCEPT !.pc = "rollback", !.ticket = k] \in Request
    OBVIOUS
  <2>2. CASE UNCHANGED req
    BY <1>1, <2>2 DEF NewTicket
  <2>3. CASE Begin(q, [Idle EXCEPT !.pc = "rollback", !.ticket = k])
    BY <1>1, <2>1, <2>3 DEF NewTicket, Begin
  <2> QED BY <1>1, <2>2, <2>3 DEF NewTicket
<1>2. ASSUME NEW q \in Req, RollBackTicket(q)
      PROVE (TypeOK /\ ReqOK)'
  BY <1>2 DEF RollBackTicket, Return
<1>3. ASSUME NEW q \in Req, NEW k \in Ticket, NEW u \in User, CheckIncept(q, k, u)
      PROVE (TypeOK /\ ReqOK)'
  BY <1>3 DEF CheckIncept, Begin, NameIsFree
<1>4. ASSUME NEW q \in Req, Incept(q) PROVE (TypeOK /\ ReqOK)'
  BY <1>4 DEF Incept, Return, NameIsFree, CreateAccount
<1>5. ASSUME NEW q \in Req, NEW u \in User, CheckNewLogin(q, u)
      PROVE (TypeOK /\ ReqOK)'
  BY <1>5 DEF CheckNewLogin, Begin, NameIsFree
<1>6. ASSUME NEW q \in Req, InceptNoTicket(q)
      PROVE (TypeOK /\ ReqOK)'
  BY <1>6 DEF InceptNoTicket, Return, NameIsFree, CreateAccount
<1>7. ASSUME NEW q \in Req, NEW op \in {"call", "logout", "delete"},
             NEW t \in Token, NEW r \in Token, AuthUser(q, op, t, r)
      PROVE (TypeOK /\ ReqOK)'
  BY <1>7, ZenonT(40) DEF AuthUser, Begin
<1>8. ASSUME NEW q \in Req, CheckRefresh(q) PROVE (TypeOK /\ ReqOK)'
  BY <1>8 DEF CheckRefresh, Goto, Return
<1>9. ASSUME NEW q \in Req, RefreshIfValid(q)
      PROVE (TypeOK /\ ReqOK)'
  BY <1>9 DEF RefreshIfValid, Goto, Return
<1>10. ASSUME NEW q \in Req, CheckToken(q) PROVE (TypeOK /\ ReqOK)'
  BY <1>10 DEF CheckToken, Goto, Return
<1>11. ASSUME NEW q \in Req, GetContext(q) PROVE (TypeOK /\ ReqOK)'
  <2> DEFINE u == context[req[q].token]
  <2>1. UNCHANGED <<ticketVars, userVars, tokenVars>>
    BY <1>11 DEF GetContext
  <2>2. CASE u = None \/ req[q].op = "call"
    BY <1>11, <2>1, <2>2 DEF GetContext, Return
  <2>3. CASE ~(u = None \/ req[q].op = "call")
    <3>1. u \in User
      BY <1>11, <2>3 DEF GetContext
    <3>2. PICK pc \in {"logout", "disable"} :
              req' = [req EXCEPT ![q].user = u, ![q].pc = pc]
      BY <1>11, <2>3 DEF GetContext
    <3> HIDE DEF u
    <3>3. req'[q] \in Request /\ req'[q].user \in User /\ req'[q].pc = pc
      BY <3>1, <3>2
    <3>4. \A p \in Req : p # q => req'[p] = req[p]
      BY <3>2
    <3>5. req' \in [Req -> Request]
      BY <3>2, <3>3
    <3>6. ReqOK'
      BY <3>3, <3>4
    <3> QED BY <2>1, <3>5, <3>6
  <2> QED BY <2>2, <2>3
<1>12. ASSUME NEW q \in Req, NEW u \in User, CheckLogin(q, u)
      PROVE (TypeOK /\ ReqOK)'
  BY <1>12 DEF CheckLogin, Begin
<1>13. ASSUME NEW q \in Req, NEW u \in User, CheckUser(q, u)
      PROVE (TypeOK /\ ReqOK)'
  BY <1>13 DEF CheckUser, Begin
<1>14. ASSUME NEW q \in Req, NEW t \in Token, NewSession(q, t)
      PROVE (TypeOK /\ ReqOK)'
  BY <1>14 DEF NewSession, Return
<1>15. ASSUME NEW q \in Req, CheckLogout(q) PROVE (TypeOK /\ ReqOK)'
  BY <1>15, SMTT(40) DEF CheckLogout, Goto, Return
<1>16. ASSUME NEW q \in Req, DeleteToken(q) PROVE (TypeOK /\ ReqOK)'
  BY <1>16 DEF DeleteToken, Return
<1>17. ASSUME NEW q \in Req, HangupFails(q) PROVE (TypeOK /\ ReqOK)'
  BY <1>17 DEF HangupFails, Return
<1>18. ASSUME NEW q \in Req, Disable(q) PROVE (TypeOK /\ ReqOK)'
  BY <1>18 DEF Disable, Return, Find
<1>19. ASSUME NEW k \in Ticket, DeleteTicket(k)
      PROVE (TypeOK /\ ReqOK)'
  BY <1>19 DEF DeleteTicket
<1>20. ASSUME NEW t \in Token, Expire(t) PROVE (TypeOK /\ ReqOK)'
  BY <1>20 DEF Expire
<1>21. CASE Restart
  BY <1>21 DEF Restart
<1>22. CASE UNCHANGED vars
  BY <1>22 DEF vars
<1> QED
  BY <1>1, <1>2, <1>3, <1>4, <1>5, <1>6, <1>7, <1>8, <1>9, <1>10, <1>11,
     <1>12, <1>13, <1>14, <1>15, <1>16, <1>17, <1>18, <1>19, <1>20, <1>21, <1>22
     DEF Next, InceptNext, AuthNext, SessionNext

\* Type correctness of the account store.
THEOREM TypeCorrect == Spec => []TypeOK
<1>1. Spec => [](TypeOK /\ ReqOK)
  BY InitTyped, NextTyped, PTL DEF Spec
<1> QED BY <1>1, PTL

-----------------------------------------------------------------------------
(* Which steps touch which part of the store.                              *)

\* Users and logins change only here.
LEMMA UserSteps ==
    [Next]_vars =>
        \/ \E q \in Req : Incept(q)
        \/ \E q \in Req : InceptNoTicket(q)
        \/ \E q \in Req : Disable(q)
        \/ UNCHANGED userVars
BY DEF Next, InceptNext, AuthNext, SessionNext, vars, ticketVars, userVars,
       tokenVars, NewTicket, RollBackTicket, CheckIncept, CheckNewLogin, AuthUser,
       CheckRefresh, RefreshIfValid, CheckToken, GetContext, CheckLogin,
       CheckUser, NewSession, CheckLogout, DeleteToken, HangupFails,
       DeleteTicket, Expire, Restart

\* Tickets change only here.
LEMMA TicketSteps ==
    [Next]_vars =>
        \/ \E q \in Req, k \in Ticket : NewTicket(q, k)
        \/ \E q \in Req : RollBackTicket(q)
        \/ \E q \in Req : Incept(q)
        \/ \E k \in Ticket : DeleteTicket(k)
        \/ UNCHANGED ticketVars
BY DEF Next, InceptNext, AuthNext, SessionNext, vars, ticketVars, userVars,
       tokenVars, CheckIncept, CheckNewLogin, InceptNoTicket, AuthUser, CheckRefresh,
       RefreshIfValid, CheckToken, GetContext, CheckLogin, CheckUser,
       NewSession, CheckLogout, DeleteToken, HangupFails, Disable, Expire,
       Restart

\* Sessions, refresh tokens and contexts change only here.
LEMMA TokenSteps ==
    [Next]_vars =>
        \/ \E q \in Req : RefreshIfValid(q)
        \/ \E q \in Req, t \in Token : NewSession(q, t)
        \/ \E q \in Req : DeleteToken(q)
        \/ \E q \in Req : Disable(q)
        \/ \E t \in Token : Expire(t)
        \/ Restart
        \/ UNCHANGED tokenVars
BY DEF Next, InceptNext, AuthNext, SessionNext, vars, ticketVars, userVars,
       tokenVars, NewTicket, RollBackTicket, CheckIncept, Incept, CheckNewLogin,
       InceptNoTicket, AuthUser, CheckRefresh, CheckToken, GetContext,
       CheckLogin, CheckUser, CheckLogout, HangupFails, DeleteTicket

-----------------------------------------------------------------------------
\* Users and logins agree: every transaction that changes one changes the
\* other with it.
THEOREM UsersMatchLogins == Spec => []AccountsAgree
<1> USE DEF AccountsAgree
<1>1. Init => AccountsAgree
  BY DEF Init
<1>2. TypeOK /\ ReqOK /\ AccountsAgree /\ [Next]_vars => AccountsAgree'
  <2> SUFFICES ASSUME TypeOK, ReqOK, AccountsAgree, [Next]_vars
               PROVE  AccountsAgree'
    OBVIOUS
  <2>1. ASSUME NEW q \in Req, Incept(q) PROVE AccountsAgree'
    BY <2>1 DEF Incept, NameIsFree, CreateAccount, userVars, TypeOK
  <2>2. ASSUME NEW q \in Req, InceptNoTicket(q) PROVE AccountsAgree'
    BY <2>2 DEF InceptNoTicket, NameIsFree, CreateAccount, userVars, TypeOK
  <2>3. ASSUME NEW q \in Req, Disable(q) PROVE AccountsAgree'
    BY <2>3 DEF Disable, TypeOK
  <2>4. CASE UNCHANGED userVars
    BY <2>4 DEF userVars
  <2> QED BY <2>1, <2>2, <2>3, <2>4, UserSteps
<1> QED BY <1>1, <1>2, InitTyped, NextTyped, PTL DEF Spec

\* The name of a deleted user is never given out again.
THEOREM NamesNotReused == Spec => DeletedForGood
<1> DEFINE Kept == \A u \in User : login[u] = "disabled" => login'[u] = "disabled"
<1>1. TypeOK /\ [Next]_vars => [Kept]_vars
  <2> SUFFICES ASSUME TypeOK, [Next]_vars PROVE Kept
    OBVIOUS
  <2>1. ASSUME NEW q \in Req, Incept(q) PROVE Kept
    BY <2>1 DEF Incept, NameIsFree, CreateAccount, userVars, TypeOK
  <2>2. ASSUME NEW q \in Req, InceptNoTicket(q) PROVE Kept
    BY <2>2 DEF InceptNoTicket, NameIsFree, CreateAccount, userVars, TypeOK
  <2>3. ASSUME NEW q \in Req, Disable(q) PROVE Kept
    BY <2>3 DEF Disable, TypeOK
  <2>4. CASE UNCHANGED userVars
    BY <2>4 DEF userVars
  <2> QED BY <2>1, <2>2, <2>3, <2>4, UserSteps
<1> QED BY <1>1, InitTyped, NextTyped, PTL DEF Spec, DeletedForGood

-----------------------------------------------------------------------------
\* A ticket still in the bucket has admitted nobody, one that was never
\* printed neither, and no two users were admitted with the same one.
TicketInv ==
    /\ tickets \subseteq printed
    /\ \A k \in Ticket : k \in tickets \/ k \notin printed => spent[k] = {}
    /\ \A k \in Ticket : \A u, v \in spent[k] : u = v

\* One ticket, one user: overlapping incepts cannot share a ticket.
THEOREM TicketsAdmitOne == Spec => []TicketAdmitsOne
<1>1. Init => TicketInv
  BY DEF Init, TicketInv
<1>2. TypeOK /\ ReqOK /\ TicketInv /\ [Next]_vars => TicketInv'
  <2> SUFFICES ASSUME TypeOK, ReqOK, TicketInv, [Next]_vars
               PROVE  TicketInv'
    OBVIOUS
  <2> USE DEF TicketInv, TypeOK
  <2>1. ASSUME NEW q \in Req, NEW k \in Ticket, NewTicket(q, k) PROVE TicketInv'
    BY <2>1 DEF NewTicket
  <2>2. ASSUME NEW q \in Req, RollBackTicket(q) PROVE TicketInv'
    BY <2>2 DEF RollBackTicket
  <2>3. ASSUME NEW q \in Req, Incept(q) PROVE TicketInv'
    BY <2>3 DEF Incept
  <2>4. ASSUME NEW k \in Ticket, DeleteTicket(k) PROVE TicketInv'
    BY <2>4 DEF DeleteTicket
  <2>5. CASE UNCHANGED ticketVars
    BY <2>5 DEF ticketVars
  <2> QED BY <2>1, <2>2, <2>3, <2>4, <2>5, TicketSteps
<1>3. TicketInv => TicketAdmitsOne
  <2> SUFFICES ASSUME TicketInv, NEW k \in Ticket
               PROVE  Cardinality(spent[k]) <= 1
    BY DEF TicketAdmitsOne
  <2>1. CASE spent[k] = {}
    BY <2>1, FS_EmptySet
  <2>2. CASE spent[k] # {}
    <3>1. PICK u : spent[k] = {u}
      BY <2>2 DEF TicketInv
    <3> QED BY <3>1, FS_Singleton
  <2> QED BY <2>1, <2>2
<1> QED BY <1>1, <1>2, <1>3, InitTyped, NextTyped, PTL DEF Spec

-----------------------------------------------------------------------------
\* No refresh token is without the context through which Disable finds it,
\* whatever refresh tokens clients send: NewSession stores the two together, and
\* only Disable removes them, together.
THEOREM RefreshKeepsContext == Spec => []RefreshHasContext
<1> USE NoneAssumption DEF RefreshHasContext
<1>1. Init => RefreshHasContext
  BY DEF Init
<1>2. TypeOK /\ ReqOK /\ RefreshHasContext /\ [Next]_vars => RefreshHasContext'
  <2> SUFFICES ASSUME TypeOK, ReqOK, RefreshHasContext, [Next]_vars
               PROVE  RefreshHasContext'
    OBVIOUS
  <2> USE DEF TypeOK
  <2>1. ASSUME NEW q \in Req, NEW t \in Token, NewSession(q, t)
        PROVE  RefreshHasContext'
    BY <2>1 DEF NewSession, ReqOK
  <2>2. ASSUME NEW q \in Req, Disable(q) PROVE RefreshHasContext'
    BY <2>2 DEF Disable, Find
  <2>3. CASE UNCHANGED <<refresh, context>>
    BY <2>3
  <2> QED
    BY <2>1, <2>2, <2>3, TokenSteps
       DEF RefreshIfValid, DeleteToken, Expire, Restart, tokenVars
<1> QED BY <1>1, <1>2, InitTyped, NextTyped, PTL DEF Spec

\* A session that is over stays over: AuthUser refuses it, so nobody comes to
\* refresh it, and NewSession draws a new bearer token.
THEOREM LogoutEnds == Spec => LogoutIsFinal
<1> DEFINE Kept == \A t \in Token : Over(t) => Over(t)'
<1>1. TypeOK /\ ReqOK /\ [Next]_vars => [Kept]_vars
  <2> SUFFICES ASSUME TypeOK, ReqOK, [Next]_vars, NEW t \in Token, Over(t)
               PROVE  Over(t)'
    OBVIOUS
  <2> USE DEF TypeOK
  <2> DEFINE Refreshing(r) == r.token = t /\ r.pc \in {"checkrefresh", "refresh"}
  <2>1. \A q \in Req : ~Refreshing(req[q])
    BY DEF Over
  <2>2. ASSUME NEW q \in Req, AuthNext(q) PROVE ~Refreshing(req'[q])
    <3>1. ASSUME NEW op, NEW s \in Token, NEW r, AuthUser(q, op, s, r)
          PROVE  ~Refreshing(req'[q])
      BY <3>1 DEF AuthUser, Begin, Idle, Over
    <3>2. CASE CheckRefresh(q)
      BY <2>1, <3>2 DEF CheckRefresh, Goto, Return, Idle, Request
    <3>3. CASE RefreshIfValid(q) \/ CheckToken(q)
      BY <3>3 DEF RefreshIfValid, CheckToken, Goto, Return, Idle, Request
    <3>4. CASE GetContext(q)
      BY <3>4 DEF GetContext, Return, Idle, Request
    <3> QED BY <2>2, <3>1, <3>2, <3>3, <3>4 DEF AuthNext
  <2>3. ASSUME NEW q \in Req, InceptNext(q) \/ SessionNext(q)
        PROVE  ~Refreshing(req'[q])
    <3>1. CASE req'[q] \in {req[q], Idle}
      BY <2>1, <3>1 DEF Idle
    <3>2. ASSUME NEW r \in {"rollback", "incept", "newlogin", "login", "disable",
                           "deletetoken"}, req'[q].pc = r
          PROVE  ~Refreshing(req'[q])
      BY <3>2
    <3>3. ASSUME NEW k \in Ticket, NewTicket(q, k)
          PROVE  req'[q] = req[q] \/ req'[q].pc = "rollback"
      BY <3>3 DEF NewTicket, Begin, Idle
    <3>4. ASSUME NEW k, NEW u, CheckIncept(q, k, u)
          PROVE  req'[q].pc = "incept"
      BY <3>4 DEF CheckIncept, Begin, Idle
    <3>5. ASSUME NEW u, CheckNewLogin(q, u) \/ CheckLogin(q, u) \/ CheckUser(q, u)
          PROVE  req'[q].pc \in {"newlogin", "login", "disable"}
      BY <3>5 DEF CheckNewLogin, CheckLogin, CheckUser, Begin, Idle
    <3>6. CASE CheckLogout(q)
      BY <3>1, <3>2, <3>6 DEF CheckLogout, Goto, Return, Request
    <3>7. ASSUME NEW t0 \in Token, NewSession(q, t0)
          PROVE  req'[q] = Idle
      BY <3>7 DEF NewSession, Return
    <3>8. \/ RollBackTicket(q) \/ Incept(q) \/ InceptNoTicket(q)
          \/ DeleteToken(q) \/ HangupFails(q) \/ Disable(q)
          => req'[q] = Idle
      BY DEF RollBackTicket, Incept, InceptNoTicket, DeleteToken, HangupFails,
             Disable, Return
    <3> QED
      BY <2>3, <3>1, <3>2, <3>3, <3>4, <3>5, <3>6, <3>7, <3>8
         DEF InceptNext, SessionNext
  <2>4. ASSUME NEW q \in Req, InceptNext(q) \/ AuthNext(q) \/ SessionNext(q)
        PROVE  \A p \in Req \ {q} : req'[p] = req[p]
    BY <2>4
       DEF InceptNext, SessionNext, AuthNext, NewTicket, RollBackTicket,
           CheckIncept, Incept, CheckNewLogin, InceptNoTicket, AuthUser,
           CheckRefresh, RefreshIfValid, CheckToken, GetContext, CheckLogin,
           CheckUser, NewSession, CheckLogout, DeleteToken, HangupFails,
           Disable, Begin, Goto, Return
  <2>5. Restart \/ (\E k \in Ticket : DeleteTicket(k))
           \/ (\E u \in Token : Expire(u)) \/ UNCHANGED vars
           => \A q \in Req : req'[q] \in {req[q], Idle}
    BY DEF Restart, DeleteTicket, Expire, vars
  \* Nobody comes to refresh it.
  <2>6. \A q \in Req : ~Refreshing(req'[q])
    BY <2>1, <2>2, <2>3, <2>4, <2>5 DEF Next, Idle
  \* Nobody writes it.
  <2>7. t \in issued' /\ session'[t] = "none"
    <3>1. ASSUME NEW q \in Req, RefreshIfValid(q)
          PROVE  t \in issued' /\ session'[t] = "none"
      BY <2>1, <3>1 DEF RefreshIfValid, Over
    <3>2. ASSUME NEW q \in Req, NEW s \in Token, NewSession(q, s)
          PROVE  t \in issued' /\ session'[t] = "none"
      BY <3>2 DEF NewSession, Over
    <3>3. ASSUME NEW q \in Req, DeleteToken(q) \/ Disable(q)
          PROVE  t \in issued' /\ session'[t] = "none"
      BY <3>3 DEF DeleteToken, Disable, Over
    <3>4. ASSUME NEW s \in Token, Expire(s)
          PROVE  t \in issued' /\ session'[t] = "none"
      BY <3>4 DEF Expire, Over
    <3> QED BY <3>1, <3>2, <3>3, <3>4, TokenSteps DEF Restart, tokenVars, Over
  <2> QED BY <2>6, <2>7 DEF Over
<1> QED BY <1>1, InitTyped, NextTyped, PTL DEF Spec, LogoutIsFinal

-----------------------------------------------------------------------------
\* Deleting a user ends every token issued before, however requests overlap:
\* Disable and the disabled login are one transaction, and a context never
\* changes hands.
THEOREM DeletionLogsOut == Spec => []DeletedIsLoggedOut
<1> USE NoneAssumption DEF DeletedIsLoggedOut
<1>1. Init => DeletedIsLoggedOut
  BY DEF Init
<1>2. TypeOK /\ ReqOK /\ DeletedIsLoggedOut /\ [Next]_vars => DeletedIsLoggedOut'
  <2> SUFFICES ASSUME TypeOK, ReqOK, DeletedIsLoggedOut, [Next]_vars
               PROVE  DeletedIsLoggedOut'
    OBVIOUS
  <2> USE DEF TypeOK
  <2>1. ASSUME NEW q \in Req, Disable(q) PROVE DeletedIsLoggedOut'
    BY <2>1 DEF Disable, Find, ReqOK
  <2>2. ASSUME NEW q \in Req, NEW t \in Token, NewSession(q, t)
        PROVE  DeletedIsLoggedOut'
    BY <2>2 DEF NewSession, ReqOK, userVars
  <2>3. ASSUME NEW q \in Req, Incept(q) \/ InceptNoTicket(q)
        PROVE  DeletedIsLoggedOut'
    BY <2>3 DEF Incept, InceptNoTicket, NameIsFree, CreateAccount, userVars,
                tokenVars, ReqOK
  <2>4. CASE UNCHANGED <<login, context, late>>
    BY <2>4
  <2>5. ASSUME NEW q \in Req, RefreshIfValid(q) \/ DeleteToken(q)
        PROVE  UNCHANGED <<login, context, late>>
    BY <2>5 DEF RefreshIfValid, DeleteToken, userVars
  <2>6. ASSUME NEW t \in Token, Expire(t)
        PROVE  UNCHANGED <<login, context, late>>
    BY <2>6 DEF Expire, userVars
  <2>7. Restart => UNCHANGED <<login, context, late>>
    BY DEF Restart, userVars
  <2> QED BY <2>1, <2>2, <2>3, <2>4, <2>5, <2>6, <2>7, UserSteps, TokenSteps
             DEF userVars, tokenVars
<1> QED BY <1>1, <1>2, InitTyped, NextTyped, PTL DEF Spec
=============================================================================

------------------------------ MODULE Accounts ------------------------------
(***************************************************************************)
(* User accounts: incept tickets, users, logins, sessions, refresh tokens  *)
(* and contexts (packages incept, users, auth), and the handlers that      *)
(* change them (rest/incept.go, rest/token.go, rest/admin.go and           *)
(* rest/profile.go, behind rest/middleware/auth.go).                       *)
(*                                                                         *)
(* A handler is a sequence of bolt transactions, each one atomic, with     *)
(* those of other requests in between.  A request that is refused returns  *)
(* without a change; only the refusals that follow an earlier transaction  *)
(* of the same request are steps here.                                     *)
(***************************************************************************)
EXTENDS Naturals, FiniteSets

CONSTANTS
    User,    \* user names
    Ticket,  \* the ticket UUIDs that can be drawn
    Token,   \* the bearer UUIDs that can be drawn, each with a refresh UUID
    Req,     \* requests served at the same time
    None     \* no user, ticket or token

ASSUME NoneAssumption == None \notin User \cup Ticket \cup Token

VARIABLES
    tickets,  \* TicketBucket
    printed,  \* the tickets ever made: a UUID is not drawn twice
    users,    \* UserBucket
    login,    \* LoginBucket: none, enabled or disabled, by user name
    session,  \* SessionBucket: none, valid or expired, by bearer token
    refresh,  \* RefreshBucket: the bearers whose refresh token is stored
    context,  \* ContextBucket: the user of a bearer token, or None
    issued,   \* the bearer tokens ever issued
    late,     \* history: the tokens issued for a login already disabled
    spent,    \* history: the users incepted with each ticket
    req       \* what each request is about to do

ticketVars == <<tickets, printed, spent>>
userVars   == <<users, login>>
tokenVars  == <<session, refresh, context, issued, late>>
vars       == <<ticketVars, userVars, tokenVars, req>>

Idle == [pc |-> "idle", op |-> "none", user |-> None, ticket |-> None,
         token |-> None, rtoken |-> None]

Pc == {"idle", "rollback", "incept", "newlogin", "login", "checkrefresh",
       "refresh", "recheck", "context", "logout", "deletetoken", "disable"}

Request == [pc : Pc, op : {"none", "call", "logout", "delete"},
            user : User \cup {None}, ticket : Ticket \cup {None},
            token : Token \cup {None}, rtoken : Token \cup {None}]

TypeOK ==
    /\ tickets \subseteq Ticket
    /\ printed \subseteq Ticket
    /\ users \subseteq User
    /\ login \in [User -> {"none", "enabled", "disabled"}]
    /\ session \in [Token -> {"none", "valid", "expired"}]
    /\ refresh \subseteq Token
    /\ context \in [Token -> User \cup {None}]
    /\ issued \subseteq Token
    /\ late \subseteq Token
    /\ spent \in [Ticket -> SUBSET User]
    /\ req \in [Req -> Request]

Init ==
    /\ tickets = {}
    /\ printed = {}
    /\ users = {}
    /\ login = [u \in User |-> "none"]
    /\ session = [t \in Token |-> "none"]
    /\ refresh = {}
    /\ context = [t \in Token |-> None]
    /\ issued = {}
    /\ late = {}
    /\ spent = [k \in Ticket |-> {}]
    /\ req = [q \in Req |-> Idle]

Return(q) == req' = [req EXCEPT ![q] = Idle]
Begin(q, r) == req[q] = Idle /\ req' = [req EXCEPT ![q] = r]
Goto(q, pc) == req' = [req EXCEPT ![q].pc = pc]

-----------------------------------------------------------------------------
(* Tickets, incepts and admin-made logins.                                 *)

\* Admin.NewTicket stores new tickets and writes them to the admin; when
\* that write fails, a second transaction takes them back.
NewTicket(q, k) ==
    /\ k \notin printed
    /\ tickets' = tickets \cup {k}
    /\ printed' = printed \cup {k}
    /\ \/ req[q] = Idle /\ UNCHANGED req
       \/ Begin(q, [Idle EXCEPT !.pc = "rollback", !.ticket = k])
    /\ UNCHANGED <<spent, userVars, tokenVars>>

RollBackTicket(q) ==
    /\ req[q].pc = "rollback"
    /\ tickets' = tickets \ {req[q].ticket}
    /\ Return(q)
    /\ UNCHANGED <<printed, spent, userVars, tokenVars>>

\* Admin.DeleteTicket
DeleteTicket(k) ==
    /\ k \in tickets
    /\ tickets' = tickets \ {k}
    /\ UNCHANGED <<printed, spent, userVars, tokenVars, req>>

\* No user and no login has this name, the login of a deleted user included.
NameIsFree(u) == u \notin users /\ login[u] = "none"

CreateAccount(u) ==
    /\ users' = users \cup {u}
    /\ login' = [login EXCEPT ![u] = "enabled"]

\* Mutant: the Update relies on the View's check of the ticket.
InceptTicketUnchecked(q) ==
    LET k == req[q].ticket
        u == req[q].user
    IN  /\ req[q].pc = "incept"
        /\ IF NameIsFree(u)
           THEN /\ tickets' = tickets \ {k}
                /\ spent' = [spent EXCEPT ![k] = @ \cup {u}]
                /\ CreateAccount(u)
           ELSE UNCHANGED <<tickets, spent, userVars>>
        /\ Return(q)
        /\ UNCHANGED <<printed, tokenVars>>

\* Mutant: the Update checks the user again, but not the login.
InceptLoginUnchecked(q) ==
    LET k == req[q].ticket
        u == req[q].user
    IN  /\ req[q].pc = "incept"
        /\ IF k \in tickets /\ u \notin users
           THEN /\ tickets' = tickets \ {k}
                /\ spent' = [spent EXCEPT ![k] = @ \cup {u}]
                /\ CreateAccount(u)
           ELSE UNCHANGED <<tickets, spent, userVars>>
        /\ Return(q)
        /\ UNCHANGED <<printed, tokenVars>>

\* Incept: the View, then the Update that checks everything again.
CheckIncept(q, k, u) ==
    /\ k \in tickets
    /\ NameIsFree(u)
    /\ Begin(q, [Idle EXCEPT !.pc = "incept", !.ticket = k, !.user = u])
    /\ UNCHANGED <<ticketVars, userVars, tokenVars>>

Incept(q) ==
    LET k == req[q].ticket
        u == req[q].user
    IN  /\ req[q].pc = "incept"
        /\ IF k \in tickets /\ NameIsFree(u)
           THEN /\ tickets' = tickets \ {k}
                /\ spent' = [spent EXCEPT ![k] = @ \cup {u}]
                /\ CreateAccount(u)
           ELSE UNCHANGED <<tickets, spent, userVars>>
        /\ Return(q)
        /\ UNCHANGED <<printed, tokenVars>>

\* Admin.NewLogin: InceptNoTicket.
CheckNewLogin(q, u) ==
    /\ NameIsFree(u)
    /\ Begin(q, [Idle EXCEPT !.pc = "newlogin", !.user = u])
    /\ UNCHANGED <<ticketVars, userVars, tokenVars>>

InceptNoTicket(q) ==
    LET u == req[q].user
    IN  /\ req[q].pc = "newlogin"
        /\ IF NameIsFree(u) THEN CreateAccount(u) ELSE UNCHANGED userVars
        /\ Return(q)
        /\ UNCHANGED <<ticketVars, tokenVars>>

-----------------------------------------------------------------------------
(* Token.Create: the View of the login, then the Update of the session,    *)
(* which does not look at the login again.                                 *)

CheckLogin(q, u) ==
    /\ login[u] = "enabled"
    /\ Begin(q, [Idle EXCEPT !.pc = "login", !.user = u])
    /\ UNCHANGED <<ticketVars, userVars, tokenVars>>

NewSession(q, t) ==
    /\ req[q].pc = "login"
    /\ t \notin issued
    /\ late' = late \cup {s \in {t} : login[req[q].user] = "disabled"}
    /\ issued' = issued \cup {t}
    /\ session' = [session EXCEPT ![t] = "valid"]
    /\ context' = [context EXCEPT ![t] = req[q].user]
    /\ refresh' = refresh \cup {t}
    /\ Return(q)
    /\ UNCHANGED <<ticketVars, userVars>>

-----------------------------------------------------------------------------
(* AuthUser and AuthWSUser, in front of every user's handler.              *)

\* Mutant: a missing session is refreshed like an expired one.
AuthUserMissing(q, op, t, r) ==
    /\ t \in issued
    /\ Begin(q, [Idle EXCEPT !.op = op, !.token = t, !.rtoken = r,
                   !.pc = IF session[t] = "valid" THEN "context"
                                                  ELSE "checkrefresh"])
    /\ UNCHANGED <<ticketVars, userVars, tokenVars>>

\* The first CheckToken.  A missing session is refused.  The refresh token need
\* not be the one that was issued with the bearer token: nothing compares them.
AuthUser(q, op, t, r) ==
    /\ t \in issued
    /\ session[t] # "none"
    /\ Begin(q, [Idle EXCEPT !.op = op, !.token = t, !.rtoken = r,
                   !.pc = IF session[t] = "valid" THEN "context"
                                                  ELSE "checkrefresh"])
    /\ UNCHANGED <<ticketVars, userVars, tokenVars>>

\* CheckRefresh
CheckRefresh(q) ==
    /\ req[q].pc = "checkrefresh"
    /\ IF req[q].rtoken \in refresh THEN Goto(q, "refresh") ELSE Return(q)
    /\ UNCHANGED <<ticketVars, userVars, tokenVars>>

\* RefreshIfValid checks the refresh token again and writes a Session under
\* the bearer token, whether or not there still is one.
RefreshIfValid(q) ==
    /\ req[q].pc = "refresh"
    /\ IF req[q].rtoken \in refresh
       THEN /\ session' = [session EXCEPT ![req[q].token] = "valid"]
            /\ Goto(q, "recheck")
       ELSE Return(q) /\ UNCHANGED session
    /\ UNCHANGED <<ticketVars, userVars, refresh, context, issued, late>>

\* CheckToken after the refresh: still an error if it is gone or expired.
CheckToken(q) ==
    /\ req[q].pc = "recheck"
    /\ IF session[req[q].token] = "valid" THEN Goto(q, "context")
                                          ELSE Return(q)
    /\ UNCHANGED <<ticketVars, userVars, tokenVars>>

\* Mutant: the request's user is read from the wrong field of the context.
GetContextWrongField(q) ==
    /\ req[q].pc = "context"
    /\ req' = [req EXCEPT ![q].user = req[q].token, ![q].pc = "disable"]
    /\ UNCHANGED <<ticketVars, userVars, tokenVars>>

\* GetContext names the user; without one the request fails.  A handler that
\* does not touch accounts ends the request as far as this module goes.
GetContext(q) ==
    LET u == context[req[q].token]
    IN  /\ req[q].pc = "context"
        /\ IF u = None \/ req[q].op = "call" THEN Return(q)
           ELSE req' = [req EXCEPT ![q].user = u, ![q].pc =
                          IF req[q].op = "logout" THEN "logout" ELSE "disable"]
        /\ UNCHANGED <<ticketVars, userVars, tokenVars>>

\* Time passes.
Expire(t) ==
    /\ session[t] = "valid"
    /\ session' = [session EXCEPT ![t] = "expired"]
    /\ UNCHANGED <<ticketVars, userVars, refresh, context, issued, late, req>>

-----------------------------------------------------------------------------
(* Token.Delete: a View of the session, then the Update that deletes it.   *)

CheckLogout(q) ==
    /\ req[q].pc = "logout"
    /\ IF session[req[q].token] = "valid" THEN Goto(q, "deletetoken")
                                          ELSE Return(q)
    /\ UNCHANGED <<ticketVars, userVars, tokenVars>>

\* The refresh token and the context stay.
DeleteToken(q) ==
    /\ req[q].pc = "deletetoken"
    /\ session' = [session EXCEPT ![req[q].token] = "none"]
    /\ Return(q)
    /\ UNCHANGED <<ticketVars, userVars, refresh, context, issued, late>>

-----------------------------------------------------------------------------
(* Admin.DeleteUser, and Profile.Delete behind AuthUser: hang up the       *)
(* user's connections (module Survey), then delete and disable in one      *)
(* Update.                                                                 *)

CheckUser(q, u) ==
    /\ u \in users
    /\ Begin(q, [Idle EXCEPT !.pc = "disable", !.user = u])
    /\ UNCHANGED <<ticketVars, userVars, tokenVars>>

\* A survey timed out, failed, or left connections in place.
HangupFails(q) ==
    /\ req[q].pc = "disable"
    /\ Return(q)
    /\ UNCHANGED <<ticketVars, userVars, tokenVars>>

\* Mutant: only the tokens whose session is still valid are found.
FindValid(u) == {t \in Token : context[t] = u /\ session[t] = "valid"}

\* tokens.Find: Disable looks for a user's tokens among the contexts.
Find(u) == {t \in Token : context[t] = u}

\* Mutant: the user is deleted but the login is left enabled.
DisableKeepsLogin(q) ==
    LET u == req[q].user
    IN  /\ req[q].pc = "disable"
        /\ users' = users \ {u}
        /\ refresh' = refresh \ Find(u)
        /\ session' = [t \in Token |-> IF t \in Find(u) THEN "none" ELSE session[t]]
        /\ context' = [t \in Token |-> IF t \in Find(u) THEN None ELSE context[t]]
        /\ Return(q)
        /\ UNCHANGED <<ticketVars, login, issued, late>>

\* Mutant: the refresh tokens are forgotten.
DisableKeepsRefresh(q) ==
    LET u == req[q].user
    IN  /\ req[q].pc = "disable"
        /\ users' = users \ {u}
        /\ login' = [login EXCEPT ![u] = IF @ = "none" THEN "none" ELSE "disabled"]
        /\ session' = [t \in Token |-> IF t \in Find(u) THEN "none" ELSE session[t]]
        /\ context' = [t \in Token |-> IF t \in Find(u) THEN None ELSE context[t]]
        /\ Return(q)
        /\ UNCHANGED <<ticketVars, refresh, issued, late>>

Disable(q) ==
    LET u == req[q].user
    IN  /\ req[q].pc = "disable"
        /\ users' = users \ {u}
        /\ login' = [login EXCEPT ![u] = IF @ = "none" THEN "none" ELSE "disabled"]
        /\ refresh' = refresh \ Find(u)
        /\ session' = [t \in Token |-> IF t \in Find(u) THEN "none" ELSE session[t]]
        /\ context' = [t \in Token |-> IF t \in Find(u) THEN None ELSE context[t]]
        /\ Return(q)
        /\ UNCHANGED <<ticketVars, issued, late>>

-----------------------------------------------------------------------------
\* The server stops at any moment, losing every request in flight but no
\* committed transaction; rest.Bind clears the sessions when it starts again.
Restart ==
    /\ req' = [q \in Req |-> Idle]
    /\ session' = [t \in Token |-> "none"]
    /\ UNCHANGED <<ticketVars, userVars, refresh, context, issued, late>>

InceptNext(q) ==
    \/ \E k \in Ticket : NewTicket(q, k)
    \/ RollBackTicket(q)
    \/ \E k \in Ticket, u \in User : CheckIncept(q, k, u)
    \/ Incept(q)
    \/ \E u \in User : CheckNewLogin(q, u)
    \/ InceptNoTicket(q)

AuthNext(q) ==
    \/ \E op \in {"call", "logout", "delete"}, t, r \in Token :
          AuthUser(q, op, t, r)
    \/ CheckRefresh(q) \/ RefreshIfValid(q) \/ CheckToken(q) \/ GetContext(q)

SessionNext(q) ==
    \/ \E u \in User : CheckLogin(q, u) \/ CheckUser(q, u)
    \/ \E t \in Token : NewSession(q, t)
    \/ CheckLogout(q) \/ DeleteToken(q) \/ HangupFails(q) \/ Disable(q)

Next ==
    \/ \E q \in Req : InceptNext(q) \/ AuthNext(q) \/ SessionNext(q)
    \/ \E k \in Ticket : DeleteTicket(k)
    \/ \E t \in Token : Expire(t)
    \/ Restart

Spec == Init /\ [][Next]_vars

-----------------------------------------------------------------------------
(* Properties.                                                             *)

\* A ticket admits one user, however many incepts with it overlap: Incept
\* punches it in the transaction that creates the user.
TicketAdmitsOne == \A k \in Ticket : Cardinality(spent[k]) <= 1

\* Users and logins never come apart: a user exists exactly when a login of
\* that name exists and is not disabled.
AccountsAgree == \A u \in User : u \in users <=> login[u] = "enabled"

\* The login of a deleted user is retained so that nobody, not even an incept
\* that was checked before the deletion, can take the name again.
DeletedForGood ==
    [][\A u \in User : login[u] = "disabled" => login'[u] = "disabled"]_vars

\* Disable finds refresh tokens through their contexts only, so each of them
\* must have one: a deletion leaves no refresh token behind that no later one
\* could find.  (It may leave a session: RefreshIfValid writes it under any bearer
\* token, with a context or without.)
RefreshHasContext == \A t \in Token : t \in refresh => context[t] # None

\* The session t is gone, by a logout, a deletion or a restart, and so are the
\* requests that found it expired before.
Over(t) ==
    /\ t \in issued /\ session[t] = "none"
    /\ \A q \in Req : req[q].token = t
                         => req[q].pc \notin {"checkrefresh", "refresh"}

\* A session that is over does not come back, whatever refresh tokens are
\* sent with it, although a logout leaves its refresh token and context
\* stored and RefreshIfValid does not look for the session it writes: only a
\* request that overlaps the logout brings it back.
LogoutIsFinal == [][\A t \in Token : Over(t) => Over(t)']_vars

\* "Delete ... deletes all of the user's Sessions, Contexts, and Tokens"
\* (Profile.Delete), the expired ones too: whatever context, and so session or
\* refresh token, a deleted user still has was issued afterwards, by a
\* Token.Create that had checked the login before.
DeletedIsLoggedOut ==
    \A u \in User, t \in Token :
        login[u] = "disabled" /\ context[t] = u => t \in late
=============================================================================

------------------------------ MODULE Removal -------------------------------
(***************************************************************************)
(* Deleting a user: Profile.Delete and Admin.DeleteUser, composed with the *)
(* user's websocket connections to Streams, Convos and notifs.  A deletion *)
(* looks up every river of the user in one View, surveys all of them at    *)
(* once, collects the results, and then deletes the user.  Meanwhile the   *)
(* user connects and leaves, owners of Streams change the members, and     *)
(* another deletion of the same user may be under way.                     *)
(*                                                                         *)
(* A survey is used by its contract (module Hangup, which module Survey    *)
(* implements): by HangupContract below, what it does here is within it.   *)
(***************************************************************************)
EXTENDS Naturals, FiniteSets

CONSTANTS
    Stream,   \* the Streams and Convos
    Notifs,   \* the river of notifications
    Conn,     \* the user's connections, each made once
    RiverOf,  \* the river of each connection
    Deleter   \* the requests to delete the user

ASSUME NotifsAssumption  == Notifs \notin Stream
River == Stream \cup {Notifs}
ASSUME RiverOfAssumption == RiverOf \in [Conn -> River]

VARIABLES
    user,     \* does the user exist?
    member,   \* the Streams whose owner, readers or writers name the user
    bucket,   \* the rivers with a bucket hangups/<river>/<user>
    entry,    \* the Responders stored in these buckets
    conn,     \* where the handler of each connection stands
    waiting,  \* the Responders that listen in AwaitHangup
    hung,     \* the connections whose hangup signal is closed
    del,      \* where each deletion stands
    present,  \* history: the connections served when it began
    survey,   \* the state of each deletion's survey of each river
    expect,   \* the Responders that survey has found
    counted,  \* those whose answer it has counted
    taken     \* the rivers whose result the deletion has collected

connVars == <<bucket, entry, conn>>
survVars == <<survey, expect, counted>>
vars     == <<user, member, connVars, waiting, hung, del, present, survVars,
              taken>>

TypeOK ==
    /\ user \in BOOLEAN
    /\ member \subseteq Stream
    /\ bucket \subseteq River
    /\ entry \subseteq Conn
    /\ conn \in [Conn -> {"idle", "authorized", "checked", "registered",
                          "serving", "leaving", "gone", "failed"}]
    /\ waiting \subseteq Conn
    /\ hung \subseteq Conn
    /\ del \in [Deleter -> {"new", "find", "collect", "failed", "done"}]
    /\ present \in [Deleter -> SUBSET Conn]
    /\ survey \in [Deleter -> [River -> {"none", "asking", "ok", "missing"}]]
    /\ expect \in [Deleter -> [River -> SUBSET Conn]]
    /\ counted \in [Deleter -> [River -> SUBSET Conn]]
    /\ taken \in [Deleter -> SUBSET River]

Init ==
    /\ user = TRUE
    /\ member \in SUBSET Stream
    /\ bucket = {}
    /\ entry = {}
    /\ conn = [c \in Conn |-> "idle"]
    /\ waiting = {}
    /\ hung = {}
    /\ del = [d \in Deleter |-> "new"]
    /\ present = [d \in Deleter |-> {}]
    /\ survey = [d \in Deleter |-> [r \in River |-> "none"]]
    /\ expect = [d \in Deleter |-> [r \in River |-> {}]]
    /\ counted = [d \in Deleter |-> [r \in River |-> {}]]
    /\ taken = [d \in Deleter |-> {}]

-----------------------------------------------------------------------------
(* The user's connections: Stream.Connect, Convo.Connect, Notif.Connect.   *)

At(c, pc, next) ==
    /\ conn[c] = pc
    /\ conn' = [conn EXCEPT ![c] = next]

othersKept == UNCHANGED <<user, member, del, present, survVars, taken>>

\* AuthWSUser finds a session and its context; they may be ones that a login
\* during a deletion made, and then the user is gone (module Accounts).
AuthWSUser(c) ==
    /\ At(c, "idle", "authorized")
    /\ UNCHANGED <<bucket, entry, waiting, hung>> /\ othersKept

\* Connect's View of a Stream or Convo; there is none for notifs.
CheckMember(c) ==
    /\ RiverOf[c] \in member \cup {Notifs}
    /\ At(c, "authorized", "checked")
    /\ UNCHANGED <<bucket, entry, waiting, hung>> /\ othersKept

\* NewResponder.  Streams and Convos start AwaitHangup at once.
NewResponder(c) ==
    /\ At(c, "checked", "registered")
    /\ bucket' = bucket \cup {RiverOf[c]}
    /\ entry' = entry \cup {c}
    /\ waiting' = IF RiverOf[c] = Notifs THEN waiting ELSE waiting \cup {c}
    /\ UNCHANGED hung /\ othersKept

\* NewBus, or NewSub, after which notifs start AwaitHangup.  The websocket is
\* served.
NewRiver(c) ==
    /\ At(c, "registered", "serving")
    /\ waiting' = IF RiverOf[c] = Notifs THEN waiting \cup {c} ELSE waiting
    /\ UNCHANGED <<bucket, entry, hung>> /\ othersKept

\* The Scribe's check-in, NewBus or NewSub fails: Connect returns and leaves
\* its Responder behind, in the database and listening.
RiverFails(c) ==
    /\ At(c, "registered", "failed")
    /\ UNCHANGED <<bucket, entry, waiting, hung>> /\ othersKept

\* The client leaves.
Leave(c) ==
    /\ At(c, "serving", "leaving")
    /\ UNCHANGED <<bucket, entry, waiting, hung>> /\ othersKept

\* The signal is closed: Bind or BindRead returns.
HangUp(c) ==
    /\ c \in hung
    /\ Leave(c)

\* Mutant: the clean-up closes the Responder and leaves its key.
CleanupKeepsKey(c) ==
    /\ At(c, "leaving", "gone")
    /\ waiting' = waiting \ {c}
    /\ UNCHANGED <<bucket, entry, hung>> /\ othersKept

\* The clean-up closes the Responder and deletes it.
Cleanup(c) ==
    /\ At(c, "leaving", "gone")
    /\ entry' = entry \ {c}
    /\ waiting' = waiting \ {c}
    /\ UNCHANGED <<bucket, hung>> /\ othersKept

\* The owner of a Stream puts the user in or out, or deletes it.  "TODO: FIXME:
\* Hang up removed" (Stream.Put): whoever is connected stays.
Put(r) ==
    /\ \/ member' = member \cup {r}
       \/ member' = member \ {r}
    /\ UNCHANGED <<user, connVars, waiting, hung, del, present, survVars, taken>>

-----------------------------------------------------------------------------
(* A deletion.                                                             *)

othersWait == UNCHANGED <<member, connVars>>

\* AuthUser in front of Profile.Delete, or Admin.DeleteUser's CheckUsersExist.
CheckUser(d) ==
    /\ user
    /\ del[d] = "new"
    /\ del' = [del EXCEPT ![d] = "find"]
    /\ present' = [present EXCEPT ![d] = {c \in Conn : conn[c] = "serving"}]
    /\ UNCHANGED <<user, waiting, hung, survVars, taken>> /\ othersWait

\* Mutant: the notifs are left out, "they don't store state".
ConnectedStateful == member \cap bucket

\* convo.GetAll and stream.GetAll, and then the notifs: a river without a
\* bucket was never connected.
Connected == (member \cup {Notifs}) \cap bucket

\* The View that makes the surveys; then they run, all at once.
Find(d) ==
    /\ del[d] = "find"
    /\ del' = [del EXCEPT ![d] = "collect"]
    /\ survey' = [survey EXCEPT ![d] =
          [r \in River |-> IF r \in Connected THEN "asking" ELSE "none"]]
    /\ expect' = [expect EXCEPT ![d] =
          [r \in River |-> {c \in entry : r \in Connected /\ RiverOf[c] = r}]]
    /\ UNCHANGED <<user, waiting, hung, present, counted, taken>> /\ othersWait

\* A Responder receives the question, be the survey or the deletion over or
\* not: it closes its signal and answers.  The answer may come too late.
Answer(d, c) ==
    LET r == RiverOf[c]
    IN  /\ c \in expect[d][r]
        /\ c \in waiting
        /\ hung' = hung \cup {c}
        /\ waiting' = waiting \ {c}
        /\ \/ UNCHANGED counted
           \/ /\ survey[d][r] = "asking"
              /\ counted' = [counted EXCEPT ![d][r] = @ \cup {c}]
        /\ UNCHANGED <<user, del, present, survey, expect, taken>>
        /\ othersWait

\* Mutant: a survey succeeds when its time is up.
ReportOk(d, r) ==
    /\ survey[d][r] = "asking"
    /\ survey' = [survey EXCEPT ![d][r] = "ok"]
    /\ UNCHANGED <<user, waiting, hung, del, present, expect, counted, taken>>
    /\ othersWait

\* MakeSurvey returns.
Report(d, r) ==
    /\ survey[d][r] = "asking"
    /\ survey' = [survey EXCEPT ![d][r] =
          IF expect[d][r] \subseteq counted[d][r] THEN "ok" ELSE "missing"]
    /\ UNCHANGED <<user, waiting, hung, del, present, expect, counted, taken>>
    /\ othersWait

\* CheckMissing reads the whole bucket again, those that came since included.
CheckMissing(r) == {c \in entry : RiverOf[c] = r} = {}

\* Mutant: the loop asks again until the bucket is empty.
TakeRetried(d, r) ==
    /\ del[d] = "collect"
    /\ \/ survey[d][r] = "ok"
       \/ survey[d][r] = "missing" /\ CheckMissing(r)
    /\ r \notin taken[d]
    /\ taken' = [taken EXCEPT ![d] = @ \cup {r}]
    /\ UNCHANGED <<user, waiting, hung, present, survVars, del>> /\ othersWait

\* Mutant: a Missing error counts as "Removed already" without a look.
TakeUnchecked(d, r) ==
    /\ del[d] = "collect"
    /\ survey[d][r] \in {"ok", "missing"}
    /\ r \notin taken[d]
    /\ taken' = [taken EXCEPT ![d] = @ \cup {r}]
    /\ UNCHANGED <<user, waiting, hung, present, survVars, del>> /\ othersWait

\* The request returns an error.
Fail(d) ==
    /\ del' = [del EXCEPT ![d] = "failed"]
    /\ present' = [present EXCEPT ![d] = {}]
    /\ taken' = [taken EXCEPT ![d] = {}]

\* One round of the loop over errs: a Missing error is forgiven when the bucket
\* is empty by now, any other ends the request.
Take(d, r) ==
    /\ del[d] = "collect"
    /\ survey[d][r] \in {"ok", "missing"}
    /\ r \notin taken[d]
    /\ IF survey[d][r] = "ok" \/ CheckMissing(r)
       THEN /\ taken' = [taken EXCEPT ![d] = @ \cup {r}]
            /\ UNCHANGED <<del, present>>
       ELSE Fail(d)
    /\ UNCHANGED <<user, waiting, hung, survVars>> /\ othersWait

Surveyed(d) == {r \in River : survey[d][r] # "none"}

\* time.After(MaxTimeout) in that loop.  The surveys go on.
TimeOut(d) ==
    /\ del[d] = "collect"
    /\ Surveyed(d) \ taken[d] # {}
    /\ Fail(d)
    /\ UNCHANGED <<user, waiting, hung, survVars>> /\ othersWait

\* users.Delete and auth.Disable in one Update.
DeleteUser(d) ==
    /\ del[d] = "collect"
    /\ Surveyed(d) \subseteq taken[d]
    /\ del' = [del EXCEPT ![d] = "done"]
    /\ user' = FALSE
    /\ UNCHANGED <<waiting, hung, present, survVars, taken>> /\ othersWait

-----------------------------------------------------------------------------
ConnNext(c) ==
    \/ AuthWSUser(c) \/ CheckMember(c) \/ NewResponder(c) \/ NewRiver(c)
    \/ RiverFails(c) \/ Leave(c) \/ HangUp(c) \/ Cleanup(c)

DeleteNext(d) ==
    \/ CheckUser(d) \/ Find(d) \/ TimeOut(d) \/ DeleteUser(d)
    \/ \E c \in Conn : Answer(d, c)
    \/ \E r \in River : Report(d, r) \/ Take(d, r)

Next ==
    \/ \E c \in Conn : ConnNext(c)
    \/ \E r \in Stream : Put(r)
    \/ \E d \in Deleter : DeleteNext(d)

Spec == Init /\ [][Next]_vars

(***************************************************************************)
(* Goroutines that can run do run, and MakeSurvey returns (SurveyEnds in   *)
(* module Survey).  No answer has to come, nobody has to connect, to leave *)
(* or to delete the user, and a hangup need not get through.               *)
(***************************************************************************)
Fairness ==
    /\ \A c \in Conn : /\ WF_vars(NewRiver(c) \/ RiverFails(c))
                       /\ WF_vars(Cleanup(c))
    /\ \A d \in Deleter :
          /\ WF_vars(Find(d))
          /\ WF_vars(DeleteUser(d))
          /\ \A r \in River : WF_vars(Report(d, r)) /\ WF_vars(Take(d, r))

FairSpec == Spec /\ Fairness

-----------------------------------------------------------------------------
(* The surveys of one river, as the contract sees them.                    *)

H(r) == INSTANCE Hangup WITH
           Surveyor <- Deleter,
           open     <- {c \in entry : RiverOf[c] = r},
           hung     <- {c \in hung : RiverOf[c] = r},
           asked    <- [d \in Deleter |-> expect[d][r]],
           verdict  <- [d \in Deleter |-> IF survey[d][r] = "none" THEN "idle"
                                          ELSE survey[d][r]],
           missing  <- [d \in Deleter |-> IF survey[d][r] = "missing"
                                          THEN expect[d][r] \ counted[d][r]
                                          ELSE {}]

\* Every river of the user sees its connections and its surveys behave as the
\* contract says, although a deletion runs the surveys together and may return
\* before they do.  (This is \A r \in River : H(r)!Spec, in the form that TLC
\* evaluates.)
HangupContract ==
    /\ \A r \in River : H(r)!Init
    /\ [][\A r \in River : [H(r)!Next]_(H(r)!vars)]_vars

-----------------------------------------------------------------------------
(* Properties.                                                             *)

Found(d) == UNION {expect[d][r] : r \in River}

\* A deletion that went through has ended every connection it found: it was
\* hung up, or it is gone.  A Responder left behind by a failed Connect to the
\* notifs, which nobody listens to, therefore keeps the user from being deleted.
FoundHaveLeft ==
    \A d \in Deleter : del[d] = "done" =>
        \A c \in Found(d) : c \in hung \/ conn[c] = "gone"

\* "It also hangs up all of the user's connected rivers" (Profile.Delete): who
\* was served when the request came is hung up or leaves, unless the Stream had
\* put the user out before the deletion looked for it.
PresentAreHungUp ==
    \A d \in Deleter : del[d] = "done" =>
        \A c \in present[d] :
            \/ c \in hung
            \/ conn[c] \in {"leaving", "gone"}
            \/ RiverOf[c] # Notifs /\ survey[d][RiverOf[c]] = "none"

\* The handler returns, whatever becomes of the connections: Responders left
\* behind and answers that never come make it fail, not hang.
RemovalReturns ==
    \A d \in Deleter : del[d] = "find" ~> del[d] \in {"failed", "done"}

\* The hangup of a connection gets through (see module Survey).
HangupWorks(c) == WF_vars(HangUp(c))

\* A deleted user's connections disappear from the database, but for those whose
\* hangup does not get through and those whose Connect failed and left its
\* Responder there.  One of these does not keep the others.
RemovalEmpties ==
    \A d \in Deleter : \A c \in Conn :
        HangupWorks(c) =>
            (del[d] = "done" /\ c \in Found(d)
                 ~> c \notin entry \/ conn[c] = "failed")
=============================================================================

------------------------------- MODULE Convos -------------------------------
(***************************************************************************)
(* One Convo, the websocket connections to it and its Scribes, the Buses   *)
(* that log what is said: the handlers of rest/convo.go and package convo. *)
(* A Scribe goes by the connection whose handler spawned it.               *)
(*                                                                         *)
(* As in Streams, each transaction is a step, surveys are used by their    *)
(* contract, and a request that its first checks refuse is no step.  The   *)
(* Responders that the database lists follow from where the handlers       *)
(* stand, as in Streams (RiversAreLive).  log.Fatal ends the process: it   *)
(* is a Restart.                                                           *)
(***************************************************************************)
EXTENDS Naturals, Sequences, Functions

CONSTANTS
    User,       \* user names
    Owner,      \* the owner of the Convo
    Group,      \* the readers and writers that the owner sends
    Conn,       \* connections, each made once
    UserOf,     \* the user of each connection
    Editor,     \* the owner's PUT and DELETE requests
    Message,    \* what clients say, each once
    SecondOf,   \* the time of each message, which RFC3339 cuts to the second
    MaxBuffer,  \* how many messages a Scribe writes at a time, at most
    None        \* the Convo does not exist

ASSUME OwnerAssumption == Owner \in User
ASSUME GroupAssumption ==
    /\ Group \subseteq [readers : SUBSET User, writers : SUBSET User]
    /\ None \notin Group
ASSUME UserOfAssumption == UserOf \in [Conn -> User]
ASSUME MessageAssumption ==
    /\ SecondOf \in [Message -> Nat]
    /\ MaxBuffer \in Nat \ {0}

VARIABLES
    created,   \* has the Convo ever been created?
    convo,     \* ConvoBucket: the readers and writers, or None
    messages,  \* is there a bucket messages/<convo>?
    log,       \* the messages in it
    bucket,    \* the users with a bucket hangups/<convo>/<user>
    checkins,  \* the bucket scribes/<convo>: "absent", "empty" or "held"
    scribes,   \* is there a bucket hangups/scribes/<convo>?
    conn,      \* where the handler of each connection stands
    survey,    \* the handler's survey of the Scribes
    signal,    \* the connections whose hangup signal is closed
    scribe,    \* what has become of the Scribe that each connection spawned
    pending,   \* the messages that the Scribe has received and not written
    said,      \* the messages that clients have sent
    edit       \* where each PUT or DELETE stands

riverVars == <<bucket, checkins, scribes, conn, survey>>
scribeVars == <<scribe, pending, said>>
logVars == <<messages, log>>
vars == <<created, convo, logVars, riverVars, signal, scribeVars, edit>>

\* The bucket hangups/<convo>/<user> lists a connection from its Responder's
\* creation to its clean-up, or to a restart if Connect fails in between.
Listed == {"registered", "spawn", "join", "serving", "leaving", "hangup",
           "ask", "missing", "cleanup", "failed"}
ConnPc == {"idle", "checked", "gone"} \cup Listed
Verdict == {"idle", "nobucket", "asking", "ok", "missing"}
ScribeSurvey == [verdict : Verdict,
                 asked   : SUBSET Conn,   \* its Expect()
                 counted : SUBSET Conn]   \* those whose answer it has seen
EditReq == [op      : {"none", "put", "delete"},
            pc      : {"new", "next", "ask", "missing", "commit", "failed",
                       "done"},
            group   : Group \cup {None},  \* what a PUT was sent
            todo    : SUBSET User,        \* who is not hung up yet
            user    : User \cup {None},   \* whom the loop has come to
            survey  : [User -> Verdict],  \* what came of the survey of each
            asked   : SUBSET Conn,        \* Expect() of the surveys, together
            counted : SUBSET Conn]        \* those whose answer they have seen

TypeOK ==
    /\ created \in BOOLEAN
    /\ convo \in Group \cup {None}
    /\ messages \in BOOLEAN
    /\ log \subseteq Message
    /\ bucket \subseteq User
    /\ checkins \in {"absent", "empty", "held"}
    /\ scribes \in BOOLEAN
    /\ conn \in [Conn -> ConnPc]
    /\ survey \in [Conn -> ScribeSurvey]
    /\ signal \subseteq Conn
    /\ scribe \in [Conn -> {"none", "live", "hungup", "gone", "lost"}]
    /\ pending \in [Conn -> Seq(Message)]
    /\ said \subseteq Message
    /\ edit \in [Editor -> EditReq]

NoSurvey == [verdict |-> "idle", asked |-> {}, counted |-> {}]
NewEdit  == [op |-> "none", pc |-> "new", group |-> None, todo |-> {},
             user |-> None, survey |-> [u \in User |-> "idle"], asked |-> {},
             counted |-> {}]

Init ==
    /\ created = FALSE
    /\ convo = None
    /\ messages = FALSE
    /\ log = {}
    /\ bucket = {}
    /\ checkins = "absent"
    /\ scribes = FALSE
    /\ conn = [c \in Conn |-> "idle"]
    /\ survey = [c \in Conn |-> NoSurvey]
    /\ signal = {}
    /\ scribe = [c \in Conn |-> "none"]
    /\ pending = [c \in Conn |-> <<>>]
    /\ said = {}
    /\ edit = [e \in Editor |-> NewEdit]

-----------------------------------------------------------------------------
\* The request returns an error.
Failed(r) == [r EXCEPT !.pc = "failed", !.op = "none", !.group = None,
                       !.todo = {}, !.user = None]

\* What becomes of a Scribe when the server stops.
Stopped(s) == CASE s = "live" -> "lost" [] s = "hungup" -> "gone" [] OTHER -> s

\* The server stops at any moment and is started again: requests, connections
\* and Scribes are gone, and ClearRivers empties the river buckets.
Restart ==
    /\ bucket' = {}
    /\ checkins' = "absent"
    /\ scribes' = FALSE
    /\ conn' = [c \in Conn |-> IF conn[c] = "idle" THEN "idle" ELSE "gone"]
    /\ scribe' = [c \in Conn |-> Stopped(scribe[c])]
    /\ pending' = [c \in Conn |-> <<>>]
    /\ edit' = [e \in Editor |->
          IF edit[e].pc \in {"new", "failed", "done"} THEN edit[e]
          ELSE Failed(edit[e])]
    /\ UNCHANGED <<created, convo, logVars, survey, signal, said>>

Create(g) ==
    /\ ~created
    /\ created' = TRUE
    /\ convo' = g
    /\ messages' = TRUE
    /\ UNCHANGED <<log, riverVars, signal, scribeVars, edit>>

-----------------------------------------------------------------------------
(* Connect.                                                                *)

At(c, pc, next) ==
    /\ conn[c] = pc
    /\ conn' = [conn EXCEPT ![c] = next]

\* The View that loads the Convo and checks its writers.
CheckConnect(c) ==
    /\ convo # None
    /\ UserOf[c] \in convo.writers
    /\ At(c, "idle", "checked")
    /\ UNCHANGED <<created, convo, logVars, bucket, checkins, scribes, survey,
                   signal, scribeVars, edit>>

\* The Responder.  Then the AwaitHangup goroutine starts.
NewResponder(c) ==
    /\ At(c, "checked", "registered")
    /\ bucket' = bucket \cup {UserOf[c]}
    /\ UNCHANGED <<created, convo, logVars, checkins, scribes, survey, signal,
                   scribeVars, edit>>

\* Nothing advances the bucket's sequence number, so everyone's entry has the
\* same key.
Checkin(c) ==
    /\ At(c, "registered", IF checkins = "held" THEN "join" ELSE "spawn")
    /\ checkins' = "held"
    /\ UNCHANGED <<created, convo, logVars, bucket, scribes, survey, signal,
                   scribeVars, edit>>

\* The first to check in makes the Scribe's Responder and Bus, and starts its
\* goroutines.
Spawn(c) ==
    /\ At(c, "spawn", "join")
    /\ scribes' = TRUE
    /\ scribe' = [scribe EXCEPT ![c] = "live"]
    /\ UNCHANGED <<created, convo, logVars, bucket, checkins, survey, signal,
                   pending, said, edit>>

NewBus(c) ==
    /\ At(c, "join", "serving")
    /\ UNCHANGED <<created, convo, logVars, bucket, checkins, scribes, survey,
                   signal, scribeVars, edit>>

\* Checkin, Spawn or NewBus fails: Connect returns and leaves behind what the
\* earlier Updates have stored, its Responder, which listens, and the check-in.
ConnectFails(c) ==
    /\ \E pc \in {"registered", "spawn", "join"} : At(c, pc, "failed")
    /\ UNCHANGED <<created, convo, logVars, bucket, checkins, scribes, survey,
                   signal, scribeVars, edit>>

\* Bind returns: the handshake failed, the client left or was hung up.
Leave(c) ==
    /\ At(c, "serving", "leaving")
    /\ UNCHANGED <<created, convo, logVars, bucket, checkins, scribes, survey,
                   signal, scribeVars, edit>>

\* Checkout deletes the one entry there may be, and nothing is left.  The
\* check-ins of a deleted Convo are absent: somebody else is last.
Checkout(c) ==
    /\ At(c, "leaving", IF checkins = "absent" THEN "cleanup" ELSE "hangup")
    /\ checkins' = IF checkins = "absent" THEN "absent" ELSE "empty"
    /\ UNCHANGED <<created, convo, logVars, bucket, scribes, survey, signal,
                   scribeVars, edit>>

\* The Scribes in the bucket hangups/scribes/<convo>.
Scribes == {d \in Conn : scribe[d] \in {"live", "hungup"}}

\* The Surveyor of Scribe.Hangup.  Before the first Spawn it has no bucket.
NewScribeSurvey(c) ==
    IF scribes
    THEN /\ At(c, "hangup", "ask")
         /\ survey' = [survey EXCEPT ![c] =
               [NoSurvey EXCEPT !.verdict = "asking", !.asked = Scribes]]
         /\ UNCHANGED <<created, convo, logVars, bucket, checkins, scribes,
                        signal, scribeVars, edit>>
    ELSE /\ conn[c] = "hangup"
         /\ Restart

\* A Scribe receives the question, be the survey over or not: it closes its
\* signal and answers, once.  The answer may come too late.
AnswerScribe(c, d) ==
    /\ d \in survey[c].asked
    /\ scribe[d] = "live"
    /\ scribe' = [scribe EXCEPT ![d] = "hungup"]
    /\ \/ UNCHANGED survey
       \/ /\ survey[c].verdict = "asking"
          /\ survey' = [survey EXCEPT ![c].counted = @ \cup {d}]
    /\ UNCHANGED <<created, convo, logVars, bucket, checkins, scribes, conn,
                   signal, pending, said, edit>>

\* Mutant: one answer will do, as there should be one Scribe.
HangupOneScribe(c) ==
    LET all == survey[c].counted # {}
    IN  /\ At(c, "ask", IF all THEN "cleanup" ELSE "missing")
        /\ survey' = [survey EXCEPT ![c].verdict = IF all THEN "ok" ELSE "missing"]
        /\ UNCHANGED <<created, convo, logVars, bucket, checkins, scribes,
                       signal, scribeVars, edit>>

\* MakeSurvey of Scribe.Hangup returns.
HangupScribe(c) ==
    LET all == survey[c].asked \subseteq survey[c].counted
    IN  /\ At(c, "ask", IF all THEN "cleanup" ELSE "missing")
        /\ survey' = [survey EXCEPT ![c].verdict = IF all THEN "ok" ELSE "missing"]
        /\ UNCHANGED <<created, convo, logVars, bucket, checkins, scribes,
                       signal, scribeVars, edit>>

\* CheckMissing is given the bucket of the check-ins.  It returns an error when
\* that is gone, or holds an entry, whose key is not a decimal number.
CheckMissingScribe(c) ==
    IF checkins = "empty"
    THEN /\ At(c, "missing", "cleanup")
         /\ UNCHANGED <<created, convo, logVars, bucket, checkins, scribes, survey,
                        signal, scribeVars, edit>>
    ELSE /\ conn[c] = "missing"
         /\ Restart

\* DeleteBus and Close, DeleteResp and Close.
Cleanup(c) ==
    /\ At(c, "cleanup", "gone")
    /\ UNCHANGED <<created, convo, logVars, bucket, checkins, scribes, survey,
                   signal, scribeVars, edit>>

-----------------------------------------------------------------------------
(* The Scribe.                                                             *)

\* A client says something.  Dials are asynchronous and a BUS drops what does
\* not fit its queues, so any of the Scribes may receive it.
Say(c, m) ==
    /\ conn[c] = "serving"
    /\ m \notin said
    /\ said' = said \cup {m}
    /\ \E H \in SUBSET {d \in Conn : scribe[d] = "live"} :
          pending' = [d \in Conn |-> IF d \in H THEN Append(pending[d], m)
                                     ELSE pending[d]]
    /\ UNCHANGED <<created, convo, logVars, riverVars, signal, scribe, edit>>

\* What is in the bucket after the messages s are put in it, in this order: a
\* later message of the same second replaces an earlier one.
Written(L, s) ==
    {m \in L : \A i \in DOMAIN s : SecondOf[s[i]] # SecondOf[m]}
        \cup {s[i] : i \in {i \in DOMAIN s : \A j \in DOMAIN s :
                               j > i => SecondOf[s[j]] # SecondOf[s[i]]}}

\* One Update of the writer: the first n messages, in a bucket that is made if
\* need be.
Write(c, n) ==
    /\ messages' = TRUE
    /\ log' = Written(log, SubSeq(pending[c], 1, n))
    /\ pending' = [pending EXCEPT ![c] = SubSeq(@, n + 1, Len(@))]

\* Mutant: only a full buffer is written.
FlushFull(c) ==
    /\ scribe[c] \in {"live", "hungup"}
    /\ Len(pending[c]) >= MaxBuffer
    /\ Write(c, MaxBuffer)
    /\ UNCHANGED <<created, convo, riverVars, signal, scribe, said, edit>>

\* The writer's timer fires, or its buffer is full.  Also after the hangup, while
\* the channel toScribe is drained.
Flush(c) ==
    /\ scribe[c] \in {"live", "hungup"}
    /\ \E n \in 1..Len(pending[c]) : n <= MaxBuffer /\ Write(c, n)
    /\ UNCHANGED <<created, convo, riverVars, signal, scribe, said, edit>>

\* The writer finds toScribe closed, drops what it has not written, waits for
\* AwaitHangup to return and deletes the Scribe's Bus and Responder.
EndScribe(c) ==
    /\ scribe[c] = "hungup"
    /\ scribe' = [scribe EXCEPT ![c] = "gone"]
    /\ pending' = [pending EXCEPT ![c] = <<>>]
    /\ UNCHANGED <<created, convo, logVars, riverVars, signal, said, edit>>

-----------------------------------------------------------------------------
(* Put and Delete, which hang users up one after the other.                *)

AllUsers(g) == {Owner} \cup g.readers \cup g.writers

\* Put's Views, and the users that its DiffGroups maps to false.
CheckPut(e, g) ==
    /\ edit[e] = NewEdit
    /\ convo # None
    /\ edit' = [edit EXCEPT ![e] =
          [NewEdit EXCEPT !.op = "put", !.pc = "next", !.group = g,
                          !.todo = AllUsers(convo) \ AllUsers(g)]]
    /\ UNCHANGED <<created, convo, logVars, riverVars, signal, scribeVars>>

CheckDelete(e) ==
    /\ edit[e] = NewEdit
    /\ convo # None
    /\ edit' = [edit EXCEPT ![e] =
          [NewEdit EXCEPT !.op = "delete", !.pc = "next",
                          !.todo = convo.readers]]
    /\ UNCHANGED <<created, convo, logVars, riverVars, signal, scribeVars>>

\* The connections in the bucket hangups/<convo>/<u>.
Responders(u) == {c \in Conn : UserOf[c] = u /\ conn[c] \in Listed}

\* Mutant: the survey is made over the Responders of the whole Convo.
SurveyingAll(r, u) ==
    [r EXCEPT !.pc = "ask", !.todo = @ \ {u}, !.user = u,
              !.survey[u] = "asking",
              !.asked = @ \cup {c \in Conn : conn[c] \in Listed}]

\* One round of either loop.  When the user has never been connected, the break
\* leaves the loop, not the switch.
Surveying(r, u) ==
    IF u \in bucket
    THEN [r EXCEPT !.pc = "ask", !.todo = @ \ {u}, !.user = u,
                   !.survey[u] = "asking", !.asked = @ \cup Responders(u)]
    ELSE [r EXCEPT !.todo = {}, !.survey[u] = "nobucket"]

NewSurvey(e) ==
    /\ edit[e].pc = "next"
    /\ \E u \in edit[e].todo :
          edit' = [edit EXCEPT ![e] = Surveying(edit[e], u)]
    /\ UNCHANGED <<created, convo, logVars, riverVars, signal, scribeVars>>

\* As AnswerScribe.
Answer(e, c) ==
    /\ c \in edit[e].asked
    /\ conn[c] \in Listed /\ c \notin signal
    /\ signal' = signal \cup {c}
    /\ \/ UNCHANGED edit
       \/ /\ edit[e].survey[UserOf[c]] = "asking"
          /\ edit' = [edit EXCEPT ![e].counted = @ \cup {c}]
    /\ UNCHANGED <<created, convo, logVars, riverVars, scribeVars>>

Expect(r, u) == {c \in r.asked : UserOf[c] = u}

\* MakeSurvey returns.
MakeSurvey(e) ==
    LET u == edit[e].user
    IN  /\ edit[e].pc = "ask"
        /\ edit' = [edit EXCEPT ![e] =
              IF Expect(@, u) \subseteq edit[e].counted
              THEN [@ EXCEPT !.pc = "next", !.user = None, !.survey[u] = "ok"]
              ELSE [@ EXCEPT !.pc = "missing", !.survey[u] = "missing"]]
        /\ UNCHANGED <<created, convo, logVars, riverVars, signal, scribeVars>>

\* Mutant: those that have not answered are taken to be gone.
CheckMissingAssumed(e) ==
    /\ edit[e].pc = "missing"
    /\ edit' = [edit EXCEPT ![e].pc = "next", ![e].user = None]
    /\ UNCHANGED <<created, convo, logVars, riverVars, signal, scribeVars>>

\* "Maybe they were removed already": nobody may be left in the user's bucket.
CheckMissing(e) ==
    /\ edit[e].pc = "missing"
    /\ edit' = [edit EXCEPT ![e] =
          IF Responders(edit[e].user) = {}
          THEN [@ EXCEPT !.pc = "next", !.user = None] ELSE Failed(@)]
    /\ UNCHANGED <<created, convo, logVars, riverVars, signal, scribeVars>>

\* Mutant: the Update makes what it does not find.
PutCreates(e) ==
    /\ edit[e].pc = "next" /\ edit[e].op = "put"
    /\ edit[e].todo = {}
    /\ convo' = edit[e].group
    /\ messages' = TRUE
    /\ edit' = [edit EXCEPT ![e].pc = "done"]
    /\ UNCHANGED <<created, log, riverVars, signal, scribeVars>>

\* Put's Update, which looks again.
Put(e) ==
    /\ edit[e].pc = "next" /\ edit[e].op = "put"
    /\ edit[e].todo = {}
    /\ IF convo = None
       THEN /\ edit' = [edit EXCEPT ![e] = Failed(@)]
            /\ UNCHANGED convo
       ELSE /\ edit' = [edit EXCEPT ![e].pc = "done"]
            /\ convo' = edit[e].group
    /\ UNCHANGED <<created, logVars, riverVars, signal, scribeVars>>

\* Mutant: the messages are gone before the Convo is.
DeleteCheckinsAndMessages(e) ==
    /\ edit[e].pc = "next" /\ edit[e].op = "delete"
    /\ edit[e].todo = {}
    /\ checkins' = "absent"
    /\ messages' = FALSE
    /\ log' = {}
    /\ edit' = [edit EXCEPT ![e].pc = "commit"]
    /\ UNCHANGED <<created, convo, bucket, scribes, conn, survey, signal,
                   scribeVars>>

\* After the loop of Delete, its first Update.
DeleteCheckins(e) ==
    /\ edit[e].pc = "next" /\ edit[e].op = "delete"
    /\ edit[e].todo = {}
    /\ checkins' = "absent"
    /\ edit' = [edit EXCEPT ![e].pc = "commit"]
    /\ UNCHANGED <<created, convo, logVars, bucket, scribes, conn, survey, signal,
                   scribeVars>>

\* Its second Update, which fails when there is no bucket of messages.
DeleteConvo(e) ==
    /\ edit[e].pc = "commit"
    /\ IF ~messages
       THEN /\ edit' = [edit EXCEPT ![e] = Failed(@)]
            /\ UNCHANGED <<convo, logVars>>
       ELSE /\ edit' = [edit EXCEPT ![e].pc = "done"]
            /\ convo' = None
            /\ messages' = FALSE
            /\ log' = {}
    /\ UNCHANGED <<created, riverVars, signal, scribeVars>>

-----------------------------------------------------------------------------
ConnNext(c) ==
    \/ CheckConnect(c) \/ NewResponder(c) \/ Checkin(c) \/ Spawn(c)
    \/ NewBus(c) \/ ConnectFails(c) \/ Leave(c) \/ Checkout(c)
    \/ NewScribeSurvey(c) \/ HangupScribe(c) \/ CheckMissingScribe(c)
    \/ Cleanup(c)

ScribeNext(c) ==
    \/ \E m \in Message : Say(c, m)
    \/ \E d \in Conn : AnswerScribe(c, d)
    \/ Flush(c) \/ EndScribe(c)

EditNext(e) ==
    \/ \E g \in Group : CheckPut(e, g)
    \/ \E c \in Conn : Answer(e, c)
    \/ CheckDelete(e) \/ NewSurvey(e) \/ MakeSurvey(e) \/ CheckMissing(e)
    \/ Put(e) \/ DeleteCheckins(e) \/ DeleteConvo(e)

Next ==
    \/ \E g \in Group : Create(g)
    \/ \E c \in Conn : ConnNext(c) \/ ScribeNext(c)
    \/ \E e \in Editor : EditNext(e)
    \/ Restart

Spec == Init /\ [][Next]_vars

\* The writer's timer fires, and its goroutine runs: nothing is assumed of
\* clients and handlers.
FairSpec == Spec /\ \A c \in Conn : WF_vars(Flush(c))

-----------------------------------------------------------------------------
(* The surveys of each bucket, as the contract sees them.                  *)

H(u) == INSTANCE Hangup WITH
           Surveyor <- Editor,
           open     <- Responders(u),
           hung     <- {c \in signal : UserOf[c] = u},
           asked    <- [e \in Editor |-> Expect(edit[e], u)],
           verdict  <- [e \in Editor |-> edit[e].survey[u]],
           missing  <- [e \in Editor |-> IF edit[e].survey[u] = "missing"
                                         THEN Expect(edit[e], u) \ edit[e].counted
                                         ELSE {}]

S == INSTANCE Hangup WITH
        Surveyor <- Conn,
        open     <- Scribes,
        hung     <- {d \in Conn : scribe[d] \in {"hungup", "gone"}},
        asked    <- [c \in Conn |-> survey[c].asked],
        verdict  <- [c \in Conn |-> survey[c].verdict],
        missing  <- [c \in Conn |-> IF survey[c].verdict = "missing"
                                    THEN survey[c].asked \ survey[c].counted
                                    ELSE {}]

\* The bucket of each user sees the connections come and go, the surveys of PUTs
\* and DELETEs ask and report, and the server stop, as the contract of
\* MakeSurvey says: a late answer, or a request that was given up, does not hang
\* up anybody the survey did not find.  (This is \A u \in User : H(u)!Spec, in the
\* form that TLC evaluates.)
HangupContract ==
    /\ \A u \in User : H(u)!Init
    /\ [][\A u \in User : [H(u)!Next]_(H(u)!vars)]_vars

\* So does the bucket of the Scribes, several of which may be alive, and which
\* the handlers of several connections may hang up at the same time.
ScribeContract == S!Init /\ [][S!Next]_(S!vars)

-----------------------------------------------------------------------------
(* Properties.                                                             *)

\* A PUT or DELETE that was carried out has hung up every connection that its
\* surveys found, or it had gone: a timeout or a failed survey of one user of
\* several does not let the change through.
AskedHaveLeft ==
    \A e \in Editor : edit[e].pc = "done" =>
        edit[e].asked \subseteq signal \cup {c \in Conn : conn[c] = "gone"}

\* A Convo has its message bucket, whatever Scribes and requests do: without it
\* GetMessages and Delete would fail for good.
ConvoHasMessages == convo # None => messages

\* A second of which a message was logged keeps one as long as the Convo
\* lasts, although several Scribes, also of earlier connections, may write.
\* (ConvosProofs proves it; no run has the Scribes and messages that it takes.)
LogIsKept ==
    [][convo' # None =>
          {SecondOf[m] : m \in log} \subseteq {SecondOf[m] : m \in log'}]_vars

\* A deleted Convo does not come back, although a PUT makes any number of
\* surveys between its check and the Update that writes.
DeletedStaysGone ==
    [][created /\ convo = None => convo' = None]_vars

\* A message that a Scribe has received is logged within the writer's period,
\* unless the Scribe is hung up or the server stops.
ReceivedIsLogged ==
    \A c \in Conn : \A m \in Message :
        scribe[c] = "live" /\ m \in Range(pending[c])
            ~> \/ scribe[c] # "live"
               \/ \E n \in log : SecondOf[n] = SecondOf[m]

\* Checkout "returns true if it is the last to check out": whoever is told to
\* hang the Scribe up leaves nobody behind who is checked in and served.
LastHangsUp ==
    [][\A c \in Conn : conn[c] = "leaving" /\ conn'[c] = "hangup" =>
          \A d \in Conn \ {c} : conn[d] # "serving"]_vars
=============================================================================

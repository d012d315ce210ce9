------------------------------ MODULE Streams -------------------------------
(***************************************************************************)
(* One Stream and the websocket connections to it: the handlers of         *)
(* rest/stream.go, package stream, and the Buses of stream/river.  Streams *)
(* share nothing: every record, bucket and address holds the Stream's ID.  *)
(*                                                                         *)
(* A hangup survey is used by its contract (module Hangup, which module    *)
(* Survey implements): by HangupContract below, what it does here is       *)
(* within it.  Each Update is a step; a request that is refused by its     *)
(* first checks changes nothing and is not one.  Users are not deleted     *)
(* here.                                                                   *)
(***************************************************************************)
EXTENDS Naturals, FiniteSets

CONSTANTS
    User,     \* user names
    Group,    \* the readers and writers that the owner sends
    Conn,     \* connections, each made once
    UserOf,   \* the user of each connection
    Putter,   \* the owner's PUT requests
    Deleter,  \* the owner's DELETE requests
    None      \* the Stream does not exist

ASSUME GroupAssumption ==
    /\ Group \subseteq [readers : SUBSET User, writers : SUBSET User]
    /\ None \notin Group
ASSUME UserOfAssumption == UserOf \in [Conn -> User]

VARIABLES
    created,  \* has the Stream ever been created?
    stream,   \* StreamBucket: the readers and writers, or None
    bucket,   \* the users with a bucket hangups/<stream>/<user>
    resp,     \* the Responders stored in those buckets
    bus,      \* the Buses stored in the bucket <stream>/<user>
    dialed,   \* the pairs of Buses of which the first dialed the second
    conn,     \* where the handler of each connection stands
    signal,   \* the connections whose hangup signal is closed
    put,      \* where each PUT stands, and what it was sent
    del       \* where each DELETE stands

riverVars == <<bucket, resp, bus, dialed, conn>>
vars      == <<created, stream, riverVars, signal, put, del>>

ConnPc == {"idle", "checked", "registered", "serving", "leaving", "gone",
           "failed"}
PutReq == [pc : {"new", "put", "done"}, group : Group \cup {None}]
Verdict == {"idle", "nobucket", "asking", "ok", "missing"}
DelReq == [pc : {"new", "next", "ask", "failed", "done"},
           todo    : SUBSET User,   \* existing.Readers not hung up yet
           survey  : [User -> Verdict],  \* what came of the survey of each
           asked   : SUBSET Conn,   \* Expect() of its surveys, together
           counted : SUBSET Conn,   \* those of them whose answer they have seen
           unasked : SUBSET User,   \* history: those the loop passes over
           present : SUBSET Conn]   \* history: who was served when it began

TypeOK ==
    /\ created \in BOOLEAN
    /\ stream \in Group \cup {None}
    /\ bucket \subseteq User
    /\ resp \subseteq Conn
    /\ bus \subseteq Conn
    /\ dialed \subseteq Conn \X Conn
    /\ conn \in [Conn -> ConnPc]
    /\ signal \subseteq Conn
    /\ put \in [Putter -> PutReq]
    /\ del \in [Deleter -> DelReq]

NewPut == [pc |-> "new", group |-> None]
NewDel == [pc |-> "new", todo |-> {}, survey |-> [u \in User |-> "idle"],
           asked |-> {}, counted |-> {}, unasked |-> {}, present |-> {}]

Init ==
    /\ created = FALSE
    /\ stream = None
    /\ bucket = {}
    /\ resp = {}
    /\ bus = {}
    /\ dialed = {}
    /\ conn = [c \in Conn |-> "idle"]
    /\ signal = {}
    /\ put = [p \in Putter |-> NewPut]
    /\ del = [d \in Deleter |-> NewDel]

-----------------------------------------------------------------------------
(* Create and Put.                                                         *)

Create(g) ==
    /\ ~created
    /\ created' = TRUE
    /\ stream' = g
    /\ UNCHANGED <<riverVars, signal, put, del>>

\* Put's two Views: the Stream exists and belongs to the user.
CheckPut(p, g) ==
    /\ put[p] = NewPut
    /\ stream # None
    /\ put' = [put EXCEPT ![p] = [pc |-> "put", group |-> g]]
    /\ UNCHANGED <<created, stream, riverVars, signal, del>>

\* Mutant: the Update relies on the View's check.
PutUnchecked(p) ==
    /\ put[p].pc = "put"
    /\ stream' = put[p].group
    /\ put' = [put EXCEPT ![p] = [NewPut EXCEPT !.pc = "done"]]
    /\ UNCHANGED <<created, riverVars, signal, del>>

\* Put's Update, which looks again.  Nobody is hung up.
Put(p) ==
    /\ put[p].pc = "put"
    /\ stream' = IF stream = None THEN None ELSE put[p].group
    /\ put' = [put EXCEPT ![p] = [NewPut EXCEPT !.pc = "done"]]
    /\ UNCHANGED <<created, riverVars, signal, del>>

-----------------------------------------------------------------------------
(* Connect.                                                                *)

At(c, pc, next) ==
    /\ conn[c] = pc
    /\ conn' = [conn EXCEPT ![c] = next]

\* The View that loads the Stream and checks its writers.
CheckConnect(c) ==
    /\ stream # None
    /\ UserOf[c] \in stream.writers
    /\ At(c, "idle", "checked")
    /\ UNCHANGED <<created, stream, bucket, resp, bus, dialed, signal, put,
                   del>>

\* The first Update.  Then the AwaitHangup goroutine starts.
NewResponder(c) ==
    /\ At(c, "checked", "registered")
    /\ bucket' = bucket \cup {UserOf[c]}
    /\ resp' = resp \cup {c}
    /\ UNCHANGED <<created, stream, bus, dialed, signal, put, del>>

\* Mutant: only the Buses of the same user are dialed.
NewBusOwnOnly(c) ==
    /\ At(c, "registered", "serving")
    /\ bus' = bus \cup {c}
    /\ dialed' = dialed \cup {<<c, d>> : d \in {e \in bus :
                                                UserOf[e] = UserOf[c]}}
    /\ UNCHANGED <<created, stream, bucket, resp, signal, put, del>>

\* The second Update: the Bus listens and dials every Bus of the Stream.
\* Then the websocket is served.
NewBus(c) ==
    /\ At(c, "registered", "serving")
    /\ bus' = bus \cup {c}
    /\ dialed' = dialed \cup ({c} \X bus)
    /\ UNCHANGED <<created, stream, bucket, resp, signal, put, del>>

\* The second Update fails: Connect returns and leaves its Responder behind, in
\* the database and listening.
BusFails(c) ==
    /\ At(c, "registered", "failed")
    /\ UNCHANGED <<created, stream, bucket, resp, bus, dialed, signal, put,
                   del>>

\* Bind returns: the handshake failed, the client left or was hung up.
Leave(c) ==
    /\ At(c, "serving", "leaving")
    /\ UNCHANGED <<created, stream, bucket, resp, bus, dialed, signal, put,
                   del>>

\* Mutant: the Responder stays in the database.
CleanupKeepsResponder(c) ==
    /\ At(c, "leaving", "gone")
    /\ bus' = bus \ {c}
    /\ dialed' = {l \in dialed : c \notin {l[1], l[2]}}
    /\ UNCHANGED <<created, stream, bucket, resp, signal, put, del>>

\* The clean-up Update: DeleteBus and Close, DeleteResp and Close.
Cleanup(c) ==
    /\ At(c, "leaving", "gone")
    /\ bus' = bus \ {c}
    /\ dialed' = {l \in dialed : c \notin {l[1], l[2]}}
    /\ resp' = resp \ {c}
    /\ UNCHANGED <<created, stream, bucket, signal, put, del>>

-----------------------------------------------------------------------------
(* Delete.                                                                 *)

\* The View that loads the Stream and checks the owner.
CheckDelete(d) ==
    /\ del[d] = NewDel
    /\ stream # None
    /\ del' = [del EXCEPT ![d] =
          [NewDel EXCEPT !.pc = "next", !.todo = stream.readers,
                         !.unasked = User \ stream.readers,
                         !.present = {c \in Conn : conn[c] = "serving"}]]
    /\ UNCHANGED <<created, stream, riverVars, signal, put>>

\* The Responders stored in the bucket hangups/<stream>/<u>.
Responders(u) == {c \in resp : UserOf[c] = u}

\* Mutant: the loop ends with the first Reader.
SurveyingFirst(r, u) ==
    [r EXCEPT !.pc = "ask", !.todo = {}, !.survey[u] = "asking",
              !.asked = @ \cup Responders(u)]

\* Mutant: the survey is made over the Responders of the whole Stream.
SurveyingAll(r, u) ==
    [r EXCEPT !.pc = "ask", !.todo = @ \ {u}, !.survey[u] = "asking",
              !.asked = @ \cup resp]

\* One round of the loop over the Readers.  When the Reader has never been
\* connected, the break leaves the loop, not the switch.
Surveying(r, u) ==
    IF u \in bucket
    THEN [r EXCEPT !.pc = "ask", !.todo = @ \ {u}, !.survey[u] = "asking",
                   !.asked = @ \cup Responders(u)]
    ELSE [r EXCEPT !.todo = {}, !.survey[u] = "nobucket",
                   !.unasked = @ \cup r.todo]

\* The Readers are a map: the next one is any of them.
NewSurvey(d) ==
    /\ del[d].pc = "next"
    /\ \E u \in del[d].todo :
          del' = [del EXCEPT ![d] = Surveying(del[d], u)]
    /\ UNCHANGED <<created, stream, riverVars, signal, put>>

\* A Responder receives the question, be the survey or the request over or not:
\* it closes its signal and answers, once.  The answer may come too late.
Answer(d, c) ==
    /\ c \in del[d].asked
    /\ c \in resp \ signal
    /\ signal' = signal \cup {c}
    /\ \/ UNCHANGED del
       \/ /\ del[d].survey[UserOf[c]] = "asking"
          /\ del' = [del EXCEPT ![d].counted = @ \cup {c}]
    /\ UNCHANGED <<created, stream, riverVars, put>>

\* The request returns an error.
Failed(r) == [r EXCEPT !.pc = "failed", !.todo = {}, !.unasked = {},
                       !.present = {}]

Expect(r, u) == {c \in r.asked : UserOf[c] = u}

\* Mutant: a survey that fails does not end the request.
MakeSurveyIgnored(d, u) ==
    /\ del[d].pc = "ask" /\ del[d].survey[u] = "asking"
    /\ del' = [del EXCEPT ![d].pc = "next", ![d].survey[u] =
          IF Expect(del[d], u) \subseteq del[d].counted THEN "ok" ELSE "missing"]
    /\ UNCHANGED <<created, stream, riverVars, signal, put>>

\* MakeSurvey returns.  Delete returns its error, if any.
MakeSurvey(d, u) ==
    /\ del[d].pc = "ask" /\ del[d].survey[u] = "asking"
    /\ del' = [del EXCEPT ![d] =
          IF Expect(@, u) \subseteq del[d].counted
          THEN [@ EXCEPT !.pc = "next", !.survey[u] = "ok"]
          ELSE [Failed(@) EXCEPT !.survey[u] = "missing"]]
    /\ UNCHANGED <<created, stream, riverVars, signal, put>>

\* The Update after the loop.
DeleteStream(d) ==
    /\ del[d].pc = "next"
    /\ del[d].todo = {}
    /\ stream' = None
    /\ del' = [del EXCEPT ![d].pc = "done"]
    /\ UNCHANGED <<created, riverVars, signal, put>>

-----------------------------------------------------------------------------
\* The server stops at any moment and is started again: requests and
\* connections are gone, and ClearRivers empties the river buckets.
Restart ==
    /\ bucket' = {}
    /\ resp' = {}
    /\ bus' = {}
    /\ dialed' = {}
    /\ conn' = [c \in Conn |-> IF conn[c] = "idle" THEN "idle" ELSE "gone"]
    /\ put' = [p \in Putter |-> IF put[p].pc = "put" THEN NewPut ELSE put[p]]
    /\ del' = [d \in Deleter |-> IF del[d].pc \in {"next", "ask"}
                                 THEN Failed(del[d]) ELSE del[d]]
    /\ UNCHANGED <<created, stream, signal>>

ConnNext(c) ==
    \/ CheckConnect(c) \/ NewResponder(c) \/ NewBus(c) \/ BusFails(c)
    \/ Leave(c) \/ Cleanup(c)

DeleteNext(d) ==
    \/ CheckDelete(d) \/ NewSurvey(d) \/ DeleteStream(d)
    \/ \E c \in Conn : Answer(d, c)
    \/ \E u \in User : MakeSurvey(d, u)

Next ==
    \/ \E g \in Group : Create(g)
    \/ \E p \in Putter : Put(p) \/ \E g \in Group : CheckPut(p, g)
    \/ \E c \in Conn : ConnNext(c)
    \/ \E d \in Deleter : DeleteNext(d)
    \/ Restart

Spec == Init /\ [][Next]_vars

-----------------------------------------------------------------------------
(* The surveys of one Reader's bucket, as the contract sees them.          *)

H(u) == INSTANCE Hangup WITH
           Surveyor <- Deleter,
           open     <- Responders(u),
           hung     <- {c \in signal : UserOf[c] = u},
           asked    <- [d \in Deleter |-> Expect(del[d], u)],
           verdict  <- [d \in Deleter |-> del[d].survey[u]],
           missing  <- [d \in Deleter |-> IF del[d].survey[u] = "missing"
                                          THEN Expect(del[d], u) \ del[d].counted
                                          ELSE {}]

\* The bucket of each Reader sees the connections come and go, the surveys of
\* the DELETEs ask and report, and the server stop, as the contract says: a
\* DELETE asks a Reader once, only those who are listed hear of it, and "ok" means
\* that they have been hung up, whoever left in the meantime.  (This is
\* \A u \in User : H(u)!Spec, in the form that TLC evaluates.)
HangupContract ==
    /\ \A u \in User : H(u)!Init
    /\ [][\A u \in User : [H(u)!Next]_(H(u)!vars)]_vars

-----------------------------------------------------------------------------
(* Properties.                                                             *)

\* The database lists the Buses that are listening and no others, also after a
\* restart: a Bus dials everyone it finds there, and the clean-up of a connection
\* is fatal to the server when it finds itself missing.  It lists the Responders
\* of those connections, which a survey waits for, and no others but those that
\* a Connect without a Bus has left behind: they stay until a restart, and
\* answer one survey only.
RiversAreLive ==
    /\ resp = {c \in Conn : conn[c] \in {"registered", "serving", "leaving",
                                         "failed"}}
    /\ bus = {c \in Conn : conn[c] \in {"serving", "leaving"}}

\* Whatever the order of arrival, any two Buses of the Stream are joined, by
\* one dial: every message reaches everyone once.
Meshed ==
    /\ dialed \subseteq bus \X bus
    /\ \A c, d \in bus : c # d =>
          (<<c, d>> \in dialed <=> <<d, c>> \notin dialed)

\* A deleted Stream does not come back, although a Put checks it in an earlier
\* transaction than the one that writes it.
DeletedStaysGone ==
    [][created /\ stream = None => stream' = None]_vars

\* A Delete that removed the Stream has hung up every connection it found in
\* the database: one failed survey of several keeps the Stream.
AskedAreHungUp ==
    \A d \in Deleter : del[d].pc = "done" => del[d].asked \subseteq signal

\* "Before deleting the Stream, make sure everyone in it is hung up" (Delete):
\* whoever was served when the request came is hung up when the Stream is gone
\* or has left, unless the user was no Reader, or the loop broke off at a Reader
\* who had never connected.  No other order of connections, surveys and Puts
\* leaves anyone behind.
PresentAreHungUp ==
    \A d \in Deleter : del[d].pc = "done" =>
        \A c \in del[d].present :
            conn[c] = "serving" => c \in signal \/ UserOf[c] \in del[d].unasked
=============================================================================

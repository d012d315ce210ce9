---------------------------- MODULE ConvosProofs ----------------------------
(***************************************************************************)
(* Proofs about Convos, for any users, groups, connections, messages and   *)
(* requests.                                                               *)
(***************************************************************************)
EXTENDS Convos, SequenceTheorems, WellFoundedInduction, TLAPS

\* Connections whose clean-up is done, and those that have had a Responder.
Gone == {c \in Conn : conn[c] = "gone"}
Known == {c \in Conn : conn[c] \in Listed \cup {"gone"}}

\* The bucket of a user with a connection exists, and only those who have had a
\* Responder were hung up.
EntryOK ==
    /\ signal \subseteq Known
    /\ \A c \in Conn : conn[c] \in Listed => UserOf[c] \in bucket

\* AskedHaveLeft while a PUT or DELETE is under way: an answer is counted after
\* its signal is closed, a survey that is over has counted everyone, and the loop
\* goes on when it has or when those it asked are gone.
SurveyOf(e) ==
    /\ edit[e].asked \subseteq Known
    /\ edit[e].counted \subseteq signal
    /\ edit[e].pc = "ask" =>
          edit[e].user \in User /\ edit[e].survey[edit[e].user] = "asking"
    /\ \A u \in User :
          /\ u \in edit[e].todo => edit[e].survey[u] = "idle"
          /\ edit[e].survey[u] \in {"idle", "nobucket"} => Expect(edit[e], u) = {}
          /\ edit[e].survey[u] = "ok" => Expect(edit[e], u) \subseteq edit[e].counted
          /\ edit[e].survey[u] = "asking" =>
                \/ edit[e].pc = "failed"
                \/ edit[e].pc = "ask" /\ edit[e].user = u
          /\ edit[e].survey[u] = "missing" =>
                \/ edit[e].pc = "failed"
                \/ edit[e].pc = "missing" /\ edit[e].user = u
                \/ Expect(edit[e], u) \subseteq Gone

EditsOK == \A e \in Editor : SurveyOf(e)

\* Where a connection stands before it may have a Scribe.
Early == {"idle", "checked", "registered", "spawn"}

\* The Scribes that were hung up.
Hung == {d \in Conn : scribe[d] \in {"hungup", "gone"}}

\* A connection spawns one Scribe at most and makes one survey of them at most,
\* which counts no Scribe before it is hung up.
ScribesOK ==
    \A c \in Conn :
        /\ conn[c] \in Early => scribe[c] = "none"
        /\ conn[c] \in Early \cup {"join", "serving", "leaving", "hangup"} =>
              survey[c] = NoSurvey
        /\ conn[c] = "ask" => survey[c].verdict = "asking"
        /\ survey[c].counted \subseteq Hung

\* The inductive invariant.
Safe == TypeOK /\ EntryOK /\ EditsOK /\ ScribesOK /\ ConvoHasMessages

\* There is no Convo, no connection and no request at first.
LEMMA InitSafe == Init => Safe
<1> SUFFICES ASSUME Init
             PROVE  Safe
    OBVIOUS
<1>1. TypeOK
  <2>1. edit \in [Editor -> EditReq]
        BY DEF Init, EditReq, NewEdit, Verdict
  <2>2. pending \in [Conn -> Seq(Message)]
        BY DEF Init
  <2>3. conn \in [Conn -> ConnPc] /\ survey \in [Conn -> ScribeSurvey]
        BY DEF Init, ConnPc, ScribeSurvey, NoSurvey, Verdict
  <2>4. QED  BY <2>1, <2>2, <2>3 DEF Init, TypeOK
<1>2. EntryOK /\ EditsOK
      BY DEF Init, EntryOK, EditsOK, SurveyOf, Expect, NewEdit, Listed
<1>3. ScribesOK
      BY DEF Init, ScribesOK, NoSurvey
<1>4. ConvoHasMessages
      BY DEF Init, ConvoHasMessages
<1>5. QED  BY <1>1, <1>2, <1>3, <1>4 DEF Safe

-----------------------------------------------------------------------------
\* What a step of a handler may do to the connections and Scribes.
LEMMA RestartTyped == TypeOK /\ Restart => TypeOK'
<1> SUFFICES ASSUME TypeOK, Restart
             PROVE  TypeOK'
    OBVIOUS
<1>1. edit' \in [Editor -> EditReq]
  <2>1. \A e \in Editor : Failed(edit[e]) \in EditReq
        BY DEF TypeOK, Failed, EditReq
  <2>2. QED  BY <2>1 DEF TypeOK, Restart
<1>2. pending' \in [Conn -> Seq(Message)]
      BY DEF Restart
<1>3. /\ conn' \in [Conn -> ConnPc]
      /\ scribe' \in [Conn -> {"none", "live", "hungup", "gone", "lost"}]
      BY DEF Restart, TypeOK, ConnPc, Stopped
<1>4. QED  BY <1>1, <1>2, <1>3 DEF TypeOK, Restart, logVars

\* Every step of a connection's handler is typed.
LEMMA ConnTyped == \A c \in Conn : TypeOK /\ ConnNext(c) => TypeOK'
<1> SUFFICES ASSUME NEW c \in Conn, TypeOK, ConnNext(c)
             PROVE  TypeOK'
    OBVIOUS
<1> DEFINE Rest == /\ created' = created /\ convo' = convo
                   /\ messages' = messages /\ log' = log
                   /\ signal' = signal /\ said' = said
                   /\ pending' = pending /\ edit' = edit
<1>1. CASE Restart
      BY <1>1, RestartTyped
<1>2. ASSUME Rest, bucket' \subseteq User, scribes' \in BOOLEAN,
             checkins' \in {"absent", "empty", "held"},
             conn' \in [Conn -> ConnPc], survey' \in [Conn -> ScribeSurvey],
             scribe' \in [Conn -> {"none", "live", "hungup", "gone", "lost"}]
      PROVE  TypeOK'
      BY <1>2 DEF TypeOK
<1> USE DEF TypeOK, At, ConnPc, Listed, scribeVars, logVars
<1>3. CASE CheckConnect(c)
      BY <1>2, <1>3 DEF CheckConnect
<1>4. CASE NewResponder(c)
      BY <1>2, <1>4, UserOfAssumption DEF NewResponder
<1>5. CASE Checkin(c)
      BY <1>2, <1>5 DEF Checkin
<1>6. CASE Spawn(c)
      BY <1>2, <1>6 DEF Spawn
<1>7. CASE NewBus(c)
      BY <1>2, <1>7 DEF NewBus
<1>8. CASE Leave(c)
      BY <1>2, <1>8 DEF Leave
<1>9. CASE Checkout(c)
      BY <1>2, <1>9 DEF Checkout
<1>10. CASE NewScribeSurvey(c)
  <2>1. CASE ~scribes
        BY <1>1, <1>10, <2>1 DEF NewScribeSurvey
  <2>2. CASE scribes
    <3> DEFINE q == [NoSurvey EXCEPT !.verdict = "asking", !.asked = Scribes]
    <3>1. /\ conn' = [conn EXCEPT ![c] = "ask"]
          /\ survey' = [survey EXCEPT ![c] = q]
          /\ UNCHANGED <<created, convo, logVars, bucket, checkins, scribes,
                         signal, scribeVars, edit>>
          BY <1>10, <2>2 DEF NewScribeSurvey
    <3>2. q \in ScribeSurvey
          BY DEF Scribes, NoSurvey, ScribeSurvey, Verdict
    <3>3. conn' \in [Conn -> ConnPc] /\ survey' \in [Conn -> ScribeSurvey]
          BY <3>1, <3>2
    <3>4. QED  BY <1>2, <3>1, <3>3
  <2>3. QED  BY <2>1, <2>2
<1>11. CASE HangupScribe(c)
  <2>1. ASSUME NEW v \in {"ok", "missing"}
        PROVE  [survey EXCEPT ![c].verdict = v] \in [Conn -> ScribeSurvey]
        BY <2>1 DEF ScribeSurvey, Verdict
  <2>2. survey' \in [Conn -> ScribeSurvey]
        BY <1>11, <2>1 DEF HangupScribe
  <2>3. QED  BY <1>2, <1>11, <2>2 DEF HangupScribe
<1>12. CASE CheckMissingScribe(c)
       BY <1>1, <1>2, <1>12 DEF CheckMissingScribe
<1>13. CASE Cleanup(c)
       BY <1>2, <1>13 DEF Cleanup
<1>14. CASE ConnectFails(c)
       BY <1>2, <1>14 DEF ConnectFails
<1>15. QED
       BY <1>3, <1>4, <1>5, <1>6, <1>7, <1>8, <1>9, <1>10, <1>11, <1>12,
          <1>13, <1>14 DEF ConnNext

\* What is written is a set of messages, and what is left is a sequence.
LEMMA WriteTyped ==
    ASSUME TypeOK, NEW c \in Conn, NEW n \in 1..Len(pending[c]), Write(c, n)
    PROVE  /\ messages' \in BOOLEAN
           /\ log' \subseteq Message
           /\ pending' \in [Conn -> Seq(Message)]
<1> DEFINE p == pending[c]
<1>1. p \in Seq(Message)
      BY DEF TypeOK
<1>2. /\ SubSeq(p, 1, n) \in Seq(Message)
      /\ SubSeq(p, n + 1, Len(p)) \in Seq(Message)
      BY <1>1, SubSeqProperties
<1>3. Written(log, SubSeq(p, 1, n)) \subseteq Message
      BY <1>2 DEF Written, TypeOK
<1>4. QED  BY <1>2, <1>3 DEF Write, TypeOK

\* So is every step of a Scribe, and of a client that speaks.
LEMMA ScribeTyped == \A c \in Conn : TypeOK /\ ScribeNext(c) => TypeOK'
<1> SUFFICES ASSUME NEW c \in Conn, TypeOK, ScribeNext(c)
             PROVE  TypeOK'
    OBVIOUS
<1>1. ASSUME NEW m \in Message, Say(c, m)
      PROVE  TypeOK'
  <2>1. \A d \in Conn : Append(pending[d], m) \in Seq(Message)
        BY DEF TypeOK
  <2>2. pending' \in [Conn -> Seq(Message)]
        BY <1>1, <2>1 DEF Say, TypeOK
  <2>3. QED  BY <1>1, <2>2 DEF Say, TypeOK, riverVars, logVars
<1>2. CASE Flush(c)
  <2> PICK n \in 1..Len(pending[c]) : Write(c, n)
      BY <1>2 DEF Flush
  <2>1. QED  BY <1>2, WriteTyped DEF Flush, TypeOK, riverVars
<1>3. CASE EndScribe(c)
      BY <1>3 DEF EndScribe, TypeOK, riverVars, logVars
<1>4. ASSUME NEW d \in Conn, AnswerScribe(c, d)
      PROVE  TypeOK'
  <2> DEFINE q == survey[c]
  <2>1. [q EXCEPT !.counted = q.counted \cup {d}] \in ScribeSurvey
    <3>1. q \in ScribeSurvey
          BY DEF TypeOK
    <3> HIDE DEF q
    <3>2. QED  BY <3>1 DEF ScribeSurvey
  <2>2. survey' \in [Conn -> ScribeSurvey]
        BY <1>4, <2>1 DEF AnswerScribe, TypeOK
  <2>3. scribe' \in [Conn -> {"none", "live", "hungup", "gone", "lost"}]
        BY <1>4 DEF AnswerScribe, TypeOK
  <2>4. QED  BY <1>4, <2>2, <2>3 DEF AnswerScribe, TypeOK, logVars
<1>5. QED  BY <1>1, <1>2, <1>3, <1>4 DEF ScribeNext

\* And every step of a PUT or DELETE.
LEMMA EditTyped == \A e \in Editor : TypeOK /\ EditNext(e) => TypeOK'
<1> SUFFICES ASSUME NEW e \in Editor, TypeOK, EditNext(e)
             PROVE  TypeOK'
    OBVIOUS
<1>1. ASSUME NEW r \in EditReq, edit' = [edit EXCEPT ![e] = r],
             UNCHANGED <<created, bucket, scribes, conn, survey, scribe,
                         pending, said>>,
             checkins' \in {"absent", checkins}, signal' \subseteq Conn,
             convo' \in Group \cup {None},
             messages' \in BOOLEAN, log' \subseteq Message
      PROVE  TypeOK'
      BY <1>1 DEF TypeOK
<1> USE DEF TypeOK, EditReq, NewEdit, Verdict, riverVars, scribeVars, logVars
<1>2. ASSUME NEW g \in Group, CheckPut(e, g)
      PROVE  TypeOK'
  <2> DEFINE r == [NewEdit EXCEPT !.op = "put", !.pc = "next", !.group = g,
                                  !.todo = AllUsers(convo) \ AllUsers(g)]
  <2>1. AllUsers(convo) \subseteq User
        BY <1>2, GroupAssumption, OwnerAssumption DEF CheckPut, AllUsers
  <2>2. r \in EditReq
        BY <2>1
  <2>3. QED  BY <1>1, <1>2, <2>2 DEF CheckPut
<1>3. CASE CheckDelete(e)
  <2> DEFINE r == [NewEdit EXCEPT !.op = "delete", !.pc = "next",
                                  !.todo = convo.readers]
  <2>1. r \in EditReq
        BY <1>3, GroupAssumption DEF CheckDelete
  <2>2. QED  BY <1>1, <1>3, <2>1 DEF CheckDelete
<1>4. CASE NewSurvey(e)
  <2> PICK u \in edit[e].todo :
         edit' = [edit EXCEPT ![e] = Surveying(edit[e], u)]
      BY <1>4 DEF NewSurvey
  <2>1. Responders(u) \subseteq Conn
        BY DEF Responders
  <2>2. Surveying(edit[e], u) \in EditReq
    <3> DEFINE r == edit[e]
    <3>1. r \in EditReq /\ u \in User
          OBVIOUS
    <3> HIDE DEF r
    <3>2. [r EXCEPT !.todo = {}, !.survey[u] = "nobucket"] \in EditReq
          BY <3>1
    <3>3. [r EXCEPT !.pc = "ask", !.todo = @ \ {u}, !.user = u,
                    !.survey[u] = "asking", !.asked = @ \cup Responders(u)]
             \in EditReq
          BY <2>1, <3>1
    <3>4. Surveying(r, u) \in EditReq
          BY <3>2, <3>3 DEF Surveying
    <3>5. QED  BY <3>4 DEF r
  <2>3. QED  BY <1>1, <1>4, <2>2 DEF NewSurvey
<1>5. CASE MakeSurvey(e)
  <2> DEFINE u == edit[e].user
             r == [edit[e] EXCEPT !.pc = "missing", !.survey[u] = "missing"]
             q == [edit[e] EXCEPT !.pc = "next", !.user = None, !.survey[u] = "ok"]
  <2>1. r \in EditReq /\ q \in EditReq
        OBVIOUS
  <2>2. edit' = [edit EXCEPT ![e] = r] \/ edit' = [edit EXCEPT ![e] = q]
        BY <1>5 DEF MakeSurvey
  <2> HIDE DEF r, q
  <2>3. QED  BY <1>1, <1>5, <2>1, <2>2 DEF MakeSurvey
<1>6. Failed(edit[e]) \in EditReq
      BY DEF Failed
<1>7. CASE CheckMissing(e)
  <2>1. [edit[e] EXCEPT !.pc = "next", !.user = None] \in EditReq
        OBVIOUS
  <2>2. QED  BY <1>1, <1>6, <1>7, <2>1 DEF CheckMissing
<1>8. CASE Put(e)
  <2>1. [edit[e] EXCEPT !.pc = "done"] \in EditReq
        OBVIOUS
  <2>2. QED  BY <1>1, <1>6, <1>8, <2>1 DEF Put
<1>9. CASE DeleteCheckins(e)
  <2>1. [edit[e] EXCEPT !.pc = "commit"] \in EditReq
        OBVIOUS
  <2>2. QED  BY <1>1, <1>9, <2>1 DEF DeleteCheckins
<1>10. CASE DeleteConvo(e)
  <2>1. [edit[e] EXCEPT !.pc = "done"] \in EditReq
        OBVIOUS
  <2>2. QED  BY <1>1, <1>6, <1>10, <2>1 DEF DeleteConvo
<1>11. ASSUME NEW c \in Conn, Answer(e, c)
       PROVE  TypeOK'
  <2> DEFINE r == [edit[e] EXCEPT !.counted = @ \cup {c}]
  <2>1. r \in EditReq /\ edit[e] \in EditReq
        OBVIOUS
  <2>2. edit' = [edit EXCEPT ![e] = r] \/ edit' = [edit EXCEPT ![e] = edit[e]]
        BY <1>11 DEF Answer
  <2> HIDE DEF r
  <2>3. QED  BY <1>1, <1>11, <2>1, <2>2 DEF Answer
<1>12. QED
       BY <1>2, <1>3, <1>4, <1>5, <1>7, <1>8, <1>9, <1>10, <1>11
       DEF EditNext

LEMMA NextTyped == TypeOK /\ [Next]_vars => TypeOK'
<1> SUFFICES ASSUME TypeOK, [Next]_vars
             PROVE  TypeOK'
    OBVIOUS
<1>1. ASSUME NEW g \in Group, Create(g)
      PROVE  TypeOK'
      BY <1>1 DEF Create, TypeOK, riverVars, scribeVars
<1>2. CASE UNCHANGED vars
      BY <1>2 DEF vars, TypeOK, riverVars, scribeVars, logVars
<1>3. QED
      BY <1>1, <1>2, ConnTyped, ScribeTyped, EditTyped, RestartTyped DEF Next

-----------------------------------------------------------------------------
\* Nobody comes back: a connection that has had a Responder keeps it until it
\* is gone, and a closed signal stays closed.
LEMMA NextMonotone ==
    TypeOK /\ [Next]_vars
        => Gone \subseteq Gone' /\ Known \subseteq Known' /\ signal \subseteq signal'
<1> SUFFICES ASSUME TypeOK, [Next]_vars
             PROVE  /\ Gone \subseteq Gone' /\ Known \subseteq Known'
                    /\ signal \subseteq signal'
    OBVIOUS
<1>1. conn \in [Conn -> ConnPc]
      BY DEF TypeOK
<1>2. CASE conn' = conn /\ signal \subseteq signal'
      BY <1>2 DEF Gone, Known
<1>3. CASE Restart
      BY <1>1, <1>3 DEF Restart, Gone, Known, Listed
<1>4. ASSUME NEW c \in Conn, ConnNext(c)
      PROVE  /\ Gone \subseteq Gone' /\ Known \subseteq Known'
             /\ signal \subseteq signal'
  <2>1. CASE Restart
        BY <1>3, <2>1
  <2>2. CASE ~Restart
    <3>1. /\ signal' = signal
          /\ \/ At(c, "idle", "checked")
             \/ At(c, "checked", "registered")
             \/ \E pc \in Listed, next \in Listed \cup {"gone"} :
                   At(c, pc, next)
          BY <1>4, <2>2
          DEF ConnNext, CheckConnect, NewResponder, Checkin, Spawn, NewBus,
              ConnectFails, Leave, Checkout, NewScribeSurvey, HangupScribe,
              CheckMissingScribe, Cleanup, Listed
    <3>2. conn[c] # "gone" /\ conn' = [conn EXCEPT ![c] = conn'[c]]
          BY <1>1, <3>1 DEF At, Listed
    <3>3. conn[c] \in Listed => conn'[c] \in Listed \cup {"gone"}
          BY <1>1, <3>1 DEF At, Listed
    <3>4. QED  BY <1>1, <3>1, <3>2, <3>3 DEF Gone, Known
  <2>3. QED  BY <2>1, <2>2
<1>5. ASSUME NEW c \in Conn, ScribeNext(c)
      PROVE  conn' = conn /\ signal' = signal
      BY <1>5 DEF ScribeNext, Say, AnswerScribe, Flush, EndScribe, riverVars
<1>6. ASSUME NEW e \in Editor, EditNext(e)
      PROVE  conn' = conn /\ signal \subseteq signal'
      BY <1>6 DEF EditNext, CheckPut, CheckDelete, NewSurvey, Answer, MakeSurvey,
                  CheckMissing, Put, DeleteCheckins, DeleteConvo, riverVars
<1>7. ASSUME NEW g \in Group, Create(g)
      PROVE  conn' = conn /\ signal' = signal
      BY <1>7 DEF Create, riverVars
<1>8. CASE UNCHANGED vars
      BY <1>2, <1>8 DEF vars, riverVars
<1>9. QED
      BY <1>2, <1>3, <1>4, <1>5, <1>6, <1>7, <1>8 DEF Next

\* Nobody is hung up without a Responder, and nobody has one outside a bucket.
LEMMA NextEntries == TypeOK /\ EntryOK /\ EditsOK /\ [Next]_vars => EntryOK'
<1> SUFFICES ASSUME TypeOK, EntryOK, EditsOK, [Next]_vars
             PROVE  EntryOK'
    OBVIOUS
<1>1. conn \in [Conn -> ConnPc] /\ Known \subseteq Known'
      BY NextMonotone DEF TypeOK
<1>2. CASE UNCHANGED <<conn, signal, bucket>>
      BY <1>1, <1>2 DEF EntryOK
<1>3. CASE Restart
      BY <1>1, <1>3 DEF Restart, EntryOK, Listed
<1>4. ASSUME NEW c \in Conn, ConnNext(c)
      PROVE  EntryOK'
  <2>1. CASE Restart
        BY <1>3, <2>1
  <2>2. CASE ~Restart
    <3> USE DEF ConnNext, CheckConnect, NewResponder, Checkin, Spawn, NewBus,
                ConnectFails, Leave, Checkout, NewScribeSurvey, HangupScribe,
                CheckMissingScribe, Cleanup, At
    <3>1. signal' = signal /\ bucket \subseteq bucket'
          BY <1>4, <2>2
    <3>2. signal' \subseteq Known'
          BY <1>1, <3>1 DEF EntryOK
    <3>3. \A d \in Conn : conn'[d] \in Listed => UserOf[d] \in bucket'
      <4>1. \A d \in Conn \ {c} : conn'[d] = conn[d]
            BY <1>1, <1>4, <2>2
      <4>2. conn'[c] \in Listed => conn[c] \in Listed \/ UserOf[c] \in bucket'
            BY <1>1, <1>4, <2>2 DEF Listed
      <4>3. QED  BY <3>1, <4>1, <4>2 DEF EntryOK
    <3>4. QED  BY <3>2, <3>3 DEF EntryOK
  <2>3. QED  BY <2>1, <2>2
<1>5. ASSUME NEW e \in Editor, NEW c \in Conn, Answer(e, c)
      PROVE  EntryOK'
      BY <1>1, <1>5 DEF Answer, EntryOK, EditsOK, SurveyOf, riverVars
<1>6. ASSUME NEW c \in Conn, ScribeNext(c)
      PROVE  UNCHANGED <<conn, signal, bucket>>
      BY <1>6 DEF ScribeNext, Say, AnswerScribe, Flush, EndScribe, riverVars
<1>7. ASSUME NEW e \in Editor, EditNext(e)
      PROVE  EntryOK'
      BY <1>2, <1>5, <1>7
      DEF EditNext, CheckPut, CheckDelete, NewSurvey, MakeSurvey, CheckMissing,
          Put, DeleteCheckins, DeleteConvo, riverVars
<1>8. QED
      BY <1>2, <1>3, <1>4, <1>6, <1>7 DEF Next, Create, vars, riverVars

\* A request whose surveys have not moved: it stands where it stood, has given
\* up, or writes.
LEMMA EditKept ==
    ASSUME TypeOK, NEW e \in Editor, SurveyOf(e),
           signal \subseteq signal', Known \subseteq Known', Gone \subseteq Gone',
           edit'[e].asked = edit[e].asked, edit'[e].counted = edit[e].counted,
           edit'[e].survey = edit[e].survey, edit'[e].todo \subseteq edit[e].todo,
           \/ edit'[e].pc = "failed"
           \/ edit'[e].pc = edit[e].pc /\ edit'[e].user = edit[e].user
           \/ /\ edit[e].pc \in {"next", "commit"}
              /\ edit'[e].pc \in {"commit", "done"}
    PROVE  SurveyOf(e)'
<1>1. \A u \in User : Expect(edit[e], u)' = Expect(edit[e], u)
      BY DEF Expect
<1>2. edit'[e].asked \subseteq Known' /\ edit'[e].counted \subseteq signal'
      BY DEF SurveyOf
<1>3. QED  BY <1>1, <1>2 DEF SurveyOf

\* A survey adds those it finds, and the loop goes on only when they are hung up
\* or gone.
LEMMA EditStep ==
    ASSUME TypeOK, [Next]_vars, EntryOK, NEW e \in Editor, EditNext(e), SurveyOf(e)
    PROVE  SurveyOf(e)'
<1> DEFINE r == edit[e]
<1>1. edit \in [Editor -> EditReq] /\ r \in EditReq
      BY DEF TypeOK
<1>2. signal \subseteq signal' /\ Known \subseteq Known' /\ Gone \subseteq Gone'
      BY NextMonotone
<1> USE DEF EditReq, Verdict
<1>3. ASSUME edit'[e].asked = {}, edit'[e].counted = {},
             edit'[e].survey = [u \in User |-> "idle"], edit'[e].pc = "next"
      PROVE  SurveyOf(e)'
      BY <1>3 DEF SurveyOf, Expect
<1>4. ASSUME NEW g \in Group, CheckPut(e, g)
      PROVE  SurveyOf(e)'
      BY <1>1, <1>3, <1>4 DEF CheckPut, NewEdit
<1>5. CASE CheckDelete(e)
      BY <1>1, <1>3, <1>5 DEF CheckDelete, NewEdit
<1>6. CASE NewSurvey(e)
  <2> PICK u \in r.todo : edit' = [edit EXCEPT ![e] = Surveying(r, u)]
      BY <1>6 DEF NewSurvey
  <2>1. r.pc = "next" /\ UNCHANGED <<conn, signal>> /\ u \in User
        BY <1>1, <1>6 DEF NewSurvey, riverVars
  <2>2. r.survey[u] = "idle" /\ Expect(r, u) = {}
        BY <2>1 DEF SurveyOf
  <2>3. Responders(u) \subseteq Known
        BY DEF Responders, Known
  <2>4. CASE u \in bucket
    <3>1. /\ edit'[e].pc = "ask" /\ edit'[e].todo = r.todo \ {u}
          /\ edit'[e].user = u
          /\ edit'[e].survey = [r.survey EXCEPT ![u] = "asking"]
          /\ edit'[e].asked = r.asked \cup Responders(u)
          /\ edit'[e].counted = r.counted
          BY <1>1, <2>4 DEF Surveying
    <3>2. \A v \in User : v # u =>
             /\ Expect(edit[e], v)' = Expect(r, v)
             /\ edit'[e].survey[v] = r.survey[v]
          BY <1>1, <3>1 DEF Expect, Responders
    <3>3. edit'[e].survey[u] = "asking"
          BY <1>1, <2>1, <3>1
    <3>4. edit'[e].asked \subseteq Known' /\ edit'[e].counted \subseteq signal'
          BY <1>2, <2>3, <3>1 DEF SurveyOf
    <3>5. QED  BY <1>2, <2>1, <3>1, <3>2, <3>3, <3>4 DEF SurveyOf
  <2>5. CASE u \notin bucket
    <3>1. /\ edit'[e].pc = "next" /\ edit'[e].todo = {}
          /\ edit'[e].survey = [r.survey EXCEPT ![u] = "nobucket"]
          /\ edit'[e].asked = r.asked /\ edit'[e].counted = r.counted
          BY <1>1, <2>1, <2>5 DEF Surveying
    <3>2. \A v \in User : Expect(edit[e], v)' = Expect(r, v)
          BY <3>1 DEF Expect
    <3>3. \A v \in User : v # u => edit'[e].survey[v] = r.survey[v]
          BY <1>1, <3>1
    <3>4. edit'[e].survey[u] = "nobucket"
          BY <1>1, <2>1, <3>1
    <3>5. edit'[e].asked \subseteq Known' /\ edit'[e].counted \subseteq signal'
          BY <1>2, <3>1 DEF SurveyOf
    <3>6. QED  BY <1>2, <2>1, <2>2, <3>1, <3>2, <3>3, <3>4, <3>5 DEF SurveyOf
  <2>6. QED  BY <2>4, <2>5
<1>7. ASSUME NEW c \in Conn, Answer(e, c)
      PROVE  SurveyOf(e)'
  <2>1. CASE edit' = edit
        BY <1>2, <2>1, EditKept
  <2>2. CASE /\ edit' = [edit EXCEPT ![e].counted = @ \cup {c}]
             /\ r.survey[UserOf[c]] = "asking"
    <3>1. /\ edit'[e].pc = r.pc /\ edit'[e].todo = r.todo
          /\ edit'[e].user = r.user /\ edit'[e].survey = r.survey
          /\ edit'[e].asked = r.asked
          /\ edit'[e].counted = r.counted \cup {c}
          BY <1>1, <2>2
    <3>2. \A v \in User : Expect(edit[e], v)' = Expect(r, v)
          BY <3>1 DEF Expect
    <3>3. edit'[e].asked \subseteq Known' /\ edit'[e].counted \subseteq signal'
          BY <1>2, <1>7, <3>1 DEF SurveyOf, Answer
    <3>4. QED  BY <1>2, <3>1, <3>2, <3>3 DEF SurveyOf
  <2>3. QED  BY <1>7, <2>1, <2>2 DEF Answer
<1>8. CASE MakeSurvey(e)
  <2> DEFINE u == r.user
  <2>1. r.pc = "ask" /\ u \in User /\ r.survey[u] = "asking"
        BY <1>8 DEF MakeSurvey, SurveyOf
  <2>2. /\ edit'[e].todo = r.todo /\ edit'[e].asked = r.asked
        /\ edit'[e].counted = r.counted
        BY <1>1, <1>8 DEF MakeSurvey
  <2>3. \A v \in User : Expect(edit[e], v)' = Expect(r, v)
        BY <2>2 DEF Expect
  <2>4. edit'[e].asked \subseteq Known' /\ edit'[e].counted \subseteq signal'
        BY <1>2, <2>2 DEF SurveyOf
  <2>5. CASE Expect(r, u) \subseteq r.counted
    <3>1. /\ edit'[e].pc = "next"
          /\ edit'[e].survey = [r.survey EXCEPT ![u] = "ok"]
          BY <1>1, <1>8, <2>5 DEF MakeSurvey
    <3>2. \A v \in User : v # u => edit'[e].survey[v] = r.survey[v]
          BY <1>1, <3>1
    <3>3. edit'[e].survey[u] = "ok"
          BY <1>1, <2>1, <3>1
    <3>4. QED  BY <1>2, <2>1, <2>2, <2>3, <2>4, <2>5, <3>1, <3>2, <3>3 DEF SurveyOf
  <2>6. CASE ~(Expect(r, u) \subseteq r.counted)
    <3>1. /\ edit'[e].pc = "missing" /\ edit'[e].user = u
          /\ edit'[e].survey = [r.survey EXCEPT ![u] = "missing"]
          BY <1>1, <1>8, <2>6 DEF MakeSurvey
    <3>2. \A v \in User : v # u => edit'[e].survey[v] = r.survey[v]
          BY <1>1, <3>1
    <3>3. edit'[e].survey[u] = "missing"
          BY <1>1, <2>1, <3>1
    <3>4. QED  BY <1>2, <2>1, <2>2, <2>3, <2>4, <3>1, <3>2, <3>3 DEF SurveyOf
  <2>7. QED  BY <2>5, <2>6
<1>9. CASE CheckMissing(e)
  <2>1. r.pc = "missing"
        BY <1>9 DEF CheckMissing
  <2>2. CASE Responders(r.user) # {}
    <3>1. edit'[e] = Failed(r)
          BY <1>1, <1>9, <2>2 DEF CheckMissing
    <3>2. QED  BY <1>1, <1>2, <3>1, EditKept DEF Failed
  <2>3. CASE Responders(r.user) = {}
    <3>1. /\ edit'[e].pc = "next" /\ edit'[e].todo = r.todo
          /\ edit'[e].survey = r.survey /\ edit'[e].asked = r.asked
          /\ edit'[e].counted = r.counted
          BY <1>1, <1>9, <2>3 DEF CheckMissing
    <3>2. Expect(r, r.user) \subseteq Gone
          BY <2>3 DEF SurveyOf, Expect, Known, Gone, Responders
    <3>3. \A v \in User : Expect(edit[e], v)' = Expect(r, v)
          BY <3>1 DEF Expect
    <3>4. edit'[e].asked \subseteq Known' /\ edit'[e].counted \subseteq signal'
          BY <1>2, <3>1 DEF SurveyOf
    <3>5. QED  BY <1>2, <2>1, <3>1, <3>2, <3>3, <3>4 DEF SurveyOf
  <2>4. QED  BY <2>2, <2>3
<1>10. ASSUME r.pc \in {"next", "commit"},
              \/ edit' = [edit EXCEPT ![e].pc = "done"]
              \/ edit' = [edit EXCEPT ![e].pc = "commit"]
              \/ edit' = [edit EXCEPT ![e] = Failed(r)]
       PROVE  SurveyOf(e)'
  <2>1. /\ edit'[e].asked = r.asked /\ edit'[e].counted = r.counted
        /\ edit'[e].survey = r.survey /\ edit'[e].todo \subseteq r.todo
        /\ edit'[e].pc \in {"failed", "commit", "done"}
    <3>1. CASE edit'[e] = Failed(r)
          BY <1>1, <3>1 DEF Failed
    <3>2. CASE edit' = [edit EXCEPT ![e].pc = "done"]
          BY <1>1, <3>2
    <3>3. CASE edit' = [edit EXCEPT ![e].pc = "commit"]
          BY <1>1, <3>3
    <3>4. QED  BY <1>1, <1>10, <3>1, <3>2, <3>3
  <2>2. QED  BY <1>2, <1>10, <2>1, EditKept
<1>11. CASE Put(e)
       BY <1>10, <1>11 DEF Put
<1>12. CASE DeleteCheckins(e)
       BY <1>10, <1>12 DEF DeleteCheckins
<1>13. CASE DeleteConvo(e)
       BY <1>10, <1>13 DEF DeleteConvo
<1>14. QED
       BY <1>4, <1>5, <1>6, <1>7, <1>8, <1>9, <1>11, <1>12, <1>13 DEF EditNext

\* A restart makes the requests under way fail; other steps leave them alone.
LEMMA NextEdits == TypeOK /\ EntryOK /\ EditsOK /\ [Next]_vars => EditsOK'
<1> SUFFICES ASSUME TypeOK, EntryOK, EditsOK, [Next]_vars, NEW e \in Editor
             PROVE  SurveyOf(e)'
    BY DEF EditsOK
<1>1. /\ Gone \subseteq Gone' /\ Known \subseteq Known'
      /\ signal \subseteq signal' /\ SurveyOf(e)
      BY NextMonotone DEF EditsOK
<1>2. CASE edit'[e] = edit[e]
      BY <1>1, <1>2, EditKept
<1>3. CASE Restart
  <2>1. CASE edit[e].pc \in {"new", "failed", "done"}
        BY <1>2, <1>3, <2>1 DEF Restart
  <2>2. CASE edit[e].pc \notin {"new", "failed", "done"}
    <3>1. edit'[e] = Failed(edit[e]) /\ edit[e] \in EditReq
          BY <1>3, <2>2 DEF Restart, TypeOK
    <3>2. /\ edit'[e].asked = edit[e].asked /\ edit'[e].counted = edit[e].counted
          /\ edit'[e].survey = edit[e].survey /\ edit'[e].todo = {}
          /\ edit'[e].pc = "failed"
          BY <3>1 DEF Failed, EditReq
    <3>3. QED  BY <1>1, <3>2, EditKept
  <2>3. QED  BY <2>1, <2>2
<1>4. ASSUME NEW d \in Editor, EditNext(d)
      PROVE  SurveyOf(e)'
  <2>1. CASE d = e
        BY <1>1, <1>4, <2>1, EditStep
  <2>2. CASE d # e
    <3>1. edit'[e] = edit[e]
          BY <1>4, <2>2
          DEF EditNext, CheckPut, CheckDelete, NewSurvey, Answer, MakeSurvey,
              CheckMissing, Put, DeleteCheckins, DeleteConvo, TypeOK
    <3>2. QED  BY <1>2, <3>1
  <2>3. QED  BY <2>1, <2>2
<1>5. ASSUME NEW c \in Conn, ConnNext(c) \/ ScribeNext(c)
      PROVE  Restart \/ edit' = edit
      BY <1>5
      DEF ConnNext, CheckConnect, NewResponder, Checkin, Spawn, NewBus,
          ConnectFails, Leave, Checkout, NewScribeSurvey, HangupScribe, CheckMissingScribe,
          Cleanup, ScribeNext, Say, AnswerScribe, Flush, EndScribe
<1>6. QED
      BY <1>2, <1>3, <1>4, <1>5 DEF Next, Create, vars

\* A handler makes its survey once, and after it may have spawned a Scribe; the
\* other steps neither spawn one nor move the handler.
LEMMA NextScribes == TypeOK /\ ScribesOK /\ [Next]_vars => ScribesOK'
<1> SUFFICES ASSUME TypeOK, ScribesOK, [Next]_vars
             PROVE  ScribesOK'
    OBVIOUS
<1> DEFINE Before == Early \cup {"join", "serving", "leaving", "hangup"}
<1>1. /\ conn \in [Conn -> ConnPc] /\ survey \in [Conn -> ScribeSurvey]
      /\ scribe \in [Conn -> {"none", "live", "hungup", "gone", "lost"}]
      BY DEF TypeOK
<1>2. CASE UNCHANGED <<conn, survey, scribe>>
      BY <1>2 DEF ScribesOK, Hung
<1>3. CASE Restart
  <2>1. /\ survey' = survey /\ Hung' = Hung
        /\ \A c \in Conn : /\ conn'[c] = IF conn[c] = "idle" THEN "idle" ELSE "gone"
                           /\ scribe[c] = "none" => scribe'[c] = "none"
        BY <1>1, <1>3 DEF Restart, Hung, Stopped
  <2>2. QED  BY <2>1 DEF ScribesOK, Early
<1>4. ASSUME NEW c \in Conn, ConnNext(c)
      PROVE  ScribesOK'
  <2> USE DEF At
  <2>1. CASE Spawn(c)
    <3>1. /\ survey' = survey /\ conn[c] = "spawn" /\ conn'[c] = "join"
          /\ Hung' = Hung
          /\ \A d \in Conn \ {c} : conn'[d] = conn[d] /\ scribe'[d] = scribe[d]
          BY <1>1, <2>1 DEF Spawn, Hung, ScribesOK, Early
    <3>2. QED  BY <3>1 DEF ScribesOK, Early
  <2>2. CASE NewScribeSurvey(c) /\ scribes
    <3>1. /\ scribe' = scribe /\ conn'[c] = "ask" /\ Hung' = Hung
          /\ survey'[c].verdict = "asking" /\ survey'[c].counted = {}
          /\ \A d \in Conn \ {c} : conn'[d] = conn[d] /\ survey'[d] = survey[d]
          BY <1>1, <2>2 DEF NewScribeSurvey, scribeVars, Hung, NoSurvey
    <3>2. QED  BY <3>1 DEF ScribesOK, Early
  <2>3. CASE HangupScribe(c)
    <3>1. /\ scribe' = scribe /\ conn'[c] \in {"cleanup", "missing"} /\ Hung' = Hung
          /\ survey'[c].counted = survey[c].counted
          /\ \A d \in Conn \ {c} : conn'[d] = conn[d] /\ survey'[d] = survey[d]
          BY <1>1, <2>3 DEF HangupScribe, scribeVars, Hung, ScribeSurvey
    <3>2. QED  BY <3>1 DEF ScribesOK, Early
  <2>4. CASE \/ CheckConnect(c) \/ NewResponder(c) \/ Checkin(c) \/ NewBus(c)
             \/ ConnectFails(c) \/ Leave(c) \/ Checkout(c) \/ Cleanup(c)
             \/ CheckMissingScribe(c) /\ checkins = "empty"
    <3> USE DEF CheckConnect, NewResponder, Checkin, NewBus, ConnectFails, Leave,
                Checkout, Cleanup, CheckMissingScribe, scribeVars
    <3>1. UNCHANGED <<survey, scribe>> /\ Hung' = Hung
          BY <2>4 DEF Hung
    <3>2. /\ conn'[c] \in Early => conn[c] \in Early
          /\ conn'[c] \in Before => conn[c] \in Before
          /\ conn'[c] # "ask"
          BY <1>1, <2>4 DEF Early
    <3>3. \A d \in Conn \ {c} : conn'[d] = conn[d]
          BY <1>1, <2>4
    <3> HIDE DEF Before
    <3>4. ASSUME NEW d \in Conn
          PROVE  /\ conn'[d] \in Early => scribe'[d] = "none"
                 /\ conn'[d] \in Before => survey'[d] = NoSurvey
                 /\ conn'[d] = "ask" => survey'[d].verdict = "asking"
                 /\ survey'[d].counted \subseteq Hung'
          BY <3>1, <3>2, <3>3 DEF ScribesOK, Before
    <3>5. QED  BY <3>4 DEF ScribesOK, Before
  <2>5. QED
        BY <1>3, <1>4, <2>1, <2>2, <2>3, <2>4
        DEF ConnNext, NewScribeSurvey, CheckMissingScribe
<1>5. ASSUME NEW c \in Conn, NEW d \in Conn, AnswerScribe(c, d)
      PROVE  ScribesOK'
  <2>1. /\ conn' = conn /\ scribe[d] = "live" /\ d \in survey[c].asked
        /\ Hung' = Hung \cup {d}
        /\ \A b \in Conn : scribe[b] = "none" => scribe'[b] = "none"
        BY <1>1, <1>5 DEF AnswerScribe, Hung
  <2>2. \A b \in Conn : /\ survey'[b].verdict = survey[b].verdict
                        /\ survey'[b].counted \subseteq survey[b].counted \cup {d}
                        /\ b # c => survey'[b] = survey[b]
        BY <1>1, <1>5 DEF AnswerScribe, ScribeSurvey
  <2>3. conn[c] \notin Before
        BY <2>1 DEF ScribesOK, NoSurvey
  <2>4. QED  BY <2>1, <2>2, <2>3 DEF ScribesOK
<1>6. ASSUME NEW c \in Conn, EndScribe(c)
      PROVE  ScribesOK'
  <2>1. /\ conn' = conn /\ survey' = survey /\ Hung' = Hung
        /\ \A b \in Conn : scribe[b] = "none" => scribe'[b] = "none"
        BY <1>1, <1>6 DEF EndScribe, riverVars, Hung
  <2>2. QED  BY <2>1 DEF ScribesOK
<1>7. ASSUME NEW e \in Editor, EditNext(e)
      PROVE  UNCHANGED <<conn, survey, scribe>>
      BY <1>7
      DEF EditNext, CheckPut, CheckDelete, NewSurvey, Answer, MakeSurvey,
          CheckMissing, Put, DeleteCheckins, DeleteConvo, riverVars, scribeVars
<1>8. ASSUME NEW c \in Conn, ScribeNext(c)
      PROVE  ScribesOK'
      BY <1>2, <1>5, <1>6, <1>8 DEF ScribeNext, Say, Flush, riverVars
<1>9. QED
      BY <1>2, <1>3, <1>4, <1>7, <1>8 DEF Next, Create, vars, riverVars, scribeVars

-----------------------------------------------------------------------------
\* The message bucket is made with the Convo, and deleted with it; a Scribe only
\* makes it.
LEMMA NextMessages == ConvoHasMessages /\ [Next]_vars => ConvoHasMessages'
<1> SUFFICES ASSUME ConvoHasMessages, [Next]_vars
             PROVE  ConvoHasMessages'
    OBVIOUS
<1> USE DEF ConvoHasMessages, logVars
<1>1. CASE convo' = convo /\ messages' \in {TRUE, messages}
      BY <1>1
<1>2. ASSUME NEW g \in Group, Create(g)
      PROVE  ConvoHasMessages'
      BY <1>2 DEF Create
<1>3. CASE Restart
      BY <1>3 DEF Restart
<1>4. ASSUME NEW c \in Conn, ConnNext(c)
      PROVE  ConvoHasMessages'
      BY <1>1, <1>3, <1>4
      DEF ConnNext, CheckConnect, NewResponder, Checkin, Spawn, NewBus,
          ConnectFails, Leave, Checkout, NewScribeSurvey, HangupScribe,
          CheckMissingScribe, Cleanup
<1>5. ASSUME NEW c \in Conn, ScribeNext(c)
      PROVE  ConvoHasMessages'
      BY <1>1, <1>5 DEF ScribeNext, Say, AnswerScribe, Flush, Write, EndScribe
<1>6. ASSUME NEW e \in Editor, EditNext(e)
      PROVE  ConvoHasMessages'
      BY <1>1, <1>6
      DEF EditNext, CheckPut, CheckDelete, NewSurvey, Answer, MakeSurvey,
          CheckMissing, Put, DeleteCheckins, DeleteConvo
<1>7. CASE UNCHANGED vars
      BY <1>7 DEF vars
<1>8. QED
      BY <1>2, <1>3, <1>4, <1>5, <1>6, <1>7 DEF Next

LEMMA NextSafe == Safe /\ [Next]_vars => Safe'
BY NextTyped, NextEntries, NextEdits, NextScribes, NextMessages DEF Safe

LEMMA AlwaysSafe == Spec => []Safe
BY InitSafe, NextSafe, PTL DEF Spec

-----------------------------------------------------------------------------
\* The Convo, its Scribes and the requests are type-correct.
THEOREM TypeCorrect == Spec => []TypeOK
<1>1. Safe => TypeOK
      BY DEF Safe
<1>2. QED  BY <1>1, AlwaysSafe, PTL

\* A PUT or DELETE of a Convo that was carried out has hung up every connection
\* that its surveys found, or it had gone, whatever timed out in between.
THEOREM EditHangsUp == Spec => []AskedHaveLeft
<1>1. Safe => AskedHaveLeft
  <2> SUFFICES ASSUME Safe, NEW e \in Editor, edit[e].pc = "done",
                      NEW c \in edit[e].asked
               PROVE  c \in signal \cup Gone
      BY DEF AskedHaveLeft, Gone
  <2>1. /\ UserOf[c] \in User /\ c \in Expect(edit[e], UserOf[c])
        /\ edit[e].survey[UserOf[c]] \in Verdict
        BY UserOfAssumption DEF Safe, TypeOK, EditReq, Expect
  <2>2. QED  BY <2>1 DEF Safe, EditsOK, SurveyOf, Verdict
<1>2. QED  BY <1>1, AlwaysSafe, PTL

\* A Convo always has its message bucket.
THEOREM MessagesKept == Spec => []ConvoHasMessages
<1>1. Safe => ConvoHasMessages
      BY DEF Safe
<1>2. QED  BY <1>1, AlwaysSafe, PTL

\* No PUT brings a deleted Convo back: its Update looks again.
THEOREM ConvosStayGone == Spec => DeletedStaysGone
<1>1. [Next]_vars => [created /\ convo = None => convo' = None]_vars
  <2> SUFFICES ASSUME Next, created, convo = None
               PROVE  convo' = None
      OBVIOUS
  <2>1. ASSUME NEW c \in Conn, ConnNext(c) \/ ScribeNext(c)
        PROVE  convo' = convo
        BY <2>1
        DEF ConnNext, CheckConnect, NewResponder, Checkin, Spawn, NewBus,
            ConnectFails, Leave, Checkout, NewScribeSurvey, HangupScribe,
            CheckMissingScribe, Cleanup, Restart, ScribeNext, Say, AnswerScribe, Flush,
            EndScribe
  <2>2. ASSUME NEW e \in Editor, EditNext(e)
        PROVE  convo' = None
        BY <2>2
        DEF EditNext, CheckPut, CheckDelete, NewSurvey, Answer, MakeSurvey,
            CheckMissing, Put, DeleteCheckins, DeleteConvo
  <2>3. QED  BY <2>1, <2>2 DEF Next, Create, Restart
<1>2. QED  BY <1>1, PTL DEF Spec, DeletedStaysGone

-----------------------------------------------------------------------------
(* What is logged.                                                         *)

Seconds(L) == {SecondOf[m] : m \in L}

\* There is a last one among some of the first n positions.
LEMMA LastPosition ==
    ASSUME NEW n \in Nat, NEW P \in SUBSET (1 .. n), P # {}
    PROVE  \E i \in P : \A j \in P : j <= i
<1> DEFINE Rest == {n - i : i \in P}
<1>1. Rest \subseteq Nat /\ Rest # {}
  <2>1. \A i \in P : n - i \in Nat
        OBVIOUS
  <2>2. QED  BY <2>1
<1>2. PICK r \in Rest : \A q \in Rest : <<q, r>> \notin OpToRel(<, Nat)
      BY <1>1, NatLessThanWellFounded, WFMin
<1>3. PICK i \in P : r = n - i
      OBVIOUS
<1>4. ASSUME NEW j \in P
      PROVE  j <= i
  <2>1. n - j \in Rest /\ n - j \in Nat /\ r \in Nat
        BY <1>1
  <2>2. ~(n - j < r)
        BY <1>2, <2>1 DEF OpToRel
  <2>3. QED  BY <1>3, <2>2
<1>5. QED  BY <1>4

\* A message is replaced only by one of its second: the last of them that is
\* written stays, and nothing else is taken out.
LEMMA WrittenKeeps ==
    ASSUME NEW L, NEW s \in Seq(Message)
    PROVE  /\ Seconds(L) \subseteq Seconds(Written(L, s))
           /\ \A i \in DOMAIN s : SecondOf[s[i]] \in Seconds(Written(L, s))
<1>1. ASSUME NEW i \in DOMAIN s
      PROVE  SecondOf[s[i]] \in Seconds(Written(L, s))
  <2> DEFINE P == {j \in DOMAIN s : SecondOf[s[j]] = SecondOf[s[i]]}
  <2>1. Len(s) \in Nat /\ DOMAIN s = 1 .. Len(s)
        BY LenProperties
  <2>2. P \in SUBSET (1 .. Len(s)) /\ P # {}
        BY <2>1
  <2>3. PICK k \in P : \A j \in P : j <= k
        BY <2>1, <2>2, LastPosition
  <2>4. \A j \in DOMAIN s : j > k => SecondOf[s[j]] # SecondOf[s[k]]
        BY <2>1, <2>3
  <2>5. s[k] \in Written(L, s)
        BY <2>4 DEF Written
  <2>6. QED  BY <2>5 DEF Seconds
<1>2. ASSUME NEW m \in L
      PROVE  SecondOf[m] \in Seconds(Written(L, s))
  <2>1. CASE \E i \in DOMAIN s : SecondOf[s[i]] = SecondOf[m]
        BY <1>1, <2>1
  <2>2. CASE \A i \in DOMAIN s : SecondOf[s[i]] # SecondOf[m]
        BY <2>2 DEF Written, Seconds
  <2>3. QED  BY <2>1, <2>2
<1>3. QED  BY <1>1, <1>2 DEF Seconds

\* A second of which a message was logged keeps one while the Convo lasts: only
\* the flush of a Scribe and the last step of DELETE touch the log.
THEOREM LogKept == Spec => LogIsKept
<1>1. TypeOK /\ [Next]_vars
          => [convo' # None =>
                 {SecondOf[m] : m \in log} \subseteq {SecondOf[m] : m \in log'}]_vars
  <2> SUFFICES ASSUME TypeOK, Next, convo' # None
               PROVE  Seconds(log) \subseteq Seconds(log')
      BY DEF Seconds
  <2>1. ASSUME NEW c \in Conn, NEW n \in 1 .. Len(pending[c]), Write(c, n)
        PROVE  Seconds(log) \subseteq Seconds(log')
    <3>1. SubSeq(pending[c], 1, n) \in Seq(Message)
          BY SubSeqProperties DEF TypeOK
    <3>2. QED  BY <2>1, <3>1, WrittenKeeps DEF Write
  <2>2. ASSUME NEW c \in Conn, ScribeNext(c)
        PROVE  Seconds(log) \subseteq Seconds(log')
        BY <2>1, <2>2 DEF ScribeNext, Say, AnswerScribe, Flush, EndScribe, logVars
  <2>3. ASSUME NEW c \in Conn, ConnNext(c)
        PROVE  log' = log
        BY <2>3
        DEF ConnNext, CheckConnect, NewResponder, Checkin, Spawn, NewBus,
            ConnectFails, Leave, Checkout, NewScribeSurvey, HangupScribe,
            CheckMissingScribe, Cleanup, Restart, logVars
  <2>4. ASSUME NEW e \in Editor, EditNext(e)
        PROVE  log' = log
        BY <2>4
        DEF EditNext, CheckPut, CheckDelete, NewSurvey, Answer, MakeSurvey,
            CheckMissing, Put, DeleteCheckins, DeleteConvo, logVars
  <2>5. QED  BY <2>2, <2>3, <2>4 DEF Next, Create, Restart, logVars
<1>2. QED  BY <1>1, TypeCorrect, PTL DEF Spec, LogIsKept

-----------------------------------------------------------------------------
(* The contract of the surveys of each user's bucket.                      *)

\* A step that the bucket of a user does not see.
LEMMA Invisible ==
    ASSUME NEW u \in User, Responders(u)' = Responders(u), signal' = signal,
           \A e \in Editor :
               /\ edit'[e].asked = edit[e].asked
               /\ edit'[e].counted = edit[e].counted
               /\ edit'[e].survey[u] = edit[e].survey[u]
    PROVE  UNCHANGED H(u)!vars
BY DEF H!vars, Expect

\* A handler's step is the arrival or the departure of its connection, or the
\* bucket does not see it.
LEMMA ConnKeepsContract ==
    ASSUME Safe, NEW c \in Conn, ConnNext(c), ~Restart, NEW u \in User
    PROVE  [H(u)!Next]_(H(u)!vars)
<1> TypeOK /\ EntryOK
    BY DEF Safe
<1> USE DEF ConnNext, CheckConnect, NewResponder, Checkin, Spawn, NewBus,
            ConnectFails, Leave, Checkout, NewScribeSurvey, HangupScribe, CheckMissingScribe,
            Cleanup, At
<1>1. conn \in [Conn -> ConnPc] /\ UNCHANGED <<signal, edit>>
      BY DEF TypeOK
<1>2. \A d \in Conn \ {c} : conn'[d] = conn[d]
      BY <1>1
<1>3. CASE UserOf[c] = u /\ conn[c] \notin Listed /\ conn'[c] \in Listed
  <2>1. conn[c] = "checked"
        BY <1>1, <1>3 DEF Listed
  <2>2. c \notin Responders(u) \cup {d \in signal : UserOf[d] = u}
        BY <2>1 DEF EntryOK, Known, Listed, Responders
  <2>3. Responders(u)' = Responders(u) \cup {c}
        BY <1>2, <1>3 DEF Responders
  <2>4. H(u)!Connect(c)
        BY <1>1, <2>2, <2>3 DEF H!Connect
  <2>5. QED  BY <2>4 DEF H!Next
<1>4. CASE UserOf[c] = u /\ conn[c] \in Listed /\ conn'[c] \notin Listed
  <2>1. c \in Responders(u)
        BY <1>4 DEF Responders
  <2>2. Responders(u)' = Responders(u) \ {c}
        BY <1>2, <1>4 DEF Responders
  <2>3. H(u)!Leave(c)
        BY <1>1, <2>1, <2>2 DEF H!Leave
  <2>4. QED  BY <2>3 DEF H!Next
<1>5. CASE UserOf[c] # u \/ (conn[c] \in Listed <=> conn'[c] \in Listed)
  <2>1. Responders(u)' = Responders(u)
        BY <1>2, <1>5 DEF Responders
  <2>2. UNCHANGED H(u)!vars
        BY <1>1, <2>1, Invisible
  <2>3. QED  BY <2>2
<1>6. QED  BY <1>3, <1>4, <1>5

\* So is a request's: it asks, hears an answer or reports, as the contract says.
LEMMA EditKeepsContract ==
    ASSUME Safe, NEW e \in Editor, EditNext(e), NEW u \in User
    PROVE  [H(u)!Next]_(H(u)!vars)
<1> TypeOK /\ EntryOK /\ SurveyOf(e)
    BY DEF Safe, EditsOK
<1> USE UserOfAssumption DEF EditReq
<1> DEFINE O == Responders(u)
           G == {c \in signal : UserOf[c] = u}
           A == [d \in Editor |-> Expect(edit[d], u)]
           V == [d \in Editor |-> edit[d].survey[u]]
           M == [d \in Editor |-> IF edit[d].survey[u] = "missing"
                                  THEN Expect(edit[d], u) \ edit[d].counted ELSE {}]
<1>1. ASSUME NEW c \in Conn, Answer(e, c)
      PROVE  [H(u)!Next]_(H(u)!vars)
  <2>1. /\ c \in edit[e].asked /\ signal' = signal \cup {c} /\ UNCHANGED conn
        /\ \A d \in Editor :
              /\ edit'[d].asked = edit[d].asked /\ edit'[d].survey = edit[d].survey
              /\ \/ edit'[d].counted = edit[d].counted
                 \/ /\ d = e /\ edit[d].survey[UserOf[c]] = "asking"
                    /\ edit'[d].counted = edit[d].counted \cup {c}
        BY <1>1 DEF Answer, riverVars, TypeOK
  <2>2. O' = O /\ A' = A /\ V' = V
        BY <2>1 DEF Responders, Expect
  <2>3. \A d \in Editor : edit[d].survey[u] = "missing" =>
            (Expect(edit[d], u) \ edit[d].counted)' = Expect(edit[d], u) \ edit[d].counted
        BY <2>1 DEF Expect
  <2>4. M' = M
        BY <2>1, <2>3
  <2>5. CASE UserOf[c] = u
    <3>1. G' = G \cup {c}
          BY <2>1, <2>5
    <3>2. \E d \in Editor : c \in A[d]
          BY <2>1, <2>5 DEF Expect
    <3>3. H(u)!HangUp(c)
          BY <2>2, <2>4, <3>1, <3>2 DEF H!HangUp
    <3>4. QED  BY <3>3 DEF H!Next
  <2>6. CASE UserOf[c] # u
    <3>1. G' = G
          BY <2>1, <2>6
    <3>2. QED  BY <2>2, <2>4, <3>1 DEF H!vars
  <2>7. QED  BY <2>5, <2>6
<1>2. CASE NewSurvey(e)
  <2>1. PICK v \in edit[e].todo : edit' = [edit EXCEPT ![e] = Surveying(edit[e], v)]
        BY <1>2 DEF NewSurvey
  <2>2. /\ v \in User /\ edit[e].survey[v] = "idle" /\ Expect(edit[e], v) = {}
        /\ UNCHANGED <<conn, signal>>
        BY <1>2, <2>1 DEF NewSurvey, SurveyOf, TypeOK, riverVars
  <2>3. /\ \A d \in Editor : d # e => edit'[d] = edit[d]
        /\ edit'[e].counted = edit[e].counted
        /\ edit'[e].asked = IF v \in bucket THEN edit[e].asked \cup Responders(v)
                                             ELSE edit[e].asked
        /\ edit'[e].survey = [edit[e].survey EXCEPT ![v] =
                                 IF v \in bucket THEN "asking" ELSE "nobucket"]
        BY <2>1 DEF Surveying, TypeOK
  <2>4. O' = O /\ G' = G
        BY <2>2 DEF Responders
  <2>5. CASE v = u
    <3>1. V[e] = "idle" /\ V' = [V EXCEPT ![e] = IF u \in bucket THEN "asking"
                                                   ELSE "nobucket"]
      <4>1. edit'[e].survey[u] = IF u \in bucket THEN "asking" ELSE "nobucket"
            BY <2>3, <2>5 DEF TypeOK
      <4>2. QED  BY <2>2, <2>3, <2>5, <4>1
    <3>2. u \notin bucket => O = {}
          BY DEF EntryOK, Responders
    <3>3. Expect(edit[e], u)' = O
          BY <2>2, <2>3, <2>5, <3>2 DEF Expect, Responders
    <3>4. A' = [A EXCEPT ![e] = O]
          BY <2>3, <3>3 DEF Expect
    <3>5. M' = M
          BY <2>2, <2>3, <2>5, <3>1 DEF Expect
    <3>6. H(u)!Ask(e)
          BY <2>4, <3>1, <3>2, <3>4, <3>5 DEF H!Ask
    <3>7. QED  BY <3>6 DEF H!Next
  <2>6. CASE v # u
    <3>1. \A c \in Responders(v) : UserOf[c] # u
          BY <2>6 DEF Responders
    <3>2. Expect(edit[e], u)' = Expect(edit[e], u)
          BY <2>3, <3>1 DEF Expect
    <3>3. edit'[e].survey[u] = edit[e].survey[u]
          BY <2>2, <2>3, <2>6 DEF TypeOK
    <3>4. A' = A /\ V' = V /\ M' = M
          BY <2>3, <3>2, <3>3 DEF Expect
    <3>5. QED  BY <2>4, <3>4 DEF H!vars
  <2>7. QED  BY <2>5, <2>6
<1>3. CASE MakeSurvey(e)
  <2> DEFINE v == edit[e].user
  <2>1. /\ UNCHANGED <<conn, signal>> /\ edit[e].survey[v] = "asking" /\ v \in User
        /\ \A d \in Editor : d # e => edit'[d] = edit[d]
        /\ edit'[e].asked = edit[e].asked /\ edit'[e].counted = edit[e].counted
        /\ edit'[e].survey = [edit[e].survey EXCEPT ![v] =
              IF Expect(edit[e], v) \subseteq edit[e].counted THEN "ok" ELSE "missing"]
    <3>1. UNCHANGED <<conn, signal>> /\ edit[e].survey[v] = "asking" /\ v \in User
          BY <1>3 DEF MakeSurvey, SurveyOf, riverVars
    <3>2. \A d \in Editor : d # e => edit'[d] = edit[d]
          BY <1>3 DEF MakeSurvey, TypeOK
    <3>3. CASE Expect(edit[e], v) \subseteq edit[e].counted
      <4>1. edit'[e] = [edit[e] EXCEPT !.pc = "next", !.user = None, !.survey[v] = "ok"]
            BY <1>3, <3>3 DEF MakeSurvey, TypeOK
      <4>2. QED  BY <3>1, <3>2, <3>3, <4>1 DEF TypeOK
    <3>4. CASE ~(Expect(edit[e], v) \subseteq edit[e].counted)
      <4>1. edit'[e] = [edit[e] EXCEPT !.pc = "missing", !.survey[v] = "missing"]
            BY <1>3, <3>4 DEF MakeSurvey, TypeOK
      <4>2. QED  BY <3>1, <3>2, <3>4, <4>1 DEF TypeOK
    <3>5. QED  BY <3>3, <3>4
  <2> HIDE DEF v
  <2>2. O' = O /\ G' = G /\ A' = A
        BY <2>1 DEF Responders, Expect
  <2>3. CASE v # u
    <3>1. edit'[e].survey[u] = edit[e].survey[u]
          BY <2>1, <2>3 DEF TypeOK
    <3>2. QED  BY <2>1, <2>2, <3>1, Invisible
  <2>4. CASE v = u /\ Expect(edit[e], u) \subseteq edit[e].counted
    <3>1. edit'[e].survey[u] = "ok" /\ edit[e].survey[u] = "asking"
          BY <2>1, <2>4 DEF TypeOK
    <3>2. V[e] = "asking" /\ V' = [V EXCEPT ![e] = "ok"]
          BY <2>1, <3>1
    <3>3. M' = M
          BY <2>1, <3>1 DEF Expect
    <3>4. A[e] \subseteq G
          BY <2>4 DEF SurveyOf, Expect
    <3>5. H(u)!ReportAll(e)
          BY <2>2, <3>2, <3>3, <3>4 DEF H!ReportAll
    <3>6. QED  BY <3>5 DEF H!Next
  <2>5. CASE v = u /\ ~(Expect(edit[e], u) \subseteq edit[e].counted)
    <3> DEFINE N == Expect(edit[e], u) \ edit[e].counted
    <3>1. edit'[e].survey[u] = "missing" /\ edit[e].survey[u] = "asking"
          BY <2>1, <2>5 DEF TypeOK
    <3>2. V[e] = "asking" /\ V' = [V EXCEPT ![e] = "missing"]
          BY <2>1, <3>1
    <3>3. M' = [M EXCEPT ![e] = N]
          BY <2>1, <3>1 DEF Expect
    <3>4. N \in SUBSET A[e] /\ N # {} /\ A[e] \ N \subseteq G
          BY <2>5 DEF SurveyOf, Expect
    <3> HIDE DEF N
    <3>5. \E K \in (SUBSET A[e]) \ {{}} : A[e] \ K \subseteq G /\ M' = [M EXCEPT ![e] = K]
          BY <3>3, <3>4
    <3>6. H(u)!ReportMissing(e)
          BY <2>2, <3>2, <3>5 DEF H!ReportMissing
    <3>7. QED  BY <3>6 DEF H!Next
  <2>6. QED  BY <2>3, <2>4, <2>5
<1>4. ASSUME UNCHANGED <<conn, signal>>, \A d \in Editor : d # e => edit'[d] = edit[d],
             edit'[e].asked = edit[e].asked, edit'[e].counted = edit[e].counted,
             edit'[e].survey = edit[e].survey
      PROVE  [H(u)!Next]_(H(u)!vars)
  <2>1. O' = O
        BY <1>4 DEF Responders
  <2>2. QED  BY <1>4, <2>1, Invisible
<1>5. ASSUME \/ CheckDelete(e) \/ CheckMissing(e) \/ Put(e) \/ DeleteCheckins(e)
             \/ DeleteConvo(e) \/ \E g \in Group : CheckPut(e, g)
      PROVE  [H(u)!Next]_(H(u)!vars)
  <2>1. UNCHANGED <<conn, signal>>
        BY <1>5 DEF CheckPut, CheckDelete, CheckMissing, Put, DeleteCheckins,
                    DeleteConvo, riverVars
  <2>2. \A d \in Editor : d # e => edit'[d] = edit[d]
        BY <1>5 DEF CheckPut, CheckDelete, CheckMissing, Put, DeleteCheckins,
                    DeleteConvo, TypeOK
  <2>3. /\ edit'[e].asked = edit[e].asked /\ edit'[e].counted = edit[e].counted
        /\ edit'[e].survey = edit[e].survey
    <3> USE DEF TypeOK
    <3>1. CASE CheckDelete(e)
          BY <3>1 DEF CheckDelete, NewEdit
    <3>2. ASSUME NEW g \in Group, CheckPut(e, g)
          PROVE  /\ edit'[e].asked = edit[e].asked
                 /\ edit'[e].counted = edit[e].counted
                 /\ edit'[e].survey = edit[e].survey
          BY <3>2 DEF CheckPut, NewEdit
    <3>3. CASE edit'[e] = Failed(edit[e])
          BY <3>3 DEF Failed
    <3>4. CASE edit'[e] = [edit[e] EXCEPT !.pc = "done"]
          BY <3>4
    <3>5. CASE CheckMissing(e)
          BY <3>3, <3>5 DEF CheckMissing
    <3>6. CASE Put(e)
          BY <3>3, <3>4, <3>6 DEF Put
    <3>7. CASE DeleteCheckins(e)
          BY <3>7 DEF DeleteCheckins
    <3>8. CASE DeleteConvo(e)
          BY <3>3, <3>4, <3>8 DEF DeleteConvo
    <3>9. QED  BY <1>5, <3>1, <3>2, <3>5, <3>6, <3>7, <3>8
  <2>4. QED  BY <1>4, <2>1, <2>2, <2>3
<1>6. QED  BY <1>1, <1>2, <1>3, <1>5 DEF EditNext

\* And the server's.
LEMMA RestartKeepsContract ==
    ASSUME TypeOK, Restart, NEW u \in User
    PROVE  H(u)!Restart
<1>1. Responders(u)' = {} /\ signal' = signal
      BY DEF Restart, Responders, Listed
<1>2. \A e \in Editor :
          /\ edit'[e].asked = edit[e].asked /\ edit'[e].counted = edit[e].counted
          /\ edit'[e].survey = edit[e].survey
  <2> SUFFICES ASSUME NEW e \in Editor
               PROVE  /\ edit'[e].asked = edit[e].asked
                      /\ edit'[e].counted = edit[e].counted
                      /\ edit'[e].survey = edit[e].survey
      OBVIOUS
  <2>1. edit[e] \in EditReq /\ edit'[e] \in {edit[e], Failed(edit[e])}
        BY DEF Restart, TypeOK
  <2>2. QED  BY <2>1 DEF Failed, EditReq
<1>3. QED  BY <1>1, <1>2 DEF H!Restart, Expect

\* The PUTs and DELETEs of a Convo, the connections and restarts keep the surveys
\* of every user's bucket within the contract that module Survey implements.
THEOREM EditKeepsHangupContract == Spec => HangupContract
<1>1. Init => \A u \in User : H(u)!Init
      BY DEF Init, H!Init, Responders, Expect, NewEdit, Listed
<1>2. Safe /\ [Next]_vars => [\A u \in User : [H(u)!Next]_(H(u)!vars)]_vars
  <2> SUFFICES ASSUME Safe, Next, NEW u \in User
               PROVE  [H(u)!Next]_(H(u)!vars)
      OBVIOUS
  <2>1. CASE Restart
        BY <2>1, RestartKeepsContract DEF Safe, H!Next
  <2>2. CASE UNCHANGED <<conn, signal, edit>>
    <3>1. Responders(u)' = Responders(u)
          BY <2>2 DEF Responders
    <3>2. UNCHANGED H(u)!vars
          BY <2>2, <3>1, Invisible
    <3>3. QED  BY <3>2
  <2>3. ASSUME NEW c \in Conn, ScribeNext(c)
        PROVE  UNCHANGED <<conn, signal, edit>>
        BY <2>3 DEF ScribeNext, Say, AnswerScribe, Flush, EndScribe, riverVars
  <2>4. QED
        BY <2>1, <2>2, <2>3, ConnKeepsContract, EditKeepsContract
        DEF Next, Create, riverVars
<1>3. QED  BY <1>1, <1>2, AlwaysSafe, PTL DEF Spec, HangupContract

-----------------------------------------------------------------------------
(* The contract of the surveys of the Scribes.                             *)

\* A Scribe comes when it is spawned, leaves when its writer ends, and is hung up
\* by the surveys of the connections' handlers as the contract says.
LEMMA NextKeepsScribeContract == Safe /\ [Next]_vars => [S!Next]_(S!vars)
<1> SUFFICES ASSUME Safe, [Next]_vars
             PROVE  [S!Next]_(S!vars)
    OBVIOUS
<1> DEFINE A == [c \in Conn |-> survey[c].asked]
           V == [c \in Conn |-> survey[c].verdict]
           M == [c \in Conn |-> IF survey[c].verdict = "missing"
                                THEN survey[c].asked \ survey[c].counted ELSE {}]
<1>1. /\ survey \in [Conn -> ScribeSurvey] /\ ScribesOK
      /\ scribe \in [Conn -> {"none", "live", "hungup", "gone", "lost"}]
      BY DEF Safe, TypeOK
<1>2. CASE UNCHANGED <<survey, scribe>>
      BY <1>2 DEF S!vars, Scribes
<1>3. CASE Restart
  <2>1. Scribes' = {} /\ Hung' = Hung /\ survey' = survey
        BY <1>1, <1>3 DEF Restart, Scribes, Hung, Stopped
  <2>2. S!Restart
        BY <2>1 DEF S!Restart, Hung
  <2>3. QED  BY <2>2 DEF S!Next
<1>4. ASSUME NEW c \in Conn, Spawn(c)
      PROVE  [S!Next]_(S!vars)
  <2>1. scribe[c] = "none" /\ scribe' = [scribe EXCEPT ![c] = "live"] /\ survey' = survey
        BY <1>1, <1>4 DEF Spawn, At, ScribesOK, Early
  <2>2. c \notin Scribes \cup Hung /\ Scribes' = Scribes \cup {c} /\ Hung' = Hung
        BY <1>1, <2>1 DEF Scribes, Hung
  <2>3. S!Connect(c)
        BY <2>1, <2>2 DEF S!Connect, Hung
  <2>4. QED  BY <2>3 DEF S!Next
<1>5. ASSUME NEW c \in Conn, EndScribe(c)
      PROVE  [S!Next]_(S!vars)
  <2>1. scribe[c] = "hungup" /\ scribe' = [scribe EXCEPT ![c] = "gone"] /\ survey' = survey
        BY <1>5 DEF EndScribe, riverVars
  <2>2. c \in Scribes /\ Scribes' = Scribes \ {c} /\ Hung' = Hung
        BY <1>1, <2>1 DEF Scribes, Hung
  <2>3. S!Leave(c)
        BY <2>1, <2>2 DEF S!Leave, Hung
  <2>4. QED  BY <2>3 DEF S!Next
<1>6. ASSUME NEW c \in Conn, NewScribeSurvey(c), scribes
      PROVE  [S!Next]_(S!vars)
  <2>1. /\ survey[c] = NoSurvey /\ scribe' = scribe
        /\ survey' = [survey EXCEPT ![c] =
              [NoSurvey EXCEPT !.verdict = "asking", !.asked = Scribes]]
        BY <1>1, <1>6 DEF NewScribeSurvey, At, ScribesOK, scribeVars
  <2>2. /\ survey'[c].verdict = "asking" /\ survey'[c].asked = Scribes
        /\ survey[c].verdict = "idle" /\ \A d \in Conn \ {c} : survey'[d] = survey[d]
        BY <1>1, <2>1 DEF NoSurvey
  <2>3. /\ V[c] = "idle" /\ V' = [V EXCEPT ![c] = "asking"]
        /\ A' = [A EXCEPT ![c] = Scribes] /\ M' = M
        BY <2>2
  <2>4. S!Ask(c)
        BY <2>1, <2>3 DEF S!Ask, Scribes
  <2>5. QED  BY <2>4 DEF S!Next
<1>7. ASSUME NEW c \in Conn, NEW d \in Conn, AnswerScribe(c, d)
      PROVE  [S!Next]_(S!vars)
  <2>1. /\ d \in survey[c].asked /\ scribe[d] = "live"
        /\ scribe' = [scribe EXCEPT ![d] = "hungup"]
        BY <1>7 DEF AnswerScribe
  <2>2. \A b \in Conn :
            /\ survey'[b].verdict = survey[b].verdict
            /\ survey'[b].asked = survey[b].asked
            /\ survey[b].verdict = "missing" => survey'[b].counted = survey[b].counted
        BY <1>1, <1>7 DEF AnswerScribe, ScribeSurvey
  <2>3. A' = A /\ V' = V /\ M' = M
        BY <2>2
  <2>4. Scribes' = Scribes /\ Hung' = Hung \cup {d} /\ d \in A[c]
        BY <1>1, <2>1 DEF Scribes, Hung
  <2>5. S!HangUp(d)
        BY <2>3, <2>4 DEF S!HangUp, Hung
  <2>6. QED  BY <2>5 DEF S!Next
<1>8. ASSUME NEW c \in Conn, HangupScribe(c)
      PROVE  [S!Next]_(S!vars)
  <2> DEFINE N == survey[c].asked \ survey[c].counted
  <2>1. survey[c].verdict = "asking" /\ scribe' = scribe
        BY <1>1, <1>8 DEF HangupScribe, At, ScribesOK, scribeVars
  <2>2. /\ survey'[c].verdict = IF N = {} THEN "ok" ELSE "missing"
        /\ survey'[c].asked = survey[c].asked
        /\ survey'[c].counted = survey[c].counted
        /\ \A d \in Conn \ {c} : survey'[d] = survey[d]
        BY <1>1, <1>8 DEF HangupScribe, ScribeSurvey
  <2>3. A' = A /\ Scribes' = Scribes /\ Hung' = Hung /\ A[c] \ N \subseteq Hung
        BY <1>1, <2>1, <2>2 DEF Scribes, Hung, ScribesOK
  <2>4. CASE N = {}
    <3>1. V[c] = "asking" /\ V' = [V EXCEPT ![c] = "ok"] /\ M' = M /\ A[c] \subseteq Hung
          BY <2>1, <2>2, <2>3, <2>4
    <3>2. S!ReportAll(c)
          BY <2>3, <3>1 DEF S!ReportAll, Hung
    <3>3. QED  BY <3>2 DEF S!Next
  <2>5. CASE N # {}
    <3>1. V[c] = "asking" /\ V' = [V EXCEPT ![c] = "missing"] /\ M' = [M EXCEPT ![c] = N]
          BY <2>1, <2>2, <2>5
    <3>2. N \in SUBSET A[c]
          OBVIOUS
    <3> HIDE DEF N
    <3>3. \E K \in (SUBSET A[c]) \ {{}} :
              A[c] \ K \subseteq Hung /\ M' = [M EXCEPT ![c] = K]
          BY <2>3, <2>5, <3>1, <3>2
    <3>4. S!ReportMissing(c)
          BY <2>3, <3>1, <3>3 DEF S!ReportMissing, Hung
    <3>5. QED  BY <3>4 DEF S!Next
  <2>6. QED  BY <2>4, <2>5
<1>9. ASSUME NEW c \in Conn, ConnNext(c)
      PROVE  [S!Next]_(S!vars)
      BY <1>2, <1>3, <1>4, <1>6, <1>8, <1>9
      DEF ConnNext, CheckConnect, NewResponder, Checkin, NewBus, ConnectFails,
          Leave, Checkout, NewScribeSurvey, CheckMissingScribe, Cleanup, scribeVars
<1>10. ASSUME NEW c \in Conn, ScribeNext(c)
       PROVE  [S!Next]_(S!vars)
       BY <1>2, <1>5, <1>7, <1>10 DEF ScribeNext, Say, Flush, riverVars
<1>11. ASSUME NEW e \in Editor, EditNext(e)
       PROVE  UNCHANGED <<survey, scribe>>
       BY <1>11
       DEF EditNext, CheckPut, CheckDelete, NewSurvey, Answer, MakeSurvey,
           CheckMissing, Put, DeleteCheckins, DeleteConvo, riverVars, scribeVars
<1>12. QED
       BY <1>2, <1>3, <1>9, <1>10, <1>11 DEF Next, Create, vars, riverVars, scribeVars

\* However many Scribes a Convo has at a time, and however many handlers hang them
\* up, their bucket is used within the contract that module Survey implements.
THEOREM ScribesKeepContract == Spec => ScribeContract
<1>1. Init => S!Init
      BY DEF Init, S!Init, Scribes, NoSurvey
<1>2. QED
      BY <1>1, NextKeepsScribeContract, AlwaysSafe, PTL DEF Spec, ScribeContract
=============================================================================

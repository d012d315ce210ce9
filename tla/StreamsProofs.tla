---------------------------- MODULE StreamsProofs ---------------------------
(***************************************************************************)
(* Proofs about Streams, for any users, groups, connections and requests.  *)
(***************************************************************************)
EXTENDS Streams, TLAPS

\* Connections that have had a Responder.
Registered ==
    {c \in Conn : conn[c] \in {"registered", "serving", "leaving", "gone",
                              "failed"}}

\* A Responder is in a bucket, and only those who had one were hung up.
EntryOK == signal \subseteq Registered /\ \A c \in resp : UserOf[c] \in bucket

\* AskedAreHungUp while a Delete is under way: an answer is counted after its
\* signal is closed, a survey that is over has counted everyone, and the loop goes
\* on only when it has.
SurveyOf(d) ==
    /\ del[d].asked \subseteq Registered
    /\ del[d].counted \subseteq signal
    /\ \A u \in User :
          /\ u \in del[d].todo => del[d].survey[u] = "idle"
          /\ del[d].survey[u] \in {"idle", "nobucket"} => Expect(del[d], u) = {}
          /\ del[d].survey[u] = "ok" => Expect(del[d], u) \subseteq del[d].counted
          /\ del[d].survey[u] \in {"asking", "missing"} =>
                del[d].pc \in {"ask", "failed"}
    /\ del[d].pc = "ask" => \A u, v \in User :
          {del[d].survey[u], del[d].survey[v]} \subseteq {"asking", "missing"} => u = v
    /\ del[d].pc = "done" => del[d].todo = {}

\* PresentAreHungUp while a Delete is under way: whoever was served and still is
\* has been hung up, is asked now, or waits for the loop to come round.
PresentOf(d) ==
    \A c \in del[d].present :
        /\ conn[c] \in {"serving", "leaving", "gone"}
        /\ conn[c] = "serving" =>
              \/ c \in signal
              \/ c \in del[d].asked /\ del[d].survey[UserOf[c]] = "asking"
              \/ UserOf[c] \in del[d].todo \cup del[d].unasked

DeletesOK == \A d \in Deleter : SurveyOf(d) /\ PresentOf(d)

\* The inductive invariant.
Safe == TypeOK /\ RiversAreLive /\ Meshed /\ EntryOK /\ DeletesOK

\* Nothing is connected and nothing is asked at first.
LEMMA InitSafe == Init => Safe
<1> SUFFICES ASSUME Init
             PROVE  Safe
    OBVIOUS
<1>1. TypeOK
  <2>1. put \in [Putter -> PutReq]
        BY DEF Init, PutReq, NewPut
  <2>2. del \in [Deleter -> DelReq]
        BY DEF Init, DelReq, NewDel, Verdict
  <2>3. QED  BY <2>1, <2>2 DEF Init, TypeOK, ConnPc
<1>2. RiversAreLive /\ Meshed
      BY DEF Init, RiversAreLive, Meshed
<1>3. EntryOK
      BY DEF Init, EntryOK
<1>4. DeletesOK
      BY DEF Init, DeletesOK, SurveyOf, PresentOf, NewDel, Expect
<1>5. QED  BY <1>1, <1>2, <1>3, <1>4 DEF Safe

\* Type correctness is inductive on its own.
LEMMA NextTyped == TypeOK /\ [Next]_vars => TypeOK'
<1> SUFFICES ASSUME TypeOK, [Next]_vars
             PROVE  TypeOK'
    OBVIOUS
<1> USE DEF TypeOK, ConnPc, PutReq, DelReq, NewPut, NewDel, Verdict
<1>1. ASSUME NEW g \in Group, Create(g)
      PROVE  TypeOK'
      BY <1>1 DEF Create, riverVars
<1>2. ASSUME NEW p \in Putter, NEW g \in Group, CheckPut(p, g)
      PROVE  TypeOK'
      BY <1>2 DEF CheckPut, riverVars
<1>3. ASSUME NEW p \in Putter, Put(p)
      PROVE  TypeOK'
      BY <1>3 DEF Put, riverVars
<1>4. ASSUME NEW c \in Conn, CheckConnect(c)
      PROVE  TypeOK'
      BY <1>4 DEF CheckConnect, At
<1>5. ASSUME NEW c \in Conn, NewResponder(c)
      PROVE  TypeOK'
      BY <1>5, UserOfAssumption DEF NewResponder, At
<1>6. ASSUME NEW c \in Conn, NewBus(c)
      PROVE  TypeOK'
      BY <1>6 DEF NewBus, At
<1>7. ASSUME NEW c \in Conn, Leave(c)
      PROVE  TypeOK'
      BY <1>7 DEF Leave, At
<1>8. ASSUME NEW c \in Conn, Cleanup(c)
      PROVE  TypeOK'
      BY <1>8 DEF Cleanup, At
<1>9. ASSUME NEW d \in Deleter, CheckDelete(d)
      PROVE  TypeOK'
  <2>1. stream.readers \subseteq User
        BY <1>9, GroupAssumption DEF CheckDelete
  <2>2. QED  BY <2>1, <1>9 DEF CheckDelete, riverVars
<1>10. ASSUME NEW d \in Deleter, NewSurvey(d)
       PROVE  TypeOK'
  <2> PICK u \in del[d].todo :
         del' = [del EXCEPT ![d] = Surveying(del[d], u)]
      BY <1>10 DEF NewSurvey
  <2>1. Surveying(del[d], u) \in DelReq
        BY DEF Surveying, Responders
  <2>2. del' \in [Deleter -> DelReq]
        BY <2>1
  <2>3. QED  BY <1>10, <2>2 DEF NewSurvey, riverVars
<1>11. ASSUME NEW d \in Deleter, NEW u \in User, MakeSurvey(d, u)
       PROVE  TypeOK'
  <2>1. /\ [del[d] EXCEPT !.pc = "next", !.survey[u] = "ok"] \in DelReq
        /\ [Failed(del[d]) EXCEPT !.survey[u] = "missing"] \in DelReq
        BY DEF Failed
  <2>2. del' \in [Deleter -> DelReq]
        BY <1>11, <2>1 DEF MakeSurvey
  <2>3. QED  BY <1>11, <2>2 DEF MakeSurvey, riverVars
<1>12. ASSUME NEW d \in Deleter, DeleteStream(d)
       PROVE  TypeOK'
       BY <1>12, SMTT(40) DEF DeleteStream, riverVars
<1>13. CASE Restart
  <2>1. \A d \in Deleter : Failed(del[d]) \in DelReq
        BY DEF Failed
  <2>2. del' \in [Deleter -> DelReq]
        BY <1>13, <2>1 DEF Restart
  <2>3. QED  BY <1>13, <2>2 DEF Restart
<1>14. ASSUME NEW d \in Deleter, NEW c \in Conn, Answer(d, c)
       PROVE  TypeOK'
  <2>1. [del[d] EXCEPT !.counted = @ \cup {c}] \in DelReq
        OBVIOUS
  <2>2. del' \in [Deleter -> DelReq] /\ signal' \subseteq Conn
    <3>1. signal' \subseteq Conn
          BY <1>14 DEF Answer
    <3>2. CASE del' = del
          BY <3>1, <3>2
    <3>3. CASE del' = [del EXCEPT ![d].counted = @ \cup {c}]
      <4>1. del' = [del EXCEPT ![d] = [del[d] EXCEPT !.counted = @ \cup {c}]]
            BY <3>3
      <4>2. QED  BY <2>1, <3>1, <4>1
    <3>4. QED  BY <1>14, <3>2, <3>3 DEF Answer
  <2>3. QED  BY <1>14, <2>2 DEF Answer, riverVars
<1>15. CASE UNCHANGED vars
       BY <1>15 DEF vars, riverVars
<1>16. ASSUME NEW c \in Conn, BusFails(c)
       PROVE  TypeOK'
       BY <1>16 DEF BusFails, At
<1>17. QED
       BY <1>1, <1>2, <1>3, <1>4, <1>5, <1>6, <1>7, <1>8, <1>9, <1>10,
          <1>11, <1>12, <1>13, <1>14, <1>15, <1>16 DEF Next, ConnNext, DeleteNext

\* The buckets and the mesh change only with a connection or a restart.
LEMMA NextRivers ==
    TypeOK /\ RiversAreLive /\ Meshed /\ [Next]_vars
        => RiversAreLive' /\ Meshed'
<1> SUFFICES ASSUME TypeOK, RiversAreLive, Meshed, [Next]_vars
             PROVE  RiversAreLive' /\ Meshed'
    OBVIOUS
<1> USE DEF TypeOK, RiversAreLive, Meshed, ConnPc
<1>1. CASE UNCHANGED riverVars
      BY <1>1 DEF riverVars
<1>2. ASSUME NEW c \in Conn, CheckConnect(c)
      PROVE  RiversAreLive' /\ Meshed'
      BY <1>2 DEF CheckConnect, At
<1>3. ASSUME NEW c \in Conn, NewResponder(c)
      PROVE  RiversAreLive' /\ Meshed'
      BY <1>3 DEF NewResponder, At
<1>4. ASSUME NEW c \in Conn, NewBus(c)
      PROVE  RiversAreLive' /\ Meshed'
  <2>1. c \notin bus
        BY <1>4 DEF NewBus, At
  <2>2. RiversAreLive'
        BY <1>4 DEF NewBus, At
  <2>3. Meshed'
        BY <2>1, <1>4 DEF NewBus, At
  <2>4. QED  BY <2>2, <2>3
<1>5. ASSUME NEW c \in Conn, Leave(c)
      PROVE  RiversAreLive' /\ Meshed'
      BY <1>5 DEF Leave, At
<1>6. ASSUME NEW c \in Conn, Cleanup(c)
      PROVE  RiversAreLive' /\ Meshed'
      BY <1>6 DEF Cleanup, At
<1>7. CASE Restart
      BY <1>7 DEF Restart
<1>8. ASSUME NEW c \in Conn, BusFails(c)
      PROVE  RiversAreLive' /\ Meshed'
      BY <1>8 DEF BusFails, At
<1>9. QED
      BY <1>1, <1>2, <1>3, <1>4, <1>5, <1>6, <1>7, <1>8
      DEF Next, ConnNext, DeleteNext, Create, CheckPut, Put, CheckDelete,
          NewSurvey, Answer, MakeSurvey, DeleteStream, vars

\* Nobody is hung up without a Responder, and nobody has one outside a bucket.
LEMMA NextEntries ==
    TypeOK /\ RiversAreLive /\ EntryOK /\ DeletesOK /\ [Next]_vars => EntryOK'
<1> SUFFICES ASSUME TypeOK, RiversAreLive, EntryOK, DeletesOK, [Next]_vars
             PROVE  EntryOK'
    OBVIOUS
<1> USE DEF TypeOK, EntryOK, Registered
<1>1. CASE UNCHANGED <<riverVars, signal>>
      BY <1>1 DEF riverVars
<1>2. ASSUME NEW c \in Conn, ConnNext(c)
      PROVE  EntryOK'
      BY <1>2
      DEF ConnNext, CheckConnect, NewResponder, NewBus, BusFails, Leave, Cleanup,
          At
<1>3. CASE Restart
      BY <1>3 DEF Restart
<1>4. ASSUME NEW d \in Deleter, NEW c \in Conn, Answer(d, c)
      PROVE  EntryOK'
      BY <1>4 DEF Answer, DeletesOK, SurveyOf, riverVars
<1>5. QED
      BY <1>1, <1>2, <1>3, <1>4
      DEF Next, DeleteNext, Create, CheckPut, Put, CheckDelete, NewSurvey,
          MakeSurvey, DeleteStream, vars

\* A Delete is not concerned when its own request, and what was asked and heard,
\* stay as they are: Responders are never taken back, nor are signals, and who
\* leaves does not come back.
LEMMA OtherDeletes ==
    ASSUME TypeOK, NEW d \in Deleter, SurveyOf(d), PresentOf(d),
           del'[d] = del[d], signal \subseteq signal',
           \A c \in Conn :
               /\ c \in Registered => c \in Registered'
               /\ conn[c] \in {"serving", "leaving", "gone"} =>
                     conn'[c] \in {conn[c], "leaving", "gone"}
    PROVE  SurveyOf(d)' /\ PresentOf(d)'
<1> USE DEF TypeOK, DelReq
<1>1. SurveyOf(d)'
  <2>1. del[d].asked \subseteq Registered'
        BY DEF SurveyOf
  <2>2. \A u \in User : Expect(del[d], u)' = Expect(del[d], u)
        BY DEF Expect
  <2>3. QED  BY <2>1, <2>2 DEF SurveyOf
<1>2. PresentOf(d)'
      BY DEF PresentOf
<1>3. QED  BY <1>1, <1>2

\* Who has had a Responder, and who is served, only moves on.
LEMMA ConnsMoveOn ==
    ASSUME TypeOK, [Next]_vars, NEW c \in Conn
    PROVE  /\ signal \subseteq signal'
           /\ c \in Registered => c \in Registered'
           /\ conn[c] \in {"serving", "leaving", "gone"} =>
                 conn'[c] \in {conn[c], "leaving", "gone"}
<1> USE DEF TypeOK, Registered
<1>1. CASE UNCHANGED conn /\ signal \subseteq signal'
      BY <1>1
<1>2. ASSUME NEW b \in Conn, ConnNext(b)
      PROVE  /\ signal \subseteq signal'
             /\ c \in Registered => c \in Registered'
             /\ conn[c] \in {"serving", "leaving", "gone"} =>
                   conn'[c] \in {conn[c], "leaving", "gone"}
  <2>1. UNCHANGED signal
        BY <1>2
        DEF ConnNext, CheckConnect, NewResponder, NewBus, BusFails, Leave,
            Cleanup
  <2>2. PICK pc, next : /\ At(b, pc, next)
                        /\ pc \in {"serving", "leaving"}
                              => next \in {"leaving", "gone"}
                        /\ pc = "registered"
                              => next \in {"serving", "failed"}
                        /\ pc \notin {"gone", "failed"}
        BY <1>2
        DEF ConnNext, CheckConnect, NewResponder, NewBus, BusFails, Leave,
            Cleanup
  <2>3. QED  BY <2>1, <2>2 DEF At
<1>3. CASE Restart
      BY <1>3 DEF Restart
<1>4. ASSUME NEW d \in Deleter, NEW b \in Conn, Answer(d, b)
      PROVE  UNCHANGED conn /\ signal \subseteq signal'
      BY <1>4 DEF Answer, riverVars
<1>5. QED
      BY <1>1, <1>2, <1>3, <1>4
      DEF Next, DeleteNext, Create, CheckPut, Put, CheckDelete, NewSurvey,
          MakeSurvey, DeleteStream, vars, riverVars

\* The steps of a Delete keep its own part of the invariant: the loop goes over
\* all Readers unless it breaks off, and Responders stay in the database as long
\* as their connection is served.
LEMMA DeleteStep ==
    ASSUME TypeOK, RiversAreLive, EntryOK, NEW d \in Deleter, DeleteNext(d),
           SurveyOf(d), PresentOf(d)
    PROVE  SurveyOf(d)' /\ PresentOf(d)'
<1> USE DEF TypeOK, DelReq, Verdict
<1>1. CASE CheckDelete(d)
  <2>1. /\ del'[d].present = {c \in Conn : conn[c] = "serving"}
        /\ del'[d].todo = stream.readers
        /\ del'[d].unasked = User \ stream.readers
        /\ del'[d].asked = {} /\ del'[d].counted = {} /\ del'[d].pc = "next"
        /\ del'[d].survey = [u \in User |-> "idle"]
        /\ UNCHANGED <<conn, signal>>
        BY <1>1 DEF CheckDelete, riverVars, NewDel
  <2>2. \A c \in Conn : UserOf[c] \in User
        BY UserOfAssumption
  <2>3. PresentOf(d)'
        BY <2>1, <2>2 DEF PresentOf
  <2>4. SurveyOf(d)'
        BY <2>1 DEF SurveyOf, Expect
  <2>5. QED  BY <2>3, <2>4
<1>2. CASE NewSurvey(d)
  <2> PICK u \in del[d].todo :
         del' = [del EXCEPT ![d] = Surveying(del[d], u)]
      BY <1>2 DEF NewSurvey
  <2>1. del[d].pc = "next" /\ UNCHANGED <<conn, signal>> /\ u \in User
        BY <1>2 DEF NewSurvey, riverVars
  <2>2. del[d].survey[u] = "idle" /\ Expect(del[d], u) = {}
        BY <2>1 DEF SurveyOf
  <2>3. Responders(u) \subseteq Registered
        BY DEF Responders, RiversAreLive, Registered
  <2>4. CASE u \in bucket
    <3>1. /\ del'[d].pc = "ask" /\ del'[d].todo = del[d].todo \ {u}
          /\ del'[d].survey = [del[d].survey EXCEPT ![u] = "asking"]
          /\ del'[d].asked = del[d].asked \cup Responders(u)
          /\ del'[d].counted = del[d].counted
          /\ del'[d].unasked = del[d].unasked /\ del'[d].present = del[d].present
          BY <2>4 DEF Surveying
    <3>2. \A v \in User : v # u => Expect(del[d], v)' = Expect(del[d], v)
          BY <3>1 DEF Expect, Responders
    <3>3. SurveyOf(d)'
      <4>1. del'[d].asked \subseteq Registered'
            BY <2>1, <2>3, <3>1 DEF SurveyOf, Registered
      <4>2. \A v \in User : v # u => del'[d].survey[v] = del[d].survey[v]
            BY <3>1
      <4>3. del'[d].survey[u] = "asking"
            BY <2>1, <3>1
      <4>4. QED  BY <2>1, <3>1, <3>2, <4>1, <4>2, <4>3 DEF SurveyOf
    <3>4. PresentOf(d)'
      <4> SUFFICES ASSUME NEW c \in del[d].present
                   PROVE  /\ conn[c] \in {"serving", "leaving", "gone"}
                          /\ conn[c] = "serving" =>
                               \/ c \in signal
                               \/ c \in del'[d].asked
                                     /\ del'[d].survey[UserOf[c]] = "asking"
                               \/ UserOf[c] \in del'[d].todo \cup del'[d].unasked
          BY <2>1, <3>1 DEF PresentOf
      <4>1. conn[c] \in {"serving", "leaving", "gone"}
            BY DEF PresentOf
      <4>2. ASSUME conn[c] = "serving", UserOf[c] = u
            PROVE  c \in Responders(u)
            BY <4>2 DEF Responders, RiversAreLive
      <4>3. UserOf[c] \in User
            BY UserOfAssumption
      <4>4. QED  BY <2>1, <3>1, <4>1, <4>2, <4>3 DEF PresentOf
    <3>5. QED  BY <3>3, <3>4
  <2>5. CASE u \notin bucket
    <3>1. /\ del'[d].pc = "next" /\ del'[d].todo = {}
          /\ del'[d].survey = [del[d].survey EXCEPT ![u] = "nobucket"]
          /\ del'[d].asked = del[d].asked /\ del'[d].counted = del[d].counted
          /\ del'[d].unasked = del[d].unasked \cup del[d].todo
          /\ del'[d].present = del[d].present
          BY <2>1, <2>5 DEF Surveying
    <3>2. \A v \in User : Expect(del[d], v)' = Expect(del[d], v)
          BY <3>1 DEF Expect
    <3>3. /\ \A v \in User : v # u => del'[d].survey[v] = del[d].survey[v]
          /\ del'[d].survey[u] = "nobucket"
          BY <2>1, <3>1
    <3>4. Registered' = Registered
          BY <2>1 DEF Registered
    <3>5. SurveyOf(d)'
          BY <2>1, <2>2, <3>1, <3>2, <3>3, <3>4 DEF SurveyOf
    <3>6. PresentOf(d)'
      <4>1. \A c \in Conn : UserOf[c] \in User
            BY UserOfAssumption
      <4>2. \A c \in del[d].present : del[d].survey[UserOf[c]] = "asking" =>
                del'[d].survey[UserOf[c]] = "asking"
            BY <2>2, <3>3, <4>1
      <4>3. QED  BY <2>1, <3>1, <4>2 DEF PresentOf
    <3>7. QED  BY <3>5, <3>6
  <2>6. QED  BY <2>4, <2>5
<1>3. ASSUME NEW c \in Conn, Answer(d, c)
      PROVE  SurveyOf(d)' /\ PresentOf(d)'
  <2>1. /\ signal' = signal \cup {c} /\ UNCHANGED conn
        /\ del'[d].counted \in {del[d].counted, del[d].counted \cup {c}}
        /\ del'[d].pc = del[d].pc /\ del'[d].todo = del[d].todo
        /\ del'[d].survey = del[d].survey /\ del'[d].asked = del[d].asked
        /\ del'[d].unasked = del[d].unasked /\ del'[d].present = del[d].present
        BY <1>3 DEF Answer, riverVars
  <2>2. \A v \in User : Expect(del[d], v)' = Expect(del[d], v)
        BY <2>1 DEF Expect
  <2>3. Registered' = Registered
        BY <2>1 DEF Registered
  <2>4. SurveyOf(d)'
        BY <2>1, <2>2, <2>3 DEF SurveyOf
  <2>5. PresentOf(d)'
        BY <2>1 DEF PresentOf
  <2>6. QED  BY <2>4, <2>5
<1>4. ASSUME NEW u \in User, MakeSurvey(d, u)
      PROVE  SurveyOf(d)' /\ PresentOf(d)'
  <2>1. /\ UNCHANGED <<conn, signal>>
        /\ del[d].pc = "ask" /\ del[d].survey[u] = "asking"
        BY <1>4 DEF MakeSurvey, riverVars
  <2>2. Registered' = Registered
        BY <2>1 DEF Registered
  <2>3. CASE Expect(del[d], u) \subseteq del[d].counted
    <3>1. /\ del'[d].pc = "next"
          /\ del'[d].survey = [del[d].survey EXCEPT ![u] = "ok"]
          /\ del'[d].asked = del[d].asked /\ del'[d].counted = del[d].counted
          /\ del'[d].unasked = del[d].unasked /\ del'[d].todo = del[d].todo
          /\ del'[d].present = del[d].present
          BY <1>4, <2>3 DEF MakeSurvey
    <3>2. \A v \in User : Expect(del[d], v)' = Expect(del[d], v)
          BY <3>1 DEF Expect
    <3>3. /\ \A v \in User : v # u => del'[d].survey[v] = del[d].survey[v]
          /\ del'[d].survey[u] = "ok"
          BY <2>1, <3>1
    <3>4. SurveyOf(d)'
      <4>1. \A v \in User : v # u => del[d].survey[v] \notin {"asking", "missing"}
            BY <2>1 DEF SurveyOf
      <4>2. QED  BY <2>1, <2>2, <2>3, <3>1, <3>2, <3>3, <4>1 DEF SurveyOf
    <3>5. PresentOf(d)'
      <4>1. \A c \in Conn : UserOf[c] \in User
            BY UserOfAssumption
      <4>2. Expect(del[d], u) \subseteq signal
            BY <2>3 DEF SurveyOf
      <4>3. \A c \in del[d].asked : del[d].survey[UserOf[c]] = "asking" =>
                c \in signal \/ del'[d].survey[UserOf[c]] = "asking"
            BY <3>3, <4>1, <4>2 DEF Expect
      <4>4. QED  BY <2>1, <3>1, <4>3 DEF PresentOf
    <3>6. QED  BY <3>4, <3>5
  <2>4. CASE ~(Expect(del[d], u) \subseteq del[d].counted)
    <3>1. /\ del'[d].pc = "failed" /\ del'[d].todo = {}
          /\ del'[d].survey = [del[d].survey EXCEPT ![u] = "missing"]
          /\ del'[d].asked = del[d].asked /\ del'[d].counted = del[d].counted
          /\ del'[d].present = {}
          BY <1>4, <2>4 DEF MakeSurvey, Failed
    <3>2. \A v \in User : Expect(del[d], v)' = Expect(del[d], v)
          BY <3>1 DEF Expect
    <3>3. /\ \A v \in User : v # u => del'[d].survey[v] = del[d].survey[v]
          /\ del'[d].survey[u] = "missing"
          BY <2>1, <3>1
    <3>4. SurveyOf(d)'
          BY <2>1, <2>2, <3>1, <3>2, <3>3 DEF SurveyOf
    <3>5. QED  BY <3>1, <3>4 DEF PresentOf
  <2>5. QED  BY <2>3, <2>4
<1>5. CASE DeleteStream(d)
  <2>1. /\ UNCHANGED <<conn, signal>>
        /\ del[d].pc = "next" /\ del[d].todo = {}
        /\ del'[d] = [del[d] EXCEPT !.pc = "done"]
        BY <1>5 DEF DeleteStream, riverVars
  <2>2. /\ del'[d].pc = "done" /\ del'[d].todo = del[d].todo
        /\ del'[d].survey = del[d].survey /\ del'[d].asked = del[d].asked
        /\ del'[d].counted = del[d].counted
        /\ del'[d].unasked = del[d].unasked /\ del'[d].present = del[d].present
        BY <2>1
  <2>3. Registered' = Registered
        BY <2>1 DEF Registered
  <2>4. QED  BY <2>1, <2>2, <2>3 DEF SurveyOf, PresentOf, Expect
<1>6. QED  BY <1>1, <1>2, <1>3, <1>4, <1>5 DEF DeleteNext

\* And so does every step, for every Delete.
LEMMA NextDeletes ==
    TypeOK /\ RiversAreLive /\ EntryOK /\ DeletesOK /\ [Next]_vars => DeletesOK'
<1> SUFFICES ASSUME TypeOK, RiversAreLive, EntryOK, DeletesOK, [Next]_vars,
                    NEW d \in Deleter
             PROVE  SurveyOf(d)' /\ PresentOf(d)'
    BY DEF DeletesOK
<1>1. SurveyOf(d) /\ PresentOf(d)
      BY DEF DeletesOK
<1>2. CASE del'[d] = del[d]
  <2>1. /\ signal \subseteq signal'
        /\ \A c \in Conn :
              /\ c \in Registered => c \in Registered'
              /\ conn[c] \in {"serving", "leaving", "gone"} =>
                    conn'[c] \in {conn[c], "leaving", "gone"}
        BY ConnsMoveOn DEF TypeOK
  <2>2. QED  BY <1>1, <1>2, <2>1, OtherDeletes
<1>3. CASE DeleteNext(d)
      BY <1>1, <1>3, DeleteStep
<1>4. CASE Restart /\ del'[d] # del[d]
  <2>1. /\ del'[d].pc = "failed" /\ del'[d].todo = {} /\ del'[d].present = {}
        /\ del'[d].survey = del[d].survey /\ del'[d].asked = del[d].asked
        /\ del'[d].counted = del[d].counted /\ signal' = signal
        BY <1>4 DEF Restart, Failed, TypeOK, DelReq
  <2>2. \A u \in User : Expect(del[d], u)' = Expect(del[d], u)
        BY <2>1 DEF Expect
  <2>3. \A c \in Conn : c \in Registered => c \in Registered'
        BY ConnsMoveOn
  <2>4. del'[d].asked \subseteq Registered'
        BY <1>1, <2>1, <2>3 DEF SurveyOf, TypeOK, DelReq
  <2>5. SurveyOf(d)'
        BY <1>1, <2>1, <2>2, <2>4 DEF SurveyOf
  <2>6. QED  BY <2>1, <2>5 DEF PresentOf
<1>5. ASSUME NEW e \in Deleter, e # d, DeleteNext(e)
      PROVE  del'[d] = del[d]
      BY <1>5
      DEF DeleteNext, CheckDelete, NewSurvey, Answer, MakeSurvey, DeleteStream,
          TypeOK
<1>6. QED
      BY <1>2, <1>3, <1>4, <1>5
      DEF Next, ConnNext, Create, CheckPut, Put, CheckConnect, NewResponder,
          NewBus, BusFails, Leave, Cleanup, vars

\* The invariant holds throughout.
LEMMA AlwaysSafe == Spec => []Safe
<1>1. Safe /\ [Next]_vars => Safe'
      BY NextTyped, NextRivers, NextEntries, NextDeletes DEF Safe
<1>2. QED  BY InitSafe, <1>1, PTL DEF Spec

\* Type correctness of the Stream, its rivers and its requests.
THEOREM TypeCorrect == Spec => []TypeOK
<1>1. Safe => TypeOK  BY DEF Safe
<1>2. QED  BY AlwaysSafe, <1>1, PTL

\* The river buckets hold the Buses that are listening and no others, and the
\* Responders of their connections, of those that are about to make one and of
\* those that failed to (NewResponder, NewBus and its error path, the clean-up
\* of Connect and ClearRivers).
THEOREM RiversLive == Spec => []RiversAreLive
<1>1. Safe => RiversAreLive  BY DEF Safe
<1>2. QED  BY AlwaysSafe, <1>1, PTL

\* NewBus and the clean-up keep the Buses of a Stream in a full mesh, with one
\* dial between any two.
THEOREM BusesMeshed == Spec => []Meshed
<1>1. Safe => Meshed  BY DEF Safe
<1>2. QED  BY AlwaysSafe, <1>1, PTL

\* A Delete that removed the Stream has hung up everyone it found.
THEOREM DeleteHangsUp == Spec => []AskedAreHungUp
<1>1. Safe => AskedAreHungUp
  <2> SUFFICES ASSUME Safe, NEW d \in Deleter, del[d].pc = "done",
                      NEW c \in del[d].asked
               PROVE  c \in signal
      BY DEF AskedAreHungUp
  <2> USE DEF Safe, TypeOK, DelReq, Verdict
  <2>1. SurveyOf(d)
        BY DEF DeletesOK
  <2>2. UserOf[c] \in User /\ c \in Expect(del[d], UserOf[c])
        BY UserOfAssumption DEF Expect
  <2>3. del[d].survey[UserOf[c]] = "ok"
        BY <2>1, <2>2 DEF SurveyOf
  <2>4. QED  BY <2>1, <2>2, <2>3 DEF SurveyOf
<1>2. QED  BY AlwaysSafe, <1>1, PTL

\* A Delete that removed the Stream leaves nobody connected whom it found
\* served, but for those its loop passed over.
THEOREM DeleteEmpties == Spec => []PresentAreHungUp
<1>1. Safe => PresentAreHungUp
  <2> SUFFICES ASSUME Safe, NEW d \in Deleter, del[d].pc = "done",
                      NEW c \in del[d].present, conn[c] = "serving"
               PROVE  c \in signal \/ UserOf[c] \in del[d].unasked
      BY DEF PresentAreHungUp
  <2> USE DEF Safe, TypeOK, DelReq
  <2>1. SurveyOf(d) /\ PresentOf(d)
        BY DEF DeletesOK
  <2>2. UserOf[c] \in User
        BY UserOfAssumption
  <2>3. del[d].survey[UserOf[c]] # "asking" /\ del[d].todo = {}
        BY <2>1, <2>2 DEF SurveyOf
  <2>4. QED  BY <2>1, <2>3 DEF PresentOf
<1>2. QED  BY AlwaysSafe, <1>1, PTL

\* No Put brings a deleted Stream back.
THEOREM StreamsStayGone == Spec => DeletedStaysGone
<1>1. [Next]_vars => [created /\ stream = None => stream' = None]_vars
  <2> SUFFICES ASSUME Next, created, stream = None
               PROVE  stream' = None
      BY DEF vars
  <2>1. QED
        BY DEF Next, ConnNext, DeleteNext, Create, CheckPut, Put,
               CheckConnect, NewResponder, NewBus, BusFails, Leave, Cleanup,
               CheckDelete, NewSurvey, Answer, MakeSurvey, DeleteStream, Restart
<1>2. QED  BY <1>1, PTL DEF Spec, DeletedStaysGone

-----------------------------------------------------------------------------
(* The contract of the surveys.                                            *)

\* A step that no bucket sees.
LEMMA Invisible ==
    ASSUME NEW u \in User, UNCHANGED <<resp, signal>>,
           \A d \in Deleter :
               /\ del'[d].asked = del[d].asked /\ del'[d].counted = del[d].counted
               /\ del'[d].survey[u] = del[d].survey[u]
    PROVE  UNCHANGED H(u)!vars
BY DEF H!vars, Responders, Expect

\* A bucket sees a step of a connection, of a DELETE or of the server as a step of
\* the contract, or not at all.
LEMMA NextKeepsContract ==
    ASSUME Safe, [Next]_vars, NEW u \in User
    PROVE  [H(u)!Next]_(H(u)!vars)
<1> TypeOK /\ RiversAreLive /\ EntryOK /\ \A d \in Deleter : SurveyOf(d)
    BY DEF Safe, DeletesOK
<1> USE UserOfAssumption DEF DelReq
<1> DEFINE O == Responders(u)
           G == {c \in signal : UserOf[c] = u}
           A == [d \in Deleter |-> Expect(del[d], u)]
           V == [d \in Deleter |-> del[d].survey[u]]
           M == [d \in Deleter |-> IF del[d].survey[u] = "missing"
                                   THEN Expect(del[d], u) \ del[d].counted ELSE {}]
<1>1. ASSUME NEW c \in Conn, NewResponder(c)
      PROVE  [H(u)!Next]_(H(u)!vars)
  <2>1. /\ c \notin resp /\ c \notin signal
        /\ resp' = resp \cup {c} /\ UNCHANGED <<signal, A, V, M>>
        BY <1>1 DEF NewResponder, At, RiversAreLive, EntryOK, Registered, Expect
  <2>2. CASE UserOf[c] = u
    <3>1. c \notin O \cup G /\ O' = O \cup {c} /\ G' = G
          BY <2>1, <2>2 DEF Responders
    <3>2. H(u)!Connect(c)
          BY <2>1, <3>1 DEF H!Connect
    <3>3. QED  BY <3>2 DEF H!Next
  <2>3. CASE UserOf[c] # u
    <3>1. O' = O /\ G' = G
          BY <2>1, <2>3 DEF Responders
    <3>2. QED  BY <2>1, <3>1 DEF H!vars
  <2>4. QED  BY <2>2, <2>3
<1>2. ASSUME NEW c \in Conn, Cleanup(c)
      PROVE  [H(u)!Next]_(H(u)!vars)
  <2>1. resp' = resp \ {c} /\ UNCHANGED <<signal, A, V, M>>
        BY <1>2 DEF Cleanup, Expect
  <2>2. CASE c \in O
    <3>1. O' = O \ {c} /\ G' = G
          BY <2>1 DEF Responders
    <3>2. H(u)!Leave(c)
          BY <2>1, <2>2, <3>1 DEF H!Leave
    <3>3. QED  BY <3>2 DEF H!Next
  <2>3. CASE c \notin O
    <3>1. O' = O /\ G' = G
          BY <2>1, <2>3 DEF Responders
    <3>2. QED  BY <2>1, <3>1 DEF H!vars
  <2>4. QED  BY <2>2, <2>3
<1>3. CASE Restart
  <2>1. O' = {} /\ G' = G
        BY <1>3 DEF Restart, Responders
  <2>2. \A d \in Deleter :
            /\ del'[d].asked = del[d].asked /\ del'[d].counted = del[d].counted
            /\ del'[d].survey = del[d].survey
        BY <1>3 DEF Restart, Failed, TypeOK
  <2>3. A' = A /\ V' = V /\ M' = M
        BY <2>2 DEF Expect
  <2>4. H(u)!Restart
        BY <2>1, <2>3 DEF H!Restart
  <2>5. QED  BY <2>4 DEF H!Next
<1>4. ASSUME NEW d \in Deleter, NEW c \in Conn, Answer(d, c)
      PROVE  [H(u)!Next]_(H(u)!vars)
  <2>1. /\ c \in del[d].asked /\ signal' = signal \cup {c} /\ UNCHANGED resp
        /\ \A e \in Deleter :
              /\ del'[e].asked = del[e].asked /\ del'[e].survey = del[e].survey
              /\ \/ del'[e].counted = del[e].counted
                 \/ /\ e = d /\ del[e].survey[UserOf[c]] = "asking"
                    /\ del'[e].counted = del[e].counted \cup {c}
        BY <1>4 DEF Answer, riverVars, TypeOK
  <2>2. O' = O /\ A' = A /\ V' = V
        BY <2>1 DEF Responders, Expect
  <2>3. \A e \in Deleter : del[e].survey[u] = "missing" =>
            (Expect(del[e], u) \ del[e].counted)' = Expect(del[e], u) \ del[e].counted
        BY <2>1 DEF Expect
  <2>4. M' = M
        BY <2>1, <2>3
  <2>5. CASE UserOf[c] = u
    <3>1. G' = G \cup {c}
          BY <2>1, <2>5
    <3>2. \E e \in Deleter : c \in A[e]
          BY <2>1, <2>5 DEF Expect
    <3>3. H(u)!HangUp(c)
          BY <2>2, <2>4, <3>1, <3>2 DEF H!HangUp
    <3>4. QED  BY <3>3 DEF H!Next
  <2>6. CASE UserOf[c] # u
    <3>1. G' = G
          BY <2>1, <2>6
    <3>2. QED  BY <2>2, <2>4, <3>1 DEF H!vars
  <2>7. QED  BY <2>5, <2>6
<1>5. ASSUME NEW d \in Deleter, NewSurvey(d)
      PROVE  [H(u)!Next]_(H(u)!vars)
  <2>1. PICK v \in del[d].todo : del' = [del EXCEPT ![d] = Surveying(del[d], v)]
        BY <1>5 DEF NewSurvey
  <2>2. /\ v \in User /\ del[d].survey[v] = "idle" /\ Expect(del[d], v) = {}
        /\ UNCHANGED <<resp, signal>>
        BY <1>5, <2>1 DEF NewSurvey, SurveyOf, TypeOK, riverVars
  <2>3. /\ \A e \in Deleter : e # d => del'[e] = del[e]
        /\ del'[d].counted = del[d].counted
        /\ del'[d].asked = IF v \in bucket THEN del[d].asked \cup Responders(v)
                                            ELSE del[d].asked
        /\ del'[d].survey = [del[d].survey EXCEPT ![v] =
                                 IF v \in bucket THEN "asking" ELSE "nobucket"]
        BY <2>1 DEF Surveying, TypeOK
  <2>4. O' = O /\ G' = G
        BY <2>2 DEF Responders
  <2>5. CASE v = u
    <3>1. V[d] = "idle" /\ V' = [V EXCEPT ![d] = IF u \in bucket THEN "asking"
                                                   ELSE "nobucket"]
      <4>1. del'[d].survey[u] = IF u \in bucket THEN "asking" ELSE "nobucket"
            BY <2>3, <2>5 DEF TypeOK
      <4>2. QED  BY <2>2, <2>3, <2>5, <4>1
    <3>2. u \notin bucket => O = {}
          BY DEF EntryOK, Responders
    <3>3. Expect(del[d], u)' = O
          BY <2>2, <2>3, <2>5, <3>2 DEF Expect, Responders
    <3>4. A' = [A EXCEPT ![d] = O]
          BY <2>3, <3>3 DEF Expect
    <3>5. M' = M
          BY <2>2, <2>3, <2>5, <3>1 DEF Expect
    <3>6. H(u)!Ask(d)
          BY <2>4, <3>1, <3>2, <3>4, <3>5 DEF H!Ask
    <3>7. QED  BY <3>6 DEF H!Next
  <2>6. CASE v # u
    <3>1. Expect(del[d], u)' = Expect(del[d], u)
          BY <2>3, <2>6 DEF Expect, Responders
    <3>2. del'[d].survey[u] = del[d].survey[u]
          BY <2>2, <2>3, <2>6 DEF TypeOK
    <3>3. A' = A /\ V' = V /\ M' = M
          BY <2>3, <3>1, <3>2 DEF Expect
    <3>4. QED  BY <2>4, <3>3 DEF H!vars
  <2>7. QED  BY <2>5, <2>6
<1>6. ASSUME NEW d \in Deleter, NEW v \in User, MakeSurvey(d, v)
      PROVE  [H(u)!Next]_(H(u)!vars)
  <2>1. /\ UNCHANGED <<resp, signal>> /\ del[d].survey[v] = "asking"
        /\ \A e \in Deleter : e # d => del'[e] = del[e]
        /\ del'[d].asked = del[d].asked /\ del'[d].counted = del[d].counted
        /\ del'[d].survey = [del[d].survey EXCEPT ![v] =
              IF Expect(del[d], v) \subseteq del[d].counted THEN "ok" ELSE "missing"]
        BY <1>6 DEF MakeSurvey, Failed, riverVars, TypeOK
  <2>2. O' = O /\ G' = G /\ A' = A
        BY <2>1 DEF Responders, Expect
  <2>3. CASE v # u
    <3>1. del'[d].survey[u] = del[d].survey[u]
          BY <2>1, <2>3 DEF TypeOK
    <3>2. QED  BY <2>1, <3>1, Invisible
  <2>4. CASE v = u /\ Expect(del[d], u) \subseteq del[d].counted
    <3>1. del'[d].survey[u] = "ok" /\ del[d].survey[u] = "asking"
          BY <2>1, <2>4 DEF TypeOK
    <3>2. V[d] = "asking" /\ V' = [V EXCEPT ![d] = "ok"]
          BY <2>1, <3>1
    <3>3. M' = M
          BY <2>1, <3>1 DEF Expect
    <3>4. A[d] \subseteq G
          BY <2>4 DEF SurveyOf, Expect
    <3>5. H(u)!ReportAll(d)
          BY <2>2, <3>2, <3>3, <3>4 DEF H!ReportAll
    <3>6. QED  BY <3>5 DEF H!Next
  <2>5. CASE v = u /\ ~(Expect(del[d], u) \subseteq del[d].counted)
    <3> DEFINE N == Expect(del[d], u) \ del[d].counted
    <3>1. del'[d].survey[u] = "missing" /\ del[d].survey[u] = "asking"
          BY <2>1, <2>5 DEF TypeOK
    <3>2. V[d] = "asking" /\ V' = [V EXCEPT ![d] = "missing"]
          BY <2>1, <3>1
    <3>3. M' = [M EXCEPT ![d] = N]
          BY <2>1, <3>1 DEF Expect
    <3>4. N \in SUBSET A[d] /\ N # {} /\ A[d] \ N \subseteq G
          BY <2>5 DEF SurveyOf, Expect
    <3> HIDE DEF N
    <3>5. \E K \in (SUBSET A[d]) \ {{}} : A[d] \ K \subseteq G /\ M' = [M EXCEPT ![d] = K]
          BY <3>3, <3>4
    <3>6. H(u)!ReportMissing(d)
          BY <2>2, <3>2, <3>5 DEF H!ReportMissing
    <3>7. QED  BY <3>6 DEF H!Next
  <2>6. QED  BY <2>3, <2>4, <2>5
<1>7. ASSUME NEW d \in Deleter, CheckDelete(d) \/ DeleteStream(d)
      PROVE  UNCHANGED H(u)!vars
  <2>1. /\ UNCHANGED <<resp, signal>>
        /\ \A e \in Deleter :
              /\ del'[e].asked = del[e].asked /\ del'[e].counted = del[e].counted
              /\ del'[e].survey = del[e].survey
    <3>1. CASE CheckDelete(d)
          BY <3>1 DEF CheckDelete, NewDel, riverVars, TypeOK
    <3>2. CASE DeleteStream(d)
          BY <3>2 DEF DeleteStream, riverVars, TypeOK
    <3>3. QED  BY <1>7, <3>1, <3>2
  <2>2. QED  BY <2>1, Invisible
<1>8. CASE UNCHANGED <<resp, signal, del>>
      BY <1>8, Invisible
<1>9. QED
      BY <1>1, <1>2, <1>3, <1>4, <1>5, <1>6, <1>7, <1>8
      DEF Next, ConnNext, DeleteNext, Create, CheckPut, Put, CheckConnect,
          NewBus, BusFails, Leave, vars, riverVars

\* The DELETEs of a Stream, the connections and restarts keep the surveys of
\* every Reader's bucket within the contract that module Survey implements.
THEOREM DeleteKeepsContract == Spec => HangupContract
<1>1. Init => \A u \in User : H(u)!Init
      BY DEF Init, H!Init, Responders, Expect, NewDel
<1>2. Safe /\ [Next]_vars => [\A u \in User : [H(u)!Next]_(H(u)!vars)]_vars
      BY NextKeepsContract
<1>3. QED  BY <1>1, <1>2, AlwaysSafe, PTL DEF Spec, HangupContract
=============================================================================

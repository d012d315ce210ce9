--------------------------- MODULE RemovalProofs ----------------------------
(***************************************************************************)
(* Proofs about Removal, for any rivers, connections and deletions.        *)
(*                                                                         *)
(* The argument: Responders are in the database from NewResponder until    *)
(* the clean-up, so a survey finds everyone who is served; a result is     *)
(* taken only when each Responder found has answered or the bucket is      *)
(* empty, and neither a closed signal nor a clean-up is ever taken back.   *)
(***************************************************************************)
EXTENDS Removal, TLAPS

Unused == {"idle", "authorized", "checked"}

\* The buckets list the Responders from NewResponder to the clean-up, those of
\* failed Connects for ever; nobody else listens or is hung up.
EntryOK ==
    /\ entry = {c \in Conn : conn[c] \in {"registered", "serving", "leaving",
                                          "failed"}}
    /\ \A c \in entry : RiverOf[c] \in bucket
    /\ \A c \in hung \cup waiting : conn[c] \notin Unused

\* What a deletion's surveys have found and counted, and that their results are
\* right.
SurveyOf(d) ==
    /\ del[d] \in {"new", "find"} =>
          taken[d] = {} /\ \A r \in River : survey[d][r] = "none"
    /\ \A r \in River :
          /\ counted[d][r] \subseteq expect[d][r] \cap hung
          /\ \A c \in expect[d][r] : RiverOf[c] = r /\ conn[c] \notin Unused
          /\ survey[d][r] = "none" => expect[d][r] = {}
          /\ survey[d][r] = "ok" => expect[d][r] \subseteq counted[d][r]
          /\ survey[d][r] = "missing" => ~(expect[d][r] \subseteq counted[d][r])

\* Results that a deletion has taken, and what they say.
TakenOf(d) ==
    /\ \A r \in taken[d] : \A c \in expect[d][r] : c \in hung \/ conn[c] = "gone"
    /\ del[d] = "done" => Surveyed(d) \subseteq taken[d]

\* Those served when the deletion began are found, unless they left or the
\* Stream does not list the user any more.
PresentOf(d) ==
    \A c \in present[d] :
        /\ conn[c] \in {"serving", "leaving", "gone"}
        /\ del[d] \in {"collect", "done"} /\ conn[c] = "serving" =>
              \/ c \in expect[d][RiverOf[c]]
              \/ RiverOf[c] # Notifs /\ survey[d][RiverOf[c]] = "none"

DeletionOK == \A d \in Deleter : SurveyOf(d) /\ TakenOf(d) /\ PresentOf(d)

\* The inductive invariant.
Inv == TypeOK /\ EntryOK /\ DeletionOK

\* Nobody is connected and nothing is asked at first.
LEMMA InitInv == Init => Inv
<1> SUFFICES ASSUME Init PROVE Inv
  OBVIOUS
<1>1. TypeOK
  BY DEF Init, TypeOK
<1>2. EntryOK /\ DeletionOK
  BY DEF Init, EntryOK, DeletionOK, SurveyOf, TakenOf, PresentOf
<1> QED BY <1>1, <1>2 DEF Inv

-----------------------------------------------------------------------------
(* Which steps touch what.                                                 *)

\* A step of a connection moves it forward and leaves the deletions alone.
LEMMA ConnSteps ==
    ASSUME TypeOK, NEW c \in Conn, ConnNext(c)
    PROVE  /\ UNCHANGED <<user, member, hung, del, present, survey, expect,
                          counted, taken>>
           /\ \A e \in Conn : e # c => conn'[e] = conn[e]
           /\ conn[c] \notin Unused => conn'[c] \notin Unused
           /\ conn[c] \in {"serving", "leaving"} => conn'[c] \in {"leaving", "gone"}
           /\ conn[c] # "gone"
BY DEF ConnNext, AuthWSUser, CheckMember, NewResponder, NewRiver, RiverFails,
       Leave, HangUp, Cleanup, At, othersKept, survVars, TypeOK, Unused

\* A step of a deletion leaves the connections' handlers and buckets alone.
LEMMA DeleteSteps ==
    ASSUME NEW d \in Deleter, DeleteNext(d)
    PROVE  UNCHANGED <<member, bucket, entry, conn>>
BY DEF DeleteNext, CheckUser, Find, TimeOut, DeleteUser, Answer, Report, Take,
       othersWait, connVars

\* Every step keeps the types.
LEMMA NextTyped == TypeOK /\ [Next]_vars => TypeOK'
<1> SUFFICES ASSUME TypeOK, [Next]_vars PROVE TypeOK'
  OBVIOUS
<1> USE RiverOfAssumption DEF TypeOK, survVars, connVars, othersKept, othersWait, At
<1>1. ASSUME NEW c \in Conn, ConnNext(c) PROVE TypeOK'
  <2>1. CASE AuthWSUser(c) \/ CheckMember(c) \/ RiverFails(c)
    BY <2>1 DEF AuthWSUser, CheckMember, RiverFails
  <2>2. CASE NewResponder(c)
    BY <2>2 DEF NewResponder
  <2>3. CASE NewRiver(c)
    BY <2>3 DEF NewRiver
  <2>4. CASE Leave(c) \/ HangUp(c)
    BY <2>4 DEF Leave, HangUp
  <2>5. CASE Cleanup(c)
    BY <2>5 DEF Cleanup
  <2> QED BY <1>1, <2>1, <2>2, <2>3, <2>4, <2>5 DEF ConnNext
<1>2. ASSUME NEW r \in Stream, Put(r) PROVE TypeOK'
  BY <1>2 DEF Put
<1>3. ASSUME NEW d \in Deleter, DeleteNext(d) PROVE TypeOK'
  <2>1. CASE CheckUser(d)
    BY <2>1 DEF CheckUser
  <2>2. CASE Find(d)
    BY <2>2 DEF Find
  <2>3. CASE TimeOut(d)
    BY <2>3 DEF TimeOut, Fail
  <2>4. CASE DeleteUser(d)
    BY <2>4 DEF DeleteUser
  <2>5. ASSUME NEW c \in Conn, Answer(d, c) PROVE TypeOK'
    <3>1. RiverOf[c] \in River
      OBVIOUS
    <3>2. CASE UNCHANGED counted
      BY <2>5, <3>2 DEF Answer
    <3>3. CASE counted' = [counted EXCEPT ![d][RiverOf[c]] = @ \cup {c}]
      <4>1. counted' \in [Deleter -> [River -> SUBSET Conn]]
        BY <3>1, <3>3
      <4> QED BY <2>5, <4>1 DEF Answer
    <3> QED BY <2>5, <3>2, <3>3 DEF Answer
  <2>6. ASSUME NEW r \in River, Report(d, r) PROVE TypeOK'
    BY <2>6 DEF Report
  <2>7. ASSUME NEW r \in River, Take(d, r) PROVE TypeOK'
    <3>1. CASE survey[d][r] = "ok" \/ CheckMissing(r)
      <4>1. taken' = [taken EXCEPT ![d] = @ \cup {r}]
        BY <2>7, <3>1 DEF Take
      <4>2. taken' \in [Deleter -> SUBSET River]
        BY <4>1
      <4> QED BY <2>7, <3>1, <4>2 DEF Take
    <3>2. CASE ~(survey[d][r] = "ok" \/ CheckMissing(r))
      <4>1. Fail(d)
        BY <2>7, <3>2 DEF Take
      <4> QED BY <2>7, <4>1 DEF Take, Fail
    <3> QED BY <3>1, <3>2
  <2> QED BY <1>3, <2>1, <2>2, <2>3, <2>4, <2>5, <2>6, <2>7 DEF DeleteNext
<1>4. CASE UNCHANGED vars
  BY <1>4 DEF vars
<1> QED BY <1>1, <1>2, <1>3, <1>4 DEF Next

\* The buckets follow the connections.
LEMMA NextEntries == Inv /\ [Next]_vars => EntryOK'
<1> SUFFICES ASSUME Inv, [Next]_vars PROVE EntryOK'
  OBVIOUS
<1> TypeOK /\ EntryOK
  BY DEF Inv
<1> USE DEF EntryOK, Unused
<1>1. ASSUME NEW c \in Conn, ConnNext(c) PROVE EntryOK'
  <2> USE DEF TypeOK, At, othersKept
  <2>1. CASE AuthWSUser(c) \/ CheckMember(c) \/ RiverFails(c)
    BY <2>1 DEF AuthWSUser, CheckMember, RiverFails
  <2>2. CASE NewResponder(c)
    BY <2>2 DEF NewResponder
  <2>3. CASE NewRiver(c)
    BY <2>3 DEF NewRiver
  <2>4. CASE Leave(c) \/ HangUp(c)
    BY <2>4 DEF Leave, HangUp
  <2>5. CASE Cleanup(c)
    BY <2>5 DEF Cleanup
  <2> QED BY <1>1, <2>1, <2>2, <2>3, <2>4, <2>5 DEF ConnNext
<1>2. ASSUME NEW r \in Stream, Put(r) PROVE EntryOK'
  BY <1>2 DEF Put, connVars
<1>3. ASSUME NEW d \in Deleter, DeleteNext(d) PROVE EntryOK'
  <2>1. UNCHANGED <<bucket, entry, conn>>
    BY <1>3, DeleteSteps
  <2>2. hung' \cup waiting' = hung \cup waiting
    BY <1>3 DEF DeleteNext, CheckUser, Find, TimeOut, DeleteUser, Answer, Report, Take
  <2> QED BY <2>1, <2>2
<1>4. CASE UNCHANGED vars
  BY <1>4 DEF vars, connVars
<1> QED BY <1>1, <1>2, <1>3, <1>4 DEF Next

\* What one deletion does to the surveys, and that it leaves those of the others
\* alone but for the connections it hangs up.
LEMMA OtherDeleters ==
    ASSUME TypeOK, NEW d \in Deleter, DeleteNext(d), NEW e \in Deleter, e # d
    PROVE  UNCHANGED <<del[e], present[e], survey[e], expect[e], counted[e], taken[e]>>
<1> USE DEF TypeOK, survVars
<1>1. CASE CheckUser(d) \/ Find(d) \/ DeleteUser(d)
  BY <1>1 DEF CheckUser, Find, DeleteUser
<1>2. CASE TimeOut(d)
  BY <1>2 DEF TimeOut, Fail
<1>3. ASSUME NEW c \in Conn, Answer(d, c)
      PROVE  UNCHANGED <<del[e], present[e], survey[e], expect[e], counted[e], taken[e]>>
  BY <1>3 DEF Answer
<1>4. ASSUME NEW r \in River, Report(d, r)
      PROVE  UNCHANGED <<del[e], present[e], survey[e], expect[e], counted[e], taken[e]>>
  BY <1>4 DEF Report
<1>5. ASSUME NEW r \in River, Take(d, r)
      PROVE  UNCHANGED <<del[e], present[e], survey[e], expect[e], counted[e], taken[e]>>
  BY <1>5 DEF Take, Fail
<1> QED BY <1>1, <1>2, <1>3, <1>4, <1>5 DEF DeleteNext

\* Nobody is un-hung.
LEMMA HungStays == Next => hung \subseteq hung'
BY DEF Next, ConnNext, DeleteNext, AuthWSUser, CheckMember, NewResponder, NewRiver,
       RiverFails, Leave, HangUp, Cleanup, Put, CheckUser, Find, TimeOut,
       DeleteUser, Answer, Report, Take

\* A step that does not touch the deletion keeps them.
LEMMA KeepsOf ==
    ASSUME Inv, NEW d \in Deleter, SurveyOf(d), TakenOf(d), PresentOf(d),
           UNCHANGED <<del[d], present[d], survey[d], expect[d], counted[d], taken[d]>>,
           hung \subseteq hung',
           \A c \in Conn :
              /\ conn[c] \notin Unused => conn'[c] \notin Unused
              /\ conn[c] = "gone" => conn'[c] = "gone"
              /\ conn[c] \in {"serving", "leaving", "gone"} =>
                    \/ conn'[c] = conn[c]
                    \/ conn'[c] \in {"leaving", "gone"}
    PROVE  SurveyOf(d)' /\ TakenOf(d)' /\ PresentOf(d)'
<1> TypeOK
  BY DEF Inv
<1> USE DEF TypeOK
<1>1. SurveyOf(d)'
  BY DEF SurveyOf
<1>2. TakenOf(d)'
  BY DEF TakenOf, Surveyed
<1>3. PresentOf(d)'
  BY DEF PresentOf
<1> QED BY <1>1, <1>2, <1>3

\* A deletion's own steps keep them.
LEMMA OwnSteps ==
    ASSUME Inv, NEW d \in Deleter, DeleteNext(d), SurveyOf(d), TakenOf(d), PresentOf(d)
    PROVE  SurveyOf(d)' /\ TakenOf(d)' /\ PresentOf(d)'
<1> TypeOK /\ EntryOK
  BY DEF Inv
<1> USE RiverOfAssumption DEF TypeOK, survVars
<1>1. conn' = conn /\ entry' = entry
  BY DeleteSteps
<1>2. CASE CheckUser(d)
  <2>1. /\ del[d] = "new" /\ del'[d] = "find" /\ UNCHANGED <<hung, survVars, taken>>
        /\ present'[d] = {c \in Conn : conn[c] = "serving"}
    BY <1>2 DEF CheckUser
  <2> QED BY <1>1, <2>1 DEF SurveyOf, TakenOf, PresentOf, Surveyed
<1>3. CASE Find(d)
  <2>1. /\ del[d] = "find" /\ del'[d] = "collect"
        /\ UNCHANGED <<hung, counted, taken, present>>
        /\ survey'[d] = [r \in River |-> IF r \in Connected THEN "asking" ELSE "none"]
        /\ expect'[d] = [r \in River |->
                            {c \in entry : r \in Connected /\ RiverOf[c] = r}]
    BY <1>3 DEF Find
  <2>2. taken[d] = {} /\ \A r \in River : counted[d][r] = {}
    BY <2>1 DEF SurveyOf
  <2>3. SurveyOf(d)'
    <3>1. ASSUME NEW r \in River
          PROVE  /\ \A c \in expect'[d][r] : RiverOf[c] = r /\ conn[c] \notin Unused
                 /\ survey'[d][r] = "none" => expect'[d][r] = {}
                 /\ survey'[d][r] \in {"none", "asking"}
      <4>1. survey'[d][r] = IF r \in Connected THEN "asking" ELSE "none"
        BY <2>1
      <4>2. expect'[d][r] = {c \in entry : r \in Connected /\ RiverOf[c] = r}
        BY <2>1
      <4>3. \A c \in entry : conn[c] \notin Unused
        BY DEF EntryOK, Unused
      <4> QED BY <4>1, <4>2, <4>3
    <3> QED BY <1>1, <2>1, <2>2, <3>1 DEF SurveyOf
  <2>4. TakenOf(d)'
    BY <2>1, <2>2 DEF TakenOf
  <2>5. ASSUME NEW c \in present[d], conn[c] = "serving"
        PROVE  \/ c \in expect'[d][RiverOf[c]]
               \/ RiverOf[c] # Notifs /\ survey'[d][RiverOf[c]] = "none"
    <3>1. c \in entry /\ RiverOf[c] \in bucket /\ RiverOf[c] \in River
      BY <2>5 DEF EntryOK
    <3> QED BY <2>1, <3>1 DEF Connected
  <2> QED BY <1>1, <2>1, <2>3, <2>4, <2>5 DEF PresentOf
<1>4. ASSUME Fail(d), UNCHANGED <<hung, survVars>>, del[d] = "collect"
      PROVE  SurveyOf(d)' /\ TakenOf(d)' /\ PresentOf(d)'
  BY <1>1, <1>4 DEF Fail, SurveyOf, TakenOf, PresentOf
<1>5. CASE TimeOut(d)
  BY <1>4, <1>5 DEF TimeOut
<1>6. CASE DeleteUser(d)
  <2>1. /\ del[d] = "collect" /\ del'[d] = "done" /\ Surveyed(d) \subseteq taken[d]
        /\ UNCHANGED <<hung, survVars, taken, present>>
    BY <1>6 DEF DeleteUser
  <2> QED BY <1>1, <2>1 DEF SurveyOf, TakenOf, PresentOf, Surveyed
<1>7. ASSUME NEW c \in Conn, Answer(d, c)
      PROVE  SurveyOf(d)' /\ TakenOf(d)' /\ PresentOf(d)'
  <2> DEFINE q == RiverOf[c]
  <2>1. /\ UNCHANGED <<del, present, survey, expect, taken>>
        /\ hung' = hung \cup {c} /\ c \in expect[d][q] /\ q \in River
    BY <1>7 DEF Answer
  <2>2. /\ \A r \in River : r # q => counted'[d][r] = counted[d][r]
        /\ counted'[d][q] \in {counted[d][q], counted[d][q] \cup {c}}
        /\ survey[d][q] # "asking" => counted'[d][q] = counted[d][q]
    BY <1>7, <2>1 DEF Answer
  <2> HIDE DEF q
  <2>3. SurveyOf(d)'
    BY <1>1, <2>1, <2>2 DEF SurveyOf
  <2>4. TakenOf(d)' /\ PresentOf(d)'
    BY <1>1, <2>1 DEF TakenOf, PresentOf, Surveyed
  <2> QED BY <2>3, <2>4
<1>8. ASSUME NEW r \in River, Report(d, r)
      PROVE  SurveyOf(d)' /\ TakenOf(d)' /\ PresentOf(d)'
  <2>1. /\ UNCHANGED <<del, present, expect, counted, hung, taken>>
        /\ survey[d][r] = "asking"
        /\ survey'[d][r] = IF expect[d][r] \subseteq counted[d][r] THEN "ok" ELSE "missing"
        /\ \A q \in River : q # r => survey'[d][q] = survey[d][q]
    BY <1>8 DEF Report
  <2>2. SurveyOf(d)'
    <3>1. del[d] \notin {"new", "find"}
      BY <2>1 DEF SurveyOf
    <3>2. ASSUME NEW q \in River
          PROVE  /\ survey'[d][q] = "none" => expect[d][q] = {}
                 /\ survey'[d][q] = "ok" => expect[d][q] \subseteq counted[d][q]
                 /\ survey'[d][q] = "missing" => ~(expect[d][q] \subseteq counted[d][q])
      BY <2>1 DEF SurveyOf
    <3> QED BY <1>1, <2>1, <3>1, <3>2 DEF SurveyOf
  <2>3. TakenOf(d)' /\ PresentOf(d)'
    BY <1>1, <2>1 DEF TakenOf, PresentOf, Surveyed
  <2> QED BY <2>2, <2>3
<1>9. ASSUME NEW r \in River, Take(d, r)
      PROVE  SurveyOf(d)' /\ TakenOf(d)' /\ PresentOf(d)'
  <2>1. CASE survey[d][r] = "ok" \/ CheckMissing(r)
    <3>1. /\ UNCHANGED <<del, present, survVars, hung>> /\ del[d] = "collect"
          /\ taken'[d] = taken[d] \cup {r}
      BY <1>9, <2>1 DEF Take
    <3>2. ASSUME NEW c \in expect[d][r] PROVE c \in hung \/ conn[c] = "gone"
      <4>1. CASE survey[d][r] = "ok"
        BY <4>1, <3>2 DEF SurveyOf
      <4>2. CASE CheckMissing(r)
        <5>1. RiverOf[c] = r /\ conn[c] \notin Unused /\ c \in Conn
          BY <3>2 DEF SurveyOf
        <5>2. c \notin entry
          BY <4>2, <5>1 DEF CheckMissing
        <5> QED BY <5>1, <5>2 DEF EntryOK, Unused
      <4> QED BY <2>1, <4>1, <4>2
    <3>3. TakenOf(d)'
      BY <1>1, <3>1, <3>2 DEF TakenOf
    <3> QED BY <1>1, <3>1, <3>3 DEF SurveyOf, PresentOf
  <2>2. CASE ~(survey[d][r] = "ok" \/ CheckMissing(r))
    BY <1>4, <1>9, <2>2 DEF Take
  <2> QED BY <2>1, <2>2
<1> QED BY <1>2, <1>3, <1>5, <1>6, <1>7, <1>8, <1>9 DEF DeleteNext

\* The invariant is inductive.
LEMMA NextInv == Inv /\ [Next]_vars => Inv'
<1> SUFFICES ASSUME Inv, [Next]_vars PROVE Inv'
  OBVIOUS
<1>1. TypeOK' /\ EntryOK'
  BY NextTyped, NextEntries DEF Inv
<1> TypeOK
  BY DEF Inv
<1>2. ASSUME NEW d \in Deleter PROVE SurveyOf(d)' /\ TakenOf(d)' /\ PresentOf(d)'
  <2>1. SurveyOf(d) /\ TakenOf(d) /\ PresentOf(d)
    BY DEF Inv, DeletionOK
  <2>2. CASE UNCHANGED vars
    BY <2>1, <2>2, KeepsOf DEF vars, survVars, connVars
  <2>3. ASSUME NEW c \in Conn, ConnNext(c)
        PROVE  SurveyOf(d)' /\ TakenOf(d)' /\ PresentOf(d)'
    BY <2>1, <2>3, KeepsOf, ConnSteps
  <2>4. ASSUME NEW r \in Stream, Put(r)
        PROVE  SurveyOf(d)' /\ TakenOf(d)' /\ PresentOf(d)'
    BY <2>1, <2>4, KeepsOf DEF Put, survVars, connVars
  <2>5. ASSUME NEW e \in Deleter, DeleteNext(e), e # d
        PROVE  SurveyOf(d)' /\ TakenOf(d)' /\ PresentOf(d)'
    <3>1. hung \subseteq hung'
      BY <2>5, HungStays DEF Next
    <3>2. conn' = conn
      BY <2>5, DeleteSteps
    <3> QED BY <2>1, <2>5, <3>1, <3>2, KeepsOf, OtherDeleters
  <2>6. DeleteNext(d) => SurveyOf(d)' /\ TakenOf(d)' /\ PresentOf(d)'
    BY <2>1, OwnSteps
  <2> QED BY <2>2, <2>3, <2>4, <2>5, <2>6 DEF Next
<1> QED BY <1>1, <1>2 DEF Inv, DeletionOK

LEMMA AlwaysInv == Spec => []Inv
BY InitInv, NextInv, PTL DEF Spec

\* Type correctness of a deletion and the connections around it.
THEOREM TypeCorrect == Spec => []TypeOK
<1>1. Inv => TypeOK
  BY DEF Inv
<1> QED BY <1>1, AlwaysInv, PTL

\* A deletion goes through only when every connection its View found is hung up
\* or gone, for any number of rivers, connections and concurrent deletions.
THEOREM RemovalIsSound == Spec => []FoundHaveLeft
<1>1. Inv => FoundHaveLeft
  <2> SUFFICES ASSUME Inv, NEW d \in Deleter, del[d] = "done", NEW c \in Found(d)
               PROVE  c \in hung \/ conn[c] = "gone"
    BY DEF FoundHaveLeft
  <2>1. PICK r \in River : c \in expect[d][r]
    BY DEF Found
  <2>2. r \in taken[d]
    BY <2>1 DEF Inv, DeletionOK, SurveyOf, TakenOf, Surveyed
  <2> QED BY <2>1, <2>2 DEF Inv, DeletionOK, TakenOf
<1> QED BY <1>1, AlwaysInv, PTL

\* Nobody who was served when Profile.Delete or Admin.DeleteUser began stays
\* connected, but for the members their Stream has put out meanwhile.
THEOREM RemovalHangsUp == Spec => []PresentAreHungUp
<1>1. Inv => PresentAreHungUp
  <2> SUFFICES ASSUME Inv, NEW d \in Deleter, del[d] = "done", NEW c \in present[d]
               PROVE  \/ c \in hung
                      \/ conn[c] \in {"leaving", "gone"}
                      \/ RiverOf[c] # Notifs /\ survey[d][RiverOf[c]] = "none"
    BY DEF PresentAreHungUp
  <2>1. c \in Conn /\ RiverOf[c] \in River
    BY RiverOfAssumption DEF Inv, TypeOK
  <2>2. CASE c \in expect[d][RiverOf[c]]
    <3>1. RiverOf[c] \in taken[d]
      BY <2>1, <2>2 DEF Inv, DeletionOK, SurveyOf, TakenOf, Surveyed
    <3> QED BY <2>2, <3>1 DEF Inv, DeletionOK, TakenOf
  <2> QED BY <2>2 DEF Inv, DeletionOK, PresentOf
<1> QED BY <1>1, AlwaysInv, PTL

-----------------------------------------------------------------------------
\* The mapped variables of one river depend on these.
LEMMA Invisible ==
    ASSUME NEW r \in River, UNCHANGED <<entry, hung, survey, expect, counted>>
    PROVE  UNCHANGED H(r)!vars
BY DEF H!vars

\* Every step is a step of the contract, or invisible, for every river.
LEMMA NextKeepsContract ==
    ASSUME Inv, [Next]_vars, NEW r \in River
    PROVE  [H(r)!Next]_(H(r)!vars)
<1> TypeOK /\ EntryOK /\ \A d \in Deleter : SurveyOf(d)
  BY DEF Inv, DeletionOK
<1> USE RiverOfAssumption DEF survVars, connVars
<1> DEFINE O == {c \in entry : RiverOf[c] = r}
           G == {c \in hung : RiverOf[c] = r}
           A == [d \in Deleter |-> expect[d][r]]
           V == [d \in Deleter |-> IF survey[d][r] = "none" THEN "idle"
                                                             ELSE survey[d][r]]
           M == [d \in Deleter |-> IF survey[d][r] = "missing"
                                   THEN expect[d][r] \ counted[d][r] ELSE {}]
<1>1. ASSUME NEW c \in Conn, NewResponder(c) PROVE [H(r)!Next]_(H(r)!vars)
  <2>1. /\ c \notin entry /\ c \notin hung
        /\ entry' = entry \cup {c} /\ UNCHANGED <<hung, A, V, M>>
    BY <1>1 DEF NewResponder, At, EntryOK, Unused, othersKept
  <2>2. CASE RiverOf[c] = r
    <3>1. c \notin O \cup G /\ O' = O \cup {c} /\ G' = G
      BY <2>1, <2>2
    <3>2. H(r)!Connect(c)
      BY <2>1, <3>1 DEF H!Connect
    <3> QED BY <3>2 DEF H!Next
  <2>3. CASE RiverOf[c] # r
    <3>1. O' = O /\ G' = G
      BY <2>1, <2>3
    <3> QED BY <2>1, <3>1 DEF H!vars
  <2> QED BY <2>2, <2>3
<1>2. ASSUME NEW c \in Conn, Cleanup(c) PROVE [H(r)!Next]_(H(r)!vars)
  <2>1. entry' = entry \ {c} /\ UNCHANGED <<hung, A, V, M>>
    BY <1>2 DEF Cleanup, othersKept
  <2>2. CASE c \in O
    <3>1. O' = O \ {c} /\ G' = G
      BY <2>1
    <3>2. H(r)!Leave(c)
      BY <2>1, <2>2, <3>1 DEF H!Leave
    <3> QED BY <3>2 DEF H!Next
  <2>3. CASE c \notin O
    <3>1. O' = O /\ G' = G
      BY <2>1, <2>3
    <3> QED BY <2>1, <3>1 DEF H!vars
  <2> QED BY <2>2, <2>3
<1>3. ASSUME NEW d \in Deleter, NEW c \in Conn, Answer(d, c)
      PROVE  [H(r)!Next]_(H(r)!vars)
  <2> DEFINE q == RiverOf[c]
  <2>1. /\ UNCHANGED <<entry, survey, expect>> /\ hung' = hung \cup {c}
        /\ c \in expect[d][q] /\ q \in River
    BY <1>3 DEF Answer, othersWait
  <2>2. \A e \in Deleter : survey[e][r] = "missing" => counted'[e][r] = counted[e][r]
    <3>1. CASE UNCHANGED counted
      BY <3>1
    <3>2. CASE survey[d][q] = "asking" /\ counted' = [counted EXCEPT ![d][q] = @ \cup {c}]
      BY <2>1, <3>2 DEF TypeOK
    <3> QED BY <1>3, <3>1, <3>2 DEF Answer
  <2>3. A' = A /\ V' = V /\ M' = M /\ O' = O
    BY <2>1, <2>2
  <2>4. CASE q = r
    <3>1. G' = G \cup {c} /\ A[d] = expect[d][r]
      BY <2>1, <2>4
    <3>2. \E e \in Deleter : c \in A[e]
      BY <2>1, <2>4
    <3>3. H(r)!HangUp(c)
      BY <2>3, <3>1, <3>2 DEF H!HangUp
    <3> QED BY <3>3 DEF H!Next
  <2>5. CASE q # r
    <3>1. G' = G
      BY <2>1, <2>5
    <3> QED BY <2>3, <3>1 DEF H!vars
  <2> QED BY <2>4, <2>5
<1>4. ASSUME NEW d \in Deleter, Find(d) PROVE [H(r)!Next]_(H(r)!vars)
  <2>1. UNCHANGED <<entry, hung, counted>>
    BY <1>4 DEF Find, othersWait
  <2>2. O' = O /\ G' = G
    BY <2>1
  <2>3. /\ survey'[d][r] = IF r \in Connected THEN "asking" ELSE "none"
        /\ expect'[d][r] = {c \in entry : r \in Connected /\ RiverOf[c] = r}
        /\ \A e \in Deleter : e # d => survey'[e] = survey[e] /\ expect'[e] = expect[e]
    BY <1>4 DEF Find, TypeOK
  <2>4. survey[d][r] = "none" /\ expect[d][r] = {}
    BY <1>4 DEF Find, SurveyOf
  <2>5. M' = M
    BY <2>1, <2>3, <2>4
  <2>6. CASE r \in Connected
    <3>1. V[d] = "idle" /\ V' = [V EXCEPT ![d] = "asking"]
      BY <2>3, <2>4, <2>6
    <3>2. A' = [A EXCEPT ![d] = O]
      BY <2>3, <2>6
    <3>3. H(r)!Ask(d)
      BY <2>2, <2>5, <3>1, <3>2 DEF H!Ask
    <3> QED BY <3>3 DEF H!Next
  <2>7. CASE r \notin Connected
    <3>1. V' = V /\ A' = A
      BY <2>3, <2>4, <2>7
    <3> QED BY <2>2, <2>5, <3>1 DEF H!vars
  <2> QED BY <2>6, <2>7
<1>5. ASSUME NEW d \in Deleter, NEW q \in River, Report(d, q)
      PROVE  [H(r)!Next]_(H(r)!vars)
  <2>1. /\ UNCHANGED <<entry, hung, expect, counted>>
        /\ survey[d][q] = "asking"
        /\ survey' = [survey EXCEPT ![d][q] =
              IF expect[d][q] \subseteq counted[d][q] THEN "ok" ELSE "missing"]
    BY <1>5 DEF Report, othersWait
  <2>2. O' = O /\ G' = G /\ A' = A
    BY <2>1
  <2>3. CASE q # r
    <3>1. \A e \in Deleter : survey'[e][r] = survey[e][r]
      BY <2>1, <2>3 DEF TypeOK
    <3>2. V' = V /\ M' = M
      BY <2>1, <3>1
    <3> QED BY <2>2, <3>2 DEF H!vars
  <2>4. CASE q = r /\ expect[d][r] \subseteq counted[d][r]
    <3>1. /\ survey'[d][r] = "ok" /\ survey[d][r] = "asking"
          /\ \A e \in Deleter : e # d => survey'[e] = survey[e]
      BY <2>1, <2>4 DEF TypeOK
    <3>2. V[d] = "asking" /\ V' = [V EXCEPT ![d] = "ok"]
      BY <3>1
    <3>5. M' = M
      <4>1. UNCHANGED <<expect, counted>>
        BY <2>1
      <4> QED BY <3>1, <4>1
    <3>3. A[d] \subseteq G
      BY <2>4 DEF SurveyOf
    <3>4. H(r)!ReportAll(d)
      BY <2>2, <3>2, <3>3, <3>5 DEF H!ReportAll
    <3> QED BY <3>4 DEF H!Next
  <2>5. CASE q = r /\ ~(expect[d][r] \subseteq counted[d][r])
    <3> DEFINE N == expect[d][r] \ counted[d][r]
    <3>1. /\ survey'[d][r] = "missing" /\ survey[d][r] = "asking"
          /\ \A e \in Deleter : e # d => survey'[e] = survey[e]
      BY <2>1, <2>5 DEF TypeOK
    <3>2. V[d] = "asking" /\ V' = [V EXCEPT ![d] = "missing"]
      BY <3>1
    <3>3. M' = [M EXCEPT ![d] = N]
      BY <2>1, <3>1
    <3>4. N \in SUBSET A[d] /\ N # {} /\ A[d] \ N \subseteq G
      BY <2>5 DEF SurveyOf
    <3> HIDE DEF N
    <3>5. \E K \in (SUBSET A[d]) \ {{}} : A[d] \ K \subseteq G /\ M' = [M EXCEPT ![d] = K]
      BY <3>3, <3>4
    <3>6. H(r)!ReportMissing(d)
      BY <2>2, <3>2, <3>5 DEF H!ReportMissing
    <3> QED BY <3>6 DEF H!Next
  <2> QED BY <2>3, <2>4, <2>5
<1>6. ASSUME NEW c \in Conn,
             \/ AuthWSUser(c) \/ CheckMember(c) \/ NewRiver(c) \/ RiverFails(c)
             \/ Leave(c) \/ HangUp(c)
      PROVE  UNCHANGED H(r)!vars
  <2>1. UNCHANGED <<entry, hung, survey, expect, counted>>
    BY <1>6 DEF AuthWSUser, CheckMember, NewRiver, RiverFails, Leave, HangUp, othersKept
  <2> QED BY <2>1, Invisible
<1>7. ASSUME NEW s \in Stream, Put(s) PROVE UNCHANGED H(r)!vars
  BY <1>7, Invisible DEF Put
<1>8. ASSUME NEW d \in Deleter, NEW q \in River,
             CheckUser(d) \/ TimeOut(d) \/ DeleteUser(d) \/ Take(d, q)
      PROVE  UNCHANGED H(r)!vars
  <2>1. UNCHANGED <<entry, hung, survey, expect, counted>>
    BY <1>8 DEF CheckUser, TimeOut, DeleteUser, Take, othersWait
  <2> QED BY <2>1, Invisible
<1>9. CASE UNCHANGED vars
  BY <1>9, Invisible DEF vars
<1> QED
  BY <1>1, <1>2, <1>3, <1>4, <1>5, <1>6, <1>7, <1>8, <1>9
     DEF Next, ConnNext, DeleteNext

\* Deletions, connections and changes of members keep the surveys of every river
\* within the contract that module Survey implements.
THEOREM RemovalKeepsContract == Spec => HangupContract
<1>1. Init => \A r \in River : H(r)!Init
  BY DEF Init, H!Init
<1>2. Inv /\ [Next]_vars => [\A r \in River : [H(r)!Next]_(H(r)!vars)]_vars
  BY NextKeepsContract
<1> QED BY <1>1, <1>2, AlwaysInv, PTL DEF Spec, HangupContract
=============================================================================

---------------------------- MODULE SurveyProofs ----------------------------
(***************************************************************************)
(* Proofs about Survey, for any number of connections, surveys and tries.  *)
(*                                                                         *)
(* The argument: a hangup signal is closed before the answer leaves, so    *)
(* every answer on the wire and every ID in seen belongs to a connection   *)
(* that is hung up; questions only travel to expected connections, so      *)
(* comparing the sizes of seen and expect compares the sets; and the one   *)
(* answer of a connection is a token that moves from its goroutine to one  *)
(* wire to one survey's counts.                                            *)
(***************************************************************************)
EXTENDS Survey, FiniteSetTheorems, TLAPS

\* A survey has no IDs before NewSurvey, and asks, hears and counts only IDs it
\* found there.
OnlyExpected ==
    /\ \A s \in Surveyor : phase[s] = "new" => expect[s] = {}
    /\ \A s \in Surveyor : linked[s] \subseteq expect[s]
    /\ \A c \in Conn : \A q \in wire[c] \cup asked[c] : c \in expect[q[1]]
    /\ \A s \in Surveyor : \A a \in answers[s] : a.id \in expect[s]

\* Answers come from connections that are hung up, and say what Wait says.
HungUpFirst ==
    /\ \A c \in Conn : waiter[c] = "signalled" => c \in signal
    /\ \A s \in Surveyor : \A a \in answers[s] :
          a.id \in signal /\ a.text = Reaction(s)

\* What is counted was answered: HUP is understood by all, a foreign survey by
\* nobody.
Counted ==
    \A s \in Surveyor :
        /\ seen[s] \subseteq expect[s] \cap signal
        /\ s \notin Foreign => errs[s] = {}
        /\ s \in Foreign => /\ seen[s] = {}
                            /\ errs[s] \subseteq {UnknownKey(c) :
                                            c \in expect[s] \cap signal}

\* A survey that is about to send has a try left.
TryLeft ==
    \A s \in Surveyor : phase[s] \in {"new", "send"} => try[s] < MaxTries

SafeInv ==
    TypeOK /\ TryLeft /\ OnlyExpected /\ HungUpFirst /\ Counted /\ AnswerIsSound

\* The single answer of a connection is nowhere until AwaitHangup is done, then
\* on one wire, then counted by one survey.
OneAnswer ==
    /\ \A c \in Conn : handler[c] = "idle" => waiter[c] = "off"
    /\ \A c \in Conn : waiter[c] # "done" => \A s \in Surveyor :
          c \notin CountedBy(s) /\ \A a \in answers[s] : a.id # c
    /\ \A s, t \in Surveyor : \A a \in answers[s] :
          /\ a.id \notin CountedBy(t)
          /\ \A b \in answers[t] : a.id = b.id => s = t /\ a = b

-----------------------------------------------------------------------------
\* Comparing sizes is comparing sets: MakeSurvey's counts never exceed the
\* number of expected IDs, and reach it only when everyone expected is hung up.
LEMMA CountsAreExact ==
    ASSUME TypeOK, Counted, NEW s \in Surveyor
    PROVE  /\ Cardinality(expect[s]) \in Nat
           /\ Cardinality(seen[s]) \in Nat
           /\ Cardinality(errs[s]) \in Nat
           /\ Cardinality(seen[s]) + Cardinality(errs[s]) <= Cardinality(expect[s])
           /\ Cardinality(seen[s]) = Cardinality(expect[s]) => expect[s] = seen[s]
           /\ Cardinality(seen[s]) + Cardinality(errs[s]) = Cardinality(expect[s])
                 => expect[s] \subseteq signal
<1> DEFINE X == expect[s]
           Y == expect[s] \cap signal
           K == {UnknownKey(c) : c \in Y}
<1>1. X \subseteq Conn /\ seen[s] \subseteq Conn /\ Y \subseteq X
  BY DEF TypeOK
<1>2. IsFiniteSet(X) /\ Cardinality(X) \in Nat
  BY <1>1, ConnAssumption, FS_Subset, FS_CardinalityType
<1>3. /\ IsFiniteSet(Y) /\ Cardinality(Y) \in Nat
      /\ Cardinality(Y) <= Cardinality(X)
      /\ Cardinality(Y) = Cardinality(X) => X = Y
  BY <1>1, <1>2, FS_Subset, FS_CardinalityType
<1>4. seen[s] \subseteq X
  BY DEF Counted
<1>5. /\ IsFiniteSet(seen[s]) /\ Cardinality(seen[s]) \in Nat
      /\ Cardinality(seen[s]) <= Cardinality(X)
      /\ Cardinality(seen[s]) = Cardinality(X) => X = seen[s]
  BY <1>4, <1>2, FS_Subset, FS_CardinalityType
<1>6. IsFiniteSet({}) /\ Cardinality({}) = 0
  BY FS_EmptySet
<1>7. CASE s \notin Foreign
  <2>1. errs[s] = {}
    BY <1>7 DEF Counted
  <2> QED
    BY <2>1, <1>2, <1>5, <1>6 DEF Counted
<1>8. CASE s \in Foreign
  <2>1. seen[s] = {} /\ errs[s] \subseteq K
    BY <1>8 DEF Counted
  <2>2. IsFiniteSet(K) /\ Cardinality(K) \in Nat /\ Cardinality(K) <= Cardinality(Y)
    <3> DEFINE f == [c \in Y |-> UnknownKey(c)]
    <3>1. f \in Surjection(Y, K)
      BY DEF Surjection, Range
    <3>2. IsFiniteSet(K) /\ Cardinality(K) <= Cardinality(Y)
      <4> HIDE DEF f, K, Y
      <4> QED BY <1>3, <3>1, FS_Surjection
    <3> QED BY <3>2, FS_CardinalityType
  <2>3. Cardinality(errs[s]) \in Nat /\ Cardinality(errs[s]) <= Cardinality(K)
    BY <2>1, <2>2, FS_Subset, FS_CardinalityType
  <2>4. Cardinality(errs[s]) <= Cardinality(X)
    BY <2>2, <2>3, <1>2, <1>3
  <2>5. Cardinality(errs[s]) = Cardinality(X) => X = Y
    BY <2>2, <2>3, <1>2, <1>3
  <2> QED
    BY <2>1, <2>3, <2>4, <2>5, <1>2, <1>5, <1>6
<1> QED BY <1>7, <1>8

-----------------------------------------------------------------------------
\* Before the first survey nobody is hung up, and nobody has been counted.
LEMMA InitSafe == Init => SafeInv
<1> SUFFICES ASSUME Init PROVE SafeInv
  OBVIOUS
<1> USE DEF Init
<1>1. TypeOK
  <2>1. /\ handler \in [Conn -> {"idle", "serving", "leaving", "cleaning", "gone"}]
        /\ waiter \in [Conn -> {"off", "recv", "read", "signalled", "done"}]
        /\ phase \in [Surveyor -> Over \cup {"new", "send", "recv"}]
    OBVIOUS
  <2>2. try \in [Surveyor -> 0..MaxTries] /\ left \in [Surveyor -> Nat]
    BY TriesAssumption
  <2>3. expired \in [Surveyor -> BOOLEAN] /\ bucket \in BOOLEAN
    OBVIOUS
  <2> QED BY <2>1, <2>2, <2>3 DEF TypeOK
<1>2. OnlyExpected
  BY DEF OnlyExpected
<1>3. HungUpFirst
  BY DEF HungUpFirst
<1>4. Counted
  BY DEF Counted
<1>5. AnswerIsSound
  BY DEF AnswerIsSound
<1>6. TryLeft
  BY TriesAssumption DEF TryLeft
<1> QED BY <1>1, <1>2, <1>3, <1>4, <1>5, <1>6 DEF SafeInv

\* Every step of a connection, a socket or a survey keeps the invariant.
LEMMA NextSafe == SafeInv /\ [Next]_vars => SafeInv'
<1> SUFFICES ASSUME SafeInv, [Next]_vars PROVE SafeInv'
  OBVIOUS
<1> USE DEF SafeInv, connVars, survVars, sockVars
<1>1. ASSUME NEW c \in Conn, NewResponder(c) PROVE SafeInv'
  <2>1. TypeOK'
    BY <1>1 DEF NewResponder, TypeOK, Question, Answer, Tries, Over
  <2>2. TryLeft'
    BY <1>1 DEF NewResponder, TypeOK, TryLeft
  <2>3. OnlyExpected'
    BY <1>1 DEF NewResponder, TypeOK, OnlyExpected
  <2>4. HungUpFirst'
    BY <1>1 DEF NewResponder, TypeOK, HungUpFirst
  <2>5. Counted'
    BY <1>1 DEF NewResponder, TypeOK, Counted
  <2>6. AnswerIsSound'
    BY <1>1 DEF NewResponder, TypeOK, AnswerIsSound, Unseen
  <2> QED BY <2>1, <2>2, <2>3, <2>4, <2>5, <2>6
<1>2. ASSUME NEW c \in Conn, WaitRecv(c) PROVE SafeInv'
  <2>1. TypeOK'
    BY <1>2 DEF WaitRecv, TypeOK, Question, Answer, Tries, Over
  <2>2. TryLeft'
    BY <1>2 DEF WaitRecv, TypeOK, TryLeft
  <2>3. OnlyExpected'
    BY <1>2 DEF WaitRecv, TypeOK, OnlyExpected
  <2>4. HungUpFirst'
    BY <1>2 DEF WaitRecv, TypeOK, HungUpFirst
  <2>5. Counted'
    BY <1>2 DEF WaitRecv, TypeOK, Counted
  <2>6. AnswerIsSound'
    BY <1>2 DEF WaitRecv, TypeOK, AnswerIsSound, Unseen
  <2> QED BY <2>1, <2>2, <2>3, <2>4, <2>5, <2>6
<1>3. ASSUME NEW c \in Conn, WaitClosed(c) PROVE SafeInv'
  <2>1. TypeOK'
    BY <1>3 DEF WaitClosed, TypeOK, Question, Answer, Tries, Over
  <2>2. TryLeft'
    BY <1>3 DEF WaitClosed, TypeOK, TryLeft
  <2>3. OnlyExpected'
    BY <1>3 DEF WaitClosed, TypeOK, OnlyExpected
  <2>4. HungUpFirst'
    BY <1>3 DEF WaitClosed, TypeOK, HungUpFirst
  <2>5. Counted'
    BY <1>3 DEF WaitClosed, TypeOK, Counted
  <2>6. AnswerIsSound'
    BY <1>3 DEF WaitClosed, TypeOK, AnswerIsSound, Unseen
  <2> QED BY <2>1, <2>2, <2>3, <2>4, <2>5, <2>6
<1>4. ASSUME NEW c \in Conn, CloseSignal(c) PROVE SafeInv'
  <2>1. TypeOK'
    BY <1>4 DEF CloseSignal, TypeOK, Question, Answer, Tries, Over
  <2>2. TryLeft'
    BY <1>4 DEF CloseSignal, TypeOK, TryLeft
  <2>3. OnlyExpected'
    BY <1>4 DEF CloseSignal, TypeOK, OnlyExpected
  <2>4. HungUpFirst'
    BY <1>4 DEF CloseSignal, TypeOK, HungUpFirst
  <2>5. Counted'
    BY <1>4 DEF CloseSignal, TypeOK, Counted
  <2>6. AnswerIsSound'
    BY <1>4 DEF CloseSignal, TypeOK, AnswerIsSound, Unseen
  <2> QED BY <2>1, <2>2, <2>3, <2>4, <2>5, <2>6
<1>5. ASSUME NEW c \in Conn, SendAnswer(c) PROVE SafeInv'
  <2>1. TypeOK'
    <3>1. PICK q \in asked[c] : answers' = [answers EXCEPT ![q[1]] = @ \cup
              (IF Listening(c)
               THEN {[id |-> c, try |-> q[2], text |-> Reaction(q[1])]}
               ELSE {})]
      BY <1>5 DEF SendAnswer
    <3>2. q[1] \in Surveyor /\ q[2] \in Tries
      BY DEF TypeOK, Question
    <3>3. [id |-> c, try |-> q[2], text |-> Reaction(q[1])] \in Answer
      BY <3>2 DEF Answer, Reaction
    <3>4. answers' \in [Surveyor -> SUBSET Answer]
      BY <3>1, <3>2, <3>3 DEF TypeOK
    <3> QED BY <1>5, <3>4 DEF SendAnswer, TypeOK
  <2>2. TryLeft'
    BY <1>5 DEF SendAnswer, Listening, TypeOK, TryLeft
  <2>3. OnlyExpected'
    BY <1>5 DEF SendAnswer, Listening, TypeOK, OnlyExpected
  <2>4. HungUpFirst'
    BY <1>5 DEF SendAnswer, Listening, TypeOK, HungUpFirst
  <2>5. Counted'
    BY <1>5 DEF SendAnswer, Listening, TypeOK, Counted
  <2>6. AnswerIsSound'
    BY <1>5 DEF SendAnswer, Listening, TypeOK, AnswerIsSound, Unseen
  <2> QED BY <2>1, <2>2, <2>3, <2>4, <2>5, <2>6
<1>6. ASSUME NEW c \in Conn, ClientLeaves(c) PROVE SafeInv'
  <2>1. TypeOK'
    BY <1>6 DEF ClientLeaves, TypeOK, Question, Answer, Tries, Over
  <2>2. TryLeft'
    BY <1>6 DEF ClientLeaves, TypeOK, TryLeft
  <2>3. OnlyExpected'
    BY <1>6 DEF ClientLeaves, TypeOK, OnlyExpected
  <2>4. HungUpFirst'
    BY <1>6 DEF ClientLeaves, TypeOK, HungUpFirst
  <2>5. Counted'
    BY <1>6 DEF ClientLeaves, TypeOK, Counted
  <2>6. AnswerIsSound'
    BY <1>6 DEF ClientLeaves, TypeOK, AnswerIsSound, Unseen
  <2> QED BY <2>1, <2>2, <2>3, <2>4, <2>5, <2>6
<1>7. ASSUME NEW c \in Conn, HangUp(c) PROVE SafeInv'
  <2>1. TypeOK'
    BY <1>7 DEF HangUp, ClientLeaves, TypeOK, Question, Answer, Tries, Over
  <2>2. TryLeft'
    BY <1>7 DEF HangUp, ClientLeaves, TypeOK, TryLeft
  <2>3. OnlyExpected'
    BY <1>7 DEF HangUp, ClientLeaves, TypeOK, OnlyExpected
  <2>4. HungUpFirst'
    BY <1>7 DEF HangUp, ClientLeaves, TypeOK, HungUpFirst
  <2>5. Counted'
    BY <1>7 DEF HangUp, ClientLeaves, TypeOK, Counted
  <2>6. AnswerIsSound'
    BY <1>7 DEF HangUp, ClientLeaves, TypeOK, AnswerIsSound, Unseen
  <2> QED BY <2>1, <2>2, <2>3, <2>4, <2>5, <2>6
<1>8. ASSUME NEW c \in Conn, StartCleanup(c) PROVE SafeInv'
  <2>1. TypeOK'
    BY <1>8 DEF StartCleanup, TypeOK, Question, Answer, Tries, Over
  <2>2. TryLeft'
    BY <1>8 DEF StartCleanup, TypeOK, TryLeft
  <2>3. OnlyExpected'
    BY <1>8 DEF StartCleanup, TypeOK, OnlyExpected
  <2>4. HungUpFirst'
    BY <1>8 DEF StartCleanup, TypeOK, HungUpFirst
  <2>5. Counted'
    BY <1>8 DEF StartCleanup, TypeOK, Counted
  <2>6. AnswerIsSound'
    BY <1>8 DEF StartCleanup, TypeOK, AnswerIsSound, Unseen
  <2> QED BY <2>1, <2>2, <2>3, <2>4, <2>5, <2>6
<1>9. ASSUME NEW c \in Conn, CommitCleanup(c) PROVE SafeInv'
  <2>1. TypeOK'
    BY <1>9 DEF CommitCleanup, TypeOK, Question, Answer, Tries, Over
  <2>2. TryLeft'
    BY <1>9 DEF CommitCleanup, TypeOK, TryLeft
  <2>3. OnlyExpected'
    BY <1>9 DEF CommitCleanup, TypeOK, OnlyExpected
  <2>4. HungUpFirst'
    BY <1>9 DEF CommitCleanup, TypeOK, HungUpFirst
  <2>5. Counted'
    BY <1>9 DEF CommitCleanup, TypeOK, Counted
  <2>6. AnswerIsSound'
    BY <1>9 DEF CommitCleanup, TypeOK, AnswerIsSound, Unseen
  <2> QED BY <2>1, <2>2, <2>3, <2>4, <2>5, <2>6
<1>10. ASSUME NEW s \in Surveyor, NEW c \in Conn, Dial(s, c) PROVE SafeInv'
  <2>1. TypeOK'
    BY <1>10 DEF Dial, Listening, TypeOK, Question, Answer, Tries, Over
  <2>2. TryLeft'
    BY <1>10 DEF Dial, Listening, TypeOK, TryLeft
  <2>3. OnlyExpected'
    BY <1>10 DEF Dial, Listening, TypeOK, OnlyExpected
  <2>4. HungUpFirst'
    BY <1>10 DEF Dial, Listening, TypeOK, HungUpFirst
  <2>5. Counted'
    BY <1>10 DEF Dial, Listening, TypeOK, Counted
  <2>6. AnswerIsSound'
    BY <1>10 DEF Dial, Listening, TypeOK, AnswerIsSound, Unseen
  <2> QED BY <2>1, <2>2, <2>3, <2>4, <2>5, <2>6
<1>11. ASSUME NEW s \in Surveyor, NewSurvey(s) PROVE SafeInv'
  <2>1. TypeOK'
    BY <1>11 DEF NewSurvey, TypeOK, Question, Answer, Tries, Over
  <2>2. TryLeft'
    BY <1>11 DEF NewSurvey, TypeOK, TryLeft
  <2>3. OnlyExpected'
    BY <1>11 DEF NewSurvey, TypeOK, OnlyExpected
  <2>4. HungUpFirst'
    BY <1>11 DEF NewSurvey, TypeOK, HungUpFirst
  <2>5. Counted'
    <3>1. expect[s] = {} /\ seen[s] = {} /\ errs[s] = {}
      BY <1>11 DEF NewSurvey, OnlyExpected, Counted
    <3> QED BY <1>11, <3>1 DEF NewSurvey, TypeOK, Counted
  <2>6. AnswerIsSound'
    BY <1>11 DEF NewSurvey, TypeOK, AnswerIsSound, Unseen
  <2> QED BY <2>1, <2>2, <2>3, <2>4, <2>5, <2>6
<1>12. ASSUME NEW s \in Surveyor, Send(s) PROVE SafeInv'
  <2>1. TypeOK'
    <3>1. try[s] + 1 \in Tries
      BY <1>12, TriesAssumption DEF Send, TypeOK, TryLeft, Tries
    <3>2. ToRecv(s) \in Nat
      BY CountsAreExact DEF ToRecv
    <3> QED BY <1>12, <3>1, <3>2 DEF Send, TypeOK, Tries, Over
  <2>2. TryLeft'
    BY <1>12 DEF Send, TypeOK, TryLeft
  <2>3. OnlyExpected'
    BY <1>12 DEF Send, TypeOK, OnlyExpected
  <2>4. HungUpFirst'
    BY <1>12 DEF Send, TypeOK, HungUpFirst
  <2>5. Counted'
    BY <1>12 DEF Send, TypeOK, Counted
  <2>6. AnswerIsSound'
    BY <1>12 DEF Send, TypeOK, AnswerIsSound, Unseen
  <2> QED BY <2>1, <2>2, <2>3, <2>4, <2>5, <2>6
<1>13. ASSUME NEW s \in Surveyor, RecvAnswer(s) PROVE SafeInv'
  <2>1. TypeOK'
    <3>1. PICK a \in answers[s] : Tally(s, a) /\ answers' = [answers EXCEPT ![s] = @ \ {a}]
      BY <1>13 DEF RecvAnswer
    <3>2. a.id \in Conn /\ UnknownKey(a.id) \in Nat
      <4>1. a \in Answer
        BY DEF TypeOK
      <4>2. a.id \in Conn
        BY <4>1 DEF Answer
      <4>3. a.id \in Nat
        BY <4>2, ConnAssumption
      <4> QED BY <4>2, <4>3 DEF UnknownKey
    <3>3. left[s] - 1 \in Nat
      BY <1>13 DEF RecvAnswer, TypeOK
    <3> QED BY <1>13, <3>1, <3>2, <3>3, SMTT(40) DEF RecvAnswer, Tally, TypeOK, Over
  <2>2. TryLeft'
    BY <1>13 DEF RecvAnswer, Tally, TypeOK, TryLeft
  <2>3. OnlyExpected'
    BY <1>13 DEF RecvAnswer, Tally, TypeOK, OnlyExpected
  <2>4. HungUpFirst'
    BY <1>13 DEF RecvAnswer, Tally, TypeOK, HungUpFirst
  <2>5. Counted'
    <3>1. PICK a \in answers[s] : Tally(s, a) /\ answers' = [answers EXCEPT ![s] = @ \ {a}]
      BY <1>13 DEF RecvAnswer
    <3>2. /\ a.id \in expect[s] \cap signal
          /\ a.text = "OK" <=> s \notin Foreign
      BY DEF OnlyExpected, HungUpFirst, Reaction
    <3> QED BY <1>13, <3>1, <3>2, SMTT(40) DEF RecvAnswer, Tally, TypeOK, Counted
  <2>6. AnswerIsSound'
    BY <1>13 DEF RecvAnswer, Tally, TypeOK, AnswerIsSound, Unseen
  <2> QED BY <2>1, <2>2, <2>3, <2>4, <2>5, <2>6
<1>14. ASSUME NEW s \in Surveyor, RecvExpired(s) PROVE SafeInv'
  <2>1. TypeOK'
    BY <1>14 DEF RecvExpired, TypeOK, Question, Answer, Tries, Over
  <2>2. TryLeft'
    BY <1>14 DEF RecvExpired, TypeOK, TryLeft
  <2>3. OnlyExpected'
    BY <1>14 DEF RecvExpired, TypeOK, OnlyExpected
  <2>4. HungUpFirst'
    BY <1>14 DEF RecvExpired, TypeOK, HungUpFirst
  <2>5. Counted'
    BY <1>14 DEF RecvExpired, TypeOK, Counted
  <2>6. AnswerIsSound'
    BY <1>14 DEF RecvExpired, TypeOK, AnswerIsSound, Unseen
  <2> QED BY <2>1, <2>2, <2>3, <2>4, <2>5, <2>6
<1>15. ASSUME NEW s \in Surveyor, EndTry(s) PROVE SafeInv'
  <2>1. TypeOK'
    BY <1>15 DEF EndTry, TypeOK, Question, Answer, Tries, Over
  <2>2. TryLeft'
    BY <1>15 DEF EndTry, TypeOK, TryLeft
  <2>3. OnlyExpected'
    BY <1>15 DEF EndTry, TypeOK, OnlyExpected
  <2>4. HungUpFirst'
    BY <1>15 DEF EndTry, TypeOK, HungUpFirst
  <2>5. Counted'
    BY <1>15 DEF EndTry, TypeOK, Counted
  <2>6. AnswerIsSound'
    <3>1. seen[s] \subseteq signal
      BY DEF Counted
    <3>2. expect'[s] = expect[s] /\ seen' = seen /\ signal' = signal
      BY <1>15 DEF EndTry
    <3>3. phase'[s] \in {"ok", "errors"} => expect[s] \subseteq signal
      BY <1>15, <3>1, CountsAreExact DEF EndTry, TypeOK
    <3> QED BY <1>15, <3>1, <3>2, <3>3
            DEF EndTry, TypeOK, AnswerIsSound, Unseen
  <2> QED BY <2>1, <2>2, <2>3, <2>4, <2>5, <2>6
<1>16. ASSUME NEW s \in Surveyor, Distribute(s) PROVE SafeInv'
  <2>1. TypeOK'
    <3>1. PICK k \in outq[s], D \in SUBSET linked[s] :
              /\ wire' = [c \in Conn |-> IF c \in D THEN wire[c] \cup {<<s, k>>}
                                                   ELSE wire[c]]
              /\ outq' = [outq EXCEPT ![s] = @ \ {k}]
      BY <1>16 DEF Distribute
    <3>2. <<s, k>> \in Question
      BY DEF TypeOK, Question
    <3>3. wire' \in [Conn -> SUBSET Question]
      BY <3>1, <3>2 DEF TypeOK
    <3>4. outq' \in [Surveyor -> SUBSET Tries]
      BY <3>1 DEF TypeOK
    <3> QED BY <1>16, <3>3, <3>4 DEF Distribute, TypeOK
  <2>2. TryLeft'
    BY <1>16 DEF Distribute, TypeOK, TryLeft
  <2>3. OnlyExpected'
    BY <1>16 DEF Distribute, TypeOK, OnlyExpected
  <2>4. HungUpFirst'
    BY <1>16 DEF Distribute, TypeOK, HungUpFirst
  <2>5. Counted'
    BY <1>16 DEF Distribute, TypeOK, Counted
  <2>6. AnswerIsSound'
    BY <1>16 DEF Distribute, TypeOK, AnswerIsSound, Unseen
  <2> QED BY <2>1, <2>2, <2>3, <2>4, <2>5, <2>6
<1>17. ASSUME NEW s \in Surveyor, Expire(s) PROVE SafeInv'
  <2>1. TypeOK'
    BY <1>17 DEF Expire, TypeOK, Question, Answer, Tries, Over
  <2>2. TryLeft'
    BY <1>17 DEF Expire, TypeOK, TryLeft
  <2>3. OnlyExpected'
    BY <1>17 DEF Expire, TypeOK, OnlyExpected
  <2>4. HungUpFirst'
    BY <1>17 DEF Expire, TypeOK, HungUpFirst
  <2>5. Counted'
    BY <1>17 DEF Expire, TypeOK, Counted
  <2>6. AnswerIsSound'
    BY <1>17 DEF Expire, TypeOK, AnswerIsSound, Unseen
  <2> QED BY <2>1, <2>2, <2>3, <2>4, <2>5, <2>6
<1>18. CASE UNCHANGED vars
  BY <1>18 DEF vars, TypeOK, TryLeft, OnlyExpected, HungUpFirst, Counted,
              AnswerIsSound, Unseen
<1> QED
  BY <1>1, <1>2, <1>3, <1>4, <1>5, <1>6, <1>7, <1>8, <1>9,
     <1>10, <1>11, <1>12, <1>13, <1>14, <1>15, <1>16, <1>17, <1>18
     DEF Next, ConnNext, SurveyNext, SocketNext, Terminating

\* The inductive invariant of the survey protocol.
LEMMA AlwaysSafe == Spec => []SafeInv
<1>1. Init => SafeInv
  BY InitSafe
<1>2. SafeInv /\ [Next]_vars => SafeInv'
  BY NextSafe
<1> QED BY <1>1, <1>2, PTL DEF Spec

\* Type correctness of the survey protocol.  It needs the whole invariant:
\* that toRecv in MakeSurvey is never negative rests on what is counted.
THEOREM TypeCorrect == Spec => []TypeOK
<1>1. SafeInv => TypeOK
  BY DEF SafeInv
<1> QED BY <1>1, AlwaysSafe, PTL

\* MakeSurvey's result is sound for any number of Responders, concurrent
\* surveys and tries: whoever it does not report missing is hung up.
THEOREM SurveySound == Spec => []AnswerIsSound
<1>1. SafeInv => AnswerIsSound
  BY DEF SafeInv
<1> QED BY <1>1, AlwaysSafe, PTL

-----------------------------------------------------------------------------
\* A Responder's one answer is in one place only: not yet sent, on its way to
\* one survey, or counted by it.
LEMMA NextOneAnswer ==
    SafeInv /\ OneAnswer /\ CreditedOnce /\ [Next]_vars
        => OneAnswer' /\ CreditedOnce'
<1> SUFFICES ASSUME SafeInv, OneAnswer, CreditedOnce, [Next]_vars
             PROVE  OneAnswer' /\ CreditedOnce'
  OBVIOUS
<1> TypeOK
  BY DEF SafeInv
<1> USE DEF connVars, survVars, sockVars, OneAnswer, CreditedOnce
<1>1. ASSUME NEW c \in Conn, NewResponder(c) PROVE OneAnswer' /\ CreditedOnce'
  BY <1>1 DEF NewResponder, TypeOK, CountedBy
<1>2. ASSUME NEW c \in Conn, WaitRecv(c) PROVE OneAnswer' /\ CreditedOnce'
  BY <1>2 DEF WaitRecv, TypeOK, CountedBy
<1>3. ASSUME NEW c \in Conn, WaitClosed(c) PROVE OneAnswer' /\ CreditedOnce'
  BY <1>3 DEF WaitClosed, TypeOK, CountedBy
<1>4. ASSUME NEW c \in Conn, CloseSignal(c) PROVE OneAnswer' /\ CreditedOnce'
  BY <1>4 DEF CloseSignal, TypeOK, CountedBy
<1>5. ASSUME NEW c \in Conn, SendAnswer(c) PROVE OneAnswer' /\ CreditedOnce'
  <2>1. PICK q \in asked[c] : answers' = [answers EXCEPT ![q[1]] = @ \cup
            (IF Listening(c)
             THEN {[id |-> c, try |-> q[2], text |-> Reaction(q[1])]}
             ELSE {})]
    BY <1>5 DEF SendAnswer
  <2>2. PICK m : m.id = c /\ \A r \in Surveyor :
            /\ answers'[r] \subseteq answers[r] \cup {m}
            /\ r # q[1] => answers'[r] = answers[r]
    <3>1. q[1] \in Surveyor
      BY DEF TypeOK, Question
    <3> DEFINE n == [id |-> c, try |-> q[2], text |-> Reaction(q[1])]
    <3>2. n.id = c
      OBVIOUS
    <3>3. \A r \in Surveyor : /\ answers'[r] \subseteq answers[r] \cup {n}
                              /\ r # q[1] => answers'[r] = answers[r]
      BY <2>1, <3>1 DEF TypeOK
    <3> HIDE DEF n
    <3> QED BY <3>2, <3>3
  <2>3. /\ waiter[c] = "signalled"
        /\ waiter' = [waiter EXCEPT ![c] = "done"]
        /\ UNCHANGED <<handler, seen, errs>>
    BY <1>5 DEF SendAnswer
  <2>10. \A r \in Surveyor : CountedBy(r)' = CountedBy(r)
    BY <2>3 DEF CountedBy
  <2>4. \A r \in Surveyor : c \notin CountedBy(r) /\ \A a \in answers[r] : a.id # c
    BY <2>3
  <2>5. \A r, r2 \in Surveyor : \A a \in answers'[r], b \in answers'[r2] :
            a.id = b.id => r = r2 /\ a = b
    BY <2>2, <2>4
  <2>6. \A d \in Conn : waiter'[d] # "done" => d # c /\ waiter[d] # "done"
    BY <2>3 DEF TypeOK
  <2>7. \A d \in Conn : handler'[d] = "idle" => waiter'[d] = "off"
    BY <2>3 DEF TypeOK
  <2>8. \A r, r2 \in Surveyor : \A a \in answers'[r] : a.id \notin CountedBy(r2)'
    BY <2>2, <2>4, <2>10
  <2>9. \A d \in Conn : waiter'[d] # "done" => \A r \in Surveyor :
            d \notin CountedBy(r)' /\ \A a \in answers'[r] : a.id # d
    BY <2>2, <2>6, <2>10
  <2> QED BY <2>5, <2>7, <2>8, <2>9, <2>10
<1>6. ASSUME NEW c \in Conn, ClientLeaves(c) PROVE OneAnswer' /\ CreditedOnce'
  BY <1>6 DEF ClientLeaves, TypeOK, CountedBy
<1>7. ASSUME NEW c \in Conn, HangUp(c) PROVE OneAnswer' /\ CreditedOnce'
  BY <1>7 DEF HangUp, ClientLeaves, TypeOK, CountedBy
<1>8. ASSUME NEW c \in Conn, StartCleanup(c) PROVE OneAnswer' /\ CreditedOnce'
  BY <1>8 DEF StartCleanup, TypeOK, CountedBy
<1>9. ASSUME NEW c \in Conn, CommitCleanup(c) PROVE OneAnswer' /\ CreditedOnce'
  BY <1>9 DEF CommitCleanup, TypeOK, CountedBy
<1>10. ASSUME NEW s \in Surveyor, NEW c \in Conn, Dial(s, c)
      PROVE  OneAnswer' /\ CreditedOnce'
  BY <1>10 DEF Dial, TypeOK, CountedBy
<1>11. ASSUME NEW s \in Surveyor, NewSurvey(s) PROVE OneAnswer' /\ CreditedOnce'
  BY <1>11 DEF NewSurvey, TypeOK, CountedBy
<1>12. ASSUME NEW s \in Surveyor, Send(s) PROVE OneAnswer' /\ CreditedOnce'
  BY <1>12 DEF Send, TypeOK, CountedBy
<1>13. ASSUME NEW s \in Surveyor, RecvAnswer(s) PROVE OneAnswer' /\ CreditedOnce'
  <2>1. PICK a \in answers[s] : Tally(s, a) /\ answers' = [answers EXCEPT ![s] = @ \ {a}]
    BY <1>13 DEF RecvAnswer
  <2>2. a \in Answer /\ a.id \in Conn
    BY DEF TypeOK, Answer
  <2>3. \A r \in Surveyor : answers'[r] = IF r = s THEN answers[s] \ {a} ELSE answers[r]
    BY <2>1 DEF TypeOK
  <2>4. \A r \in Surveyor : /\ CountedBy(r)' \subseteq CountedBy(r) \cup {a.id}
                            /\ r # s => CountedBy(r)' = CountedBy(r)
    <3>1. ASSUME NEW c \in Conn, UnknownKey(c) = UnknownKey(a.id)
          PROVE  c = a.id
      <4>1. c \in Nat /\ a.id \in Nat
        BY <2>2, ConnAssumption
      <4>2. 75 + 256 * c = 75 + 256 * a.id
        BY <3>1 DEF UnknownKey
      <4> QED BY <4>1, <4>2
    <3>2. \A r \in Surveyor :
              /\ seen'[r] \subseteq seen[r] \cup {a.id}
              /\ errs'[r] \subseteq errs[r] \cup {UnknownKey(a.id)}
              /\ r # s => seen'[r] = seen[r] /\ errs'[r] = errs[r]
      BY <2>1 DEF Tally, TypeOK
    <3> QED BY <3>1, <3>2 DEF CountedBy
  <2>5. waiter' = waiter /\ handler' = handler
    BY <1>13 DEF RecvAnswer
  <2>6. \A r \in Surveyor : a.id \notin CountedBy(r)
    BY DEF OneAnswer
  <2>7. ASSUME NEW r \in Surveyor, NEW r2 \in Surveyor, r # r2
        PROVE  CountedBy(r)' \cap CountedBy(r2)' = {}
    <3>1. CountedBy(r) \cap CountedBy(r2) = {}
      BY <2>7
    <3>2. r # s \/ r2 # s
      BY <2>7
    <3> QED BY <3>1, <3>2, <2>4, <2>6
  <2>8. ASSUME NEW r \in Surveyor, NEW r2 \in Surveyor, NEW b \in answers'[r]
        PROVE  b.id \notin CountedBy(r2)'
    <3>1. b \in answers[r] /\ (r = s => b # a)
      BY <2>3
    <3>2. b.id # a.id /\ b.id \notin CountedBy(r2)
      BY <3>1
    <3> QED BY <3>2, <2>4
  <2>9. ASSUME NEW c \in Conn, waiter'[c] # "done", NEW r \in Surveyor
        PROVE  c \notin CountedBy(r)' /\ \A b \in answers'[r] : b.id # c
    <3>1. c # a.id /\ c \notin CountedBy(r) /\ \A b \in answers[r] : b.id # c
      BY <2>9, <2>5
    <3> QED BY <3>1, <2>3, <2>4
  <2> QED BY <2>3, <2>5, <2>7, <2>8, <2>9
<1>14. ASSUME NEW s \in Surveyor, RecvExpired(s) PROVE OneAnswer' /\ CreditedOnce'
  BY <1>14 DEF RecvExpired, TypeOK, CountedBy
<1>15. ASSUME NEW s \in Surveyor, EndTry(s) PROVE OneAnswer' /\ CreditedOnce'
  BY <1>15 DEF EndTry, TypeOK, CountedBy
<1>16. ASSUME NEW s \in Surveyor, Distribute(s) PROVE OneAnswer' /\ CreditedOnce'
  BY <1>16 DEF Distribute, TypeOK, CountedBy
<1>17. ASSUME NEW s \in Surveyor, Expire(s) PROVE OneAnswer' /\ CreditedOnce'
  BY <1>17 DEF Expire, TypeOK, CountedBy
<1>18. CASE UNCHANGED vars
  BY <1>18 DEF vars, CountedBy
<1> QED
  BY <1>1, <1>2, <1>3, <1>4, <1>5, <1>6, <1>7, <1>8, <1>9,
     <1>10, <1>11, <1>12, <1>13, <1>14, <1>15, <1>16, <1>17, <1>18
     DEF Next, ConnNext, SurveyNext, SocketNext, Terminating

\* No connection is counted as hung up by two surveys, however HUPs, retries
\* and late answers of concurrent surveys interleave: HangupSender.Send is
\* "only called once".
THEOREM AnswersOnce == Spec => []CreditedOnce
<1>1. Init => OneAnswer /\ CreditedOnce
  BY DEF Init, OneAnswer, CreditedOnce, CountedBy
<1>2. SafeInv /\ OneAnswer /\ CreditedOnce /\ [Next]_vars
          => OneAnswer' /\ CreditedOnce'
  BY NextOneAnswer
<1> QED BY <1>1, <1>2, AlwaysSafe, PTL DEF Spec
-----------------------------------------------------------------------------
\* What the contract needs beyond SafeInv: an unused ID is nowhere, entries live
\* in a bucket, and whoever is about to close a signal was asked to.
Asked ==
    /\ \A c \in Conn : handler[c] = "idle" =>
          waiter[c] = "off" /\ c \notin entry \cup signal
    /\ entry # {} => bucket
    /\ \A c \in Conn : waiter[c] = "read" => asked[c] # {}

\* Every step keeps it.
LEMMA NextAsked == SafeInv /\ Asked /\ [Next]_vars => Asked'
<1> SUFFICES ASSUME SafeInv, Asked, [Next]_vars PROVE Asked'
  OBVIOUS
<1> TypeOK
  BY DEF SafeInv
<1> USE DEF connVars, survVars, sockVars, TypeOK, Asked
<1>1. ASSUME NEW c \in Conn, ConnNext(c) PROVE Asked'
  <2>1. CASE NewResponder(c)
    BY <2>1 DEF NewResponder
  <2>2. CASE WaitRecv(c)
    <3>1. PICK q \in wire[c] : asked' = [asked EXCEPT ![c] = {q}]
      BY <2>2 DEF WaitRecv
    <3> QED BY <2>2, <3>1 DEF WaitRecv
  <2>3. CASE WaitClosed(c)
    BY <2>3 DEF WaitClosed
  <2>4. CASE CloseSignal(c)
    BY <2>4 DEF CloseSignal
  <2>5. CASE SendAnswer(c)
    BY <2>5 DEF SendAnswer
  <2>6. CASE ClientLeaves(c) \/ HangUp(c)
    BY <2>6 DEF ClientLeaves, HangUp
  <2>7. CASE StartCleanup(c)
    BY <2>7 DEF StartCleanup
  <2>8. CASE CommitCleanup(c)
    BY <2>8 DEF CommitCleanup
  <2> QED BY <1>1, <2>1, <2>2, <2>3, <2>4, <2>5, <2>6, <2>7, <2>8 DEF ConnNext
<1>2. ASSUME NEW s \in Surveyor, SurveyNext(s) \/ SocketNext(s) PROVE Asked'
  <2>1. UNCHANGED connVars
    BY <1>2 DEF SurveyNext, SocketNext, NewSurvey, Send, RecvAnswer, RecvExpired,
                EndTry, Dial, Distribute, Expire
  <2> QED BY <2>1
<1>3. CASE UNCHANGED vars
  BY <1>3 DEF vars
<1> QED BY <1>1, <1>2, <1>3 DEF Next, Terminating

\* Steps that touch neither the bucket, the signals nor what a survey has found
\* and returned are invisible to the callers.
LEMMA Invisible ==
    ASSUME UNCHANGED <<entry, signal, expect, phase, seen>>
    PROVE  UNCHANGED H!vars
BY DEF H!vars, Verdict, Reported, Unseen

\* A step that changes the stand of one survey and leaves the connections alone
\* changes its verdict and its missing IDs, and nobody else's.
LEMMA OneVerdict ==
    ASSUME SafeInv, NEW s \in Surveyor, NEW p,
           phase' = [phase EXCEPT ![s] = p],
           \A t \in Surveyor : t # s => UNCHANGED <<expect[t], seen[t]>>
    PROVE  /\ [t \in Surveyor |-> Verdict(t)]'
                = [[t \in Surveyor |-> Verdict(t)] EXCEPT ![s] = Verdict(s)']
           /\ [t \in Surveyor |-> Reported(t)]'
                = [[t \in Surveyor |-> Reported(t)] EXCEPT ![s] = Reported(s)']
<1>1. \A t \in Surveyor : t # s => Verdict(t)' = Verdict(t) /\ Reported(t)' = Reported(t)
  BY DEF SafeInv, TypeOK, Verdict, Reported, Unseen
<1> QED BY <1>1

\* Every step of the protocol is a step of the contract or invisible.
LEMMA NextImplements == SafeInv /\ Asked /\ [Next]_vars => [H!Next]_(H!vars)
<1> SUFFICES ASSUME SafeInv, Asked, [Next]_vars PROVE H!Next \/ UNCHANGED H!vars
  OBVIOUS
<1> TypeOK
  BY DEF SafeInv
<1> USE DEF connVars, survVars, sockVars
<1> DEFINE V == [s \in Surveyor |-> Verdict(s)]
           R == [s \in Surveyor |-> Reported(s)]
<1>1. ASSUME NEW c \in Conn, NewResponder(c) PROVE H!Connect(c)
  <2>1. c \notin entry \cup signal /\ entry' = entry \cup {c}
    BY <1>1 DEF NewResponder, Asked
  <2>2. UNCHANGED <<signal, expect, V, R>>
    BY <1>1 DEF NewResponder, Verdict, Reported, Unseen
  <2> QED BY <2>1, <2>2 DEF H!Connect
<1>2. ASSUME NEW c \in Conn, CommitCleanup(c) PROVE H!Leave(c) \/ UNCHANGED H!vars
  <2>1. entry' = entry \ {c}
    BY <1>2 DEF CommitCleanup
  <2>2. UNCHANGED <<signal, expect, V, R>>
    BY <1>2 DEF CommitCleanup, Verdict, Reported, Unseen
  <2> QED BY <2>1, <2>2 DEF H!Leave, H!vars
<1>3. ASSUME NEW c \in Conn, CloseSignal(c) PROVE H!HangUp(c)
  <2>1. PICK q \in asked[c] : c \in expect[q[1]] /\ q[1] \in Surveyor
    BY <1>3 DEF CloseSignal, Asked, SafeInv, OnlyExpected, TypeOK, Question
  <2>2. signal' = signal \cup {c}
    BY <1>3 DEF CloseSignal
  <2>3. UNCHANGED <<entry, expect, V, R>>
    BY <1>3 DEF CloseSignal, Verdict, Reported, Unseen
  <2> QED BY <2>1, <2>2, <2>3 DEF H!HangUp
<1>4. ASSUME NEW s \in Surveyor, NewSurvey(s) PROVE H!Ask(s)
  <2>1. Verdict(s) = "idle" /\ Reported(s) = {}
    BY <1>4 DEF NewSurvey, Verdict, Reported, Over
  <2>2. /\ Verdict(s)' \in {"asking", "nobucket"}
        /\ Verdict(s)' = "nobucket" => entry = {}
        /\ Reported(s)' = {}
    BY <1>4 DEF NewSurvey, Verdict, Reported, Over, Asked, TypeOK
  <2>3. /\ V' = [V EXCEPT ![s] = Verdict(s)']
        /\ R' = [R EXCEPT ![s] = Reported(s)']
    BY <1>4, OneVerdict DEF NewSurvey, TypeOK
  <2>4. R' = R
    BY <2>1, <2>2, <2>3
  <2>5. expect' = [expect EXCEPT ![s] = entry] /\ UNCHANGED <<entry, signal>>
    BY <1>4 DEF NewSurvey
  <2>6. V[s] = "idle"
    BY <2>1
  <2> HIDE DEF V, R
  <2> QED BY <2>2, <2>3, <2>4, <2>5, <2>6 DEF H!Ask, V, R
<1>5. ASSUME NEW s \in Surveyor, EndTry(s)
      PROVE  H!ReportAll(s) \/ H!ReportMissing(s) \/ UNCHANGED H!vars
  <2>1. Verdict(s) = "asking" /\ Reported(s) = {} /\ V[s] = "asking"
    BY <1>5 DEF EndTry, Verdict, Reported, Over
  <2>2. /\ V' = [V EXCEPT ![s] = Verdict(s)']
        /\ R' = [R EXCEPT ![s] = Reported(s)']
    BY <1>5, OneVerdict DEF EndTry, TypeOK
  <2>3. UNCHANGED <<entry, signal, expect, seen>>
    BY <1>5 DEF EndTry
  <2>4. phase[s]' \in {"ok", "errors", "send", "missing"}
    BY <1>5 DEF EndTry, TypeOK
  <2>5. AnswerIsSound'
    BY NextSafe DEF SafeInv
  <2>6. CASE phase[s]' \in {"ok", "errors"}
    <3>1. Verdict(s)' \in {"ok", "errors"} /\ Reported(s)' = {}
      BY <2>6 DEF Verdict, Reported, Over
    <3>2. expect[s] \subseteq signal
      BY <2>6, <2>5, <2>3 DEF AnswerIsSound
    <3>3. R' = R
      BY <2>1, <2>2, <3>1
    <3> QED BY <2>1, <2>2, <2>3, <3>1, <3>2, <3>3 DEF H!ReportAll
  <2>7. CASE phase[s]' = "send"
    <3>1. Verdict(s)' = "asking" /\ Reported(s)' = {}
      BY <2>7 DEF Verdict, Reported, Over
    <3>2. V' = V /\ R' = R
      BY <2>1, <2>2, <3>1
    <3> QED BY <2>3, <3>2 DEF H!vars
  <2>8. CASE phase[s]' = "missing"
    <3>1. Verdict(s)' = "missing" /\ Reported(s)' = expect[s] \ seen[s]
      BY <2>8, <2>3 DEF Verdict, Reported, Over, Unseen
    <3>2. seen[s] \subseteq expect[s] \cap signal
      BY DEF SafeInv, Counted
    <3>3. expect[s] \ seen[s] # {}
      <4>1. Cardinality(seen[s]) # Cardinality(expect[s])
        BY <1>5, <2>8 DEF EndTry, TypeOK
      <4>2. seen[s] # expect[s]
        BY <4>1
      <4> QED BY <4>2, <3>2
    <3>4. expect[s] \ (expect[s] \ seen[s]) \subseteq signal
      BY <3>2
    <3> DEFINE M == expect[s] \ seen[s]
    <3>5. M \in (SUBSET expect[s]) \ {{}}
      <4>1. M \in SUBSET expect[s] /\ M # {}
        BY <3>3
      <4> HIDE DEF M
      <4> QED BY <4>1
    <3>6. R' = [R EXCEPT ![s] = M]
      BY <2>2, <3>1
    <3>7. \E N \in (SUBSET expect[s]) \ {{}} :
              expect[s] \ N \subseteq signal /\ R' = [R EXCEPT ![s] = N]
      BY <3>4, <3>5, <3>6
    <3> QED BY <2>1, <2>2, <2>3, <3>1, <3>7 DEF H!ReportMissing
  <2> QED BY <2>4, <2>6, <2>7, <2>8
<1>6. ASSUME NEW s \in Surveyor, RecvAnswer(s) PROVE UNCHANGED H!vars
  <2>1. PICK a \in answers[s] : Tally(s, a)
    BY <1>6 DEF RecvAnswer
  <2>2. a.id \in expect[s]
    BY DEF SafeInv, OnlyExpected
  <2>3. phase' = phase
    BY <2>1, <2>2 DEF Tally, TypeOK
  <2>4. UNCHANGED <<entry, signal, expect>>
    BY <1>6 DEF RecvAnswer
  <2>5. \A t \in Surveyor : t # s => seen'[t] = seen[t]
    BY <2>1 DEF Tally, TypeOK
  <2>6. phase[s] = "recv"
    BY <1>6 DEF RecvAnswer
  <2>7. \A t \in Surveyor : Verdict(t)' = Verdict(t) /\ Reported(t)' = Reported(t)
    BY <2>3, <2>4, <2>5, <2>6 DEF Verdict, Reported, Unseen
  <2> QED BY <2>4, <2>7 DEF H!vars
<1>7. ASSUME NEW s \in Surveyor, Send(s) PROVE UNCHANGED H!vars
  <2>1. UNCHANGED <<entry, signal, expect, seen>>
    BY <1>7 DEF Send
  <2>2. phase[s] = "send" /\ phase' = [phase EXCEPT ![s] = "recv"]
    BY <1>7 DEF Send
  <2>3. \A t \in Surveyor : Verdict(t)' = Verdict(t) /\ Reported(t)' = Reported(t)
    BY <2>1, <2>2 DEF Verdict, Reported, Unseen, Over, TypeOK
  <2> QED BY <2>1, <2>3 DEF H!vars
<1>8. ASSUME NEW c \in Conn,
             \/ WaitRecv(c) \/ WaitClosed(c) \/ SendAnswer(c)
             \/ ClientLeaves(c) \/ HangUp(c) \/ StartCleanup(c)
      PROVE  UNCHANGED H!vars
  <2>1. UNCHANGED <<entry, signal, expect, phase, seen>>
    BY <1>8 DEF WaitRecv, WaitClosed, SendAnswer, ClientLeaves, HangUp, StartCleanup
  <2> QED BY <2>1, Invisible
<1>9. ASSUME NEW s \in Surveyor, RecvExpired(s) \/ SocketNext(s)
      PROVE  UNCHANGED H!vars
  <2>1. UNCHANGED <<entry, signal, expect, phase, seen>>
    BY <1>9 DEF RecvExpired, SocketNext, Dial, Distribute, Expire
  <2> QED BY <2>1, Invisible
<1>10. CASE UNCHANGED vars
  BY <1>10, Invisible DEF vars
<1> QED
  BY <1>1, <1>2, <1>3, <1>4, <1>5, <1>6, <1>7, <1>8, <1>9, <1>10
     DEF Next, ConnNext, SurveyNext, Terminating, H!Next

\* The survey protocol implements the contract of Hangup for any number of
\* connections, surveys and tries: whoever calls MakeSurvey may forget how the
\* answers were collected.
THEOREM Implements == Spec => HangupContract
<1>1. Init => SafeInv /\ Asked /\ H!Init
  <2>1. Init => SafeInv
    BY InitSafe
  <2>2. Init => Asked
    BY DEF Init, Asked
  <2>3. Init => H!Init
    BY DEF Init, H!Init, Verdict, Reported, Over
  <2> QED BY <2>1, <2>2, <2>3
<1>2. SafeInv /\ Asked /\ [Next]_vars => Asked'
  BY NextAsked
<1>3. SafeInv /\ Asked /\ [Next]_vars => [H!Next]_(H!vars)
  BY NextImplements
<1> QED BY <1>1, <1>2, <1>3, AlwaysSafe, PTL DEF Spec, HangupContract, H!Spec
=============================================================================

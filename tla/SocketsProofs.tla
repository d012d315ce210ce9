---------------------------- MODULE SocketsProofs ---------------------------
(***************************************************************************)
(* Proofs about Sockets, for any capacity of the channel and the river and *)
(* any number of messages.                                                 *)
(***************************************************************************)
EXTENDS Sockets, SequenceTheorems, TLAPS

\* The types, without the flags, and what keeps a message within them.
Shaped ==
    /\ kind \in Kind
    /\ said \in Seq(Shapes(kind)) /\ Len(said) <= MaxSaid
    /\ client \in {"open", "closed", "lost"}
    /\ sends \in 0 .. MaxSends
    /\ queue \in 0 .. QLen
    /\ reader \in {"check", "read", "report", "ended"}
    /\ taken \in 0 .. Len(said)
    /\ buf \in Seq(Numbers) /\ out \in Seq(Numbers) /\ errs \in Seq(Numbers)
    /\ telling \in Seq(Numbers) /\ told \in Seq(Numbers)
    /\ reader = "report" => Len(buf) = 1
    /\ errWriter \in {"wait", "write", "ended"}
    /\ Len(errs) <= ErrsCap
    /\ writer \in {"check", "recv", "write", "ended"}
    /\ helper \in {"none", "wait"}
    /\ handler \in {"bound", "returned", "gone"}

Flags == stalled \in BOOLEAN /\ sock \in BOOLEAN /\ hung \in BOOLEAN
             /\ river \in BOOLEAN

Typed == Shaped /\ Flags

Full == {i \in 1 .. taken : said[i] = "full"}

Before(s, t) == \A a \in Range(s), b \in Range(t) : a < b

\* What the reader has sent on the river and holds in its hands.
ReaderOK ==
    /\ Increasing(out) /\ Range(out) \subseteq Good
    /\ reader \in {"check", "ended"} => buf = <<>>
    /\ reader = "read" =>
          /\ Increasing(buf) /\ Before(out, buf)
          /\ Range(buf) \subseteq Full
          /\ Range(out) \cup Range(buf) = Good
    /\ reader = "report" =>
          taken \in Bad /\ buf = <<taken>> /\ Range(out) = Good
    /\ reader = "check" => Range(out) = Good
    /\ reader = "ended" /\ ~hung =>
          /\ \A i \in Good \ Range(out), j \in 1 .. taken :
                i <= j => said[j] = "full"
          /\ \/ client = "lost" \/ writer = "ended"
             \/ client = "closed" /\ taken = Len(said)
    /\ sock \/ reader = "ended" \/ hung

\* The malformed messages that have left the reader's hands.
Known == Range(told) \cup Range(telling) \cup Range(errs)

Left == IF reader = "report" THEN Bad \ {taken} ELSE Bad

\* What has become of the malformed messages.
ErrorsOK ==
    /\ Increasing(told) /\ Increasing(telling) /\ Increasing(errs)
    /\ Before(told, telling) /\ Before(told, errs) /\ Before(telling, errs)
    /\ errWriter # "write" => telling = <<>>
    /\ Known \subseteq Left
    /\ reader # "ended" /\ errWriter # "ended" => Known = Left

IInv == Typed /\ (kind # "notif" => ReaderOK /\ ErrorsOK)

-----------------------------------------------------------------------------
(* Sequences of message numbers.                                           *)

\* A sequence increases when its halves do and the first is before the second.
LEMMA IncreasingConcat ==
    ASSUME NEW s \in Seq(Nat), NEW u \in Seq(Nat)
    PROVE  Increasing(s \o u) <=> Increasing(s) /\ Increasing(u) /\ Before(s, u)
<1> DEFINE m == Len(s)
           n == Len(u)
<1>1. /\ m \in Nat /\ n \in Nat
      /\ DOMAIN s = 1 .. m /\ DOMAIN u = 1 .. n /\ DOMAIN (s \o u) = 1 .. m + n
      /\ \A j \in 1 .. m : s[j] \in Nat /\ (s \o u)[j] = s[j]
      /\ \A j \in 1 .. n : u[j] \in Nat /\ (s \o u)[m + j] = u[j]
      BY ConcatProperties, LenProperties, ElementOfSeq
<1> HIDE DEF m, n
<1>2. ASSUME Increasing(s), Increasing(u), Before(s, u)
      PROVE  Increasing(s \o u)
  <2> SUFFICES ASSUME NEW j \in 1 .. m + n, NEW k \in 1 .. m + n, j < k
               PROVE  (s \o u)[j] < (s \o u)[k]
      BY <1>1 DEF Increasing
  <2>1. CASE k <= m
    <3>1. j \in 1 .. m /\ k \in 1 .. m
          BY <1>1, <2>1
    <3>2. QED  BY <1>1, <1>2, <3>1 DEF Increasing
  <2>2. CASE j <= m /\ k > m
    <3>1. j \in 1 .. m /\ k - m \in 1 .. n /\ k = m + (k - m)
          BY <1>1, <2>2
    <3>2. s[j] \in Range(s) /\ u[k - m] \in Range(u)
          BY <1>1, <3>1 DEF Range
    <3>3. (s \o u)[j] = s[j] /\ (s \o u)[k] = u[k - m]
          BY <1>1, <3>1
    <3>4. QED  BY <1>2, <3>2, <3>3 DEF Before
  <2>3. CASE j > m
    <3>1. /\ j - m \in 1 .. n /\ j = m + (j - m)
          /\ k - m \in 1 .. n /\ k = m + (k - m) /\ j - m < k - m
          BY <1>1, <2>3
    <3>2. (s \o u)[j] = u[j - m] /\ (s \o u)[k] = u[k - m]
          BY <1>1, <3>1
    <3>3. QED  BY <1>1, <1>2, <3>1, <3>2 DEF Increasing
  <2>4. QED  BY <1>1, <2>1, <2>2, <2>3
<1>3. ASSUME Increasing(s \o u)
      PROVE  Increasing(s) /\ Increasing(u) /\ Before(s, u)
  <2>1. \A j, k \in 1 .. m + n : j < k => (s \o u)[j] < (s \o u)[k]
        BY <1>1, <1>3 DEF Increasing
  <2>2. ASSUME NEW j \in 1 .. m, NEW k \in 1 .. m, j < k
        PROVE  s[j] < s[k]
    <3>1. j \in 1 .. m + n /\ k \in 1 .. m + n
          BY <1>1
    <3>2. QED  BY <1>1, <2>1, <2>2, <3>1
  <2>3. ASSUME NEW j \in 1 .. n, NEW k \in 1 .. n, j < k
        PROVE  u[j] < u[k]
    <3>1. m + j \in 1 .. m + n /\ m + k \in 1 .. m + n /\ m + j < m + k
          BY <1>1, <2>3
    <3>2. QED  BY <1>1, <2>1, <3>1
  <2>4. ASSUME NEW j \in 1 .. m, NEW k \in 1 .. n
        PROVE  s[j] < u[k]
    <3>1. j \in 1 .. m + n /\ m + k \in 1 .. m + n /\ j < m + k
          BY <1>1
    <3>2. QED  BY <1>1, <2>1, <3>1
  <2>5. QED  BY <1>1, <2>2, <2>3, <2>4 DEF Increasing, Before, Range
<1>4. QED  BY <1>2, <1>3

\* A single message.
LEMMA OneMessage ==
    ASSUME NEW n
    PROVE  Increasing(<<n>>) /\ Range(<<n>>) = {n}
BY DEF Increasing, Range

\* No message.
LEMMA NoMessage == Increasing(<<>>) /\ Range(<<>>) = {}
BY DEF Increasing, Range

\* One more message at the end.
LEMMA IncreasingAppend ==
    ASSUME NEW s \in Seq(Nat), NEW n \in Nat, Increasing(s),
           \A a \in Range(s) : a < n
    PROVE  /\ Increasing(s \o <<n>>) /\ Increasing(Append(s, n))
           /\ Range(s \o <<n>>) = Range(s) \cup {n}
           /\ Range(Append(s, n)) = Range(s) \cup {n}
<1>1. <<n>> \in Seq(Nat)
      OBVIOUS
<1>2. Append(s, n) = s \o <<n>>
      BY AppendIsConcat
<1>3. Before(s, <<n>>)
      BY OneMessage DEF Before
<1>4. Range(s \o <<n>>) = Range(s) \cup {n}
  <2>1. Range(s \o <<n>>) = Range(s) \cup Range(<<n>>)
        BY <1>1, RangeConcatenation
  <2>2. QED  BY <2>1, OneMessage
<1>5. QED  BY <1>1, <1>2, <1>3, <1>4, OneMessage, IncreasingConcat

\* The first message, and the others.
LEMMA HeadFirst ==
    ASSUME NEW s \in Seq(Nat), s # <<>>, Increasing(s)
    PROVE  /\ Head(s) \in Nat /\ Tail(s) \in Seq(Nat)
           /\ Increasing(Tail(s)) /\ \A b \in Range(Tail(s)) : Head(s) < b
           /\ Range(s) = {Head(s)} \cup Range(Tail(s))
<1>1. /\ Head(s) \in Nat /\ Tail(s) \in Seq(Nat)
      /\ s = <<Head(s)>> \o Tail(s)
      BY HeadTailProperties
<1>2. <<Head(s)>> \in Seq(Nat)
      BY <1>1
<1>3. Increasing(Tail(s)) /\ Before(<<Head(s)>>, Tail(s))
      BY <1>1, <1>2, IncreasingConcat
<1>4. Range(s) = {Head(s)} \cup Range(Tail(s))
  <2>1. Range(<<Head(s)>> \o Tail(s)) = Range(<<Head(s)>>) \cup Range(Tail(s))
        BY <1>1, <1>2, RangeConcatenation
  <2>2. Range(<<Head(s)>>) = {Head(s)}
        BY OneMessage
  <2>3. QED  BY <1>1, <2>1, <2>2
<1>5. QED  BY <1>1, <1>3, <1>4, OneMessage DEF Before

-----------------------------------------------------------------------------
(* Types.                                                                  *)

\* Nothing has been said at first.
LEMMA InitTyped == Init => Typed
<1> SUFFICES ASSUME Init
             PROVE  Typed
    OBVIOUS
<1>1. said \in Seq(Shapes(kind)) /\ Len(said) = 0
      BY DEF Init
<1>2. /\ buf \in Seq(Numbers) /\ out \in Seq(Numbers) /\ errs \in Seq(Numbers)
      /\ telling \in Seq(Numbers) /\ told \in Seq(Numbers) /\ Len(errs) = 0
      BY DEF Init
<1>3. Shaped
      BY <1>1, <1>2, BoundAssumption DEF Init, Shaped
<1>4. Flags
      BY DEF Init, Flags
<1>5. QED  BY <1>3, <1>4 DEF Typed

\* The number of the message that is read next is the number of a message.
LEMMA NextNumber ==
    ASSUME Shaped, taken < Len(said)
    PROVE  taken + 1 \in Numbers /\ taken + 1 \in 0 .. Len(said)
BY BoundAssumption, LenProperties DEF Shaped, Numbers

\* Every step keeps the flags flags.
LEMMA NextFlags == Flags /\ [Next]_vars => Flags'
<1> SUFFICES ASSUME Flags, [Next]_vars
             PROVE  Flags'
    OBVIOUS
<1> USE DEF Flags, clientVars, readVars, errVars, riverVars
<1>1. CASE Environment
      BY <1>1 DEF Environment, Say, Depart, Stall, CloseSignal, Publish
<1>2. CASE ReaderNext
      BY <1>2 DEF ReaderNext, StartRead, ReadMore, ReadSend, ReadFails,
                  ReportError, Discard, ReadEOF, ReadStep
<1>3. CASE ErrorsNext
      BY <1>3 DEF ErrorsNext, TakeError, TellError, EndErrors, ErrStep
<1>4. CASE WriterNext
      BY <1>4 DEF WriterNext, StartRecv, Recv, Write, WriteStep
<1>5. CASE HelperNext
      BY <1>5 DEF HelperNext, HelperHangsUp, HelperEnds
<1>6. CASE HandlerNext
      BY <1>6 DEF HandlerNext, Bind, BindRead, Cleanup
<1>7. CASE UNCHANGED vars
      BY <1>7 DEF vars
<1>8. QED  BY <1>1, <1>2, <1>3, <1>4, <1>5, <1>6, <1>7 DEF Next

\* Every step keeps the other types.
LEMMA NextShaped == Shaped /\ [Next]_vars => Shaped'
<1> SUFFICES ASSUME Shaped, [Next]_vars
             PROVE  Shaped'
    OBVIOUS
<1> USE DEF Shaped, clientVars, readVars, errVars, riverVars
<1>1. CASE \E shape \in Shapes(kind) : Say(shape)
  <2>1. PICK shape \in Shapes(kind) : Say(shape)
        BY <1>1
  <2>2. kind' = kind /\ taken' = taken /\ said' = Append(said, shape)
        /\ Len(said) < MaxSaid
        BY <2>1 DEF Say
  <2>3. /\ said' \in Seq(Shapes(kind')) /\ Len(said') = Len(said) + 1
        /\ Len(said) \in Nat
        BY <2>2, AppendProperties, LenProperties
  <2>4. taken' \in 0 .. Len(said') /\ Len(said') <= MaxSaid
        BY <2>2, <2>3, BoundAssumption
  <2>5. QED  BY <2>1, <2>2, <2>3, <2>4 DEF Say
<1>2. CASE \/ \E how \in {"closed", "lost"} : Depart(how)
           \/ Stall \/ CloseSignal
      BY <1>2 DEF Depart, Stall, CloseSignal
<1>3. CASE Publish
  <2>1. sends' \in 0 .. MaxSends /\ queue' \in 0 .. QLen
        BY <1>3, BoundAssumption DEF Publish
  <2>2. QED  BY <1>3, <2>1 DEF Publish
<1>4. CASE StartRead \/ ReadFails
  <2>1. <<>> \in Seq(Numbers)
        OBVIOUS
  <2>2. QED  BY <1>4, <2>1 DEF StartRead, ReadFails, ReadStep
<1>5. CASE ReadMore \/ ReadSend
  <2>1. taken + 1 \in Numbers /\ taken + 1 \in 0 .. Len(said)
        BY <1>5, NextNumber DEF ReadMore, ReadSend, Arrived
  <2>2. /\ <<>> \in Seq(Numbers) /\ <<taken + 1>> \in Seq(Numbers)
        /\ Len(<<taken + 1>>) = 1
        /\ Append(buf, taken + 1) \in Seq(Numbers)
        /\ out \o buf \o <<taken + 1>> \in Seq(Numbers)
        BY <2>1
  <2>3. CASE ReadMore
        BY <2>1, <2>2, <2>3 DEF ReadMore, ReadStep
  <2>4. CASE ReadSend
        BY <2>1, <2>2, <2>4 DEF ReadSend, ReadStep
  <2>5. QED  BY <1>5, <2>3, <2>4
<1>6. CASE ReportError
  <2>1. /\ <<>> \in Seq(Numbers) /\ errs \o buf \in Seq(Numbers)
        /\ Len(errs \o buf) = Len(errs) + Len(buf)
        /\ Len(errs) \in Nat
        BY ConcatProperties, LenProperties
  <2>2. Len(errs') <= ErrsCap
    <3>1. errs' = errs \o buf /\ Len(buf) = 1 /\ Len(errs) < ErrsCap
          BY <1>6 DEF ReportError
    <3>2. Len(errs') = Len(errs) + 1
          BY <2>1, <3>1
    <3>3. QED  BY <2>1, <3>1, <3>2, BoundAssumption
  <2>3. QED  BY <1>6, <2>1, <2>2 DEF ReportError, ReadStep
<1>7. CASE TakeError
  <2>1. /\ <<Head(errs)>> \in Seq(Numbers) /\ Tail(errs) \in Seq(Numbers)
        /\ Len(Tail(errs)) = Len(errs) - 1 /\ Len(errs) \in Nat
        BY <1>7 DEF TakeError
  <2>2. Len(Tail(errs)) <= ErrsCap
        BY <2>1, BoundAssumption
  <2>3. QED  BY <1>7, <2>1, <2>2 DEF TakeError, ErrStep
<1>8. CASE TellError \/ EndErrors
  <2>1. <<>> \in Seq(Numbers) /\ told \o telling \in Seq(Numbers)
        BY ConcatProperties
  <2>2. QED  BY <1>8, <2>1 DEF TellError, EndErrors, ErrStep
<1>9. CASE StartRecv \/ Recv \/ Write
  <2>1. queue' \in 0 .. QLen
        BY <1>9, BoundAssumption DEF StartRecv, Recv, Write
  <2>2. QED  BY <1>9, <2>1 DEF StartRecv, Recv, Write, WriteStep
<1>10. CASE HelperHangsUp \/ HelperEnds
      BY <1>10 DEF HelperHangsUp, HelperEnds
<1>11. CASE Discard
  <2>1. taken + 1 \in 0 .. Len(said)
        BY <1>11, NextNumber DEF Discard, Arrived
  <2>2. QED  BY <1>11, <2>1 DEF Discard
<1>12. CASE ReadEOF \/ Bind \/ BindRead \/ Cleanup
      BY <1>12 DEF ReadEOF, Bind, BindRead, Cleanup
<1>13. CASE UNCHANGED vars
      BY <1>13 DEF vars
<1>14. QED
      BY <1>1, <1>2, <1>3, <1>4, <1>5, <1>6, <1>7, <1>8, <1>9, <1>10, <1>11,
         <1>12, <1>13
      DEF Next, Environment, ReaderNext, ErrorsNext, WriterNext, HelperNext,
          HandlerNext

\* The state of every goroutine, channel and buffer keeps its type; the channel
\* errs never holds more than its capacity.
THEOREM TypeCorrect == Spec => []TypeOK
<1>1. Typed => TypeOK
      BY DEF Typed, Shaped, Flags, TypeOK
<1>2. Typed /\ [Next]_vars => Typed'
      BY NextShaped, NextFlags DEF Typed
<1>3. QED  BY <1>1, <1>2, InitTyped, PTL DEF Spec

-----------------------------------------------------------------------------
(* Nothing is lost.                                                        *)

\* The classes of messages, after the next one has been taken.
LEMMA OneMoreTaken ==
    ASSUME Shaped, taken < Len(said), taken' = taken + 1, said' = said
    PROVE  /\ Good' = IF said[taken + 1] # "bad" THEN Good \cup {taken + 1}
                                                 ELSE Good
           /\ Bad' = IF said[taken + 1] = "bad" THEN Bad \cup {taken + 1} ELSE Bad
           /\ Full' = IF said[taken + 1] = "full" THEN Full \cup {taken + 1}
                                                  ELSE Full
<1>1. taken \in Nat /\ 1 .. taken + 1 = 1 .. taken \cup {taken + 1}
      BY LenProperties DEF Shaped
<1>2. QED  BY <1>1 DEF Good, Bad, Full

\* The same while nothing is taken, whatever the client says.
LEMMA NoneTaken ==
    ASSUME Shaped, taken' = taken,
           said' = said \/ \E shape \in Shapes(kind) : said' = Append(said, shape)
    PROVE  /\ Good' = Good /\ Bad' = Bad /\ Full' = Full
           /\ \A j \in 1 .. taken : said'[j] = said[j]
<1>1. \A j \in 1 .. taken : said'[j] = said[j]
  <2>1. \A j \in 1 .. taken : j \in 1 .. Len(said)
        BY LenProperties DEF Shaped
  <2>2. QED  BY <2>1, AppendProperties DEF Shaped
<1>2. QED  BY <1>1 DEF Good, Bad, Full

\* Numbers of messages.
LEMMA ClassesOK ==
    ASSUME Shaped
    PROVE  /\ taken \in Nat
           /\ Good \subseteq 1 .. taken /\ Bad \subseteq 1 .. taken
           /\ Full \subseteq Good /\ Good \cap Bad = {}
           /\ Good \cup Bad = 1 .. taken
           /\ Numbers \subseteq Nat
BY LenProperties DEF Shaped, Good, Bad, Full, Numbers

\* Sequences of messages are sequences of numbers.
LEMMA NumberSeqs ==
    ASSUME Shaped
    PROVE  /\ buf \in Seq(Nat) /\ out \in Seq(Nat) /\ errs \in Seq(Nat)
           /\ telling \in Seq(Nat) /\ told \in Seq(Nat)
BY ClassesOK, SeqMonotonic DEF Shaped

\* Only Streams have full pieces, and only Convos malformed messages.
LEMMA FullOrBad ==
    ASSUME Shaped, kind # "notif",
           NEW j \in 1 .. Len(said), said[j] = "full",
           NEW k \in 1 .. Len(said)
    PROVE  said[k] # "bad"
<1>1. said[j] \in Shapes(kind) /\ said[k] \in Shapes(kind)
      BY ElementOfSeq DEF Shaped
<1>2. kind \in {"stream", "convo"}
      BY KindAssumption DEF Shaped
<1>3. QED  BY <1>1, <1>2 DEF Shapes

\* Nothing is in any buffer at first.
LEMMA InitOK == Init => ReaderOK /\ (kind # "notif" => ErrorsOK)
<1> SUFFICES ASSUME Init
             PROVE  ReaderOK /\ (kind # "notif" => ErrorsOK)
    OBVIOUS
<1>1. Good = {} /\ Bad = {}
      BY DEF Init, Good, Bad
<1>2. ReaderOK
      BY <1>1, NoMessage DEF Init, ReaderOK
<1>3. ErrorsOK
  <2>1. Increasing(told) /\ Increasing(telling) /\ Increasing(errs)
        BY NoMessage DEF Init
  <2>2. Range(told) = {} /\ Range(telling) = {} /\ Range(errs) = {}
        BY NoMessage DEF Init
  <2>3. Known = {} /\ Left = {}
        BY <1>1, <2>2 DEF Known, Left, Init
  <2>4. QED  BY <2>1, <2>2, <2>3 DEF Init, ErrorsOK, Before
<1>4. QED  BY <1>2, <1>3

\* The steps that leave the reader and the errors alone: those of the writer, of
\* the helper, of the handler, of the client and of others.
LEMMA OthersKeep ==
    ASSUME Shaped, ReaderOK, ErrorsOK, UNCHANGED <<readVars, errVars>>,
           said' = said \/ \E shape \in Shapes(kind) : said' = Append(said, shape),
           said' # said => client = "open",
           client # "open" => client' = client,
           writer = "ended" => writer' = "ended",
           hung => hung',
           sock' \/ hung' \/ reader = "ended"
    PROVE  ReaderOK' /\ ErrorsOK'
<1> USE DEF readVars, errVars
<1>1. /\ Good' = Good /\ Bad' = Bad /\ Full' = Full
      /\ \A j \in 1 .. taken : said'[j] = said[j]
      BY NoneTaken
<1>2. ErrorsOK'
      BY <1>1 DEF ErrorsOK, Known, Left, Before
<1>3. (reader = "ended" /\ ~hung =>
          /\ \A i \in Good \ Range(out), j \in 1 .. taken :
                i <= j => said[j] = "full"
          /\ \/ client = "lost" \/ writer = "ended"
             \/ client = "closed" /\ taken = Len(said))'
      BY <1>1 DEF ReaderOK
<1>4. ReaderOK'
      BY <1>1, <1>3 DEF ReaderOK, Before
<1>5. QED  BY <1>2, <1>4

\* The errors are not concerned when the reader goes on without a malformed
\* message, or ends.
LEMMA ErrorsKeep ==
    ASSUME Shaped, ErrorsOK, UNCHANGED errVars,
           reader # "report", reader' # "report", reader # "ended",
           Bad \subseteq Bad', Bad' = Bad \/ reader' = "ended"
    PROVE  ErrorsOK'
BY DEF errVars, ErrorsOK, Known, Left, Before

\* The reader starts to read, or ends at a hangup or at the writer's end.
LEMMA StartReadKeeps ==
    ASSUME Shaped, ReaderOK, ErrorsOK, StartRead
    PROVE  ReaderOK' /\ ErrorsOK'
<1> USE DEF StartRead, ReadStep, clientVars, errVars
<1>1. taken' = taken /\ said' = said /\ reader = "check"
      /\ reader' \in {"ended", "read"}
      OBVIOUS
<1>2. Good' = Good /\ Bad' = Bad /\ Full' = Full
      BY <1>1, NoneTaken
<1>3. ErrorsOK'
      BY <1>1, <1>2, ErrorsKeep
<1>4. Range(out) = Good /\ buf = <<>> /\ Range(buf) = {} /\ Increasing(buf)
      BY <1>1, NoMessage DEF ReaderOK
<1>5. CASE reader' = "ended"
      BY <1>1, <1>2, <1>3, <1>4, <1>5 DEF ReaderOK
<1>6. CASE reader' = "read"
      BY <1>1, <1>2, <1>3, <1>4, <1>6 DEF ReaderOK, Before
<1>7. QED  BY <1>1, <1>3, <1>5, <1>6

\* A full piece is kept until the next one.
LEMMA ReadMoreKeeps ==
    ASSUME Shaped, ReaderOK, ErrorsOK, ReadMore
    PROVE  ReaderOK' /\ ErrorsOK'
<1> USE DEF ReadMore, ReadStep, Arrived, clientVars, errVars
<1>1. /\ reader = "read" /\ reader' = "read" /\ taken < Len(said)
      /\ taken' = taken + 1 /\ said' = said /\ said[taken + 1] = "full"
      /\ buf' = Append(buf, taken + 1) /\ out' = out
      OBVIOUS
<1>2. /\ Good' = Good \cup {taken + 1} /\ Bad' = Bad
      /\ Full' = Full \cup {taken + 1}
      BY <1>1, OneMoreTaken
<1>3. ErrorsOK'
      BY <1>1, <1>2, ErrorsKeep
<1>4. /\ taken \in Nat /\ taken + 1 \in Nat
      /\ \A a \in Good : a < taken + 1
      BY ClassesOK
<1>5. buf \in Seq(Nat) /\ out \in Seq(Nat)
      BY NumberSeqs
<1>6. /\ Increasing(buf) /\ Before(out, buf) /\ Range(buf) \subseteq Full
      /\ Range(out) \cup Range(buf) = Good
      BY <1>1 DEF ReaderOK
<1>7. Increasing(buf') /\ Range(buf') = Range(buf) \cup {taken + 1}
      BY <1>1, <1>4, <1>5, <1>6, IncreasingAppend
<1>8. Before(out, buf')
      BY <1>4, <1>6, <1>7 DEF Before
<1>9. ReaderOK'
  <2>1. Before(out, buf)'
        BY <1>1, <1>8 DEF Before
  <2>2. QED  BY <1>1, <1>2, <1>6, <1>7, <2>1 DEF ReaderOK
<1>10. QED  BY <1>3, <1>9

\* A message that ends what is read is sent on, or is reported, or is lost to a
\* hangup.
LEMMA ReadSendKeeps ==
    ASSUME Shaped, ReaderOK, ErrorsOK, ReadSend
    PROVE  ReaderOK' /\ ErrorsOK'
<1> USE DEF ReadStep, Arrived, clientVars, errVars
<1>1. /\ reader = "read" /\ taken < Len(said) /\ kind # "notif"
      /\ taken' = taken + 1 /\ said' = said /\ said[taken + 1] # "full"
      /\ hung' = hung /\ sock' = sock /\ UNCHANGED errVars
      BY DEF ReadSend
<1>2. /\ Good' = IF said[taken + 1] # "bad" THEN Good \cup {taken + 1} ELSE Good
      /\ Bad' = IF said[taken + 1] = "bad" THEN Bad \cup {taken + 1} ELSE Bad
      BY <1>1, OneMoreTaken
<1>3. /\ taken \in Nat /\ taken + 1 \in Nat
      /\ \A a \in Good : a < taken + 1
      /\ taken + 1 \notin Bad
      BY ClassesOK
<1>4. buf \in Seq(Nat) /\ out \in Seq(Nat)
      BY NumberSeqs
<1>5. /\ Increasing(buf) /\ Before(out, buf) /\ Range(buf) \subseteq Full
      /\ Range(out) \cup Range(buf) = Good
      /\ Increasing(out) /\ Range(out) \subseteq Good
      BY <1>1 DEF ReaderOK
<1>6. sock \/ hung
      BY <1>1 DEF ReaderOK
<1>7. CASE hung
  <2>1. reader' = "ended" /\ buf' = <<>> /\ out' = out
        BY <1>7 DEF ReadSend
  <2>2. ErrorsOK'
        BY <1>1, <1>2, <2>1, ErrorsKeep
  <2>3. ReaderOK'
        BY <1>1, <1>2, <1>5, <1>7, <2>1 DEF ReaderOK
  <2>4. QED  BY <2>2, <2>3
<1>8. CASE ~hung /\ said[taken + 1] = "bad"
  <2>1. reader' = "report" /\ buf' = <<taken + 1>> /\ out' = out
        BY <1>8 DEF ReadSend
  <2>2. Range(buf) = {}
    <3> SUFFICES ASSUME NEW a \in Range(buf)
                 PROVE  FALSE
        OBVIOUS
    <3>1. a \in 1 .. Len(said) /\ said[a] = "full"
          BY <1>1, <1>5, LenProperties DEF Full, Shaped
    <3>2. taken + 1 \in 1 .. Len(said)
          BY <1>1, <1>3, LenProperties DEF Shaped
    <3>3. QED  BY <1>1, <1>8, <3>1, <3>2, FullOrBad
  <2>3. Bad' = Bad \cup {taken + 1} /\ Good' = Good /\ Range(out) = Good
        BY <1>2, <1>5, <1>8, <2>2
  <2>4. ReaderOK'
        BY <1>1, <1>5, <1>6, <1>8, <2>1, <2>3 DEF ReaderOK
  <2>5. Left = Bad /\ Left' = Bad
        BY <1>1, <1>3, <2>1, <2>3 DEF Left
  <2>6. ErrorsOK'
        BY <1>1, <2>5 DEF ErrorsOK, Known, Before
  <2>7. QED  BY <2>4, <2>6
<1>9. CASE ~hung /\ said[taken + 1] # "bad"
  <2>1. /\ reader' = "check" /\ buf' = <<>>
        /\ out' = out \o buf \o <<taken + 1>>
        BY <1>9 DEF ReadSend
  <2>2. out \o buf \in Seq(Nat)
        BY <1>4, ConcatProperties
  <2>3. Increasing(out \o buf)
        BY <1>4, <1>5, IncreasingConcat
  <2>4. Range(out \o buf) = Good
    <3>1. Range(out \o buf) = Range(out) \cup Range(buf)
          BY <1>4, RangeConcatenation
    <3>2. QED  BY <1>5, <3>1
  <2>5. \A a \in Range(out \o buf) : a < taken + 1
        BY <1>3, <2>4
  <2>6. Increasing(out') /\ Range(out') = Range(out \o buf) \cup {taken + 1}
        BY <1>3, <2>1, <2>2, <2>3, <2>5, IncreasingAppend
  <2>7. Good' = Good \cup {taken + 1} /\ Bad' = Bad
        BY <1>2, <1>9
  <2>8. ErrorsOK'
        BY <1>1, <2>1, <2>7, ErrorsKeep
  <2>9. ReaderOK'
        BY <1>1, <1>6, <2>1, <2>4, <2>6, <2>7 DEF ReaderOK
  <2>10. QED  BY <2>8, <2>9
<1>10. QED  BY <1>7, <1>8, <1>9

\* Without a hangup, what a failed Read leaves unsent are the last, full pieces.
LEMMA ReadFailsKeeps ==
    ASSUME Shaped, ReaderOK, ErrorsOK, ReadFails
    PROVE  ReaderOK' /\ ErrorsOK'
<1> USE DEF ReadFails, ReadStep, clientVars, errVars
<1>1. /\ reader = "read" /\ reader' = "ended" /\ kind # "notif"
      /\ taken' = taken /\ said' = said /\ buf' = <<>> /\ out' = out
      /\ hung' = hung /\ client' = client /\ writer' = writer
      OBVIOUS
<1>2. Good' = Good /\ Bad' = Bad
      BY <1>1, NoneTaken
<1>3. ErrorsOK'
      BY <1>1, <1>2, ErrorsKeep
<1>4. ~hung => client = "lost" \/ (client = "closed" /\ taken = Len(said))
      BY <1>1 DEF ReaderOK
<1>5. /\ Increasing(buf) /\ Before(out, buf) /\ Range(buf) \subseteq Full
      /\ Range(out) \cup Range(buf) = Good
      /\ Increasing(out) /\ Range(out) \subseteq Good
      BY <1>1 DEF ReaderOK
<1>6. ASSUME NEW i \in Good \ Range(out), NEW j \in 1 .. taken, i <= j
      PROVE  said[j] = "full"
  <2>1. i \in Range(buf) /\ i \in Full
        BY <1>5
  <2>2. CASE j \in Bad
    <3>1. /\ i \in 1 .. Len(said) /\ said[i] = "full"
          /\ j \in 1 .. Len(said) /\ said[j] = "bad"
          BY <2>1, <2>2, LenProperties DEF Full, Bad, Shaped
    <3>2. QED  BY <1>1, <3>1, FullOrBad
  <2>3. CASE j \in Range(out)
    <3>1. j < i
          BY <1>5, <2>1, <2>3 DEF Before
    <3>2. i \in Nat /\ j \in Nat
          BY ClassesOK
    <3>3. QED  BY <1>6, <3>1, <3>2
  <2>4. CASE j \in Range(buf)
        BY <1>5, <2>4 DEF Full
  <2>5. QED  BY <1>5, <2>2, <2>3, <2>4, ClassesOK
<1>7. ReaderOK'
      BY <1>1, <1>2, <1>4, <1>5, <1>6 DEF ReaderOK
<1>8. QED  BY <1>3, <1>7

\* A malformed message is passed on to WriteErrors.
LEMMA ReportErrorKeeps ==
    ASSUME Shaped, ReaderOK, ErrorsOK, ReportError
    PROVE  ReaderOK' /\ ErrorsOK'
<1> USE DEF ReportError, ReadStep, clientVars
<1>1. /\ reader = "report" /\ reader' = "check" /\ buf' = <<>> /\ out' = out
      /\ taken' = taken /\ said' = said /\ errs' = errs \o buf
      /\ told' = told /\ telling' = telling /\ errWriter' = errWriter
      OBVIOUS
<1>2. Good' = Good /\ Bad' = Bad
      BY <1>1, NoneTaken
<1>3. taken \in Bad /\ buf = <<taken>> /\ Range(out) = Good /\ Increasing(out)
      BY <1>1 DEF ReaderOK
<1>4. ReaderOK'
      BY <1>1, <1>2, <1>3 DEF ReaderOK
<1>5. /\ errs \in Seq(Nat) /\ taken \in Nat
      BY NumberSeqs, ClassesOK
<1>6. /\ Known \subseteq Bad \ {taken}
      /\ errWriter # "ended" => Known = Bad \ {taken}
      BY <1>1 DEF ErrorsOK, Left
<1>7. \A a \in Known : a < taken
      BY <1>5, <1>6, ClassesOK
<1>8. Increasing(errs') /\ Range(errs') = Range(errs) \cup {taken}
  <2>1. Increasing(errs) /\ \A a \in Range(errs) : a < taken
        BY <1>7 DEF ErrorsOK, Known
  <2>2. QED  BY <1>1, <1>3, <1>5, <2>1, IncreasingAppend
<1>9. Known' = Known \cup {taken} /\ Left' = Bad
      BY <1>1, <1>2, <1>8 DEF Known, Left
<1>10. Before(told, errs)' /\ Before(telling, errs)'
      BY <1>1, <1>7, <1>8 DEF ErrorsOK, Before, Known
<1>11. ErrorsOK'
      BY <1>1, <1>3, <1>6, <1>8, <1>9, <1>10 DEF ErrorsOK, Before
<1>12. QED  BY <1>4, <1>11

\* The reader is not concerned when WriteErrors goes on.
LEMMA ReaderKeeps ==
    ASSUME Shaped, ReaderOK, ErrStep
    PROVE  /\ ReaderOK'
           /\ Left' = Left /\ reader' = reader
<1> USE DEF ErrStep, clientVars, readVars
<1>1. Good' = Good /\ Bad' = Bad /\ Full' = Full
      BY NoneTaken
<1>2. Left' = Left
      BY <1>1 DEF Left
<1>3. ReaderOK'
      BY <1>1 DEF ReaderOK, Before
<1>4. QED  BY <1>2, <1>3

\* WriteErrors takes the oldest of the malformed messages.
LEMMA TakeErrorKeeps ==
    ASSUME Shaped, ReaderOK, ErrorsOK, TakeError
    PROVE  ReaderOK' /\ ErrorsOK'
<1> USE DEF TakeError
<1>1. ReaderOK' /\ Left' = Left /\ reader' = reader
      BY ReaderKeeps
<1>2. /\ errs \in Seq(Nat) /\ errs # <<>> /\ Increasing(errs)
      /\ telling = <<>> /\ Increasing(told)
      BY NumberSeqs DEF ErrorsOK
<1>3. /\ Increasing(Tail(errs)) /\ \A b \in Range(Tail(errs)) : Head(errs) < b
      /\ Range(errs) = {Head(errs)} \cup Range(Tail(errs))
      BY <1>2, HeadFirst
<1>4. Increasing(<<Head(errs)>>) /\ Range(<<Head(errs)>>) = {Head(errs)}
      BY OneMessage
<1>5. /\ errWriter = "wait" /\ errWriter' = "write"
      /\ telling' = <<Head(errs)>> /\ errs' = Tail(errs) /\ told' = told
      OBVIOUS
<1>6. Range(telling) = {}
      BY <1>2, NoMessage
<1>7. Known' = Known
      BY <1>3, <1>4, <1>5, <1>6 DEF Known
<1>8. Before(told, telling)' /\ Before(told, errs)' /\ Before(telling, errs)'
  <2>1. Range(telling') = {Head(errs)} /\ Head(errs) \in Range(errs)
        /\ Range(errs') \subseteq Range(errs)
        BY <1>3, <1>4, <1>5
  <2>2. Before(told, errs)
        BY DEF ErrorsOK
  <2>3. QED  BY <1>3, <1>5, <2>1, <2>2 DEF Before
<1>9. ErrorsOK'
      BY <1>1, <1>2, <1>3, <1>4, <1>5, <1>7, <1>8 DEF ErrorsOK
<1>10. QED  BY <1>1, <1>9

\* The client learns of it, or the write fails and nobody writes any more.
LEMMA TellErrorKeeps ==
    ASSUME Shaped, ReaderOK, ErrorsOK, TellError
    PROVE  ReaderOK' /\ ErrorsOK'
<1>1. ReaderOK' /\ Left' = Left /\ reader' = reader
      BY ReaderKeeps DEF TellError
<1>2. /\ told \in Seq(Nat) /\ telling \in Seq(Nat)
      /\ Increasing(told) /\ Increasing(telling) /\ Increasing(errs)
      /\ Before(told, telling) /\ Before(told, errs) /\ Before(telling, errs)
      BY NumberSeqs DEF ErrorsOK
<1>3. telling' = <<>> /\ errs' = errs /\ errWriter = "write"
      BY DEF TellError
<1>4. Increasing(telling') /\ Range(telling') = {}
      BY <1>3, NoMessage
<1>5. CASE errWriter' = "wait" /\ told' = told \o telling
  <2>1. Increasing(told')
        BY <1>2, <1>5, IncreasingConcat
  <2>2. Range(told') = Range(told) \cup Range(telling)
        BY <1>2, <1>5, RangeConcatenation
  <2>3. Known' = Known
        BY <1>3, <1>4, <2>2 DEF Known
  <2>4. Before(told, telling)' /\ Before(told, errs)' /\ Before(telling, errs)'
        BY <1>2, <1>3, <1>4, <2>2 DEF Before
  <2>5. ErrorsOK'
        BY <1>1, <1>2, <1>3, <1>4, <1>5, <2>1, <2>3, <2>4 DEF ErrorsOK
  <2>6. QED  BY <1>1, <2>5
<1>6. CASE errWriter' = "ended" /\ told' = told
  <2>1. Known' \subseteq Known
        BY <1>3, <1>4, <1>6 DEF Known
  <2>2. Before(told, telling)' /\ Before(told, errs)' /\ Before(telling, errs)'
        BY <1>2, <1>3, <1>4, <1>6 DEF Before
  <2>3. ErrorsOK'
        BY <1>1, <1>2, <1>3, <1>4, <1>6, <2>1, <2>2 DEF ErrorsOK
  <2>4. QED  BY <1>1, <2>3
<1>7. QED  BY <1>5, <1>6 DEF TellError

\* When the reader has ended, WriteErrors need not tell what it has left.
LEMMA EndErrorsKeeps ==
    ASSUME Shaped, ReaderOK, ErrorsOK, EndErrors
    PROVE  ReaderOK' /\ ErrorsOK'
<1>1. ReaderOK' /\ Left' = Left /\ reader' = reader
      BY ReaderKeeps DEF EndErrors
<1>2. ErrorsOK'
      BY <1>1 DEF EndErrors, ErrorsOK, Known, Before
<1>3. QED  BY <1>1, <1>2

\* Every step keeps it.
LEMMA NextOK ==
    ASSUME Typed, kind # "notif", ReaderOK, ErrorsOK, [Next]_vars
    PROVE  ReaderOK' /\ ErrorsOK'
<1> USE DEF clientVars, readVars, errVars, riverVars
<1>1. Shaped /\ Flags
      BY DEF Typed
<1>2. CASE \E shape \in Shapes(kind) : Say(shape)
  <2>1. PICK shape \in Shapes(kind) : Say(shape)
        BY <1>2
  <2>2. QED  BY <1>1, <2>1, OthersKeep DEF Say, ReaderOK
<1>3. CASE \/ \E how \in {"closed", "lost"} : Depart(how)
           \/ Stall \/ CloseSignal \/ Publish
      BY <1>1, <1>3, OthersKeep DEF Depart, Stall, CloseSignal, Publish, ReaderOK
<1>4. CASE StartRead \/ ReadMore \/ ReadSend \/ ReadFails \/ ReportError
      BY <1>1, <1>4, StartReadKeeps, ReadMoreKeeps, ReadSendKeeps, ReadFailsKeeps,
         ReportErrorKeeps
<1>5. CASE ErrorsNext
      BY <1>1, <1>5, TakeErrorKeeps, TellErrorKeeps, EndErrorsKeeps
      DEF ErrorsNext
<1>6. CASE WriterNext
      BY <1>1, <1>6, OthersKeep
      DEF WriterNext, StartRecv, Recv, Write, WriteStep, ReaderOK
<1>7. CASE HelperNext
      BY <1>1, <1>7, OthersKeep DEF HelperNext, HelperHangsUp, HelperEnds, ReaderOK
<1>8. CASE Bind \/ Cleanup
      BY <1>1, <1>8, OthersKeep DEF Bind, Cleanup, ReaderOK
<1>9. CASE UNCHANGED vars
      BY <1>1, <1>9, OthersKeep DEF vars, ReaderOK
<1>10. ~Discard /\ ~ReadEOF /\ ~BindRead
      BY DEF Discard, ReadEOF, BindRead
<1>11. QED
      BY <1>2, <1>3, <1>4, <1>5, <1>6, <1>7, <1>8, <1>9, <1>10
      DEF Next, Environment, ReaderNext, HandlerNext

\* The kind of a connection never changes.
LEMMA KindStays == [Next]_vars => kind' = kind
<1> SUFFICES ASSUME [Next]_vars
             PROVE  kind' = kind
    OBVIOUS
<1> USE DEF clientVars
<1>1. CASE Environment
      BY <1>1 DEF Environment, Say, Depart, Stall, CloseSignal, Publish
<1>2. CASE ReaderNext
      BY <1>2 DEF ReaderNext, StartRead, ReadMore, ReadSend, ReadFails,
                  ReportError, Discard, ReadEOF, ReadStep
<1>3. CASE ErrorsNext
      BY <1>3 DEF ErrorsNext, TakeError, TellError, EndErrors, ErrStep
<1>4. CASE WriterNext
      BY <1>4 DEF WriterNext, StartRecv, Recv, Write, WriteStep
<1>5. CASE HelperNext
      BY <1>5 DEF HelperNext, HelperHangsUp, HelperEnds
<1>6. CASE HandlerNext
      BY <1>6 DEF HandlerNext, Bind, BindRead, Cleanup
<1>7. CASE UNCHANGED vars
      BY <1>7 DEF vars
<1>8. QED  BY <1>1, <1>2, <1>3, <1>4, <1>5, <1>6, <1>7 DEF Next

\* The invariant is what NothingLost says, of the parts of the sequences.
LEMMA IInvImplies == IInv => NothingLost
<1> SUFFICES ASSUME IInv, kind # "notif"
             PROVE  NothingLost
    BY DEF NothingLost
<1>1. Shaped /\ ReaderOK /\ ErrorsOK
      BY DEF IInv, Typed
<1>2. /\ buf \in Seq(Nat) /\ out \in Seq(Nat) /\ errs \in Seq(Nat)
      /\ telling \in Seq(Nat) /\ told \in Seq(Nat)
      BY <1>1, NumberSeqs
<1>3. /\ Increasing(Sent) /\ Range(Sent) \subseteq Good
      /\ reader # "ended" => Range(Sent) = Good
  <2>1. CASE reader = "read"
    <3>1. Sent = out \o buf
          BY <2>1 DEF Sent
    <3>2. /\ Increasing(out) /\ Increasing(buf) /\ Before(out, buf)
          /\ Range(out) \cup Range(buf) = Good
          BY <1>1, <2>1 DEF ReaderOK
    <3>3. Range(out \o buf) = Range(out) \cup Range(buf)
          BY <1>2, RangeConcatenation
    <3>4. Increasing(out \o buf)
          BY <1>2, <3>2, IncreasingConcat
    <3>5. QED  BY <3>1, <3>2, <3>3, <3>4
  <2>2. CASE reader # "read"
        BY <1>1, <2>2 DEF Sent, ReaderOK, Shaped
  <2>3. QED  BY <2>1, <2>2
<1>4. /\ Increasing(Reported) /\ Range(Reported) \subseteq Bad
      /\ reader # "ended" /\ errWriter # "ended" => Range(Reported) = Bad
  <2> DEFINE r == IF reader = "report" THEN buf ELSE <<>>
             s == told \o telling
             t == s \o errs
  <2>1. Reported = t \o r
        BY DEF Reported
  <2>2. r \in Seq(Nat) /\ s \in Seq(Nat) /\ t \in Seq(Nat)
        BY <1>2, ConcatProperties
  <2>3. Range(s) = Range(told) \cup Range(telling)
        BY <1>2, RangeConcatenation
  <2>4. Increasing(s)
        BY <1>1, <1>2, IncreasingConcat DEF ErrorsOK
  <2>5. Range(t) = Known
    <3> HIDE DEF s
    <3>1. Range(s \o errs) = Range(s) \cup Range(errs)
          BY <1>2, <2>2, RangeConcatenation
    <3>2. QED  BY <2>3, <3>1 DEF Known
  <2>6. Increasing(t)
    <3> HIDE DEF s
    <3>1. Before(s, errs) /\ Increasing(errs)
          BY <1>1, <2>3 DEF ErrorsOK, Before
    <3>2. QED  BY <1>2, <2>2, <2>4, <3>1, IncreasingConcat
  <2> HIDE DEF s, t
  <2>7. /\ Increasing(r) /\ Range(r) = Bad \ Left
        /\ Before(t, r)
    <3>1. CASE reader = "report"
      <4>1. r = <<taken>> /\ taken \in Bad /\ Left = Bad \ {taken}
            BY <1>1, <3>1 DEF ReaderOK, Left
      <4>2. Increasing(r) /\ Range(r) = {taken}
            BY <4>1, OneMessage
      <4>3. \A a \in Bad \ {taken} : a < taken
            BY <1>1, ClassesOK
      <4>4. Known \subseteq Bad \ {taken}
            BY <1>1, <4>1 DEF ErrorsOK
      <4>5. QED  BY <2>5, <4>1, <4>2, <4>3, <4>4 DEF Before
    <3>2. CASE reader # "report"
      <4>1. r = <<>> /\ Left = Bad
            BY <3>2 DEF Left
      <4>2. Increasing(r) /\ Range(r) = {}
            BY <4>1, NoMessage
      <4>3. QED  BY <4>1, <4>2 DEF Before
    <3>3. QED  BY <3>1, <3>2
  <2> HIDE DEF r
  <2>8. Increasing(Reported)
        BY <2>1, <2>2, <2>6, <2>7, IncreasingConcat
  <2>9. Range(t \o r) = Range(t) \cup Range(r)
        BY <2>2, RangeConcatenation
  <2>10. Left \subseteq Bad
        BY DEF Left
  <2>11. Known \subseteq Left
         /\ (reader # "ended" /\ errWriter # "ended" => Known = Left)
        BY <1>1 DEF ErrorsOK
  <2>12. QED  BY <2>1, <2>5, <2>7, <2>8, <2>9, <2>10, <2>11
<1>5. reader = "ended" /\ ~hung =>
          /\ \A i \in Good \ Range(out), j \in 1 .. taken :
                i <= j => said[j] = "full"
          /\ taken = Len(said) \/ client = "lost" \/ writer = "ended"
      BY <1>1 DEF ReaderOK
<1>6. QED  BY <1>3, <1>4, <1>5 DEF NothingLost

\* What a Stream or a Convo reads goes to the river once and in order, what is
\* malformed goes back to the client once and in order, and a reader that ends
\* without a hangup loses no more than unfinished full pieces: for every schedule
\* of the five goroutines, the client, the surveys and the others on the river.
THEOREM NothingIsLost == Spec => []NothingLost
<1>1. Init => IInv
      BY InitTyped, InitOK DEF IInv
<1>2. IInv /\ [Next]_vars => IInv'
  <2> SUFFICES ASSUME IInv, [Next]_vars
               PROVE  IInv'
      OBVIOUS
  <2>1. Typed'
        BY NextShaped, NextFlags DEF IInv, Typed
  <2>2. kind' = kind
        BY KindStays
  <2>3. CASE kind = "notif"
        BY <2>1, <2>2, <2>3 DEF IInv
  <2>4. CASE kind # "notif"
    <3>1. Typed /\ ReaderOK /\ ErrorsOK
          BY <2>4 DEF IInv
    <3>2. ReaderOK' /\ ErrorsOK'
          BY <2>4, <3>1, NextOK
    <3>3. QED  BY <2>1, <3>2 DEF IInv
  <2>5. QED  BY <2>3, <2>4
<1>3. QED  BY <1>1, <1>2, IInvImplies, PTL DEF Spec
=============================================================================

------------------------------ MODULE Sockets -------------------------------
(***************************************************************************)
(* One websocket connection and the goroutines that serve it: ws.Bind for  *)
(* Streams (read with DefaultRead) and Convos (read with Sender.Read), and *)
(* ws.BindRead for notifs.  They share the Conn, the river (a Bus or Sub), *)
(* the channels of package ws, and the hangup signal, which a survey may   *)
(* close at any time (module Survey).  The client sends, stops reading,    *)
(* closes its end or disappears whenever it likes.                         *)
(*                                                                         *)
(* Messages are numbered in the order in which the client sends them.      *)
(***************************************************************************)
EXTENDS Naturals, Sequences, Functions

CONSTANTS
    Kind,     \* the kinds of connection looked at
    ErrsCap,  \* the capacity of the channel errs (10)
    QLen,     \* how much the river holds for us before it drops (128)
    MaxSaid,  \* a bound: how much the client says
    MaxSends  \* a bound: how much the river is sent by others

ASSUME KindAssumption  == Kind \subseteq {"stream", "convo", "notif"}
ASSUME BoundAssumption == ErrsCap \in Nat \ {0}
                              /\ {QLen, MaxSaid, MaxSends} \subseteq Nat

VARIABLES
    kind,     \* what is connected to
    said,     \* what the client has said so far
    client,   \* the client's end of the connection
    stalled,  \* has the client stopped reading, with all buffers full?
    sock,     \* is our end of the connection open?
    hung,     \* is the hangup signal closed?
    river,    \* is the river open?
    sends,    \* how much others have sent on the river
    queue,    \* how much of it waits in the river
    reader,   \* the goroutine that reads the Conn
    taken,    \* how many messages it has taken
    buf,      \* the messages in its hands
    out,      \* the messages it has sent on the river
    errs,     \* the malformed messages in the channel errs
    errWriter,  \* the WriteErrors goroutine
    telling,  \* the malformed message that it is writing about
    told,     \* the malformed messages the client was told of
    writer,   \* RecvWrite, or the loop of BindRead
    helper,   \* the goroutine started by the current Read or Recv
    handler   \* the handler of the request

clientVars == <<kind, said, client, stalled>>
readVars   == <<reader, taken, buf, out>>
errVars    == <<errs, errWriter, telling, told>>
riverVars  == <<river, sends, queue>>
vars       == <<clientVars, sock, hung, riverVars, readVars, errVars, writer,
                helper, handler>>

\* A piece is what one Read of the Conn returns, a frame or part of one; a full
\* piece fills DefaultRead's buffer to the last byte.
Shapes(k) == CASE k = "stream" -> {"short", "full"}
               [] k = "convo"  -> {"good", "bad"}
               [] k = "notif"  -> {"any"}

Numbers == 1 .. MaxSaid

TypeOK ==
    /\ kind \in Kind
    /\ said \in Seq(Shapes(kind))
    /\ client \in {"open", "closed", "lost"}
    /\ stalled \in BOOLEAN /\ sock \in BOOLEAN /\ hung \in BOOLEAN
    /\ river \in BOOLEAN
    /\ sends \in 0 .. MaxSends
    /\ queue \in 0 .. QLen
    /\ reader \in {"check", "read", "report", "ended"}
    /\ taken \in 0 .. Len(said)
    /\ {buf, out, errs, telling, told} \subseteq Seq(Numbers)
    /\ errWriter \in {"wait", "write", "ended"}
    /\ Len(errs) <= ErrsCap
    /\ writer \in {"check", "recv", "write", "ended"}
    /\ helper \in {"none", "wait"}
    /\ handler \in {"bound", "returned", "gone"}

Init ==
    /\ kind \in Kind
    /\ said = <<>>
    /\ client = "open"
    /\ stalled = FALSE /\ sock = TRUE /\ hung = FALSE /\ river = TRUE
    /\ sends = 0 /\ queue = 0
    /\ reader = "check" /\ taken = 0
    /\ errWriter = IF kind = "notif" THEN "ended" ELSE "wait"
    /\ buf = <<>> /\ out = <<>> /\ errs = <<>> /\ telling = <<>> /\ told = <<>>
    /\ writer = "check"
    /\ helper = "none"
    /\ handler = "bound"

-----------------------------------------------------------------------------
(* The client, the surveys and the others on the river.                    *)

Say(shape) ==
    /\ client = "open"
    /\ Len(said) < MaxSaid
    /\ said' = Append(said, shape)
    /\ UNCHANGED <<kind, client, stalled, sock, hung, riverVars, readVars,
                   errVars, writer, helper, handler>>

\* The client stops to read what we write.
Stall ==
    /\ ~stalled
    /\ stalled' = TRUE
    /\ UNCHANGED <<kind, said, client, sock, hung, riverVars, readVars,
                   errVars, writer, helper, handler>>

\* The client closes its end ("closed": we read io.EOF after all it has said),
\* or the connection breaks ("lost": we read another error).
Depart(how) ==
    /\ client = "open"
    /\ client' = how
    /\ UNCHANGED <<kind, said, stalled, sock, hung, riverVars, readVars,
                   errVars, writer, helper, handler>>

\* AwaitHangup receives a survey and closes the signal.
CloseSignal ==
    /\ ~hung /\ handler # "gone"
    /\ hung' = TRUE
    /\ UNCHANGED <<clientVars, sock, riverVars, readVars, errVars, writer,
                   helper, handler>>

\* Somebody sends on the Bus, or publishes on a topic of this user.  A full
\* river drops it, and nobody learns of it.
Publish ==
    /\ river
    /\ sends < MaxSends
    /\ sends' = sends + 1
    /\ queue' = IF queue < QLen THEN queue + 1 ELSE queue
    /\ UNCHANGED <<clientVars, sock, hung, river, readVars, errVars, writer,
                   helper, handler>>

-----------------------------------------------------------------------------
(* Writing on the Conn.  A write waits while the client does not read, and *)
(* so does Close, which writes a last frame.                               *)

Blocked  == stalled /\ client = "open"
MayWrite == sock /\ client # "lost" /\ ~Blocked
MayFail  == ~sock \/ client # "open"

-----------------------------------------------------------------------------
(* ReadSend, on HangupSender.Read.                                         *)

ReadStep == UNCHANGED <<clientVars, sock, hung, riverVars, writer, handler>>

\* The channel fail, closed by RecvWrite, and then the signal are looked at, and
\* a helper goroutine is started.
StartRead ==
    /\ kind # "notif"
    /\ reader = "check"
    /\ IF writer = "ended" \/ hung
       THEN reader' = "ended" /\ UNCHANGED helper
       ELSE reader' = "read" /\ helper' = "wait"
    /\ UNCHANGED <<taken, buf, out, errVars>> /\ ReadStep

Arrived == sock /\ taken < Len(said)

\* Mutant: the larger buffer starts empty.
ReadMoreAnew ==
    /\ reader = "read" /\ kind # "notif"
    /\ Arrived /\ said[taken + 1] = "full"
    /\ taken' = taken + 1
    /\ buf' = <<taken + 1>>
    /\ UNCHANGED <<reader, out, errVars, helper>> /\ ReadStep

\* DefaultRead has filled its buffer: it grows it and reads on.
ReadMore ==
    /\ reader = "read" /\ kind # "notif"
    /\ Arrived /\ said[taken + 1] = "full"
    /\ taken' = taken + 1
    /\ buf' = Append(buf, taken + 1)
    /\ UNCHANGED <<reader, out, errVars, helper>> /\ ReadStep

\* Read returns what it has read, which is sent on the river or, if malformed,
\* reported; but if the signal is closed by now Read returns io.EOF instead, and
\* what it had read is lost.  The helper may not have noticed that Read is over.
ReadSend ==
    /\ reader = "read" /\ kind # "notif"
    /\ Arrived /\ said[taken + 1] # "full"
    /\ taken' = taken + 1
    /\ CASE hung ->
              reader' = "ended" /\ buf' = <<>> /\ UNCHANGED out
         [] ~hung /\ said[taken + 1] = "bad" ->
              reader' = "report" /\ buf' = <<taken + 1>> /\ UNCHANGED out
         [] OTHER ->
              reader' = "check" /\ buf' = <<>> /\ out' = out \o buf \o <<taken + 1>>
    /\ UNCHANGED <<errVars, helper>> /\ ReadStep

\* io.EOF, or an error that is not about the content.  What DefaultRead has in
\* its buffer is lost.
ReadFails ==
    /\ reader = "read" /\ kind # "notif"
    /\ \/ ~sock \/ client = "lost"
       \/ client = "closed" /\ taken = Len(said)
    /\ reader' = "ended" /\ buf' = <<>>
    /\ UNCHANGED <<taken, out, errVars, helper>> /\ ReadStep

\* Mutant: the channel is a list that grows.
ReportUnbounded ==
    /\ reader = "report"
    /\ errs' = errs \o buf
    /\ reader' = "check" /\ buf' = <<>>
    /\ UNCHANGED <<taken, out, errWriter, telling, told, helper>> /\ ReadStep

\* ch.errs <- err
ReportError ==
    /\ reader = "report"
    /\ Len(errs) < ErrsCap
    /\ errs' = errs \o buf
    /\ reader' = "check" /\ buf' = <<>>
    /\ UNCHANGED <<taken, out, errWriter, telling, told, helper>> /\ ReadStep

\* Bind waits for done, which ReadSend closes, and closes the Conn.
Bind ==
    /\ kind # "notif"
    /\ handler = "bound" /\ reader = "ended"
    /\ ~Blocked
    /\ handler' = "returned" /\ sock' = FALSE
    /\ UNCHANGED <<clientVars, hung, riverVars, readVars, errVars, writer,
                   helper>>

-----------------------------------------------------------------------------
(* WriteErrors.                                                            *)

ErrStep ==
    UNCHANGED <<clientVars, sock, hung, riverVars, readVars, writer, helper,
                handler>>

TakeError ==
    /\ errWriter = "wait" /\ errs # <<>>
    /\ errWriter' = "write" /\ telling' = <<Head(errs)>> /\ errs' = Tail(errs)
    /\ UNCHANGED told /\ ErrStep

TellError ==
    /\ errWriter = "write"
    /\ \/ MayWrite /\ errWriter' = "wait" /\ told' = told \o telling
       \/ MayFail  /\ errWriter' = "ended" /\ UNCHANGED told
    /\ telling' = <<>>
    /\ UNCHANGED errs /\ ErrStep

\* The channel done is closed; errors in the channel errs are not written.
EndErrors ==
    /\ errWriter = "wait" /\ reader = "ended"
    /\ errWriter' = "ended"
    /\ UNCHANGED <<errs, telling, told>> /\ ErrStep

-----------------------------------------------------------------------------
(* RecvWrite, and the loop of BindRead, on hangupRecver.Recv.              *)

WriteStep ==
    UNCHANGED <<clientVars, sock, hung, river, sends, readVars, errVars,
                handler>>

\* hangupRecver.Recv looks at the signal and starts a helper; a Bus just waits.
StartRecv ==
    /\ writer = "check"
    /\ IF kind = "notif" /\ hung
       THEN writer' = "ended" /\ UNCHANGED helper
       ELSE /\ writer' = "recv"
            /\ helper' = IF kind = "notif" THEN "wait" ELSE helper
    /\ UNCHANGED queue /\ WriteStep

\* Recv of a closed river with messages left may go either way.
Recv ==
    /\ writer = "recv"
    /\ \/ queue > 0 /\ queue' = queue - 1 /\ writer' = "write"
       \/ ~river /\ writer' = "ended" /\ UNCHANGED queue
    /\ UNCHANGED helper /\ WriteStep

Write ==
    /\ writer = "write"
    /\ \/ MayWrite /\ writer' = "check"
       \/ MayFail  /\ writer' = "ended"
    /\ UNCHANGED <<queue, helper>> /\ WriteStep

-----------------------------------------------------------------------------
(* The helper goroutine of Read and Recv: it waits for the signal, or for  *)
(* the end of the call.  One that is late may still meet the next call.    *)

InCall == IF kind = "notif" THEN writer = "recv" ELSE reader = "read"

\* Mutant: the helper takes the signal for the end of the call.
HelperIgnores ==
    /\ helper = "wait" /\ hung
    /\ helper' = "none"
    /\ UNCHANGED <<clientVars, sock, hung, riverVars, readVars, errVars, writer,
                   handler>>

HelperHangsUp ==
    /\ helper = "wait" /\ hung
    /\ helper' = "none"
    /\ IF kind = "notif"
       THEN river' = FALSE /\ UNCHANGED sock
       ELSE ~Blocked /\ sock' = FALSE /\ UNCHANGED river
    /\ UNCHANGED <<clientVars, hung, sends, queue, readVars, errVars, writer,
                   handler>>

HelperEnds ==
    /\ helper = "wait" /\ ~InCall
    /\ helper' = "none"
    /\ UNCHANGED <<clientVars, sock, hung, riverVars, readVars, errVars, writer,
                   handler>>

-----------------------------------------------------------------------------
(* BindRead's other goroutine.                                             *)

Discard ==
    /\ kind = "notif" /\ reader # "ended"
    /\ Arrived
    /\ taken' = taken + 1
    /\ UNCHANGED <<clientVars, sock, hung, riverVars, reader, buf, out, errVars,
                   writer, helper, handler>>

\* Only io.EOF ends the loop.  On any other error, that of a Conn closed by us
\* included, it reads again, and again, for ever.
ReadEOF ==
    /\ kind = "notif" /\ reader # "ended"
    /\ sock /\ client = "closed" /\ taken = Len(said)
    /\ reader' = "ended" /\ river' = FALSE
    /\ UNCHANGED <<clientVars, sock, hung, sends, queue, taken, buf, out,
                   errVars, writer, helper, handler>>

BindRead ==
    /\ kind = "notif"
    /\ handler = "bound" /\ writer = "ended"
    /\ ~Blocked
    /\ handler' = "returned" /\ sock' = FALSE
    /\ UNCHANGED <<clientVars, hung, riverVars, readVars, errVars, writer,
                   helper>>

\* Mutant: the river stays open.
CleanupKeepsRiver ==
    /\ handler = "returned"
    /\ handler' = "gone"
    /\ UNCHANGED <<clientVars, sock, hung, riverVars, readVars, errVars, writer,
                   helper>>

\* The clean-up Update of Connect.
Cleanup ==
    /\ handler = "returned"
    /\ handler' = "gone" /\ river' = FALSE
    /\ UNCHANGED <<clientVars, sock, hung, sends, queue, readVars, errVars,
                   writer, helper>>

-----------------------------------------------------------------------------
Environment ==
    \/ \E shape \in Shapes(kind) : Say(shape)
    \/ \E how \in {"closed", "lost"} : Depart(how)
    \/ Stall \/ CloseSignal \/ Publish

ReaderNext == StartRead \/ ReadMore \/ ReadSend \/ ReadFails \/ ReportError
                  \/ Discard \/ ReadEOF
ErrorsNext == TakeError \/ TellError \/ EndErrors
WriterNext == StartRecv \/ Recv \/ Write
HelperNext == HelperHangsUp \/ HelperEnds
HandlerNext == Bind \/ BindRead \/ Cleanup

Next == Environment \/ ReaderNext \/ ErrorsNext \/ WriterNext \/ HelperNext
            \/ HandlerNext

Spec == Init /\ [][Next]_vars

\* A goroutine that can go on does.  The client, the surveys and the others on
\* the river need do nothing.
FairSpec ==
    /\ Spec
    /\ WF_vars(ReaderNext) /\ WF_vars(ErrorsNext) /\ WF_vars(WriterNext)
    /\ WF_vars(HelperNext) /\ WF_vars(HandlerNext)

-----------------------------------------------------------------------------
(* Properties.                                                             *)

Good == {i \in 1 .. taken : said[i] # "bad"}
Bad  == {i \in 1 .. taken : said[i] = "bad"}

Sent     == IF reader = "read" THEN out \o buf ELSE out
Reported == told \o telling \o errs \o (IF reader = "report" THEN buf ELSE <<>>)

Increasing(s) == \A i, j \in DOMAIN s : i < j => s[i] < s[j]

\* What is read of a Stream or Convo goes to the river, once and in order, and
\* what is malformed goes back to the client, whatever the other goroutines do.
\* A reader that ends without a hangup loses at most full pieces that it was
\* about to join to the next one; it leaves something unread only if the
\* connection was lost, or if a message of the river could not be written.
NothingLost ==
    kind # "notif" =>
        /\ Increasing(Sent) /\ Range(Sent) \subseteq Good
        /\ Increasing(Reported) /\ Range(Reported) \subseteq Bad
        /\ reader # "ended" =>
              /\ Range(Sent) = Good
              /\ errWriter # "ended" => Range(Reported) = Bad
        /\ reader = "ended" /\ ~hung =>
              /\ \A i \in Good \ Range(out), j \in 1 .. taken :
                    i <= j => said[j] = "full"
              /\ taken = Len(said) \/ client = "lost" \/ writer = "ended"

\* The reader waits to report a malformed message to nobody, for ever.
Jammed == reader = "report" /\ Len(errs) = ErrsCap /\ errWriter = "ended"

\* A hung-up connection and one whose client has closed it are cleaned up,
\* unless the client does not read what we write (then the hangup cannot be
\* written either) or the reader is jammed.  One that is lost is, too; but a
\* notif connection not before there is something to write to it.
Released ==
    /\ hung \/ client = "closed" ~> handler = "gone" \/ Blocked \/ Jammed
    /\ client = "lost" ~> \/ handler = "gone" \/ Jammed
                          \/ kind = "notif" /\ writer = "recv" /\ queue = 0

\* No goroutine outlives the connection it serves, but for the one of BindRead
\* that waits for io.EOF.
NothingLeft ==
    handler = "gone" ~> /\ writer = "ended" /\ errWriter = "ended"
                        /\ helper = "none"
                        /\ reader = "ended" \/ kind = "notif"
=============================================================================

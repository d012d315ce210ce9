------------------------------- MODULE Survey -------------------------------
(***************************************************************************)
(* The hangup surveys of stream/river.  Every websocket connection of a    *)
(* user to a Stream owns a Responder: a key of the bucket                  *)
(* hangups/<stream>/<user> and a mangos RESPONDENT socket on which one     *)
(* goroutine runs AwaitHangup.  A handler that must end the connections    *)
(* (deleting a Stream, a Convo or a user) makes a Surveyor over the keys   *)
(* of that bucket and runs MakeSurvey, which sends HUP up to three times   *)
(* and collects the answers.                                               *)
(*                                                                         *)
(* The processes interleave: connection handlers, their AwaitHangup        *)
(* goroutines, several surveys, and, inside every mangos socket, dialers,  *)
(* a sender and a survey timer.  Bolt gives each Update transaction an     *)
(* exclusive lock; View transactions read the last committed state.        *)
(***************************************************************************)
EXTENDS Naturals, FiniteSets

CONSTANTS
    Conn,      \* the Responder IDs the bucket can ever hand out
    Surveyor,  \* the surveys made against the bucket
    Foreign,   \* the surveys whose question is not HUP
    MaxTries,  \* how often MakeSurvey sends its survey (3 in the code)
    Free       \* the write lock of the database is not held

ASSUME ConnAssumption     == Conn \subseteq Nat \ {0} /\ IsFiniteSet(Conn)
ASSUME SurveyorAssumption == Foreign \subseteq Surveyor
ASSUME TriesAssumption    == MaxTries \in Nat \ {0}
ASSUME FreeAssumption     == Free \notin Conn

VARIABLES
    bucket,    \* has the bucket hangups/<stream>/<user> been created?
    entry,     \* the Responder IDs stored in the bucket
    handler,   \* where the handler of each connection stands
    waiter,    \* where the AwaitHangup goroutine of each connection stands
    asked,     \* the survey a connection's Responder received last
    signal,    \* the connections whose hangup signal channel is closed
    lock,      \* the connection whose clean-up transaction is open, or Free
    phase,     \* where each MakeSurvey stands, or how it ended
    expect,    \* Surveyor.Expect: the IDs found by NewSurvey
    try,       \* the number of sends so far, which is also the survey ID
    left,      \* the Recv calls left to do in this try
    seen,      \* the IDs that gave the expected answer
    errs,      \* the keys of the errs map: who did not know the survey
    expired,   \* has the survey timer set ErrProtoState on the socket?
    linked,    \* the connections a Surveyor's dialers have reached
    outq,      \* the tries sent to the socket, not yet to the peers
    wire,      \* the surveys on their way to each connection
    answers    \* the answers on their way to each Surveyor

connVars == <<bucket, entry, handler, waiter, asked, signal, lock>>
survVars == <<phase, expect, try, left, seen, errs>>
sockVars == <<expired, linked, outq, wire, answers>>
vars     == <<connVars, survVars, sockVars>>

Tries    == 1..MaxTries
Question == Surveyor \X Tries
Answer   == [id : Conn, try : Tries, text : {"OK", "UNKNOWN"}]
Over     == {"ok", "errors", "missing", "failed", "nobucket"}

\* UNKNOWN answers are "IDK" and eight bytes of ID, little end first, but the
\* ID is read two bytes in, the length of "OK": at 'K' = 75 and the first seven
\* bytes of the ID.  IDs count up from 1, so they stay below 2^56.
UnknownKey(id) == 75 + 256 * id

\* The text a Responder sends back: Wait compares the survey with HUP.
Reaction(s) == IF s \in Foreign THEN "UNKNOWN" ELSE "OK"

TypeOK ==
    /\ bucket \in BOOLEAN
    /\ entry \subseteq Conn
    /\ handler \in [Conn -> {"idle", "serving", "leaving", "cleaning", "gone"}]
    /\ waiter \in [Conn -> {"off", "recv", "read", "signalled", "done"}]
    /\ asked \in [Conn -> SUBSET Question]
    /\ signal \subseteq Conn
    /\ lock \in Conn \cup {Free}
    /\ phase \in [Surveyor -> Over \cup {"new", "send", "recv"}]
    /\ expect \in [Surveyor -> SUBSET Conn]
    /\ try \in [Surveyor -> 0..MaxTries]
    /\ left \in [Surveyor -> Nat]
    /\ seen \in [Surveyor -> SUBSET Conn]
    /\ errs \in [Surveyor -> SUBSET Nat]
    /\ expired \in [Surveyor -> BOOLEAN]
    /\ linked \in [Surveyor -> SUBSET Conn]
    /\ outq \in [Surveyor -> SUBSET Tries]
    /\ wire \in [Conn -> SUBSET Question]
    /\ answers \in [Surveyor -> SUBSET Answer]

Init ==
    /\ bucket = FALSE
    /\ entry = {}
    /\ handler = [c \in Conn |-> "idle"]
    /\ waiter = [c \in Conn |-> "off"]
    /\ asked = [c \in Conn |-> {}]
    /\ signal = {}
    /\ lock = Free
    /\ phase = [s \in Surveyor |-> "new"]
    /\ expect = [s \in Surveyor |-> {}]
    /\ try = [s \in Surveyor |-> 0]
    /\ left = [s \in Surveyor |-> 0]
    /\ seen = [s \in Surveyor |-> {}]
    /\ errs = [s \in Surveyor |-> {}]
    /\ expired = [s \in Surveyor |-> FALSE]
    /\ linked = [s \in Surveyor |-> {}]
    /\ outq = [s \in Surveyor |-> {}]
    /\ wire = [c \in Conn |-> {}]
    /\ answers = [s \in Surveyor |-> {}]

-----------------------------------------------------------------------------
(* A connection: NewResponder, the AwaitHangup goroutine and the clean-up. *)

Listening(c) == handler[c] \in {"serving", "leaving"}

\* The Update that stores the next ID and listens on it; the handler then
\* starts AwaitHangup and serves the websocket.  Sequence numbers are never
\* reused, so every connection is made once.
NewResponder(c) ==
    /\ lock = Free
    /\ handler[c] = "idle"
    /\ bucket' = TRUE
    /\ entry' = entry \cup {c}
    /\ handler' = [handler EXCEPT ![c] = "serving"]
    /\ waiter' = [waiter EXCEPT ![c] = "recv"]
    /\ UNCHANGED <<asked, signal, lock, survVars, sockVars>>

\* Wait's Recv.  Surveys of one Surveyor arrive in order.  A closed socket
\* may still hand over what it had queued: Go's select picks either case.
WaitRecv(c) ==
    /\ waiter[c] = "recv"
    /\ \E q \in wire[c] :
          /\ \A p \in wire[c] : p[1] = q[1] => q[2] <= p[2]
          /\ asked' = [asked EXCEPT ![c] = {q}]
          /\ wire' = [wire EXCEPT ![c] = @ \ {q}]
    /\ waiter' = [waiter EXCEPT ![c] = "read"]
    /\ UNCHANGED <<bucket, entry, handler, signal, lock, survVars,
                   expired, linked, outq, answers>>

\* Mutant: AwaitHangup closes the signal when its socket is closed, too.
WaitClosedSignals(c) ==
    /\ waiter[c] = "recv"
    /\ handler[c] = "cleaning"
    /\ signal' = signal \cup {c}
    /\ waiter' = [waiter EXCEPT ![c] = "done"]
    /\ UNCHANGED <<bucket, entry, handler, asked, lock, survVars, sockVars>>

\* Wait's Recv on the closed socket: ErrClosed, and AwaitHangup returns.
WaitClosed(c) ==
    /\ waiter[c] = "recv"
    /\ handler[c] = "cleaning"
    /\ waiter' = [waiter EXCEPT ![c] = "done"]
    /\ UNCHANGED <<bucket, entry, handler, asked, signal, lock, survVars,
                   sockVars>>

\* HangupSender.Send, first half: close(h.signal), whatever the answer is.
CloseSignal(c) ==
    /\ waiter[c] = "read"
    /\ signal' = signal \cup {c}
    /\ waiter' = [waiter EXCEPT ![c] = "signalled"]
    /\ UNCHANGED <<bucket, entry, handler, asked, lock, survVars, sockVars>>

\* Mutant: the answer is sent before the signal is closed.
SendAnswerFirst(c) ==
    /\ waiter[c] = "read"
    /\ \E q \in asked[c] :
          answers' = [answers EXCEPT ![q[1]] = @ \cup
              {[id |-> c, try |-> q[2], text |-> Reaction(q[1])]}]
    /\ asked' = [asked EXCEPT ![c] = {}]
    /\ waiter' = [waiter EXCEPT ![c] = "signalled"]
    /\ UNCHANGED <<bucket, entry, handler, signal, lock, survVars,
                   expired, linked, outq, wire>>

\* Mutant: AwaitHangup waits for the next survey after it has answered.
SendAnswerAgain(c) ==
    /\ waiter[c] = "signalled"
    /\ \E q \in asked[c] :
          answers' = [answers EXCEPT ![q[1]] = @ \cup
              {[id |-> c, try |-> q[2], text |-> Reaction(q[1])]}]
    /\ asked' = [asked EXCEPT ![c] = {}]
    /\ waiter' = [waiter EXCEPT ![c] = "recv"]
    /\ UNCHANGED <<bucket, entry, handler, signal, lock, survVars,
                   expired, linked, outq, wire>>

\* HangupSender.Send, second half: the answer goes to the Surveyor whose
\* survey was received; on a closed socket it is lost.
SendAnswer(c) ==
    /\ waiter[c] = "signalled"
    /\ \E q \in asked[c] :
          answers' = [answers EXCEPT ![q[1]] = @ \cup
              (IF Listening(c)
               THEN {[id |-> c, try |-> q[2], text |-> Reaction(q[1])]}
               ELSE {})]
    /\ asked' = [asked EXCEPT ![c] = {}]
    /\ waiter' = [waiter EXCEPT ![c] = "done"]
    /\ UNCHANGED <<bucket, entry, handler, signal, lock, survVars,
                   expired, linked, outq, wire>>

\* The client closes its websocket, or it fails.
ClientLeaves(c) ==
    /\ handler[c] = "serving"
    /\ handler' = [handler EXCEPT ![c] = "leaving"]
    /\ UNCHANGED <<bucket, entry, waiter, asked, signal, lock, survVars,
                   sockVars>>

\* Mutant: the signal is a message, lost when nobody reads it in time.
HangUpMissed(c) ==
    /\ c \in signal
    /\ waiter[c] = "signalled"
    /\ ClientLeaves(c)

\* HangupSender.Read sees the closed signal, closes the websocket and gives
\* ReadSend an io.EOF: Bind returns.
HangUp(c) ==
    /\ c \in signal
    /\ ClientLeaves(c)

\* The clean-up transaction up to <-errCh: DeleteBus, rv.Close, DeleteResp
\* (not yet committed) and rsp.Close, which breaks the pipes; an answer not
\* yet handed over may go with them.
StartCleanup(c) ==
    /\ lock = Free
    /\ handler[c] = "leaving"
    /\ lock' = c
    /\ handler' = [handler EXCEPT ![c] = "cleaning"]
    /\ linked' = [s \in Surveyor |-> linked[s] \ {c}]
    /\ \/ UNCHANGED answers
       \/ /\ \E s \in Surveyor : \E a \in answers[s] : a.id = c
          /\ answers' = [s \in Surveyor |-> {a \in answers[s] : a.id # c}]
    /\ UNCHANGED <<bucket, entry, waiter, asked, signal, survVars, expired,
                   outq, wire>>

\* <-errCh receives AwaitHangup's result and the transaction commits; what
\* was still queued at the closed socket is gone.
CommitCleanup(c) ==
    /\ lock = c
    /\ waiter[c] = "done"
    /\ lock' = Free
    /\ entry' = entry \ {c}
    /\ handler' = [handler EXCEPT ![c] = "gone"]
    /\ wire' = [wire EXCEPT ![c] = {}]
    /\ UNCHANGED <<bucket, waiter, asked, signal, survVars, expired, linked,
                   outq, answers>>

-----------------------------------------------------------------------------
(* The surveyor socket of mangos, as MakeSurvey uses it.                   *)

\* Dial returns at once; a goroutine connects, retrying for ever.
Dial(s, c) ==
    /\ c \in expect[s] \ linked[s]
    /\ Listening(c)
    /\ linked' = [linked EXCEPT ![s] = @ \cup {c}]
    /\ UNCHANGED <<connVars, survVars, expired, outq, wire, answers>>

\* The sender goroutine copies a survey to the peers connected by now.  The
\* queue of a peer holds one message: behind an earlier one it is dropped.
Distribute(s) ==
    /\ \E k \in outq[s], D \in SUBSET linked[s] :
          /\ \A n \in outq[s] : k <= n
          /\ \A c \in linked[s] \ D : \E q \in wire[c] : q[1] = s
          /\ wire' = [c \in Conn |-> IF c \in D THEN wire[c] \cup {<<s, k>>}
                                               ELSE wire[c]]
          /\ outq' = [outq EXCEPT ![s] = @ \ {k}]
    /\ UNCHANGED <<connVars, survVars, expired, linked, answers>>

\* The survey timer makes every Recv fail with ErrProtoState until the next
\* Send.
Expire(s) ==
    /\ phase[s] = "recv"
    /\ ~expired[s]
    /\ expired' = [expired EXCEPT ![s] = TRUE]
    /\ UNCHANGED <<connVars, survVars, linked, outq, wire, answers>>

-----------------------------------------------------------------------------
(* NewSurvey and MakeSurvey.                                               *)

\* NewSurvey reads the committed IDs and starts a dialer for each.  All its
\* callers but Stream.Delete run it in a View, which does not wait for the
\* write lock.
NewSurvey(s) ==
    /\ phase[s] = "new"
    /\ phase' = [phase EXCEPT ![s] = IF bucket THEN "send" ELSE "nobucket"]
    /\ expect' = [expect EXCEPT ![s] = entry]
    /\ UNCHANGED <<connVars, try, left, seen, errs, sockVars>>

ToRecv(s) == Cardinality(expect[s]) - Cardinality(seen[s])
                                    - Cardinality(errs[s])

\* One more try: a fresh survey ID, the receive error cleared, the timer set.
Send(s) ==
    /\ phase[s] = "send"
    /\ phase' = [phase EXCEPT ![s] = "recv"]
    /\ try' = [try EXCEPT ![s] = @ + 1]
    /\ left' = [left EXCEPT ![s] = ToRecv(s)]
    /\ expired' = [expired EXCEPT ![s] = FALSE]
    /\ outq' = [outq EXCEPT ![s] = @ \cup {try[s] + 1}]
    /\ UNCHANGED <<connVars, expect, seen, errs, linked, wire, answers>>

\* What MakeSurvey does with an answer: the ID of an OK must be an expected
\* one; an UNKNOWN is filed under the ID it is thought to carry.
Tally(s, a) ==
    IF a.text = "OK"
    THEN /\ phase' = [phase EXCEPT ![s] =
                          IF a.id \in expect[s] THEN @ ELSE "failed"]
         /\ seen' = [seen EXCEPT ![s] = @ \cup ({a.id} \cap expect[s])]
         /\ UNCHANGED errs
    ELSE /\ errs' = [errs EXCEPT ![s] = @ \cup {UnknownKey(a.id)}]
         /\ UNCHANGED <<phase, seen>>

\* Recv returned an answer to the current survey; RecvHook discards answers
\* to an earlier one, which are therefore never received.
RecvAnswer(s) ==
    /\ phase[s] = "recv"
    /\ left[s] > 0
    /\ ~expired[s]
    /\ \E a \in answers[s] :
          /\ a.try = try[s]
          /\ answers' = [answers EXCEPT ![s] = @ \ {a}]
          /\ Tally(s, a)
    /\ left' = [left EXCEPT ![s] = @ - 1]
    /\ UNCHANGED <<connVars, expect, try, expired, linked, outq, wire>>

\* Mutant: ErrProtoState is retried instead of ending the try.
RecvExpiredRetried(s) ==
    /\ phase[s] = "recv"
    /\ left[s] > 0
    /\ expired[s]
    /\ UNCHANGED vars

\* Recv returned ErrProtoState: nothing more will come in this try.
RecvExpired(s) ==
    /\ phase[s] = "recv"
    /\ left[s] > 0
    /\ expired[s]
    /\ left' = [left EXCEPT ![s] = 0]
    /\ UNCHANGED <<connVars, phase, expect, try, seen, errs, sockVars>>

\* Mutant: one retry too many.
EndTryOffByOne(s) ==
    /\ phase[s] = "recv"
    /\ left[s] = 0
    /\ phase' = [phase EXCEPT ![s] =
          IF Cardinality(seen[s]) = Cardinality(expect[s]) THEN "ok"
          ELSE IF try[s] <= MaxTries THEN "send" ELSE "missing"]
    /\ UNCHANGED <<connVars, expect, try, left, seen, errs, sockVars>>

\* The switch after the receive loop, and the end of the retries.
EndTry(s) ==
    /\ phase[s] = "recv"
    /\ left[s] = 0
    /\ phase' = [phase EXCEPT ![s] =
          IF Cardinality(seen[s]) = Cardinality(expect[s]) THEN "ok"
          ELSE IF Cardinality(seen[s]) + Cardinality(errs[s])
                    = Cardinality(expect[s]) THEN "errors"
          ELSE IF try[s] < MaxTries THEN "send" ELSE "missing"]
    /\ UNCHANGED <<connVars, expect, try, left, seen, errs, sockVars>>

\* The IDs of the Missing error.
Unseen(s) == expect[s] \ seen[s]

-----------------------------------------------------------------------------
\* Everyone has left and every survey has returned.
Terminating ==
    /\ \A c \in Conn : handler[c] = "gone"
    /\ \A s \in Surveyor : phase[s] \in Over
    /\ UNCHANGED vars

ConnNext(c) ==
    \/ NewResponder(c) \/ WaitRecv(c) \/ WaitClosed(c) \/ CloseSignal(c)
    \/ SendAnswer(c) \/ ClientLeaves(c) \/ HangUp(c) \/ StartCleanup(c)
    \/ CommitCleanup(c)

SurveyNext(s) ==
    \/ NewSurvey(s) \/ Send(s) \/ RecvAnswer(s) \/ RecvExpired(s)
    \/ EndTry(s)

SocketNext(s) ==
    \/ \E c \in Conn : Dial(s, c)
    \/ Distribute(s) \/ Expire(s)

Next ==
    \/ \E c \in Conn : ConnNext(c)
    \/ \E s \in Surveyor : SurveyNext(s) \/ SocketNext(s)
    \/ Terminating

Spec == Init /\ [][Next]_vars

(***************************************************************************)
(* Goroutines that can run do run, timers fire, and a blocked Update gets  *)
(* the lock once it is free.  Nobody has to connect, to leave or to start  *)
(* a survey, and a hangup need not get through: it is first written to the *)
(* client, without a deadline.                                             *)
(***************************************************************************)
Fairness ==
    /\ \A c \in Conn :
          /\ WF_vars(WaitRecv(c) \/ WaitClosed(c))
          /\ WF_vars(CloseSignal(c))
          /\ WF_vars(SendAnswer(c))
          /\ WF_vars(StartCleanup(c))
          /\ WF_vars(CommitCleanup(c))
    /\ \A s \in Surveyor :
          /\ WF_vars(Expire(s))
          /\ WF_vars(Send(s))
          /\ WF_vars(RecvAnswer(s) \/ RecvExpired(s))
          /\ WF_vars(EndTry(s))

FairSpec == Spec /\ Fairness

-----------------------------------------------------------------------------
(* What the protocol implements.                                           *)

\* A survey as its caller sees it.
Verdict(s) == CASE phase[s] = "new" -> "idle"
                [] phase[s] \in Over -> phase[s]
                [] OTHER -> "asking"

Reported(s) == IF phase[s] = "missing" THEN Unseen(s) ELSE {}

H == INSTANCE Hangup WITH
        open    <- entry,
        hung    <- signal,
        asked   <- expect,
        verdict <- [s \in Surveyor |-> Verdict(s)],
        missing <- [s \in Surveyor |-> Reported(s)]

\* Dialers, retries, timers, late answers and clean-ups that hold the database
\* lock implement the contract of Hangup: a survey hangs up only whom
\* NewSurvey found, and whatever MakeSurvey returns is true of them when it
\* returns.  In particular it never fails for an answer of a stranger
\* ("unexpected respondent").
HangupContract == H!Spec

-----------------------------------------------------------------------------
(* Properties.                                                             *)

\* What MakeSurvey returns can be relied on: when it reports success, or that
\* everyone answered with errors, or a list of missing IDs, then every
\* expected Responder that it does not list as missing has closed its hangup
\* signal, so its websocket is being ended.
AnswerIsSound ==
    \A s \in Surveyor :
        /\ phase[s] \in {"ok", "errors"} => expect[s] \subseteq signal
        /\ phase[s] = "missing" => expect[s] \ Unseen(s) \subseteq signal

\* Those whose answer a survey has counted, expected or UNKNOWN.
CountedBy(s) == {c \in Conn : c \in seen[s] \/ UnknownKey(c) \in errs[s]}

\* A Responder answers one survey in its life (AwaitHangup does not loop, and
\* HangupSender.Send would close its channel twice): two surveys over the same
\* bucket never both count its answer, whatever they asked.
CreditedOnce ==
    \A s, t \in Surveyor : s # t => CountedBy(s) \cap CountedBy(t) = {}

\* MakeSurvey returns, however many Responders are gone, late or silent.
SurveyEnds == \A s \in Surveyor : phase[s] = "send" ~> phase[s] \in Over

\* The hangup of a connection gets through.  It does unless the client does not
\* read what it is sent, or the reader is jammed (Released in module Sockets).
HangupWorks(c) == WF_vars(HangUp(c))

\* A connection that was hung up, and whose own hangup gets through, leaves the
\* database: neither the AwaitHangup goroutine, for which its clean-up waits
\* while it holds the write lock, nor a connection that is stuck for ever keeps
\* it there.
HungUpLeaves ==
    \A c \in Conn : HangupWorks(c) => (c \in signal ~> c \notin entry)
=============================================================================

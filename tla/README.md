# A TLA+ model of sg-proto

sg-proto is a small chat-and-tasks backend in Go: an HTTP API over a bolt
database, with websockets that are joined by in-process mangos sockets
("rivers"). Every HTTP request runs in a goroutine of its own, every handler is
a sequence of bolt transactions with the transactions of other requests in
between, and a websocket handler lives as long as its client. Most of what can
go wrong lies between two transactions of one handler, or between a handler, its
helper goroutine and a survey that is sent to end it. That is what the modules
here are about.

## 1. Inventory

| Part | State | Operations | What makes it correct |
|---|---|---|---|
| Surveys (`stream/river/surveyor.go`, `responder.go`, `rest/ws/hangup.go`) | `hangups/<stream>/<user>` buckets of Responder IDs; a RESPONDENT socket, a goroutine and a signal channel per connection | `NewResponder`, `AwaitHangup`, `HangupSender.Send/Read`, `DeleteResp`, `NewSurvey`, `MakeSurvey` | who is not reported missing is hung up; a survey returns; a clean-up that holds the write lock ends |
| Buses (`stream/river/bus.go`) | bucket of Bus IDs per Stream and user; BUS sockets | `NewBus`, `DeleteBus` | any two Buses of a Stream are joined |
| Pub/sub and notifications (`pub.go`, `sub.go`, `notif/`, `rest/notif.go`) | Pub bucket; SUB sockets | `NewPub`, `NewSub`, `Notif.Connect`, `notif.Encode` | a connection that is hung up, lost or closed leaves nothing behind |
| Websocket binding (`rest/ws/`) | up to four goroutines per connection, the channels `errs`, `done`, `fail` and the hangup signal | `Bind`, `BindRead`, `ReadSend`, `RecvWrite`, `WriteErrors`, `HangupSender.Read`, `hangupRecver.Recv` | messages pass once and in order; whatever ends one goroutine ends the others and the handler |
| User deletion (`rest/profile.go`, `rest/admin.go`) | a survey per river of the user | `Profile.Delete`, `Admin.DeleteUser` | a deleted user has no connection; the request returns |
| Streams (`rest/stream.go`, `stream/`) | StreamBucket | `Create`, `Put`, `Connect`, `Delete` | a deleted Stream is gone, with its connections |
| Convos (`rest/convo.go`, `convo/`) | ConvoBucket, MessageBucket, Scribe check-ins | as Streams, plus the Scribe that logs messages | one Scribe while anyone is connected; no message is lost |
| Tasks (`rest/task.go`, `task/`, `text/`) | TaskBucket, TextBucket, coin of users | `Create`, `Put` (five outcomes), `Delete` | bounties, terms, notes |
| Accounts (`auth/`, `users/`, `incept/`, `rest/token.go`, `incept.go`, `admin.go`, `profile.go`, `middleware/auth.go`) | tickets, users, logins, sessions, refresh tokens, contexts | incept, login, refresh, logout, delete | one user per ticket; users, logins and tokens agree; deleted names stay taken |
| Startup (`rest/rest.go`, `sg/`) | clears sessions and rivers | `Bind` | what a crash left behind does no harm |

The parts meet in the database (one writer at a time, readers see the last
committed state), in the mangos sockets, and in two calls: `Stream.Delete`,
`Convo.Delete`, `Profile.Delete` and `Admin.DeleteUser` run surveys against the
connection handlers, and these delete their own database entries when they end.
What the callers of a survey rely on is stated once, in `Hangup`.

Hard to test: the interleaving of surveys, retries, timers and connection
clean-ups; anything checked in a View and used in a later Update; requests cut
off by a restart; a transaction that fails half-way. `PROJECT.json` lists the
hazards line by line.

## 2. Modules

| Module | Models | Proofs |
|---|---|---|
| `Hangup` | the contract of a survey: whom it asks, whom it hangs up, what it may report | |
| `Survey` | one hangup bucket, its connections, the surveys made against it, and the mangos surveyor socket (external); implements `Hangup` | `SurveyProofs` |
| `Streams` | one Stream: create, put, connect, buses, delete, restart | `StreamsProofs` |
| `Convos` | one Convo: create, put, connect, delete, restart, and the Scribes that log its messages | `ConvosProofs` |
| `Messages` | GetMessageRange: reading the log of a Convo back | `MessagesProofs` |
| `Sockets` | the goroutines behind one websocket of a Stream, a Convo or the notifs | `SocketsProofs` |
| `Removal` | the deletion of a user, composed with the user's connections to Streams, Convos and notifs; uses surveys by `Hangup` | `RemovalProofs` |
| `Accounts` | tickets, users, logins, sessions, refresh tokens, contexts | `AccountsProofs` |
| `Tasks` | tasks, notes, bounties, and the coin of users | `TasksProofs` |

The `MC` modules define the constants of the TLC instances. In every module a
step is one database transaction, one socket
or channel operation, or one stretch of local code between two of them.
Definitions preceded by a comment "Mutant" are faulty variants of the definition
they stand before. They are not part of any specification; replacing the
definition by one of them shows that a property can fail.

### Hangup and Survey

`Hangup` has five variables: the connections the bucket lists, those told to
hang up, and for every survey whom it asked, what it reported and which IDs it
called missing. Dialers, tries, timers and answers are not seen. `Survey` maps its
entries, signals and phases to them (`H`, `Verdict`, `Reported`), and
`HangupContract` says that every one of its behaviours is one of `Hangup`: a survey hangs
up only whom NewSurvey found, never asks twice, and whatever MakeSurvey returns
is true of them at that moment. `Removal`, `Streams` and `Convos` show the same of
each bucket that they survey, several requests at a time; there the server may
also stop, which a bucket sees as `Restart`.

A connection's handler registers a Responder (`NewResponder`), starts a goroutine
that waits for one survey, closes the signal channel and then answers
(`WaitRecv`, `CloseSignal`, `SendAnswer`), and serves the websocket until the
client leaves or the signal is closed (`ClientLeaves`, `HangUp`). The clean-up
is two steps, because it waits for the goroutine while its transaction is open:
`StartCleanup` takes the write lock `lock`, `CommitCleanup` needs the goroutine
to be `done`. Deleted entries are visible to `NewSurvey` only after the commit.

A survey reads the IDs (`NewSurvey`), and up to three times sends and receives
(`Send`, `RecvAnswer`, `RecvExpired`, `EndTry`). Dialing is asynchronous (`Dial`), a
sent survey reaches the peers connected at that time (`Distribute`), a timer
makes `Recv` fail (`Expire`), and answers to an earlier try are discarded because
their survey ID is not the current one. `UnknownKey` is the ID MakeSurvey reads
from an UNKNOWN answer, byte for byte.

### Streams

One Stream is enough because Streams share no record, bucket or address.
A survey takes the steps of its contract: `NewSurvey` finds the Responders of a
Reader (`asked`), each of them answers at any time or never (`Answer`), also when the
survey or the whole request is over and its answer is not `counted`, and `MakeSurvey`
returns: with success when everyone was counted. `HangupContract` says that the
bucket of each Reader sees nothing else. `Restart` may happen at any point: it ends all
requests and connections and empties the river buckets (`ClearRivers`). `BusFails`
is Connect's return after NewBus fails: its Responder stays stored and goes on
listening, although no connection is served, until the server restarts.
`present` and `unasked` in a DELETE are history variables: who was
served when it came, and whose connections its loop did not look for.

### Convos

The connection handler of a Convo does more than that of a Stream: it checks in
(`Checkin`), spawns a Scribe if it is the first (`Spawn`), checks out when its
client has left (`Checkout`) and, when told that it was the last, surveys the
Scribes (`NewScribeSurvey`, `HangupScribe`, `CheckMissingScribe`). A Scribe is
named after the connection whose handler spawned it. `pending` is what it has
received and not written: the queue of its socket, the channel `toScribe` and the
writer's buffer in one sequence, of which `Flush` writes a beginning and which
`EndScribe` drops. `log` is a set of messages with one message per second, because
the key of a message is its time in RFC3339 (`Written`). PUT and DELETE share the
loop of surveys; `CheckMissing` is the View after a survey that timed out.
Surveys take the steps they take in Streams, those of the Scribes too
(`AnswerScribe`); every caller sends HUP, so a survey that fails does so with
missing IDs. `ConnectFails` stands for Connect's returns after a Checkin, Spawn or
NewBus that fails: they leave the Responder, and a check-in made before, behind.
`log.Fatal` ends the process, so its outcome is `Restart`. The
Responders and Buses of connections are not variables of their own here: that
the database lists the open ones, and beyond them only what a failed Connect left
behind, is what `RiversLive` proves of Streams.

### Messages

One call of GetMessageRange, statement by statement: `Seek`, the switch after it
(`Back`), the backward loop (`Read`) and the reversal in place (`Swap`). A key is
a number in place of an RFC3339 time; the two are ordered alike as long as the
server's zone keeps its offset. `RangeIsLatest` is the reference: a set of keys,
without a cursor. GetMessages calls it with the last week and a limit of 50.

### Sockets

One connection, with a variable for each goroutine that serves it: the `reader`
(ReadSend, or the discarding loop of BindRead), the `errWriter` (WriteErrors), the
`writer` (RecvWrite, or BindRead's own loop), the `helper` that each Read or Recv
starts, and the `handler`. They meet in the Conn (`sock`), the river (`queue`,
`river`), the channel `errs` and the hangup signal (`hung`). `done` is closed when
`reader = "ended"`, `fail` when `writer = "ended"`. The client (external) says
messages of the shapes that the readers tell apart, stops reading (`Stall`, after
which writes and closes wait), closes its end, or is lost. A helper that is late
may meet the next call, as in Go, where nobody waits for it; a second helper is
not kept apart from it, because either would do the same.

### Removal

The user's connections are those of Streams, Convos and notifs: `CheckMember`,
`NewResponder`, `NewRiver` or `RiverFails`, then served until `Leave` or `HangUp`,
then `Cleanup`. Two details of the code matter: a notif connection starts to
listen for surveys only after NewSub, a Stream or Convo at once; and a Connect
that fails after NewResponder leaves its Responder behind. A deletion looks up
all rivers in one View (`Find`), runs its surveys at once (`Answer`, `Report`),
collects their results one by one (`Take`, with `CheckMissing` for those that
missed somebody, and `TimeOut`), and deletes the user. Surveys of a deletion that
has failed go on. `Put` stands for whatever owners do to the members meanwhile.

### Accounts

`req` holds, for each request in service, its next transaction and what the
previous ones found. `AuthUser` stands for both middlewares. A bearer token and
its refresh token are drawn together, so one value names the pair; a client
may send any refresh token with a bearer token, because nothing in the code compares
them. Restarts drop
the requests and clear the sessions, as `rest.Bind` does. The surveys of a user
deletion are reduced to whether they succeed: `HangupFails` or `Disable`.

### Tasks

`CheckCreate`, `CheckPut` and `CheckDelete` are the Views of the handlers, `Load` is
Put's second View with its switch (`Refused`, `Meaning`), and the five outcomes
of Put are Updates that happen as a whole or not at all (`Commit`, `CommitTask`).
`texts` is keyed by task and content because the key of a text is a hash of both.
`Parallel` bounds how many requests are in service at a time. `timer` says whether
the Timer of the API was set when it was made. `UpToDate` tells whether the stored
task is still the one a Put has read. Names, due dates and times are left out:
they only decide about refusals, and a client can always send the ones it was
given.

## 3. Runs

Passing runs:

| Run | Instance | Shows |
|---|---|---|
| `survey_retry` | 2 connections, 1 survey, 3 tries as in the code, with fairness | `SurveyEnds`, `HungUpLeaves` |
| `survey_race` | 2 connections, 2 overlapping surveys, one of which is not HUP, 1 try each | `HangupContract`, `CreditedOnce`, also when answers are UNKNOWN |
| `streams` | 3 connections of 2 users, a PUT, a DELETE, restarts | `RiversAreLive`, `Meshed`, `AskedAreHungUp`, `PresentAreHungUp`, `DeletedStaysGone`, `HangupContract` |
| `convos` | 2 connections and their Scribes, a PUT or DELETE, restarts | `AskedHaveLeft`, `HangupContract`, `ScribeContract` |
| `convos_race` | 1 connection and its Scribe, 2 messages of different seconds, 2 requests (PUT or DELETE), restarts, with fairness | `ConvoHasMessages`, `DeletedStaysGone`, `ReceivedIsLogged` |
| `messages` | every set of keys out of 6, every range, limits 0 to 5 | `RangeIsLatest` |
| `sockets` | each kind of connection, 3 messages of the client, 2 of others, channels of 1, with fairness | `NothingLost`, `Released`, `NothingLeft` |
| `removal` | 2 connections to the notifs, 2 overlapping deletions | `FoundHaveLeft`, `HangupContract` |
| `removal_live` | a connection to a Stream and one to the notifs, 1 deletion, with fairness | `PresentAreHungUp`, `RemovalReturns`, `RemovalEmpties` |
| `accounts` | 2 users, tickets, tokens and requests; any refresh token with any bearer token; restarts | `TicketAdmitsOne`, `AccountsAgree`, `RefreshHasContext`, `DeletedForGood`, `DeletedIsLoggedOut`, `LogoutIsFinal` |
| `tasks` | 2 users, 1 task, 4 requests, 2 at a time; owners change, users are deleted | `CoinConserved`, `NotesLoad`, `StoredMembersExist`, `DeletionIsFinal`, `OwnerSetsTerms` |

The runs of Survey, Accounts and Sockets also check `TypeOK`; that of Streams,
Convos, Tasks and Removal is proved (section 4). One run ends in a violation, of a line of
the repository that `PROJECT.json` quotes under `findings`: in `convos_last`,
`LastHangsUp` fails, because the first client to leave is told that it is the last
and hangs up the Scribe for all.

Several properties hold with an exception that they name. Each exception is
something the code does, and TLC finds a behaviour that needs it as soon as it
is taken out of the property:

- `DeletedIsLoggedOut`: a login that was checked before the user's deletion issues
  its session after it, and nothing ends that session (`late`).
- `LogoutIsFinal`: a request that was let in before the session was deleted writes it
  back when it refreshes it, so that a logout or deletion that it overlaps is undone.
- `RiversAreLive`: a Connect whose NewBus fails leaves its Responder behind, which
  answers a survey although nobody is connected.
- `HungUpLeaves` and `RemovalEmpties`: the hangup is written to the client, without a
  deadline, before its connection is closed, so it need not get through
  (`HangupWorks` is their premise). `Released` says when it does not.
- `PresentAreHungUp` of Streams: a Reader who has never connected has no hangup
  bucket, and NewSurvey's error breaks the loop of Delete for all Readers that
  come after (`unasked`).
- `PresentAreHungUp` of Removal: a user who is put out of a Stream stays connected
  to it ("TODO: FIXME: Hang up removed" in Stream.Put), and a deletion does not
  find that connection.
- `RemovalEmpties`: a Connect that fails leaves its Responder behind. Nobody
  listens to that of a failed notif Connect, so that by `FoundHaveLeft` every
  deletion of that user fails until the server restarts.
- `DeletionIsFinal`: a Put whose View came before the deletion stores the task again,
  because its Update upserts without a second look.
- `OwnerSetsTerms`: for the same reason a writer's Put that overlaps the owner's
  restores the old bounty or group.
- `NothingLost`: a message that fills DefaultRead's buffer to the last byte is
  joined to the next one, or lost if the client leaves before there is one; and a
  reader whose writer has failed leaves what the client has sent unread.
- `Released`: a reader that reports a malformed message to a full channel, when
  WriteErrors has ended at a failed write, waits for ever with its handler
  (`Jammed`). A client that keeps its connection open without reading cannot be
  hung up, because the hangup is first written to it (`Blocked`). A lost notif
  connection is noticed only when there is something to write to it.
- `NothingLeft`: BindRead's discarding loop ends at io.EOF only; when the server
  closes the connection it spins for ever on the error of a closed Conn.

With the same modules TLC also shows that

- two overlapping completions of a task are both paid: each was read as incomplete;
- a client that refreshes one session with the refresh token of another, while its
  user is being deleted, gets a session back whose context is gone, the case that
  AuthUser logs as "unexpected error: valid session %#q with no context";
- a connection that was checked before a Stream's deletion and registers after
  its surveys is served on a deleted Stream;
- an owner's un-completion stores the completion data as they were sent, although a
  comment in Put says that it un-sets them;
- any writer un-completes a task, also one that somebody else completed, and the
  bounty stays where it is: the request falls through to `UpdateAsWriter`,
  although a comment in Put says "Only the person who completed the task can do
  this";
- texts of notes are never deleted, because StoreResources is called before the
  old task has been read;
- with the Timer that rest.Bind leaves nil (`timer = FALSE`), every completion
  ends in `"panicked"`;
- log.Fatal is reached by clients that only come and go: `NewScribeSurvey` when a
  second client leaves before the first has spawned the Scribe, and
  `CheckMissingScribe` when somebody checks in, or the Convo is deleted, while the
  survey of a Scribe times out;
- a DELETE leaves the Scribe running, because Checkout finds the check-ins gone,
  and a later `Flush` makes the message bucket of the deleted Convo again;
- MakeSurvey files the error of an UNKNOWN answer under `UnknownKey(id)`, which
  is nobody's ID. (No caller sends a survey other than HUP.)

**Bounds.** Two connections tell "all" from "some" of a survey's Responders;
three tries are the code's own number, and one is used where a second survey
makes the state space large. Two requests at a time are what every
check-then-act hazard needs; a third and fourth, one after the other, set up the
state they meet in. Three connections of two users let Buses of the same and of
different users meet, with one leaving. Convos is checked in two instances,
because its parts multiply: one request against two connections is where surveys,
answers and clean-ups meet; two requests are a PUT that overlaps a DELETE, which
meet in the stored Convo and need one connection for a survey to find and for a
Scribe to write. Two messages of different seconds are written in one batch or in
two (`MaxBuffer` is 2 in place of 128). `LogIsKept` is about messages that share a
second and several Scribes that write, which none of these instances has; it is
proved (`LogKept`) and not checked by a run.
In Sockets the channel `errs` holds 1 in place of 10 and the river 1 in place of
128; 3 messages are the fewest that jam the reader (one being written, one in the
channel, one in hand), and also a full piece with one before and one after it.
Two connections of one river in `removal` let a survey miss one of them only; the
other river is in `removal_live`. Six keys leave room on both sides of a range.
`IdsLeft` in Tasks keeps a Create from
running out of IDs, which UUIDs never do. Users are never incepted in Tasks and
Streams because an existing name is never given out again (`DeletedForGood`).

**Symmetry.** Used for interchangeable requests, users, tickets, tokens and task
IDs, never in a run that checks liveness.

**Fairness.** `FairSpec` of Survey assumes weak fairness of each goroutine's
next step (the Go scheduler runs a runnable goroutine), of the survey timer
(mangos always sets one in `Send`), and of the acquisition of bolt's write lock
(a `sync.Mutex`, which does not starve a waiter; and as each connection's
clean-up happens once, no contender can take it for ever). Nothing is assumed of
clients, of the dialers or of the delivery of surveys, nor of `HangUp`, whose write
waits for as long as the client does not read. `SurveyEnds` holds because of the
timer; `HungUpLeaves` is stated of each connection whose hangup gets through
(`HangupWorks`), whatever becomes of the others, and holds because the socket is
closed before the clean-up waits.
`FairSpec` of Sockets assumes weak fairness of each of the five goroutines, and
nothing of the client, the surveys or other senders. `FairSpec` of Removal assumes
that a handler goes on after NewResponder, that a connection that has ended is
cleaned up, that the deletion's goroutine runs, and that MakeSurvey returns, which
`SurveyEnds` shows; answers need not come, hangups need not get through (`RemovalEmpties`
has the premise of `HungUpLeaves`), and clients need not leave.
`FairSpec` of Convos assumes that the writer's timer fires and its goroutine runs
(`Flush`), and nothing else.

Deadlock checking is on in every run but `sockets`, where the one connection ends,
or hangs in one of the ways that `Released` names. Survey, Tasks and Messages have
an explicit `Terminating` step for the state in which everything has ended, so a
clean-up or a request that is stuck would be reported; Streams, Convos and
Accounts can always restart, and in Removal owners can always put members.

## 4. Proofs

TLAPS checks these for every value of the constants that satisfies the named
assumptions of the modules:

| Theorem | States |
|---|---|
| `SurveyProofs!TypeCorrect` | types; `toRecv` is never negative |
| `SurveyProofs!SurveySound` | `AnswerIsSound` |
| `SurveyProofs!AnswersOnce` | `CreditedOnce` |
| `SurveyProofs!Implements` | `HangupContract`: Survey implements Hangup |
| `AccountsProofs!TypeCorrect` | types |
| `AccountsProofs!UsersMatchLogins` | `AccountsAgree` |
| `AccountsProofs!NamesNotReused` | `DeletedForGood` |
| `AccountsProofs!TicketsAdmitOne` | `TicketAdmitsOne` |
| `AccountsProofs!RefreshKeepsContext` | `RefreshHasContext` |
| `AccountsProofs!DeletionLogsOut` | `DeletedIsLoggedOut` |
| `AccountsProofs!LogoutEnds` | `LogoutIsFinal` |
| `StreamsProofs!TypeCorrect` | types |
| `StreamsProofs!RiversLive` | `RiversAreLive` |
| `StreamsProofs!BusesMeshed` | `Meshed` |
| `StreamsProofs!DeleteHangsUp` | `AskedAreHungUp` |
| `StreamsProofs!DeleteEmpties` | `PresentAreHungUp` |
| `StreamsProofs!StreamsStayGone` | `DeletedStaysGone` |
| `StreamsProofs!DeleteKeepsContract` | `HangupContract`: every bucket of a Stream behaves as Hangup |
| `ConvosProofs!TypeCorrect` | types |
| `ConvosProofs!EditHangsUp` | `AskedHaveLeft` |
| `ConvosProofs!MessagesKept` | `ConvoHasMessages` |
| `ConvosProofs!ConvosStayGone` | `DeletedStaysGone` |
| `ConvosProofs!EditKeepsHangupContract` | `HangupContract`: every user's bucket of a Convo behaves as Hangup |
| `ConvosProofs!ScribesKeepContract` | `ScribeContract`: so does the bucket of its Scribes |
| `ConvosProofs!LogKept` | `LogIsKept` |
| `MessagesProofs!RangeCorrect` | `RangeIsLatest` |
| `SocketsProofs!TypeCorrect` | types |
| `SocketsProofs!NothingIsLost` | `NothingLost` |
| `TasksProofs!TypeCorrect` | types |
| `TasksProofs!NotesAlwaysLoad` | `NotesLoad` |
| `TasksProofs!MembersStored` | `StoredMembersExist` |
| `TasksProofs!DeletedTasksStay` | `DeletionIsFinal` |
| `TasksProofs!TermsAreTheOwners` | `OwnerSetsTerms` |
| `TasksProofs!CoinIsConserved` | `CoinConserved` |
| `RemovalProofs!TypeCorrect` | types |
| `RemovalProofs!RemovalIsSound` | `FoundHaveLeft` |
| `RemovalProofs!RemovalHangsUp` | `PresentAreHungUp` |
| `RemovalProofs!RemovalKeepsContract` | `HangupContract`: every river of Removal behaves as Hangup |

*Survey.* `AnswerIsSound` is not inductive: MakeSurvey compares sizes, so the
argument has to carry that `seen` is a set of expected IDs, that the keys of
`errs` are as many as those who answered UNKNOWN, and that everyone whose answer
is on its way, or counted, has closed its signal. `CountsAreExact` turns equal
sizes into equal sets. For `CreditedOnce`, `OneAnswer` says that the one answer of a
Responder is in one place: unsent, in flight to one survey, or counted there
(in `seen` or, at its key, in `errs`). `Implements` maps every step of the
protocol to one of `Hangup` or to none (`NextImplements`); besides the invariant it
needs `Asked`, that only connections a survey has found hear of it, and
`CountsAreExact` again where MakeSurvey returns.

*Accounts.* A type invariant that also says what a request carries at each of
its steps (`ReqOK`), and three lemmas on which steps change users, tickets and
tokens. A ticket is spent by the transaction that removes it, and one that was
removed is `printed` and never returns. A refresh token has
a context because one transaction stores both and one removes both. An ended session
stays ended because AuthUser refuses a token whose session is missing, so that only
the requests it let in before can refresh it.

*Streams.* Entries in the river buckets and the position of the handlers imply
each other (`RiversAreLive`, `EntryOK`). `SurveyOf` is what a DELETE under way knows
of its surveys: an answer is counted only after its signal is closed, a survey that
reported "ok" has counted all it found, and the loop does not go on from one that
did not. For `PresentAreHungUp`, `PresentOf` follows those who were served when the
DELETE came: they are hung up, are asked now, or are of a user the loop has not come
to or never will. `HangupContract` then maps every step to one of `Hangup`
(`NextKeepsContract`); the answer of a Reader is invisible to the other buckets, and
a Reader without a bucket has no Responders, which is `EntryOK`.

*Removal.* `EntryOK` ties the stored Responders to where the handlers stand;
`DeletionOK` says of each deletion that a survey asks only connections that have
registered, counts only the hung up, and that what was collected has left.
The steps of one deletion leave the invariant of the others alone
(`OtherDeleters`), so that each action is treated for its own deletion only.

*Convos.* `SurveyOf` as in Streams, with one more way to go on: a survey that
missed somebody is forgiven when those it found are gone. Everyone found has had a
Responder (`Known`), so that whoever is not in the bucket any more is gone, which is
what `CheckMissing` relies on; `NextMonotone` says that nobody comes back. `ScribesOK`
says that a connection spawns one Scribe and makes one survey of them at most, and
that a survey counts no Scribe before it is hung up; `ScribeContract` needs no more.
`LogIsKept` rests on `WrittenKeeps`: of the messages of one second the last one
written stays, and there is a last one because the order of positions is
well-founded (`LastPosition`).

*Messages.* `Found` is the result with the swaps made so far undone: the messages in
the order in which the cursor met them. `FoundOK` says that they are of the range and
descend; while the loop reads, every message of the range is found or still before
the cursor, and all that is found is after it (`Progress`); when it ends, it has all
of them or as many as were asked for and none later (`Complete`). Whatever
Seek finds, the switch after it leaves the cursor at the latest key of the range or
before it (`BackKeeps`). The reversal leaves `Found` as it is, and ends when it
is the result read backwards.

*Sockets.* `ReaderOK` ties what the reader has taken of the client's messages to
what it has passed on, holds or reports, for each place it stands in; `ErrorsOK`
does so for the malformed ones on their way through the channel and the error
writer. Both are kept by the steps of the other goroutines because these only take
from the front of what the reader adds to.

*Tasks.* `Carries` says which fields a request has filled in at each of its steps,
so that a stored task is always a task; `NotesLoad` is then kept because nothing
ever deletes a text, and `StoredMembersExist` follows from the second check. `Judged`
is what Put's switch has settled when it leaves it: who is not the owner has sent
the terms that were read; `OwnerSetsTerms` follows for a task that is still the one
read. For `DeletionIsFinal`, `WritersFind` says that a Put gets as far as its Update
only if its View found the task.

For `CoinConserved` the sum over the users is a fold, and the facts about it (a sum
changes by what one of its terms changes by, and not when the terms agree) are
proved by induction over the subsets of a finite set. The library's induction
theorems take an operator, which the provers cannot instantiate; `WFMin`, which
takes a set, serves as well: a smallest counterexample would have a smaller one.
`UsersAssumption` says that the users are finitely many.

Only model-checked: the liveness properties `SurveyEnds`, `HungUpLeaves`, `Released`,
`NothingLeft`, `RemovalReturns`, `RemovalEmpties` and `ReceivedIsLogged` (fairness and
ENABLED are out of the prover's reach). Every invariant and every action property of
the passing runs is proved, and `LogIsKept`, which no run checks.
No module uses a RECURSIVE operator.

## 5. Not modelled

- Task filters and order (`task/filter.go`, `sort.go`): predicates and a
  comparison of single records, which a model would only restate. (`Not.Member`
  does not negate; nothing uses it. A query for tasks that are not overdue leaves
  out completed tasks whose due date has passed.)
- Topics and the one publisher: prefixes of bytes; a notification is a message
  that `Sockets` counts. Which changes are notified is not stored anywhere.
- The migration of old databases, the HTTP layer, JSON, password hashing and the
  admin key; listing Streams, Convos, Tasks and profiles, which changes nothing.
- Coin is an unbounded integer here and an int64 in the code, which adds to it
  without a check.
- Sockets that are never closed (Surveyors) hold no modelled state.

## 6. Plan

1. Removal with a Scribe: a deletion that meets a Convo's Scribe in mid-survey.
2. Larger instances: a third connection in `removal`.
3. The steps that the liveness properties rest on, as action properties: which
   step of a survey or a deletion brings it nearer to its end.

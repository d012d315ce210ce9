------------------------------- MODULE Tasks --------------------------------
(***************************************************************************)
(* Tasks, their notes and their bounties: package task and its handlers    *)
(* (rest/task.go), users.AddCoin and Admin.PatchProfile.                   *)
(*                                                                         *)
(* A handler reads the users and the stored task in View transactions,     *)
(* decides what the request means, and stores the outcome in one Update    *)
(* that looks at the users again, but not at the task.  A request refused  *)
(* before its Update changes nothing and is not a step, with one           *)
(* exception: Go panics when a completion asks a nil Timer for the time.   *)
(*                                                                         *)
(* Left out: task names, due dates and completion times.  They decide only *)
(* about refusals, and a client can always send the ones it was given.     *)
(***************************************************************************)
EXTENDS Integers, FiniteSets, Functions

CONSTANTS
    User,      \* user names
    TaskId,    \* the task UUIDs that can be drawn
    Note,      \* the texts of notes
    Req,       \* the requests made, each one once
    Parallel,  \* how many requests may be in service at the same time
    Body,      \* the tasks that clients send
    Grant,     \* the amounts of coin an admin adds
    None       \* no user, no task

Task == [owner : User, readers : SUBSET User, writers : SUBSET User,
         bounty : Int, completed : BOOLEAN, completedBy : User \cup {None},
         notes : SUBSET Note]

ASSUME UserAssumption  == None \notin User \cup TaskId \cup Task
ASSUME UsersAssumption == IsFiniteSet(User)
ASSUME BodyAssumption  == Body \subseteq Task
ASSUME GrantAssumption == Grant \subseteq Int
ASSUME ReqAssumption   == IsFiniteSet(Req)

VARIABLES
    timer,   \* was the Timer of the API set, as only its test does?
    users,   \* UserBucket: the users that exist
    coin,    \* their coin, 0 for the others
    supply,  \* history: the coin granted, less what deleted users took along
    task,    \* TaskBucket: the stored task of each ID, or None
    made,    \* the task IDs ever drawn
    texts,   \* TextBucket: the notes stored, keyed by task and content
    req      \* what each request is about to do

coinVars == <<timer, users, coin, supply>>
taskVars == <<task, made, texts>>
vars     == <<coinVars, taskVars, req>>

Write == {"uncompleteAsOwner", "updateAsOwner", "completeAsWriter",
          "uncompleteAsWriter", "updateAsWriter"}
Ended == {"done", "panicked"}
Pc    == Write \cup Ended \cup {"new", "create", "load", "delete"}

Request == [pc : Pc, user : User \cup {None}, id : TaskId \cup {None},
            sent : Task \cup {None}, old : Task \cup {None}]

At(pc) == [pc |-> pc, user |-> None, id |-> None, sent |-> None, old |-> None]

TypeOK ==
    /\ timer \in BOOLEAN
    /\ users \subseteq User
    /\ coin \in [User -> Int]
    /\ supply \in Int
    /\ task \in [TaskId -> Task \cup {None}]
    /\ made \subseteq TaskId
    /\ texts \subseteq TaskId \X Note
    /\ req \in [Req -> Request]

Init ==
    /\ timer \in BOOLEAN
    /\ users = User
    /\ coin = [u \in User |-> 0]
    /\ supply = 0
    /\ task = [i \in TaskId |-> None]
    /\ made = {}
    /\ texts = {}
    /\ req = [q \in Req |-> At("new")]

-----------------------------------------------------------------------------
InService == {q \in Req : req[q].pc \notin Ended \cup {"new"}}

Begin(q, r) ==
    /\ req[q].pc = "new"
    /\ Cardinality(InService) < Parallel
    /\ req' = [req EXCEPT ![q] = r]

End(q, pc) == req' = [req EXCEPT ![q] = At(pc)]

\* CheckUsersExist(allUsers...): the Owner a Put names is not among them.
MembersExist(t) == t.readers \cup t.writers \subseteq users

\* Mutant: AddCoin takes a user that does not exist for one without coin.
TransferUnchecked(from, to, bounty) ==
    coin' = [u \in User |-> coin[u] - (IF u = from THEN bounty ELSE 0)
                                    + (IF u = to THEN bounty ELSE 0)]

\* Two AddCoin mutations in one Update.  AddCoin fails for a user that does
\* not exist, and the transaction with it.
Transfer(from, to, bounty) ==
    /\ {from, to} \subseteq users
    /\ coin' = [u \in User |-> coin[u] - (IF u = from THEN bounty ELSE 0)
                                       + (IF u = to THEN bounty ELSE 0)]

\* Mutant: notes that the stored task has already are taken for deleted ones.
StoreDeletesKept(i, t) ==
    LET kept == IF task[i] = None THEN {} ELSE t.notes \cap task[i].notes
    IN  texts' = (texts \cup {<<i, n>> : n \in t.notes})
                     \ {<<i, n>> : n \in kept}

\* StoreResources, which is given old.Resources before the old task has been
\* read: it finds no old notes, stores all the new ones and deletes none.
StoreResources(i, t) == texts' = texts \cup {<<i, n>> : n \in t.notes}

\* ID.Store
Store(i, t) ==
    /\ task' = [task EXCEPT ![i] = t]
    /\ StoreResources(i, t)

-----------------------------------------------------------------------------
(* Users and coin.                                                         *)

\* Admin.PatchProfile
PatchProfile(q, u, n) ==
    /\ Begin(q, At("done"))
    /\ u \in users
    /\ coin' = [coin EXCEPT ![u] = @ + n]
    /\ supply' = supply + n
    /\ UNCHANGED <<timer, users, taskVars>>

\* users.Delete, at the end of Profile.Delete and Admin.DeleteUser.  The name
\* is never used again, and tasks are not looked at.
DeleteUser(u) ==
    /\ u \in users
    /\ users' = users \ {u}
    /\ coin' = [coin EXCEPT ![u] = 0]
    /\ supply' = supply - coin[u]
    /\ UNCHANGED <<timer, taskVars, req>>

-----------------------------------------------------------------------------
(* Task.Create and Task.Delete.                                            *)

\* A bound: an ID is left for every Create in service and one more.
IdsLeft == Cardinality({q \in Req : req[q].pc = "create"})
               < Cardinality(TaskId \ made)

\* Create up to its first look at the users.
CheckCreate(q, u, b) ==
    LET t == [b EXCEPT !.readers = @ \cup {u}, !.writers = @ \cup {u}]
    IN  /\ b.owner = u
        /\ MembersExist(t)
        /\ IdsLeft
        /\ Begin(q, [At("create") EXCEPT !.user = u, !.sent = t])
        /\ UNCHANGED <<coinVars, taskVars>>

\* Create's Update, under a fresh ID.
Create(q) ==
    /\ req[q].pc = "create"
    /\ IF MembersExist(req[q].sent)
       THEN \E i \in TaskId \ made :
                Store(i, req[q].sent) /\ made' = made \cup {i}
       ELSE UNCHANGED taskVars
    /\ End(q, "done")
    /\ UNCHANGED coinVars

\* Delete's View: only the owner may.
CheckDelete(q, u, i) ==
    /\ task[i] # None
    /\ task[i].owner = u
    /\ Begin(q, [At("delete") EXCEPT !.user = u, !.id = i])
    /\ UNCHANGED <<coinVars, taskVars>>

\* ID.Delete.  DeleteResources is given tsk.Resources before the task has
\* been read, and deletes no text.
Delete(q) ==
    /\ req[q].pc = "delete"
    /\ task' = [task EXCEPT ![req[q].id] = None]
    /\ End(q, "done")
    /\ UNCHANGED <<coinVars, made, texts>>

-----------------------------------------------------------------------------
(* Task.Put.                                                               *)

\* The sent task is amended and its members are looked up.
CheckPut(q, u, i, b) ==
    LET t == [b EXCEPT !.readers = @ \cup b.writers \cup {u},
                       !.writers = @ \cup {u}]
    IN  /\ b.owner = u \/ u \in b.writers
        /\ MembersExist(t)
        /\ Begin(q, [At("load") EXCEPT !.user = u, !.id = i, !.sent = t])
        /\ UNCHANGED <<coinVars, taskVars>>

SameGroup(s, t) ==
    s.owner = t.owner /\ s.readers = t.readers /\ s.writers = t.writers

\* Mutant: the bounty is not compared.
RefusedGroupOnly(u, old, sent) ==
    \/ sent.completed /\ old.completedBy # sent.completedBy
    \/ /\ old.owner # u
       /\ ~SameGroup(old, sent) \/ u \notin old.writers

\* The requests that Put answers with an error: bad ones, and those a user
\* who does not own the task may not make.
Refused(u, old, sent) ==
    \/ sent.completed /\ old.completedBy # sent.completedBy
    \/ /\ old.owner = u
       /\ old.completed /\ old.bounty # sent.bounty
    \/ /\ old.owner # u
       /\ \/ old.bounty # sent.bounty
          \/ ~SameGroup(old, sent)
          \/ u \notin old.writers

\* What the others amount to.  A writer who un-completes a task that somebody
\* else has completed falls through to updateAsWriter.
Meaning(u, old, sent) ==
    LET completes   == sent.completed /\ ~old.completed
        uncompletes == ~sent.completed /\ old.completed
        own         == old.owner = u
        mine        == old.completedBy = u
    IN  CASE own /\ uncompletes -> "uncompleteAsOwner"
          [] own /\ ~uncompletes -> "updateAsOwner"
          [] ~own /\ completes -> "completeAsWriter"
          [] ~own /\ uncompletes /\ mine -> "uncompleteAsWriter"
          [] ~own /\ ~completes /\ ~(uncompletes /\ mine) -> "updateAsWriter"

\* Does the request ask the Timer for the time of completion?
AsksTime(pc, old, sent) ==
    \/ pc = "completeAsWriter"
    \/ pc = "updateAsOwner" /\ sent.completed /\ ~old.completed

\* Mutant: a task that is missing is taken for a new one.
LoadUpserts(q) ==
    LET r       == req[q]
        old     == IF task[r.id] = None THEN r.sent ELSE task[r.id]
        refused == Refused(r.user, old, r.sent)
        pc      == Meaning(r.user, old, r.sent)
        panics  == AsksTime(pc, old, r.sent) /\ ~timer
    IN  /\ r.pc = "load"
        /\ \/ refused /\ End(q, "done")
           \/ ~refused /\ panics /\ End(q, "panicked")
           \/ /\ ~refused /\ ~panics
              /\ req' = [req EXCEPT ![q] = [r EXCEPT !.pc = pc, !.old = old]]
        /\ UNCHANGED <<coinVars, taskVars>>

\* Put's second View and its switch.
Load(q) ==
    LET r       == req[q]
        old     == task[r.id]
        refused == old # None => Refused(r.user, old, r.sent)
        pc      == Meaning(r.user, old, r.sent)
        panics  == AsksTime(pc, old, r.sent) /\ ~timer
    IN  /\ r.pc = "load"
        /\ \/ refused /\ End(q, "done")
           \/ ~refused /\ panics /\ End(q, "panicked")
           \/ /\ ~refused /\ ~panics
              /\ req' = [req EXCEPT ![q] = [r EXCEPT !.pc = pc, !.old = old]]
        /\ UNCHANGED <<coinVars, taskVars>>

\* The Update that a Put ends with: t is what it stores, and the bounty goes
\* from one user to another.  Everything happens or, if a user is gone,
\* nothing.
Commit(q, t, from, to, bounty) ==
    /\ \/ /\ MembersExist(t)
          /\ Transfer(from, to, bounty)
          /\ Store(req[q].id, t)
       \/ /\ ~(MembersExist(t) /\ {from, to} \subseteq users)
          /\ UNCHANGED <<coin, task, texts>>
    /\ End(q, "done")
    /\ UNCHANGED <<timer, users, supply, made>>

\* Mutant: the Update relies on the View's check of the users.
CommitTaskUnchecked(q, t) ==
    /\ Store(req[q].id, t)
    /\ End(q, "done")
    /\ UNCHANGED <<coinVars, made>>

\* The same without coin.
CommitTask(q, t) ==
    /\ \/ MembersExist(t) /\ Store(req[q].id, t)
       \/ ~MembersExist(t) /\ UNCHANGED <<task, texts>>
    /\ End(q, "done")
    /\ UNCHANGED <<coinVars, made>>

\* The completion data are stored as they were sent.
UncompleteAsOwner(q) ==
    LET r == req[q]
    IN  /\ r.pc = "uncompleteAsOwner"
        /\ Commit(q, r.sent, r.old.completedBy, r.old.owner, r.old.bounty)

\* An owner who completes the task gets no bounty.
UpdateAsOwner(q) ==
    LET r == req[q]
        t == IF r.sent.completed /\ ~r.old.completed
             THEN [r.sent EXCEPT !.completedBy = r.sent.owner] ELSE r.sent
    IN  /\ r.pc = "updateAsOwner"
        /\ CommitTask(q, t)

CompleteAsWriter(q) ==
    LET r == req[q]
    IN  /\ r.pc = "completeAsWriter"
        /\ Commit(q, [r.sent EXCEPT !.completedBy = r.user],
                  r.old.owner, r.user, r.sent.bounty)

UncompleteAsWriter(q) ==
    LET r == req[q]
    IN  /\ r.pc = "uncompleteAsWriter"
        /\ Commit(q, [r.sent EXCEPT !.completedBy = None],
                  r.user, r.old.owner, r.sent.bounty)

UpdateAsWriter(q) ==
    /\ req[q].pc = "updateAsWriter"
    /\ CommitTask(q, req[q].sent)

-----------------------------------------------------------------------------
\* No request is in service, and nobody has to make another one.
Terminating == InService = {} /\ UNCHANGED vars

PutNext(q) ==
    \/ Load(q) \/ UncompleteAsOwner(q) \/ UpdateAsOwner(q)
    \/ CompleteAsWriter(q) \/ UncompleteAsWriter(q) \/ UpdateAsWriter(q)

Next ==
    \/ \E q \in Req, u \in User :
          \/ \E n \in Grant : PatchProfile(q, u, n)
          \/ \E b \in Body : CheckCreate(q, u, b)
          \/ \E i \in TaskId : CheckDelete(q, u, i)
          \/ \E i \in TaskId, b \in Body : CheckPut(q, u, i, b)
    \/ \E q \in Req : Create(q) \/ Delete(q) \/ PutNext(q)
    \/ \E u \in User : DeleteUser(u)
    \/ Terminating

Spec == Init /\ [][Next]_vars

-----------------------------------------------------------------------------
(* Properties.                                                             *)

\* Bounties move coin, they never make or destroy it: the coin of all users is
\* what admins granted, whichever transactions fail because a user was deleted
\* between a request's check and its Update.
CoinConserved == SumFunctionOnSet(coin, users) = supply

\* Every note of a stored task is in the text bucket.  ID.Load fails on a
\* missing one, and with it the list of tasks of every member.
NotesLoad ==
    \A i \in TaskId : task[i] # None =>
        {<<i, n>> : n \in task[i].notes} \subseteq texts

\* A task is only stored with readers and writers that exist at that moment,
\* although they were looked up in an earlier transaction.
StoredMembersExist ==
    [][\A i \in TaskId : task'[i] \notin {task[i], None} =>
           task'[i].readers \cup task'[i].writers \subseteq users']_vars

\* The task was deleted, and so are the requests gone that read it before.
Gone(i) ==
    /\ i \in made /\ task[i] = None
    /\ \A q \in Req : req[q].id = i => req[q].pc \notin Write

\* A deleted task does not come back, although the Update of a Put does not look
\* for the task it writes: the View before it refuses a missing one, and only a
\* Put whose View was before the deletion brings the task back.
DeletionIsFinal == [][\A i \in TaskId : Gone(i) => Gone(i)']_vars

\* Has nobody changed the task since the request read it?
UpToDate(q) == task[req[q].id] = req[q].old

\* "Non-owners can only modify notes and completion": the bounty and the group
\* of a task change only by a request of the owner, or by one that stores the
\* terms it has read before they changed.
OwnerSetsTerms ==
    [][\A q \in Req : \A i \in TaskId :
           /\ req[q].id = i /\ req'[q] # req[q]
           /\ UpToDate(q) /\ task[i] # None /\ task'[i] # None
           /\ \/ task'[i].bounty # task[i].bounty
              \/ ~SameGroup(task[i], task'[i])
           => req[q].user = task[i].owner]_vars
=============================================================================

----------------------------- MODULE TasksProofs ----------------------------
(***************************************************************************)
(* Proofs about Tasks, for any users, tasks, notes, requests and bodies.   *)
(***************************************************************************)
EXTENDS Tasks, FiniteSetTheorems, TLAPS

\* What a request carries, by where it stands.
Carries ==
    \A q \in Req :
        /\ req[q].pc \in Write \cup {"load", "create", "delete"}
               => req[q].user \in User
        /\ req[q].pc \in Write \cup {"load", "delete"} => req[q].id \in TaskId
        /\ req[q].pc \in Write \cup {"load", "create"} => req[q].sent \in Task
        /\ req[q].pc \in Write => req[q].old \in Task

Typed == TypeOK /\ Carries

\* The Update of a Put that stores: what every one of them has in common.
Stores(q, t) ==
    /\ t \in Task
    /\ MembersExist(t)
    /\ t.bounty = req[q].sent.bounty
    /\ SameGroup(req[q].sent, t)
    /\ Store(req[q].id, t)

\* The Updates of Put.
PutWrite(q) ==
    \/ UncompleteAsOwner(q) \/ UpdateAsOwner(q) \/ CompleteAsWriter(q)
    \/ UncompleteAsWriter(q) \/ UpdateAsWriter(q)

\* Every Update of a Put ends the request and stores a task with the terms
\* that were sent, or changes neither tasks nor texts.
LEMMA PutWriteShape ==
    ASSUME Typed, NEW q \in Req, PutWrite(q)
    PROVE  /\ req[q].pc \in Write
           /\ req' = [req EXCEPT ![q] = At("done")]
           /\ UNCHANGED <<timer, users, supply, made>>
           /\ coin' \in [User -> Int]
           /\ \/ UNCHANGED <<task, texts>>
              \/ \E t \in Task : Stores(q, t)
<1> DEFINE r == req[q]
<1>1. r.pc \in Write
      BY DEF PutWrite, UncompleteAsOwner, UpdateAsOwner, CompleteAsWriter,
             UncompleteAsWriter, UpdateAsWriter, Write
<1>2. r.user \in User /\ r.id \in TaskId /\ r.sent \in Task /\ r.old \in Task
      BY <1>1 DEF Typed, Carries
<1>3. ASSUME NEW t \in Task, t.bounty = r.sent.bounty, SameGroup(r.sent, t),
             NEW f, NEW g, NEW b \in Int, Commit(q, t, f, g, b)
      PROVE  /\ req' = [req EXCEPT ![q] = At("done")]
             /\ UNCHANGED <<timer, users, supply, made>>
             /\ coin' \in [User -> Int]
             /\ \/ UNCHANGED <<task, texts>>
                \/ \E s \in Task : Stores(q, s)
      BY <1>3 DEF Commit, Transfer, Stores, End, Typed, TypeOK
<1>4. ASSUME NEW t \in Task, t.bounty = r.sent.bounty, SameGroup(r.sent, t),
             CommitTask(q, t)
      PROVE  /\ req' = [req EXCEPT ![q] = At("done")]
             /\ UNCHANGED <<timer, users, supply, made>>
             /\ coin' \in [User -> Int]
             /\ \/ UNCHANGED <<task, texts>>
                \/ \E s \in Task : Stores(q, s)
      BY <1>4 DEF CommitTask, Stores, End, coinVars, Typed, TypeOK
<1>5. ASSUME NEW u \in User \cup {None}
      PROVE  LET t == [r.sent EXCEPT !.completedBy = u]
             IN  /\ t \in Task
                 /\ t.bounty = r.sent.bounty
                 /\ SameGroup(r.sent, t)
      BY <1>2 DEF Task, SameGroup
<1>6. SameGroup(r.sent, r.sent) /\ r.sent.bounty \in Int
      /\ r.old.bounty \in Int /\ r.sent.owner \in User
      BY <1>2 DEF Task, SameGroup
<1>7. CASE UncompleteAsOwner(q)
      BY <1>1, <1>2, <1>3, <1>6, <1>7 DEF UncompleteAsOwner
<1>8. CASE UpdateAsOwner(q)
      BY <1>1, <1>2, <1>4, <1>5, <1>6, <1>8 DEF UpdateAsOwner
<1>9. CASE CompleteAsWriter(q)
      BY <1>1, <1>2, <1>3, <1>5, <1>6, <1>9 DEF CompleteAsWriter
<1>10. CASE UncompleteAsWriter(q)
      BY <1>1, <1>2, <1>3, <1>5, <1>6, <1>10 DEF UncompleteAsWriter
<1>11. CASE UpdateAsWriter(q)
      BY <1>1, <1>2, <1>4, <1>6, <1>11 DEF UpdateAsWriter
<1>12. QED
      BY <1>7, <1>8, <1>9, <1>10, <1>11 DEF PutWrite

\* A request that has ended or not begun carries nothing.
LEMMA AtIsRequest ==
    \A pc \in Pc : At(pc) \in Request /\ At(pc).pc = pc
BY DEF At, Request

\* Nothing has happened at first.
LEMMA InitTyped == Init => Typed
<1> SUFFICES ASSUME Init
             PROVE  Typed
    OBVIOUS
<1>1. \A q \in Req : req[q] \in Request /\ req[q].pc = "new"
      BY AtIsRequest DEF Init, Pc
<1>2. req \in [Req -> Request]
      BY <1>1 DEF Init
<1>3. QED  BY <1>1, <1>2 DEF Init, Typed, TypeOK, Carries, Write

\* A step of one request leaves the others, and what they carry, alone.
LEMMA OneRequest ==
    ASSUME Typed, NEW q \in Req, NEW r \in Request,
           req' = [req EXCEPT ![q] = r],
           r.pc \in Write \cup {"load", "create", "delete"} => r.user \in User,
           r.pc \in Write \cup {"load", "delete"} => r.id \in TaskId,
           r.pc \in Write \cup {"load", "create"} => r.sent \in Task,
           r.pc \in Write => r.old \in Task
    PROVE  Carries' /\ req' \in [Req -> Request]
BY DEF Typed, TypeOK, Carries

\* Every step keeps the types.
LEMMA NextTyped == Typed /\ [Next]_vars => Typed'
<1> SUFFICES ASSUME Typed, [Next]_vars
             PROVE  Typed'
    OBVIOUS
<1>0. /\ timer \in BOOLEAN
      /\ users \subseteq User
      /\ coin \in [User -> Int]
      /\ supply \in Int
      /\ task \in [TaskId -> Task \cup {None}]
      /\ made \subseteq TaskId
      /\ texts \subseteq TaskId \X Note
      /\ req \in [Req -> Request]
      BY DEF Typed, TypeOK
<1>1. ASSUME NEW q \in Req, req' = [req EXCEPT ![q] = At("done")]
      PROVE  Carries' /\ req' \in [Req -> Request]
      BY <1>1, OneRequest, AtIsRequest DEF Pc, Ended, Write
<1>2. ASSUME NEW q \in Req, req' = [req EXCEPT ![q] = At("panicked")]
      PROVE  Carries' /\ req' \in [Req -> Request]
      BY <1>2, OneRequest, AtIsRequest DEF Pc, Ended, Write
<1>3. ASSUME NEW i \in TaskId, NEW t \in Task, Store(i, t)
      PROVE  /\ task' \in [TaskId -> Task \cup {None}]
             /\ texts' \subseteq TaskId \X Note
      BY <1>0, <1>3 DEF Store, StoreResources, Task
<1>4. ASSUME NEW q \in Req, NEW u \in User, NEW n \in Grant,
             PatchProfile(q, u, n)
      PROVE  Typed'
  <2>1. Carries' /\ req' \in [Req -> Request]
    <3>1. req' = [req EXCEPT ![q] = At("done")]
          BY <1>4 DEF PatchProfile, Begin
    <3>2. QED  BY <1>1, <3>1
  <2>2. /\ coin' \in [User -> Int]
        /\ supply' \in Int
    <3>1. n \in Int
          BY GrantAssumption
    <3>2. /\ coin' = [coin EXCEPT ![u] = coin[u] + n]
          /\ supply' = supply + n
          BY <1>4 DEF PatchProfile
    <3>3. QED  BY <1>0, <3>1, <3>2
  <2>3. /\ timer' = timer /\ users' = users
        /\ task' = task /\ made' = made /\ texts' = texts
        BY <1>4 DEF PatchProfile, taskVars
  <2>4. QED  BY <1>0, <2>1, <2>2, <2>3 DEF Typed, TypeOK
<1>5. ASSUME NEW q \in Req, NEW u \in User, NEW b \in Body,
             CheckCreate(q, u, b)
      PROVE  Typed'
  <2> DEFINE t == [b EXCEPT !.readers = @ \cup {u}, !.writers = @ \cup {u}]
             r == [At("create") EXCEPT !.user = u, !.sent = t]
  <2>1. t \in Task
        BY BodyAssumption DEF Task
  <2>2. r \in Request /\ r.pc = "create" /\ r.user = u /\ r.sent = t
        BY <2>1 DEF At, Request, Pc
  <2>3. req' = [req EXCEPT ![q] = r]
        BY <1>5 DEF CheckCreate, Begin
  <2> HIDE DEF t, r
  <2>4. Carries' /\ req' \in [Req -> Request]
        BY <2>1, <2>2, <2>3, OneRequest DEF Write
  <2>5. QED  BY <1>0, <1>5, <2>4
             DEF CheckCreate, coinVars, taskVars, Typed, TypeOK
<1>6. ASSUME NEW q \in Req, Create(q)
      PROVE  Typed'
  <2>1. req[q].sent \in Task
        BY <1>6 DEF Create, Typed, Carries
  <2>2. Carries' /\ req' \in [Req -> Request]
        BY <1>1, <1>6 DEF Create, End
  <2>3. /\ task' \in [TaskId -> Task \cup {None}]
        /\ texts' \subseteq TaskId \X Note
        /\ made' \subseteq TaskId
    <3>1. CASE MembersExist(req[q].sent)
          BY <1>0, <1>3, <1>6, <2>1, <3>1 DEF Create
    <3>2. CASE ~MembersExist(req[q].sent)
          BY <1>0, <1>6, <3>2 DEF Create, taskVars
    <3>3. QED  BY <3>1, <3>2
  <2>4. QED  BY <1>0, <1>6, <2>2, <2>3 DEF Create, coinVars, Typed, TypeOK
<1>7. ASSUME NEW q \in Req, NEW u \in User, NEW i \in TaskId,
             CheckDelete(q, u, i)
      PROVE  Typed'
  <2> DEFINE r == [At("delete") EXCEPT !.user = u, !.id = i]
  <2>1. r \in Request /\ r.pc = "delete" /\ r.user = u /\ r.id = i
        BY DEF At, Request, Pc
  <2>2. req' = [req EXCEPT ![q] = r]
        BY <1>7 DEF CheckDelete, Begin
  <2> HIDE DEF r
  <2>3. Carries' /\ req' \in [Req -> Request]
        BY <2>1, <2>2, OneRequest DEF Write
  <2>4. QED  BY <1>0, <1>7, <2>3
             DEF CheckDelete, coinVars, taskVars, Typed, TypeOK
<1>8. ASSUME NEW q \in Req, Delete(q)
      PROVE  Typed'
  <2>1. Carries' /\ req' \in [Req -> Request]
        BY <1>1, <1>8 DEF Delete, End
  <2>2. QED  BY <1>0, <1>8, <2>1 DEF Delete, coinVars, Typed, TypeOK
<1>9. ASSUME NEW q \in Req, NEW u \in User, NEW i \in TaskId, NEW b \in Body,
             CheckPut(q, u, i, b)
      PROVE  Typed'
  <2> DEFINE t == [b EXCEPT !.readers = @ \cup b.writers \cup {u},
                            !.writers = @ \cup {u}]
             r == [At("load") EXCEPT !.user = u, !.id = i, !.sent = t]
  <2>1. t \in Task
        BY BodyAssumption DEF Task
  <2>2. r \in Request /\ r.pc = "load" /\ r.user = u /\ r.sent = t /\ r.id = i
        BY <2>1 DEF At, Request, Pc
  <2>3. req' = [req EXCEPT ![q] = r]
        BY <1>9 DEF CheckPut, Begin
  <2> HIDE DEF t, r
  <2>4. Carries' /\ req' \in [Req -> Request]
        BY <2>1, <2>2, <2>3, OneRequest DEF Write
  <2>5. QED  BY <1>0, <1>9, <2>4
             DEF CheckPut, coinVars, taskVars, Typed, TypeOK
<1>10. ASSUME NEW q \in Req, Load(q)
       PROVE  Typed'
  <2> DEFINE old == task[req[q].id]
             pc  == Meaning(req[q].user, old, req[q].sent)
             r   == [req[q] EXCEPT !.pc = pc, !.old = old]
  <2>1. /\ req[q] \in Request
        /\ req[q].user \in User
        /\ req[q].id \in TaskId
        /\ req[q].sent \in Task
        BY <1>0, <1>10 DEF Load, Typed, Carries
  <2>2. CASE req' = [req EXCEPT ![q] = r] /\ old # None
    <3>1. old \in Task
          BY <1>0, <2>1, <2>2
    <3>2. pc \in Write
          BY <2>1, <3>1 DEF Meaning, Write, Task
    <3>3. r \in Request /\ r.pc = pc /\ r.user = req[q].user
          /\ r.id = req[q].id /\ r.sent = req[q].sent /\ r.old = old
          BY <2>1, <3>1, <3>2 DEF Request, Pc
    <3> HIDE DEF r, pc, old
    <3>4. Carries' /\ req' \in [Req -> Request]
          BY <2>1, <2>2, <3>1, <3>2, <3>3, OneRequest
    <3>5. QED  BY <1>0, <1>10, <3>4
               DEF Load, coinVars, taskVars, Typed, TypeOK
  <2>3. CASE \/ req' = [req EXCEPT ![q] = At("done")]
             \/ req' = [req EXCEPT ![q] = At("panicked")]
        BY <1>0, <1>1, <1>2, <1>10, <2>3
        DEF Load, coinVars, taskVars, Typed, TypeOK
  <2>4. QED  BY <1>10, <2>2, <2>3 DEF Load, End
<1>11. ASSUME NEW q \in Req, PutWrite(q)
       PROVE  Typed'
  <2>1. /\ req[q].pc \in Write
        /\ req' = [req EXCEPT ![q] = At("done")]
        /\ UNCHANGED <<timer, users, supply, made>>
        /\ coin' \in [User -> Int]
        /\ \/ UNCHANGED <<task, texts>>
           \/ \E t \in Task : Stores(q, t)
        BY <1>11, PutWriteShape
  <2>2. req[q].id \in TaskId
        BY <2>1 DEF Typed, Carries
  <2>3. /\ task' \in [TaskId -> Task \cup {None}]
        /\ texts' \subseteq TaskId \X Note
        BY <1>0, <1>3, <2>1, <2>2 DEF Stores
  <2>4. QED  BY <1>0, <1>1, <2>1, <2>3 DEF Typed, TypeOK
<1>12. ASSUME NEW u \in User, DeleteUser(u)
       PROVE  Typed'
       BY <1>0, <1>12 DEF DeleteUser, taskVars, Typed, TypeOK, Carries
<1>13. CASE UNCHANGED vars
       BY <1>13 DEF vars, coinVars, taskVars, Typed, TypeOK, Carries
<1>14. QED
       BY <1>4, <1>5, <1>6, <1>7, <1>8, <1>9, <1>10, <1>11, <1>12, <1>13
       DEF Next, PutNext, PutWrite, Terminating

\* Tasks, users, coin and requests keep their types.
THEOREM TypeCorrect == Spec => []TypeOK
<1>1. Spec => []Typed
      BY InitTyped, NextTyped, PTL DEF Spec
<1>2. Typed => TypeOK
      BY DEF Typed
<1>3. QED  BY <1>1, <1>2, PTL

\* What a step does to the tasks: nothing, or it stores one whose members
\* exist, under a fresh ID (Create) or in a Put, or it deletes one.
LEMMA TaskSteps ==
    ASSUME Typed, [Next]_vars
    PROVE  \/ UNCHANGED <<task, texts, made>>
           \/ \E q \in Req, i \in TaskId \ made :
                 /\ req[q].pc = "create"
                 /\ req' = [req EXCEPT ![q] = At("done")]
                 /\ req[q].sent \in Task
                 /\ MembersExist(req[q].sent)
                 /\ UNCHANGED users
                 /\ Store(i, req[q].sent)
                 /\ made' = made \cup {i}
           \/ \E q \in Req :
                 /\ req[q].pc = "delete"
                 /\ req' = [req EXCEPT ![q] = At("done")]
                 /\ task' = [task EXCEPT ![req[q].id] = None]
                 /\ UNCHANGED <<texts, made>>
           \/ \E q \in Req :
                 /\ PutWrite(q)
                 /\ \E t \in Task : Stores(q, t)
                 /\ UNCHANGED <<users, made>>
<1>1. ASSUME NEW q \in Req, Create(q)
      PROVE  req[q].sent \in Task
      BY <1>1 DEF Create, Typed, Carries
<1>2. ASSUME NEW q \in Req, PutWrite(q)
      PROVE  /\ UNCHANGED <<users, made>>
             /\ UNCHANGED <<task, texts>> \/ \E t \in Task : Stores(q, t)
      BY <1>2, PutWriteShape
<1>3. CASE \E q \in Req : Create(q)
      BY <1>1, <1>3 DEF Create, End, taskVars, coinVars
<1>4. CASE \E q \in Req : Delete(q)
      BY <1>4 DEF Delete, End
<1>5. CASE \E q \in Req : PutWrite(q)
      BY <1>2, <1>5
<1>6. CASE UNCHANGED taskVars
      BY <1>6 DEF taskVars
<1>7. QED
      BY <1>3, <1>4, <1>5, <1>6
      DEF Next, PutNext, PutWrite, PatchProfile, CheckCreate, CheckDelete,
          CheckPut, Load, DeleteUser, Terminating, vars

\* ID.Load finds every note of every stored task, whatever was stored and
\* deleted before: StoreResources stores all of them and nothing deletes one.
THEOREM NotesAlwaysLoad == Spec => []NotesLoad
<1>1. Init => NotesLoad
      BY DEF Init, NotesLoad
<1>2. Typed /\ NotesLoad /\ [Next]_vars => NotesLoad'
  <2> SUFFICES ASSUME Typed, NotesLoad, [Next]_vars
               PROVE  NotesLoad'
      OBVIOUS
  <2>1. ASSUME NEW i \in TaskId, NEW t \in Task, Store(i, t)
        PROVE  NotesLoad'
        BY <2>1 DEF Store, StoreResources, NotesLoad, Typed, TypeOK
  <2>2. \A q \in Req : req[q].pc \in Write => req[q].id \in TaskId
        BY DEF Typed, Carries
  <2>3. \A q \in Req : PutWrite(q) => req[q].pc \in Write
        BY PutWriteShape
  <2>4. CASE UNCHANGED <<task, texts, made>>
        BY <2>4 DEF NotesLoad
  <2>5. CASE \E q \in Req : /\ task' = [task EXCEPT ![req[q].id] = None]
                            /\ UNCHANGED <<texts, made>>
        BY <2>5 DEF NotesLoad, Typed, TypeOK
  <2>6. QED  BY TaskSteps, <2>1, <2>2, <2>3, <2>4, <2>5 DEF Stores
<1>3. QED  BY <1>1, <1>2, InitTyped, NextTyped, PTL DEF Spec

\* Create and Put store a task only with members that exist in the same
\* transaction.
THEOREM MembersStored == Spec => StoredMembersExist
<1> DEFINE A == \A i \in TaskId : task'[i] \notin {task[i], None} =>
                   task'[i].readers \cup task'[i].writers \subseteq users'
<1>1. Typed /\ [Next]_vars => A
  <2> SUFFICES ASSUME Typed, [Next]_vars
               PROVE  A
      OBVIOUS
  <2>1. ASSUME NEW i, NEW t \in Task, MembersExist(t), Store(i, t),
               UNCHANGED users
        PROVE  A
        BY <2>1 DEF Store, MembersExist, Typed, TypeOK
  <2>2. CASE UNCHANGED <<task, texts, made>>
        BY <2>2
  <2>3. CASE \E q \in Req : task' = [task EXCEPT ![req[q].id] = None]
        BY <2>3 DEF Typed, TypeOK
  <2>4. QED  BY TaskSteps, <2>1, <2>2, <2>3 DEF Stores
<1>2. QED  BY <1>1, InitTyped, NextTyped, PTL DEF Spec, StoredMembersExist

\* A request comes to write a task only by Put's second View, which finds it.
LEMMA WritersFind ==
    ASSUME Typed, [Next]_vars, NEW q \in Req, req'[q].pc \in Write
    PROVE  \/ req'[q] = req[q]
           \/ req'[q].id = req[q].id /\ task[req[q].id] # None
<1>1. ASSUME NEW p \in Req, NEW r, req' = [req EXCEPT ![p] = r], r.pc \notin Write
      PROVE  req'[q] = req[q]
      BY <1>1 DEF Typed, TypeOK
<1>2. ASSUME NEW p \in Req, NEW pc \in Ended \cup {"new"},
             req' = [req EXCEPT ![p] = At(pc)]
      PROVE  req'[q] = req[q]
  <2>1. At(pc).pc \notin Write
        BY <1>2 DEF At, Ended, Write
  <2>2. QED  BY <1>1, <1>2, <2>1
<1>3. ASSUME NEW p \in Req, NEW u \in User, NEW b \in Body, CheckCreate(p, u, b)
      PROVE  req'[q] = req[q]
  <2> DEFINE t == [b EXCEPT !.readers = @ \cup {u}, !.writers = @ \cup {u}]
             r == [At("create") EXCEPT !.user = u, !.sent = t]
  <2>1. r.pc \notin Write
        BY DEF At, Write
  <2>2. req' = [req EXCEPT ![p] = r]
        BY <1>3 DEF CheckCreate, Begin
  <2>3. QED  BY <1>1, <2>1, <2>2
<1>4. ASSUME NEW p \in Req, NEW u \in User, NEW i \in TaskId, CheckDelete(p, u, i)
      PROVE  req'[q] = req[q]
  <2> DEFINE r == [At("delete") EXCEPT !.user = u, !.id = i]
  <2>1. r.pc \notin Write
        BY DEF At, Write
  <2>2. req' = [req EXCEPT ![p] = r]
        BY <1>4 DEF CheckDelete, Begin
  <2>3. QED  BY <1>1, <2>1, <2>2
<1>5. ASSUME NEW p \in Req, NEW u \in User, NEW i \in TaskId, NEW b \in Body,
             CheckPut(p, u, i, b)
      PROVE  req'[q] = req[q]
  <2> DEFINE t == [b EXCEPT !.readers = @ \cup b.writers \cup {u},
                            !.writers = @ \cup {u}]
             r == [At("load") EXCEPT !.user = u, !.id = i, !.sent = t]
  <2>1. r.pc \notin Write
        BY DEF At, Write
  <2>2. req' = [req EXCEPT ![p] = r]
        BY <1>5 DEF CheckPut, Begin
  <2>3. QED  BY <1>1, <2>1, <2>2
<1>6. ASSUME NEW p \in Req, Load(p)
      PROVE  \/ req'[q] = req[q]
             \/ req'[q].id = req[q].id /\ task[req[q].id] # None
  <2> DEFINE old == task[req[p].id]
             pc  == Meaning(req[p].user, old, req[p].sent)
             r   == [req[p] EXCEPT !.pc = pc, !.old = old]
  <2>1. \/ req' = [req EXCEPT ![p] = r] /\ old # None
        \/ req' = [req EXCEPT ![p] = At("done")]
        \/ req' = [req EXCEPT ![p] = At("panicked")]
        BY <1>6 DEF Load, End
  <2>2. r.id = req[p].id
        BY DEF Typed, TypeOK, Request
  <2> HIDE DEF r
  <2>3. QED  BY <1>2, <2>1, <2>2 DEF Ended, Typed, TypeOK
<1>7. ASSUME NEW p \in Req, PutWrite(p)
      PROVE  req'[q] = req[q]
      BY <1>2, <1>7, PutWriteShape DEF Ended
<1>8. ASSUME NEW p \in Req, Create(p) \/ Delete(p)
      PROVE  req'[q] = req[q]
      BY <1>2, <1>8 DEF Create, Delete, End, Ended
<1>9. ASSUME NEW p \in Req, NEW u \in User, NEW n \in Grant, PatchProfile(p, u, n)
      PROVE  req'[q] = req[q]
      BY <1>2, <1>9 DEF PatchProfile, Begin, Ended
<1>10. QED
      BY <1>3, <1>4, <1>5, <1>6, <1>7, <1>8, <1>9
      DEF Next, PutNext, PutWrite, DeleteUser, Terminating, vars

\* A task that was deleted stays deleted when no Put is left that read it: a
\* later Put does not find it, and Create draws a new ID.
THEOREM DeletedTasksStay == Spec => DeletionIsFinal
<1> DEFINE A == \A i \in TaskId : Gone(i) => Gone(i)'
<1>1. Typed /\ [Next]_vars => A
  <2> SUFFICES ASSUME Typed, [Next]_vars, NEW i \in TaskId, Gone(i)
               PROVE  Gone(i)'
      OBVIOUS
  <2>1. \A q \in Req : req'[q].id = i => req'[q].pc \notin Write
    <3> SUFFICES ASSUME NEW q \in Req, req'[q].id = i, req'[q].pc \in Write
                 PROVE  FALSE
        OBVIOUS
    <3>1. req'[q] = req[q] \/ (req[q].id = i /\ task[i] # None)
          BY WritersFind
    <3>2. QED  BY <3>1 DEF Gone
  <2>2. i \in made' /\ task'[i] = None
    <3>1. \A q \in Req : PutWrite(q) => req[q].id # i
          BY PutWriteShape DEF Gone
    <3>2. ASSUME NEW j, NEW t, j # i, Store(j, t)
          PROVE  task'[i] = None
          BY <3>2 DEF Store, Gone, Typed, TypeOK
    <3>3. ASSUME NEW q \in Req, task' = [task EXCEPT ![req[q].id] = None]
          PROVE  task'[i] = None
          BY <3>3 DEF Gone, Typed, TypeOK
    <3>4. QED  BY TaskSteps, <3>1, <3>2, <3>3 DEF Gone, Stores
  <2>3. QED  BY <2>1, <2>2 DEF Gone
<1>2. QED  BY <1>1, InitTyped, NextTyped, PTL DEF Spec, DeletionIsFinal

-----------------------------------------------------------------------------
\* What Put's switch has settled before the Update: a user who is not the owner
\* sent the terms that were read.
Judged ==
    \A q \in Req :
        /\ req[q].pc = "create" => req[q].id = None
        /\ req[q].pc \in Write /\ req[q].user # req[q].old.owner =>
               /\ req[q].old.bounty = req[q].sent.bounty
               /\ SameGroup(req[q].old, req[q].sent)

\* Nothing but a request's own step changes what was settled for it.
LEMMA JudgedKept == Typed /\ Judged /\ [Next]_vars => Judged'
<1> SUFFICES ASSUME Typed, Judged, [Next]_vars
             PROVE  Judged'
    OBVIOUS
<1>1. ASSUME NEW q \in Req, NEW r, req' = [req EXCEPT ![q] = r],
             r.pc \notin Write \cup {"create"}
      PROVE  Judged'
  <2>1. r.pc # "create" /\ r.pc \notin Write
        BY <1>1 DEF Write
  <2>2. req'[q] = r /\ \A p \in Req \ {q} : req'[p] = req[p]
        BY <1>1 DEF Typed, TypeOK
  <2>3. QED  BY <2>1, <2>2 DEF Judged
<1>2. ASSUME NEW q \in Req, NEW pc, req' = [req EXCEPT ![q] = At(pc)],
             pc \in Ended
      PROVE  Judged'
  <2>1. At(pc).pc = pc /\ pc \notin Write \cup {"create"}
        BY <1>2 DEF At, Ended, Write
  <2>2. QED  BY <1>1, <1>2, <2>1
<1>3. ASSUME NEW q \in Req, NEW u \in User, NEW b \in Body,
             CheckCreate(q, u, b)
      PROVE  Judged'
  <2> DEFINE t == [b EXCEPT !.readers = @ \cup {u}, !.writers = @ \cup {u}]
             r == [At("create") EXCEPT !.user = u, !.sent = t]
  <2>1. r.pc = "create" /\ r.id = None
        BY DEF At
  <2>2. req' = [req EXCEPT ![q] = r]
        BY <1>3 DEF CheckCreate, Begin
  <2> HIDE DEF r
  <2>3. req'[q] = r /\ \A p \in Req \ {q} : req'[p] = req[p]
        BY <2>2 DEF Typed, TypeOK
  <2>4. QED  BY <2>1, <2>3 DEF Judged, Write
<1>4. ASSUME NEW q \in Req, NEW u \in User, NEW i \in TaskId,
             CheckDelete(q, u, i)
      PROVE  Judged'
  <2> DEFINE r == [At("delete") EXCEPT !.user = u, !.id = i]
  <2>1. r.pc \notin Write \cup {"create"}
        BY DEF At, Write
  <2>2. req' = [req EXCEPT ![q] = r]
        BY <1>4 DEF CheckDelete, Begin
  <2>3. QED  BY <1>1, <2>1, <2>2
<1>5. ASSUME NEW q \in Req, NEW u \in User, NEW i \in TaskId, NEW b \in Body,
             CheckPut(q, u, i, b)
      PROVE  Judged'
  <2> DEFINE t == [b EXCEPT !.readers = @ \cup b.writers \cup {u},
                            !.writers = @ \cup {u}]
             r == [At("load") EXCEPT !.user = u, !.id = i, !.sent = t]
  <2>1. r.pc \notin Write \cup {"create"}
        BY DEF At, Write
  <2>2. req' = [req EXCEPT ![q] = r]
        BY <1>5 DEF CheckPut, Begin
  <2>3. QED  BY <1>1, <2>1, <2>2
<1>6. ASSUME NEW q \in Req, Load(q)
      PROVE  Judged'
  <2> DEFINE old == task[req[q].id]
             pc  == Meaning(req[q].user, old, req[q].sent)
             r   == [req[q] EXCEPT !.pc = pc, !.old = old]
  <2>1. /\ req[q] \in Request
        /\ req[q].user \in User
        /\ req[q].id \in TaskId
        /\ req[q].sent \in Task
        BY <1>6 DEF Load, Typed, TypeOK, Carries
  <2>2. CASE /\ req' = [req EXCEPT ![q] = r]
             /\ old # None
             /\ ~Refused(req[q].user, old, req[q].sent)
    <3>1. old \in Task
          BY <2>1, <2>2 DEF Typed, TypeOK
    <3>2. pc # "create"
          BY <2>1, <3>1 DEF Meaning, Task
    <3>3. req[q].user # old.owner =>
              /\ old.bounty = req[q].sent.bounty
              /\ SameGroup(old, req[q].sent)
          BY <2>2 DEF Refused
    <3>4. /\ r.pc = pc /\ r.user = req[q].user
          /\ r.sent = req[q].sent /\ r.old = old
          BY <2>1 DEF Request
    <3> HIDE DEF r, pc, old
    <3>5. req'[q] = r /\ \A p \in Req \ {q} : req'[p] = req[p]
          BY <2>2 DEF Typed, TypeOK
    <3>6. QED  BY <3>2, <3>3, <3>4, <3>5 DEF Judged
  <2>3. CASE \/ req' = [req EXCEPT ![q] = At("done")]
             \/ req' = [req EXCEPT ![q] = At("panicked")]
        BY <1>2, <2>3 DEF Ended
  <2>4. QED  BY <1>6, <2>2, <2>3 DEF Load, End
<1>7. ASSUME NEW q \in Req, req' = [req EXCEPT ![q] = At("done")]
      PROVE  Judged'
      BY <1>2, <1>7 DEF Ended
<1>8. ASSUME NEW q \in Req, PutWrite(q)
      PROVE  Judged'
      BY <1>7, <1>8, PutWriteShape
<1>9. CASE UNCHANGED req
      BY <1>9 DEF Judged
<1>10. QED
      BY <1>3, <1>4, <1>5, <1>6, <1>7, <1>8, <1>9
      DEF Next, PutNext, PutWrite, PatchProfile, Begin, Create, Delete, End,
          DeleteUser, Terminating, vars

\* At first nothing is settled.
LEMMA JudgedInit == Init => Judged
<1> SUFFICES ASSUME Init
             PROVE  Judged
    OBVIOUS
<1>1. \A q \in Req : req[q].pc = "new"
      BY AtIsRequest DEF Init, Pc
<1>2. QED  BY <1>1 DEF Judged, Write

\* The terms of a task change only by a request of its owner, or by one that
\* stores terms it read before they changed.
THEOREM TermsAreTheOwners == Spec => OwnerSetsTerms
<1> DEFINE A == \A q \in Req : \A i \in TaskId :
                   /\ req[q].id = i /\ req'[q] # req[q]
                   /\ UpToDate(q) /\ task[i] # None /\ task'[i] # None
                   /\ \/ task'[i].bounty # task[i].bounty
                      \/ ~SameGroup(task[i], task'[i])
                   => req[q].user = task[i].owner
<1>1. Typed /\ Judged /\ [Next]_vars => A
  <2> SUFFICES ASSUME Typed, Judged, [Next]_vars,
                      NEW q \in Req, NEW i \in TaskId,
                      req[q].id = i, req'[q] # req[q],
                      task[i] = req[q].old, task'[i] # None,
                      \/ task'[i].bounty # task[i].bounty
                      \/ ~SameGroup(task[i], task'[i])
               PROVE  req[q].user = task[i].owner
      BY DEF UpToDate
  <2>1. ASSUME NEW p \in Req, NEW r, req' = [req EXCEPT ![p] = r]
        PROVE  p = q
        BY <2>1 DEF Typed, TypeOK
  <2>2. CASE task' = task
        BY <2>2 DEF SameGroup
  <2>3. ASSUME NEW p \in Req, req[p].pc = "create",
               req' = [req EXCEPT ![p] = At("done")]
        PROVE  FALSE
        BY <2>1, <2>3, UserAssumption DEF Judged
  <2>4. ASSUME NEW p \in Req, req' = [req EXCEPT ![p] = At("done")],
               task' = [task EXCEPT ![req[p].id] = None]
        PROVE  FALSE
        BY <2>1, <2>4 DEF Typed, TypeOK
  <2>5. ASSUME NEW p \in Req, PutWrite(p), NEW t \in Task, Stores(p, t)
        PROVE  req[q].user = task[i].owner
    <3>1. p = q /\ req[q].pc \in Write
          BY <2>1, <2>5, PutWriteShape
    <3>2. task'[i] = t
          BY <2>5, <3>1 DEF Stores, Store, Typed, TypeOK
    <3>3. t.bounty = req[q].sent.bounty /\ SameGroup(req[q].sent, t)
          BY <2>5, <3>1 DEF Stores
    <3>4. QED  BY <3>1, <3>2, <3>3 DEF Judged, SameGroup
  <2>6. QED  BY TaskSteps, <2>2, <2>3, <2>4, <2>5
<1>2. QED  BY <1>1, InitTyped, NextTyped, JudgedInit, JudgedKept, PTL
           DEF Spec, OwnerSetsTerms

-----------------------------------------------------------------------------
(* Sums of functions over finite sets.                                     *)

\* Induction over the subsets of a finite set, with a set in place of a
\* predicate: a smallest subset that is not in W cannot exist.
LEMMA SubsetInduction ==
    ASSUME NEW S, IsFiniteSet(S), NEW W,
           \A T \in SUBSET S :
               (\A U \in SUBSET T : U # T => U \in W) => T \in W
    PROVE  S \in W
<1> DEFINE Out == {T \in FiniteSubsetsOf(S) : T \notin W}
<1>1. FiniteSubsetsOf(S) = SUBSET S
      BY FS_FiniteSubsetsOfFinite
<1>2. ASSUME Out # {}
      PROVE  FALSE
  <2>1. PICK T \in Out : \A U \in Out : <<U, T>> \notin StrictSubsetOrdering(S)
    <3>1. IsWellFoundedOn(StrictSubsetOrdering(S), FiniteSubsetsOf(S))
          BY FS_StrictSubsetOrderingWellFounded
    <3>2. Out \subseteq FiniteSubsetsOf(S)
          OBVIOUS
    <3> HIDE DEF Out
    <3>3. QED  BY <1>2, <3>1, <3>2, WFMin
  <2>2. ASSUME NEW U \in SUBSET T, U # T
        PROVE  U \in W
    <3>1. <<U, T>> \in StrictSubsetOrdering(S)
          BY <1>1, <2>2 DEF StrictSubsetOrdering
    <3>2. QED  BY <1>1, <2>1, <3>1
  <2>3. QED  BY <1>1, <2>2
<1>3. QED  BY <1>1, <1>2

\* The element that a sum adds first, and the function that it is read from: g
\* gives the sum of f over every subset of S.
Pick(s) == CHOOSE x \in s : TRUE

Sums(f, S, g) ==
    g = [s \in SUBSET S |->
            IF s = {} THEN 0 ELSE f[Pick(s)] + g[s \ {Pick(s)}]]

LEMMA SumIsRead ==
    ASSUME NEW f, NEW S
    PROVE  SumFunctionOnSet(f, S) = (CHOOSE g : Sums(f, S, g))[S]
BY DEF SumFunctionOnSet, FoldFunctionOnSet, MapThenFoldSet, Sums, Pick

\* Sums over different sets agree on their common subsets.
LEMMA SumsAgree ==
    ASSUME NEW f, NEW S, NEW T, NEW g, NEW h, Sums(f, S, g), Sums(f, T, h),
           NEW u \in SUBSET (S \cap T), IsFiniteSet(u)
    PROVE  g[u] = h[u]
<1> DEFINE W == {s \in SUBSET (S \cap T) : g[s] = h[s]}
<1>1. ASSUME NEW s \in SUBSET u, \A r \in SUBSET s : r # s => r \in W
      PROVE  s \in W
  <2>1. CASE s = {}
        BY <2>1 DEF Sums
  <2>2. CASE s # {}
    <3>1. Pick(s) \in s
          BY <2>2 DEF Pick
    <3>2. s \ {Pick(s)} \in W
          BY <1>1, <3>1
    <3>3. /\ g[s] = f[Pick(s)] + g[s \ {Pick(s)}]
          /\ h[s] = f[Pick(s)] + h[s \ {Pick(s)}]
          BY <2>2 DEF Sums
    <3>4. QED  BY <3>2, <3>3
  <2>3. QED  BY <2>1, <2>2
<1>2. u \in W
  <2> HIDE DEF W
  <2> QED  BY <1>1, SubsetInduction
<1>3. QED  BY <1>2

\* Such a function exists.
LEMMA SumsExist ==
    ASSUME NEW f, NEW S, IsFiniteSet(S)
    PROVE  \E g : Sums(f, S, g)
<1> DEFINE W == {T \in SUBSET S : \E g : Sums(f, T, g)}
           h(T) == (CHOOSE g : Sums(f, T, g))[T]
<1>1. ASSUME NEW T \in SUBSET S, \A U \in SUBSET T : U # T => U \in W
      PROVE  T \in W
  <2> DEFINE g == [s \in SUBSET T |->
                     IF s = {} THEN 0 ELSE f[Pick(s)] + h(s \ {Pick(s)})]
  <2>1. \A U \in SUBSET T : U # T => Sums(f, U, CHOOSE k : Sums(f, U, k))
        BY <1>1
  <2>2. ASSUME NEW u \in SUBSET T, u # T
        PROVE  g[u] = h(u)
    <3> DEFINE k == CHOOSE j : Sums(f, u, j)
    <3>1. Sums(f, u, k)
          BY <2>1, <2>2
    <3>2. k[u] = IF u = {} THEN 0 ELSE f[Pick(u)] + k[u \ {Pick(u)}]
      <4> HIDE DEF k
      <4> QED  BY <3>1 DEF Sums
    <3>3. CASE u = {}
          BY <3>2, <3>3
    <3>4. CASE u # {}
      <4> DEFINE v == u \ {Pick(u)}
                 m == CHOOSE j : Sums(f, v, j)
      <4>1. v \in SUBSET u /\ v \in SUBSET T /\ v # T /\ IsFiniteSet(v)
            BY <2>2, FS_Subset
      <4>2. Sums(f, v, m)
            BY <2>1, <4>1
      <4>3. k[v] = m[v]
        <5> HIDE DEF k, m, v
        <5> QED  BY <3>1, <4>1, <4>2, SumsAgree
      <4>4. QED  BY <3>2, <3>4, <4>3
    <3>5. QED  BY <3>3, <3>4
  <2>3. \A s \in SUBSET T : s # {} => g[s \ {Pick(s)}] = h(s \ {Pick(s)})
    <3> SUFFICES ASSUME NEW s \in SUBSET T, s # {}
                 PROVE  g[s \ {Pick(s)}] = h(s \ {Pick(s)})
        OBVIOUS
    <3>1. Pick(s) \in s
          BY DEF Pick
    <3>2. s \ {Pick(s)} \in SUBSET T /\ s \ {Pick(s)} # T
          BY <3>1
    <3> HIDE DEF g, h
    <3>3. QED  BY <2>2, <3>2
  <2>4. Sums(f, T, g)
    <3> HIDE DEF h
    <3> QED  BY <2>3 DEF Sums
  <2>5. QED  BY <2>4
<1>2. S \in W
  <2> HIDE DEF W
  <2> QED  BY <1>1, SubsetInduction
<1>3. QED  BY <1>2

\* The recursion that a sum obeys.
LEMMA SumUnfolds ==
    ASSUME NEW f, NEW S, IsFiniteSet(S)
    PROVE  SumFunctionOnSet(f, S) =
               IF S = {} THEN 0
               ELSE f[Pick(S)] + SumFunctionOnSet(f, S \ {Pick(S)})
<1> DEFINE g == CHOOSE k : Sums(f, S, k)
           T == S \ {Pick(S)}
           h == CHOOSE k : Sums(f, T, k)
<1>1. IsFiniteSet(T) /\ T \subseteq S
      BY FS_Subset
<1>2. Sums(f, S, g) /\ Sums(f, T, h)
  <2> HIDE DEF T
  <2> QED  BY <1>1, SumsExist
<1>3. SumFunctionOnSet(f, S) = g[S] /\ SumFunctionOnSet(f, T) = h[T]
      BY SumIsRead
<1>4. g[T] = h[T]
  <2> HIDE DEF g, h, T
  <2> QED  BY <1>1, <1>2, SumsAgree
<1>5. g[S] = IF S = {} THEN 0 ELSE f[Pick(S)] + g[T]
  <2> HIDE DEF g
  <2> QED  BY <1>2 DEF Sums
<1>6. QED  BY <1>3, <1>4, <1>5

\* A sum of integers is an integer.
LEMMA SumIsInt ==
    ASSUME NEW S, IsFiniteSet(S), NEW f \in [S -> Int], NEW T \in SUBSET S
    PROVE  SumFunctionOnSet(f, T) \in Int
<1> DEFINE W == {U \in SUBSET S : SumFunctionOnSet(f, U) \in Int}
<1>1. ASSUME NEW U \in SUBSET S, \A V \in SUBSET U : V # U => V \in W
      PROVE  U \in W
  <2>1. IsFiniteSet(U)
        BY FS_Subset
  <2>2. CASE U = {}
    <3>1. SumFunctionOnSet(f, U) = 0
          BY <2>1, <2>2, SumUnfolds
    <3>2. QED  BY <3>1
  <2>3. CASE U # {}
    <3>1. Pick(U) \in U
          BY <2>3 DEF Pick
    <3>2. U \ {Pick(U)} \in W
          BY <1>1, <3>1
    <3>3. f[Pick(U)] \in Int
          BY <3>1
    <3>4. SumFunctionOnSet(f, U) = f[Pick(U)] + SumFunctionOnSet(f, U \ {Pick(U)})
          BY <2>1, <2>3, SumUnfolds
    <3>5. QED  BY <3>2, <3>3, <3>4
  <2>4. QED  BY <2>2, <2>3
<1>2. IsFiniteSet(T)
      BY FS_Subset
<1>3. T \in W
  <2> HIDE DEF W
  <2> QED  BY <1>1, <1>2, SubsetInduction
<1>4. QED  BY <1>3

\* Any element can be taken out of a sum.
LEMMA SumTakesOut ==
    ASSUME NEW S, IsFiniteSet(S), NEW f \in [S -> Int], NEW T \in SUBSET S,
           NEW x \in T
    PROVE  SumFunctionOnSet(f, T) = f[x] + SumFunctionOnSet(f, T \ {x})
<1> DEFINE Sum(U) == SumFunctionOnSet(f, U)
           W == {U \in SUBSET S : \A y \in U : Sum(U) = f[y] + Sum(U \ {y})}
<1>1. ASSUME NEW U \in SUBSET S, \A V \in SUBSET U : V # U => V \in W
      PROVE  U \in W
  <2> SUFFICES ASSUME NEW y \in U
               PROVE  Sum(U) = f[y] + Sum(U \ {y})
      OBVIOUS
  <2> DEFINE c == Pick(U)
  <2>1. c \in U
        BY DEF Pick
  <2> HIDE DEF c
  <2>2. Sum(U) = f[c] + Sum(U \ {c})
        BY FS_Subset, SumUnfolds DEF c
  <2>3. CASE y # c
    <3>1. U \ {c} \in W /\ U \ {y} \in W
          BY <1>1, <2>1
    <3> DEFINE rest == Sum((U \ {c}) \ {y})
    <3>2. Sum(U \ {c}) = f[y] + rest
          BY <2>3, <3>1
    <3>3. (U \ {y}) \ {c} = (U \ {c}) \ {y}
          OBVIOUS
    <3>4. Sum(U \ {y}) = f[c] + rest
          BY <2>1, <2>3, <3>1, <3>3
    <3>5. f[y] \in Int /\ f[c] \in Int /\ rest \in Int
          BY <2>1, SumIsInt
    <3> HIDE DEF rest
    <3>6. QED  BY <2>2, <3>2, <3>4, <3>5
  <2>4. QED  BY <2>2, <2>3
<1>2. IsFiniteSet(T)
      BY FS_Subset
<1>3. T \in W
  <2> HIDE DEF W
  <2> QED  BY <1>1, <1>2, SubsetInduction
<1>4. QED  BY <1>3

\* Sums of functions that agree are equal.
LEMMA SumsEqual ==
    ASSUME NEW S, IsFiniteSet(S), NEW f, NEW g, \A x \in S : f[x] = g[x]
    PROVE  SumFunctionOnSet(f, S) = SumFunctionOnSet(g, S)
<1> DEFINE W == {U \in SUBSET S : SumFunctionOnSet(f, U) = SumFunctionOnSet(g, U)}
<1>1. ASSUME NEW U \in SUBSET S, \A V \in SUBSET U : V # U => V \in W
      PROVE  U \in W
  <2>1. IsFiniteSet(U)
        BY FS_Subset
  <2>2. CASE U = {}
        BY <2>1, <2>2, SumUnfolds
  <2>3. CASE U # {}
    <3>1. Pick(U) \in U
          BY <2>3 DEF Pick
    <3>2. U \ {Pick(U)} \in W
          BY <1>1, <3>1
    <3>3. /\ SumFunctionOnSet(f, U) =
                 f[Pick(U)] + SumFunctionOnSet(f, U \ {Pick(U)})
          /\ SumFunctionOnSet(g, U) =
                 g[Pick(U)] + SumFunctionOnSet(g, U \ {Pick(U)})
          BY <2>1, <2>3, SumUnfolds
    <3>4. QED  BY <3>1, <3>2, <3>3
  <2>4. QED  BY <2>2, <2>3
<1>2. S \in W
  <2> HIDE DEF W
  <2> QED  BY <1>1, SubsetInduction
<1>3. QED  BY <1>2

\* A sum changes by as much as one of its elements.
LEMMA SumChanges ==
    ASSUME NEW S, IsFiniteSet(S), NEW f \in [S -> Int], NEW g \in [S -> Int],
           NEW T \in SUBSET S, NEW x \in T, NEW d \in Int,
           g[x] = f[x] + d, \A y \in T \ {x} : g[y] = f[y]
    PROVE  SumFunctionOnSet(g, T) = SumFunctionOnSet(f, T) + d
<1> DEFINE R == T \ {x}
<1>1. R \in SUBSET S /\ IsFiniteSet(R)
      BY FS_Subset
<1>2. SumFunctionOnSet(f, R) = SumFunctionOnSet(g, R)
  <2>1. \A y \in R : f[y] = g[y]
        OBVIOUS
  <2> HIDE DEF R
  <2>2. QED  BY <1>1, <2>1, SumsEqual
<1>3. SumFunctionOnSet(f, R) \in Int
      BY <1>1, SumIsInt
<1>4. SumFunctionOnSet(f, T) = f[x] + SumFunctionOnSet(f, R)
      BY SumTakesOut
<1>5. SumFunctionOnSet(g, T) = g[x] + SumFunctionOnSet(g, R)
      BY SumTakesOut
<1>6. f[x] \in Int
      OBVIOUS
<1> HIDE DEF R
<1>7. QED  BY <1>2, <1>3, <1>4, <1>5, <1>6

-----------------------------------------------------------------------------
\* What comes from one user goes to the other, also when they are the same.
LEMMA TransferConserves ==
    ASSUME Typed, NEW f, NEW g, NEW b \in Int, Transfer(f, g, b)
    PROVE  SumFunctionOnSet(coin', users) = SumFunctionOnSet(coin, users)
<1> DEFINE mid == [coin EXCEPT ![f] = coin[f] + (-b)]
           end == [mid EXCEPT ![g] = mid[g] + b]
<1>1. /\ coin \in [User -> Int] /\ users \in SUBSET User
      /\ f \in users /\ g \in users /\ -b \in Int
      BY DEF Typed, TypeOK, Transfer
<1>2. mid \in [User -> Int] /\ end \in [User -> Int]
      BY <1>1
<1>3. coin' = end
  <2>1. coin' = [u \in User |-> coin[u] - (IF u = f THEN b ELSE 0)
                                       + (IF u = g THEN b ELSE 0)]
        BY DEF Transfer
  <2>2. \A u \in User : end[u] = coin[u] - (IF u = f THEN b ELSE 0)
                                         + (IF u = g THEN b ELSE 0)
        BY <1>1
  <2>3. QED  BY <1>2, <2>1, <2>2
<1>4. SumFunctionOnSet(mid, users) = SumFunctionOnSet(coin, users) + (-b)
  <2>1. mid[f] = coin[f] + (-b) /\ \A u \in users \ {f} : mid[u] = coin[u]
        BY <1>1
  <2> HIDE DEF mid, end
  <2>2. QED  BY <1>1, <1>2, <2>1, UsersAssumption, SumChanges
<1>5. SumFunctionOnSet(end, users) = SumFunctionOnSet(mid, users) + b
  <2>1. end[g] = mid[g] + b /\ \A u \in users \ {g} : end[u] = mid[u]
        BY <1>1, <1>2
  <2> HIDE DEF mid, end
  <2>2. QED  BY <1>1, <1>2, <2>1, UsersAssumption, SumChanges
<1>6. SumFunctionOnSet(coin, users) \in Int
      BY <1>1, UsersAssumption, SumIsInt
<1> HIDE DEF mid, end
<1>7. QED  BY <1>3, <1>4, <1>5, <1>6

\* The Update of a Put changes coin by a transfer between two users, if at all.
LEMMA PutWriteCoin ==
    ASSUME Typed, NEW q \in Req, PutWrite(q)
    PROVE  UNCHANGED coin \/ \E f, g : \E b \in Int : Transfer(f, g, b)
<1>1. req[q].pc \in Write
      BY PutWriteShape
<1>2. req[q].sent.bounty \in Int /\ req[q].old.bounty \in Int
      BY <1>1 DEF Typed, Carries, Task
<1>3. ASSUME NEW t, NEW f, NEW g, NEW b \in Int, Commit(q, t, f, g, b)
      PROVE  UNCHANGED coin \/ \E h, k : \E c \in Int : Transfer(h, k, c)
      BY <1>3 DEF Commit
<1>4. QED
      BY <1>2, <1>3
      DEF PutWrite, UncompleteAsOwner, UpdateAsOwner, CompleteAsWriter,
          UncompleteAsWriter, UpdateAsWriter, CommitTask, coinVars

\* Bounties neither make nor destroy coin, for any users, tasks and grants and
\* any overlap of requests: the coin of all users is what admins granted.
THEOREM CoinIsConserved == Spec => []CoinConserved
<1>1. Init => CoinConserved
  <2> SUFFICES ASSUME Init
               PROVE  CoinConserved
      OBVIOUS
  <2> DEFINE zero == [u \in User |-> 0]
             W == {S \in SUBSET User : SumFunctionOnSet(zero, S) = 0}
  <2>1. ASSUME NEW S \in SUBSET User, \A T \in SUBSET S : T # S => T \in W
        PROVE  S \in W
    <3>1. IsFiniteSet(S)
          BY UsersAssumption, FS_Subset
    <3>2. CASE S = {}
      <4>1. SumFunctionOnSet(zero, S) = 0
        <5> HIDE DEF zero
        <5> QED  BY <3>1, <3>2, SumUnfolds
      <4>2. QED  BY <4>1
    <3>3. CASE S # {}
      <4>1. Pick(S) \in S
            BY <3>3 DEF Pick
      <4>2. SumFunctionOnSet(zero, S \ {Pick(S)}) = 0
            BY <2>1, <4>1
      <4>3. zero[Pick(S)] = 0
            BY <4>1
      <4>4. SumFunctionOnSet(zero, S) =
                zero[Pick(S)] + SumFunctionOnSet(zero, S \ {Pick(S)})
        <5> HIDE DEF zero
        <5> QED  BY <3>1, <3>3, SumUnfolds
      <4>5. SumFunctionOnSet(zero, S) = 0
            BY <4>2, <4>3, <4>4
      <4>6. QED  BY <4>5
    <3>4. QED  BY <3>2, <3>3
  <2>2. User \in W
    <3> HIDE DEF W
    <3> QED  BY <2>1, UsersAssumption, SubsetInduction
  <2>3. QED  BY <2>2 DEF Init, CoinConserved
<1>2. Typed /\ CoinConserved /\ [Next]_vars => CoinConserved'
  <2> SUFFICES ASSUME Typed, CoinConserved, [Next]_vars
               PROVE  CoinConserved'
      OBVIOUS
  <2>1. coin \in [User -> Int] /\ users \in SUBSET User /\ supply \in Int
        BY DEF Typed, TypeOK
  <2>2. ASSUME NEW q \in Req, NEW u \in User, NEW n \in Grant,
               PatchProfile(q, u, n)
        PROVE  CoinConserved'
    <3>1. /\ u \in users /\ n \in Int
          /\ coin' = [coin EXCEPT ![u] = coin[u] + n]
          /\ supply' = supply + n /\ users' = users
          BY <2>2, GrantAssumption DEF PatchProfile
    <3>2. coin' \in [User -> Int]
          BY <2>1, <3>1
    <3>3. SumFunctionOnSet(coin', users) = SumFunctionOnSet(coin, users) + n
      <4>1. coin'[u] = coin[u] + n /\ \A v \in users \ {u} : coin'[v] = coin[v]
            BY <2>1, <3>1
      <4>2. u \in users /\ n \in Int
            BY <3>1
      <4>3. QED  BY <2>1, <3>2, <4>1, <4>2, UsersAssumption, SumChanges
    <3>4. QED  BY <3>1, <3>3 DEF CoinConserved
  <2>3. ASSUME NEW u \in User, DeleteUser(u)
        PROVE  CoinConserved'
    <3>1. /\ u \in users /\ users' = users \ {u}
          /\ coin' = [coin EXCEPT ![u] = 0]
          /\ supply' = supply - coin[u]
          BY <2>3 DEF DeleteUser
    <3>2. IsFiniteSet(users') /\ users' \in SUBSET User
          BY <2>1, <3>1, UsersAssumption, FS_Subset
    <3>3. \A v \in users' : coin'[v] = coin[v]
          BY <2>1, <3>1
    <3>4. SumFunctionOnSet(coin', users') = SumFunctionOnSet(coin, users')
          BY <3>2, <3>3, SumsEqual
    <3>5. SumFunctionOnSet(coin, users) = coin[u] + SumFunctionOnSet(coin, users')
          BY <2>1, <3>1, UsersAssumption, SumTakesOut
    <3>6. SumFunctionOnSet(coin, users') \in Int /\ coin[u] \in Int
          BY <2>1, <3>2, UsersAssumption, SumIsInt
    <3>7. QED  BY <3>1, <3>4, <3>5, <3>6 DEF CoinConserved
  <2>4. ASSUME NEW q \in Req, PutWrite(q)
        PROVE  CoinConserved'
    <3>1. users' = users /\ supply' = supply
          BY <2>4, PutWriteShape
    <3>2. SumFunctionOnSet(coin', users) = SumFunctionOnSet(coin, users)
          BY <2>4, PutWriteCoin, TransferConserves
    <3>3. QED  BY <3>1, <3>2 DEF CoinConserved
  <2>5. CASE UNCHANGED <<users, coin, supply>>
        BY <2>5 DEF CoinConserved
  <2>6. QED
        BY <2>2, <2>3, <2>4, <2>5
        DEF Next, PutNext, PutWrite, CheckCreate, CheckDelete, CheckPut,
            Create, Delete, Load, Terminating, coinVars, vars
<1>3. QED  BY <1>1, <1>2, InitTyped, NextTyped, PTL DEF Spec
=============================================================================

--------------------------- MODULE UserSyncProofs ---------------------------
(***************************************************************************)
(* Proofs about UserSync: type correctness, that a user is erased from the *)
(* system only once every controller of the job has confirmed, that a full *)
(* synchronization without failures leaves exactly the exported users on   *)
(* its controllers, and that the job tables add up, for any number of      *)
(* controllers, users, addresses, jobs and restarts.                       *)
(***************************************************************************)
EXTENDS UserSync, TLAPS, SequenceTheorems, FiniteSetTheorems

-----------------------------------------------------------------------------
\* Type correctness.

LEMMA ConstantTypes ==
  /\ IsFiniteSet(Node) /\ IsFiniteSet(User) /\ IsFiniteSet(Addr)
  /\ None \notin Addr /\ None \notin User
  /\ Absent \notin Entry
  /\ InitUsers \in [User -> Entry \union {Absent}]
  /\ MaxJobs \in Nat /\ MaxJobs # 0
  /\ Forms \subseteq Entry
  /\ MaxRequests \in Nat /\ MaxEdits \in Nat /\ MaxRestarts \in Nat
<1>1. {MaxRequests, MaxEdits, MaxRestarts} \subseteq Nat
  BY SyncAssumption
<1>2. MaxRequests \in Nat /\ MaxEdits \in Nat /\ MaxRestarts \in Nat
  BY <1>1
<1>3. QED
  BY SyncAssumption, <1>2

\* The entries of the job tables.
LEMMA NewJobType ==
  ASSUME NEW total \in Nat
  PROVE  NewJob(total) \in Job
BY DEF NewJob, Job

LEMMA AbsentJobType == AbsentJob \in Job
BY NewJobType DEF AbsentJob, NewJob, Job

LEMMA WithJobType ==
  ASSUME NEW jobs \in [JobId -> Job], NEW id \in Nat, NEW total \in Nat
  PROVE  WithJob(jobs, id, total) \in [JobId -> Job]
<1>1. \A i \in JobId : WithJob(jobs, id, total)[i] \in {NewJob(total), AbsentJob, jobs[i]}
  <2> TAKE i \in JobId
  <2>1. CASE i = id
    BY <2>1, ConstantTypes DEF WithJob, JobId
  <2>2. CASE i # id
    BY <2>2 DEF WithJob
  <2>3. QED
    BY <2>1, <2>2
<1>2. DOMAIN WithJob(jobs, id, total) = JobId
      /\ WithJob(jobs, id, total) = [i \in JobId |-> WithJob(jobs, id, total)[i]]
  BY DEF WithJob
<1>3. \A i \in JobId : WithJob(jobs, id, total)[i] \in Job
  BY <1>1, NewJobType, AbsentJobType
<1>4. QED
  BY <1>2, <1>3

LEMMA StateSetType ==
  ASSUME NEW jobs \in [JobId -> Job], NEW id
  PROVE  Started(jobs, id) \in [JobId -> Job] /\ Completed(jobs, id) \in [JobId -> Job]
<1>1. \A j \in Job : [j EXCEPT !.state = "running"] \in Job
                     /\ [j EXCEPT !.state = "completed"] \in Job
  BY DEF Job
<1>2. QED
  BY <1>1 DEF Started, Completed

LEMMA CountedType ==
  ASSUME NEW jobs \in [JobId -> Job], NEW id, NEW result
  PROVE  Counted(jobs, id, result) \in [JobId -> Job]
<1>1. ASSUME NEW j \in Job
      PROVE  [j EXCEPT !.completed = @ + 1,
                       !.success = IF result = "success" THEN @ + 1 ELSE @,
                       !.failed = IF result = "failed" THEN @ + 1 ELSE @,
                       !.skipped = IF result = "skipped" THEN @ + 1 ELSE @] \in Job
  <2>1. /\ j.completed \in Nat /\ j.success \in Nat /\ j.failed \in Nat /\ j.skipped \in Nat
    BY DEF Job
  <2>2. /\ j.completed + 1 \in Nat
        /\ (IF result = "success" THEN j.success + 1 ELSE j.success) \in Nat
        /\ (IF result = "failed" THEN j.failed + 1 ELSE j.failed) \in Nat
        /\ (IF result = "skipped" THEN j.skipped + 1 ELSE j.skipped) \in Nat
    BY <2>1
  <2>3. \A a, b, c, d \in Nat :
          [j EXCEPT !.completed = a, !.success = b, !.failed = c, !.skipped = d] \in Job
    BY DEF Job
  <2>4. QED
    BY <2>2, <2>3
<1>2. QED
  BY <1>1 DEF Counted

LEMMA TalliedType ==
  ASSUME NEW jobs \in [JobId -> Job], NEW id, NEW gone
  PROVE  Tallied(jobs, id, gone) \in [JobId -> Job]
<1>1. ASSUME NEW j \in Job
      PROVE  [j EXCEPT !.deleted = IF gone THEN @ + 1 ELSE @,
                       !.retained = IF gone THEN @ ELSE @ + 1] \in Job
  <2>1. j.deleted \in Nat /\ j.retained \in Nat
    BY DEF Job
  <2>2. PICK a \in Nat, b \in Nat :
          /\ a = IF gone THEN j.deleted + 1 ELSE j.deleted
          /\ b = IF gone THEN j.retained ELSE j.retained + 1
    BY <2>1
  <2>3. [j EXCEPT !.deleted = a, !.retained = b] \in Job
    BY DEF Job
  <2>4. QED
    BY <2>2, <2>3
<1>2. QED
  BY <1>1 DEF Tallied

\* A full synchronization that is given up for a controller counts its addresses.
LEMMA SkippedType ==
  ASSUME NEW jobs \in [JobId -> Job], NEW id
  PROVE  Skipped(jobs, id) \in [JobId -> Job]
<1>1. PICK k \in Nat : k = Cardinality(Addr)
  BY ConstantTypes, FS_CardinalityType
<1>2. ASSUME NEW j \in Job
      PROVE  [j EXCEPT !.completed = @ + k, !.skipped = @ + k] \in Job
  <2>1. j.completed + k \in Nat /\ j.skipped + k \in Nat
    BY DEF Job
  <2>2. QED
    BY <2>1 DEF Job
<1>3. QED
  BY <1>1, <1>2 DEF Skipped

\* A snapshot of a user of the registry.
LEMMA SnapshotType ==
  ASSUME RegistryType, NEW u \in Present
  PROVE  SnapshotOf(u) \in Snapshot
<1>1. u \in User /\ users[u] \in Entry
  BY DEF RegistryType, Present
<1>2. users[u].addr \in Addr \union {None} /\ users[u].on \in BOOLEAN
  BY <1>1 DEF Entry
<1>3. QED
  BY <1>1, <1>2 DEF SnapshotOf, Snapshot

LEMMA PendingType ==
  ASSUME RegistryType, NEW S, S \subseteq Present, NEW N \in SUBSET Node,
         NEW id \in Nat, NEW flag \in BOOLEAN
  PROVE  [id |-> id, users |-> {SnapshotOf(u) : u \in S}, nodes |-> N, flag |-> flag]
           \in Pending
<1>1. {SnapshotOf(u) : u \in S} \in SUBSET Snapshot
  BY SnapshotType
<1>2. QED
  BY <1>1 DEF Pending

\* How much a request asks for.
LEMMA TotalType ==
  ASSUME NEW S \in SUBSET User, NEW N \in SUBSET Node
  PROVE  /\ Cardinality(S) * Cardinality(N) \in Nat
         /\ (Cardinality(Addr) + 1) * Cardinality(N) \in Nat
<1>1. /\ Cardinality(S) \in Nat /\ Cardinality(N) \in Nat /\ Cardinality(Addr) \in Nat
  BY ConstantTypes, FS_Subset, FS_CardinalityType
<1>2. QED
  BY <1>1

\* What a job has to do.
LEMMA WorkType ==
  ASSUME NEW job \in Pending
  PROVE  UploadWork(job) \subseteq Task /\ DeleteWork(job) \subseteq Task
<1>1. job.users \subseteq Snapshot /\ job.nodes \subseteq Node
  BY DEF Pending
<1>2. QED
  BY <1>1 DEF UploadWork, DeleteWork, Task

\* The exchange with a controller.
LEMMA ProgramType ==
  ASSUME ControllerType, NEW n \in Node, NEW a \in Addr, NEW content \in Slot, NEW ok,
         Program(n, a, content, ok)
  PROVE  slot' \in [Node -> [Addr -> Slot]]
<1>1. slot' = slot \/ slot' = [slot EXCEPT ![n][a] = content]
  BY DEF Program
<1>2. QED
  BY <1>1 DEF ControllerType

LEMMA DisableType ==
  ASSUME ControllerType, NEW n \in Node, NEW a \in Addr, NEW ok, Disable(n, a, ok)
  PROVE  slot' \in [Node -> [Addr -> Slot]]
<1>1. slot[n][a] \in Slot
  BY DEF ControllerType
<1>2. [slot[n][a] EXCEPT !.active = FALSE] \in Slot
  BY <1>1 DEF Slot
<1>3. CASE slot[n][a].active
  BY <1>2, <1>3, ProgramType DEF Disable
<1>4. CASE ~slot[n][a].active
  BY <1>4 DEF Disable, ControllerType
<1>5. QED
  BY <1>3, <1>4

\* A step of the worker on one of its tasks.
LEMMA TaskDone ==
  ASSUME WorkerType, UNCHANGED <<turn, cur>>, work' \subseteq work,
         unconfirmed' \in SUBSET User
  PROVE  WorkerType'
BY DEF WorkerType

\* Every step of the web server, the worker and the environment keeps the types.
LEMMA TypeStep == TypeOK /\ [Next]_vars => TypeOK'
<1> SUFFICES ASSUME TypeOK, [Next]_vars PROVE TypeOK'
  OBVIOUS
<1> USE ConstantTypes DEF TypeOK, registryVars, controllerVars, queueVars, jobVars,
                          workerVars, boundVars
<1>a. ASSUME NEW q \in Seq(Pending), q # <<>>
      PROVE  Head(q) \in Pending /\ Tail(q) \in Seq(Pending)
  BY <1>a, HeadTailProperties
<1>b. cur.job \in Pending /\ cur.job.users \in SUBSET Snapshot /\ cur.job.nodes \in SUBSET Node
  <2>1. cur.job \in Pending
    BY DEF WorkerType
  <2>2. QED
    BY <2>1 DEF Pending
<1>1. ASSUME NEW u \in User, NEW e \in Forms, SaveUser(u, e) PROVE TypeOK'
  <2>1. RegistryType'
    <3>1. users' \in [User -> Entry \union {Absent}]
      BY <1>1 DEF SaveUser, RegistryType
    <3>2. stored' = users' \/ stored' = stored
      BY <1>1 DEF SaveUser, SaveRegistry
    <3>3. QED
      BY <3>1, <3>2 DEF RegistryType
  <2>2. QED
    BY <1>1, <2>1 DEF SaveUser, ControllerType, JobType, WorkerType
<1>2. ASSUME NEW S, DeleteLocally(S) PROVE TypeOK'
  <2>1. RegistryType'
    <3>1. users' \in [User -> Entry \union {Absent}]
      BY <1>2 DEF DeleteLocally, RegistryType
    <3>2. stored' = users' \/ stored' = stored
      BY <1>2 DEF DeleteLocally, SaveRegistry
    <3>3. QED
      BY <3>1, <3>2 DEF RegistryType
  <2>2. QED
    BY <1>2, <2>1 DEF DeleteLocally, ControllerType, JobType, WorkerType
<1>3. ASSUME NEW S \in SUBSET Present, NEW N \in SUBSET Node, NEW full \in BOOLEAN,
             NEW total \in Nat, Enqueue(S, N, full, total)
      PROVE  TypeOK'
  <2> USE <1>3 DEF Enqueue
  <2>1. JobType'
    <3>1. PICK p \in Pending :
             p = [id |-> nextUpload, users |-> {SnapshotOf(u) : u \in S},
                  nodes |-> N, flag |-> full]
      BY PendingType DEF JobType
    <3>2. uploads' = Append(uploads, p)
      BY <3>1
    <3>3. uploads' \in Seq(Pending)
      BY <3>2, AppendProperties DEF JobType
    <3>4. uploadJobs \in [JobId -> Job] /\ nextUpload \in Nat /\ nextUpload' \in Nat \ {0}
      BY DEF JobType
    <3>5. uploadJobs' \in [JobId -> Job]
      BY <3>4, WithJobType
    <3>6. QED
      BY <3>3, <3>4, <3>5 DEF JobType
  <2>2. RegistryType' /\ ControllerType' /\ WorkerType'
    BY DEF RegistryType, ControllerType, WorkerType
  <2>3. QED
    BY <2>1, <2>2 DEF Requested
<1>4. ASSUME NEW S, NEW N \in SUBSET Node, QueueUpload(S, N) PROVE TypeOK'
  <2>1. S \in SUBSET Present /\ S \in SUBSET User
    BY <1>4 DEF QueueUpload, Present
  <2>2. QED
    BY <1>3, <1>4, <2>1, TotalType DEF QueueUpload
<1>5. ASSUME NEW N \in SUBSET Node, QueueFullSync(N) PROVE TypeOK'
  <2>1. Active \in SUBSET Present /\ Active \in SUBSET User
    BY DEF Active, Present
  <2>2. QED
    BY <1>3, <1>5, <2>1, TotalType DEF QueueFullSync
<1>6. ASSUME NEW S, NEW N \in SUBSET Node, NEW system \in BOOLEAN, QueueDelete(S, N, system)
      PROVE  TypeOK'
  <2> USE <1>6 DEF QueueDelete
  <2>1. S \in SUBSET Present /\ S \in SUBSET User
    BY DEF Present
  <2>2. JobType'
    <3>1. PICK p \in Pending :
             p = [id |-> nextDelete, users |-> {SnapshotOf(u) : u \in S},
                  nodes |-> N, flag |-> system]
      BY <2>1, PendingType DEF JobType
    <3>2. deletes' = Append(deletes, p)
      BY <3>1
    <3>3. deletes' \in Seq(Pending)
      BY <3>2, AppendProperties DEF JobType
    <3>4. deleteJobs \in [JobId -> Job] /\ nextDelete \in Nat /\ nextDelete' \in Nat \ {0}
      BY DEF JobType
    <3>5. Cardinality(S) * Cardinality(N) \in Nat
      BY <2>1, TotalType
    <3>6. deleteJobs' \in [JobId -> Job]
      BY <3>4, <3>5, WithJobType
    <3>7. QED
      BY <3>3, <3>4, <3>6 DEF JobType
  <2>3. RegistryType' /\ ControllerType' /\ WorkerType'
    BY DEF RegistryType, ControllerType, WorkerType
  <2>4. QED
    BY <2>2, <2>3 DEF Requested
<1>7. CASE BeginDelete
  <2> USE <1>7 DEF BeginDelete
  <2>1. CASE deletes = <<>>
    BY <2>1 DEF RegistryType, ControllerType, JobType, WorkerType
  <2>2. CASE deletes # <<>>
    <3>1. PICK p \in Pending : p = Head(deletes)
      BY <1>a, <2>2 DEF JobType
    <3>2. JobType'
      <4>1. deleteJobs \in [JobId -> Job] /\ Tail(deletes) \in Seq(Pending)
        BY <1>a, <2>2 DEF JobType
      <4>2. deleteJobs' \in [JobId -> Job]
        BY <2>2, <4>1, StateSetType
      <4>3. QED
        BY <2>2, <4>1, <4>2 DEF JobType
    <3>3. cur' = [kind |-> "delete", job |-> p] /\ work' \subseteq Task
      BY <2>2, <3>1, WorkType
    <3>4. WorkerType'
      BY <3>3 DEF WorkerType
    <3>5. QED
      BY <3>2, <3>4 DEF RegistryType, ControllerType
  <2>3. QED
    BY <2>1, <2>2
<1>8. CASE BeginUpload
  <2> USE <1>8 DEF BeginUpload
  <2>1. CASE uploads = <<>>
    BY <2>1 DEF RegistryType, ControllerType, JobType, WorkerType
  <2>2. CASE uploads # <<>>
    <3>1. PICK p \in Pending : p = Head(uploads)
      BY <1>a, <2>2 DEF JobType
    <3>2. JobType'
      <4>1. uploadJobs \in [JobId -> Job] /\ Tail(uploads) \in Seq(Pending)
        BY <1>a, <2>2 DEF JobType
      <4>2. uploadJobs' \in [JobId -> Job]
        BY <2>2, <4>1, StateSetType
      <4>3. QED
        BY <2>2, <4>1, <4>2 DEF JobType
    <3>3. cur' = [kind |-> "upload", job |-> p] /\ work' \subseteq Task
      BY <2>2, <3>1, WorkType
    <3>4. WorkerType'
      BY <3>3 DEF WorkerType
    <3>5. QED
      BY <3>2, <3>4 DEF RegistryType, ControllerType
  <2>3. QED
    BY <2>1, <2>2
<1>c. Idle \in [kind : {"idle", "upload", "delete"}, job : Pending]
  BY DEF Idle, Pending
<1>9. CASE FinishJob
  <2> USE <1>9 DEF FinishJob
  <2>1. JobType'
    BY StateSetType DEF JobType
  <2>2. WorkerType'
    BY <1>c DEF WorkerType
  <2>3. QED
    BY <2>1, <2>2 DEF RegistryType, ControllerType
<1>10. ASSUME NEW n \in Node, DisablePassAny(n) PROVE TypeOK'
  <2> USE <1>10 DEF DisablePassAny, CountUpload
  <2>1. JobType'
    BY CountedType DEF JobType
  <2>2. WorkerType'
    BY TaskDone DEF WorkerType
  <2>3. QED
    BY <2>1, <2>2 DEF RegistryType, ControllerType
<1>11. ASSUME NEW n \in Node, PassAnyFails(n) PROVE TypeOK'
  <2> USE <1>11 DEF PassAnyFails
  <2>1. JobType'
    <3>1. PICK failed \in [JobId -> Job] : failed = Counted(uploadJobs, cur.job.id, "failed")
      BY CountedType DEF JobType
    <3>2. uploadJobs' \in [JobId -> Job]
      BY <3>1, SkippedType
    <3>3. QED
      BY <3>2 DEF JobType
  <2>2. WorkerType'
    BY TaskDone DEF WorkerType
  <2>3. passAny' \in [Node -> BOOLEAN]
    <3>1. PICK off \in BOOLEAN : passAny' = [passAny EXCEPT ![n] = passAny[n] /\ ~off]
      OBVIOUS
    <3> DEFINE b == passAny[n] /\ ~off
    <3>2. b \in BOOLEAN /\ passAny' = [passAny EXCEPT ![n] = b]
      BY <3>1
    <3> HIDE DEF b
    <3>3. QED
      BY <3>2 DEF ControllerType
  <2>4. QED
    BY <2>1, <2>2, <2>3 DEF RegistryType, ControllerType
<1>12. ASSUME NEW n \in Node, NEW a \in Addr, ClearSlot(n, a) PROVE TypeOK'
  <2> USE <1>12 DEF ClearSlot, CountUpload
  <2>1. JobType'
    BY CountedType DEF JobType
  <2>2. WorkerType'
    BY TaskDone DEF WorkerType
  <2>3. ControllerType'
    <3>1. Free \in Slot
      BY DEF Free, Slot
    <3>2. QED
      BY <3>1, ProgramType DEF ControllerType
  <2>4. QED
    BY <2>1, <2>2, <2>3 DEF RegistryType
<1>13. ASSUME NEW n \in Node, NEW s \in cur.job.users, WriteUser(n, s) PROVE TypeOK'
  <2> USE <1>13 DEF WriteUser, CountUpload
  <2>1. JobType'
    BY CountedType DEF JobType
  <2>2. WorkerType'
    BY TaskDone DEF WorkerType
  <2>3. ControllerType'
    <3>1. s \in Snapshot
      BY <1>b
    <3>2. PICK c \in Slot : c = [card |-> s.user, active |-> s.on]
      BY <3>1 DEF Slot, Snapshot
    <3>3. s.addr # None => s.addr \in Addr
      BY <3>1 DEF Snapshot
    <3>4. QED
      BY <3>2, <3>3, ProgramType DEF ControllerType
  <2>4. QED
    BY <2>1, <2>2, <2>3 DEF RegistryType
<1>14. ASSUME NEW n \in Node, NEW s \in cur.job.users, DeleteUser(n, s) PROVE TypeOK'
  <2> USE <1>14 DEF DeleteUser, Confirm
  <2>1. s \in Snapshot
    BY <1>b
  <2>2. s.user \in User /\ (s.addr # None => s.addr \in Addr)
    BY <2>1 DEF Snapshot
  <2>3. JobType'
    BY CountedType DEF JobType
  <2>4. WorkerType'
    BY <2>2, TaskDone DEF WorkerType
  <2>5. ControllerType'
    BY <2>2, DisableType DEF ControllerType
  <2>6. QED
    BY <2>3, <2>4, <2>5 DEF RegistryType
<1>15. ASSUME NEW s \in cur.job.users, EraseUser(s) PROVE TypeOK'
  <2> USE <1>15 DEF EraseUser
  <2>1. s \in Snapshot
    BY <1>b
  <2>2. s.user \in User
    BY <2>1 DEF Snapshot
  <2>3. JobType'
    <3>1. deleteJobs \in [JobId -> Job]
      BY DEF JobType
    <3>2. \E gone : deleteJobs' = Tallied(deleteJobs, cur.job.id, gone)
      OBVIOUS
    <3>3. deleteJobs' \in [JobId -> Job]
      BY <3>1, <3>2, TalliedType
    <3>4. QED
      BY <3>3 DEF JobType
  <2>4. WorkerType'
    BY TaskDone DEF WorkerType
  <2>5. RegistryType'
    <3>1. users' \in [User -> Entry \union {Absent}]
      BY <2>2 DEF RegistryType
    <3>2. stored' = users' \/ stored' = stored
      BY DEF SaveRegistry
    <3>3. QED
      BY <3>1, <3>2 DEF RegistryType
  <2>6. erased' \in SUBSET (User \X Node)
    <3>1. {s.user} \X cur.job.nodes \in SUBSET (User \X Node)
      BY <1>b, <2>2
    <3>2. erased' = erased \/ erased' = erased \union ({s.user} \X cur.job.nodes)
      OBVIOUS
    <3>3. QED
      BY <3>1, <3>2
  <2>7. QED
    BY <2>3, <2>4, <2>5, <2>6 DEF ControllerType
<1>16. CASE Restart
  <2> USE <1>16 DEF Restart
  <2>1. JobType'
    BY AbsentJobType DEF JobType
  <2>2. WorkerType'
    BY <1>c DEF WorkerType
  <2>3. QED
    BY <2>1, <2>2 DEF RegistryType, ControllerType
<1>17. CASE UNCHANGED vars
  BY <1>17 DEF vars, RegistryType, ControllerType, JobType, WorkerType
<1>18. QED
  BY <1>1, <1>2, <1>4, <1>5, <1>6, <1>7, <1>8, <1>9, <1>10, <1>11, <1>12, <1>13, <1>14,
     <1>15, <1>16, <1>17 DEF Next, Web, Worker

LEMMA TypeInit == Init => TypeOK
<1> SUFFICES ASSUME Init PROVE TypeOK
  OBVIOUS
<1> USE ConstantTypes DEF Init
<1>1. RegistryType
  BY DEF RegistryType
<1>2. ControllerType
  BY DEF ControllerType, Slot, Stranger
<1>3. JobType
  BY AbsentJobType DEF JobType
<1>4. WorkerType
  BY DEF WorkerType, Idle, Pending
<1>5. QED
  BY <1>1, <1>2, <1>3, <1>4 DEF TypeOK

\* The registry, the controllers, the job tables and queues and the worker are
\* well typed in every reachable state, and an idle worker has no work left.
THEOREM TypeCorrect == Spec => []TypeOK
BY TypeInit, TypeStep, PTL DEF Spec

-----------------------------------------------------------------------------
\* What the worker has in hand.

\* What is left to do is part of what the job in hand asks for.
WorkOf ==
  /\ cur.kind = "upload" => work \subseteq UploadWork(cur.job)
  /\ cur.kind = "delete" => work \subseteq DeleteWork(cur.job)

\* A task tells the kind of the job it belongs to.
LEMMA TaskKind ==
  ASSUME TypeOK, WorkOf, NEW t \in work
  PROVE  /\ t.op \in {"pass", "clear", "write"} => cur.kind = "upload"
         /\ t.op \in {"delete", "erase"} => cur.kind = "delete"
<1>1. cur.kind \in {"idle", "upload", "delete"} /\ cur.kind # "idle"
  BY DEF TypeOK, WorkerType
<1>2. CASE cur.kind = "upload"
  BY <1>2 DEF WorkOf, UploadWork
<1>3. CASE cur.kind = "delete"
  BY <1>3 DEF WorkOf, DeleteWork
<1>4. QED
  BY <1>1, <1>2, <1>3

LEMMA WorkOfStep == TypeOK /\ WorkOf /\ [Next]_vars => WorkOf'
<1> SUFFICES ASSUME TypeOK, WorkOf, [Next]_vars PROVE WorkOf'
  OBVIOUS
<1>1. CASE BeginDelete
  <2>1. \/ UNCHANGED <<cur, work>>
        \/ cur' = [kind |-> "delete", job |-> Head(deletes)] /\ work' = DeleteWork(Head(deletes))
    BY <1>1 DEF BeginDelete
  <2>2. QED
    BY <2>1 DEF WorkOf, UploadWork, DeleteWork
<1>2. CASE BeginUpload
  <2>1. \/ UNCHANGED <<cur, work>>
        \/ cur' = [kind |-> "upload", job |-> Head(uploads)] /\ work' = UploadWork(Head(uploads))
    BY <1>2 DEF BeginUpload
  <2>2. QED
    BY <2>1 DEF WorkOf, UploadWork, DeleteWork
<1>3. CASE FinishJob \/ Restart
  BY <1>3 DEF FinishJob, Restart, Idle, WorkOf
<1>4. CASE cur' = cur /\ work' \subseteq work
  BY <1>4 DEF WorkOf, UploadWork, DeleteWork
<1>5. ASSUME NEW n \in Node,
             \/ DisablePassAny(n) \/ PassAnyFails(n)
             \/ \E a \in Addr : ClearSlot(n, a)
             \/ \E s \in cur.job.users : WriteUser(n, s) \/ DeleteUser(n, s)
      PROVE  cur' = cur /\ work' \subseteq work
  BY <1>5 DEF DisablePassAny, PassAnyFails, ClearSlot, WriteUser, DeleteUser
<1>6. ASSUME NEW s \in cur.job.users, EraseUser(s)
      PROVE  cur' = cur /\ work' \subseteq work
  BY <1>6 DEF EraseUser
<1>7. CASE Web \/ UNCHANGED vars
  BY <1>4, <1>7 DEF Web, SaveUser, DeleteLocally, QueueUpload, QueueFullSync, Enqueue,
     QueueDelete, workerVars, vars
<1>8. QED
  BY <1>1, <1>2, <1>3, <1>4, <1>5, <1>6, <1>7 DEF Next, Worker

LEMMA WorkOfInit == Init => WorkOf
BY DEF Init, Idle, WorkOf

-----------------------------------------------------------------------------
\* A user is erased only once every controller has confirmed.

\* A controller of the deletion in hand that has been dealt with grants a user
\* nothing at his address, unless the user is known to be unconfirmed.
EraseInv ==
  cur.kind = "delete" =>
    \A s \in cur.job.users, n \in cur.job.nodes :
      s.user \notin unconfirmed /\ [op |-> "delete", node |-> n, who |-> s] \notin work =>
        s.addr # None /\ ~slot[n][s.addr].active

\* deleteUser grants nobody anything, and says yes only when the slot grants nothing.
LEMMA DisableEffect ==
  ASSUME ControllerType, NEW n \in Node, NEW a \in Addr, NEW ok \in BOOLEAN,
         Disable(n, a, ok)
  PROVE  /\ \A m \in Node, b \in Addr : ~slot[m][b].active => ~slot'[m][b].active
         /\ ok => ~slot'[n][a].active
<1>1. slot \in [Node -> [Addr -> Slot]] /\ slot[n][a] \in Slot
  BY DEF ControllerType
<1>2. CASE slot[n][a].active
  <2>1. PICK content : content = [slot[n][a] EXCEPT !.active = FALSE] /\ ~content.active
    <3>1. ~[slot[n][a] EXCEPT !.active = FALSE].active
      BY <1>1 DEF Slot
    <3>2. QED
      BY <3>1
  <2>2. slot' = slot \/ slot' = [slot EXCEPT ![n][a] = content]
    BY <1>2, <2>1 DEF Disable, Program
  <2>3. ok => slot'[n][a] = content
    BY <1>2, <2>1 DEF Disable, Program, Verified
  <2>4. \A m \in Node, b \in Addr : slot'[m][b] = slot[m][b] \/ slot'[m][b] = content
    BY <1>1, <2>2
  <2>5. QED
    BY <2>1, <2>3, <2>4
<1>3. CASE ~slot[n][a].active
  BY <1>3 DEF Disable
<1>4. QED
  BY <1>2, <1>3

LEMMA DeleteUserConfirms ==
  ASSUME TypeOK, EraseInv, WorkOf, NEW n \in Node, NEW s \in cur.job.users, DeleteUser(n, s)
  PROVE  EraseInv'
<1>1. PICK t : t = [op |-> "delete", node |-> n, who |-> s]
  OBVIOUS
<1>2. /\ t \in work /\ work' = work \ {t} /\ UNCHANGED cur
      /\ cur.job.users \subseteq Snapshot /\ cur.job.nodes \subseteq Node
  BY <1>1 DEF DeleteUser, TypeOK, WorkerType, Pending
<1>3. \A r \in cur.job.users : r.addr # None => r.addr \in Addr
  BY <1>2 DEF Snapshot
<1>4. PICK ok \in BOOLEAN :
        /\ IF s.addr = None THEN ~ok /\ UNCHANGED slot ELSE Disable(n, s.addr, ok)
        /\ Confirm(s, ok)
  BY DEF DeleteUser
<1>5. /\ \A m \in Node, b \in Addr : ~slot[m][b].active => ~slot'[m][b].active
      /\ ok => s.addr # None /\ ~slot'[n][s.addr].active
  BY <1>3, <1>4, DisableEffect DEF TypeOK
<1>6. unconfirmed \subseteq unconfirmed' /\ (~ok => s.user \in unconfirmed')
  BY <1>4 DEF Confirm
<1>7. SUFFICES ASSUME cur.kind = "delete", NEW r \in cur.job.users, NEW m \in cur.job.nodes,
                      r.user \notin unconfirmed',
                      [op |-> "delete", node |-> m, who |-> r] \notin work'
               PROVE  r.addr # None /\ ~slot'[m][r.addr].active
  BY <1>2 DEF EraseInv
<1>8. CASE [op |-> "delete", node |-> m, who |-> r] = t
  <2>1. m = n /\ r = s
    BY <1>1, <1>8
  <2>2. QED
    BY <1>5, <1>6, <1>7, <2>1
<1>9. CASE [op |-> "delete", node |-> m, who |-> r] # t
  <2>1. r.addr # None /\ ~slot[m][r.addr].active
    BY <1>2, <1>6, <1>7, <1>9 DEF EraseInv
  <2>2. QED
    BY <1>2, <1>3, <1>5, <2>1
<1>10. QED
  BY <1>8, <1>9

LEMMA EraseStep == TypeOK /\ WorkOf /\ EraseInv /\ [Next]_vars => EraseInv'
<1> SUFFICES ASSUME TypeOK, WorkOf, EraseInv, [Next]_vars PROVE EraseInv'
  OBVIOUS
<1>1. CASE BeginDelete
  <2>1. \/ UNCHANGED <<cur, work, slot, unconfirmed>>
        \/ cur' = [kind |-> "delete", job |-> Head(deletes)] /\ work' = DeleteWork(Head(deletes))
    BY <1>1 DEF BeginDelete, controllerVars
  <2>2. CASE UNCHANGED <<cur, work, slot, unconfirmed>>
    BY <2>2 DEF EraseInv
  <2>3. CASE cur' = [kind |-> "delete", job |-> Head(deletes)]
               /\ work' = DeleteWork(Head(deletes))
    <3>1. \A s \in cur'.job.users, n \in cur'.job.nodes :
            [op |-> "delete", node |-> n, who |-> s] \in work'
      BY <2>3 DEF DeleteWork
    <3>2. QED
      BY <3>1 DEF EraseInv
  <2>4. QED
    BY <2>1, <2>2, <2>3
<1>2. CASE BeginUpload
  <2>1. UNCHANGED <<cur, work, slot, unconfirmed>> \/ cur'.kind = "upload"
    BY <1>2 DEF BeginUpload, controllerVars
  <2>2. QED
    BY <2>1 DEF EraseInv
<1>3. CASE FinishJob \/ Restart
  BY <1>3 DEF FinishJob, Restart, Idle, EraseInv
<1>4. ASSUME NEW n \in Node,
             \/ DisablePassAny(n) \/ PassAnyFails(n)
             \/ \E a \in Addr : ClearSlot(n, a)
             \/ \E s \in cur.job.users : WriteUser(n, s)
      PROVE  EraseInv'
  <2>1. cur' = cur /\ \E t \in work : t.op \in {"pass", "clear", "write"}
    BY <1>4 DEF DisablePassAny, PassAnyFails, ClearSlot, WriteUser
  <2>2. cur'.kind = "upload"
    BY <2>1, TaskKind
  <2>3. QED
    BY <2>2 DEF EraseInv
<1>5. ASSUME NEW n \in Node, NEW s \in cur.job.users, DeleteUser(n, s) PROVE EraseInv'
  BY <1>5, DeleteUserConfirms
<1>6. ASSUME NEW s \in cur.job.users, EraseUser(s) PROVE EraseInv'
  <2>1. UNCHANGED <<cur, slot, unconfirmed>>
        /\ \A n, r : [op |-> "delete", node |-> n, who |-> r] \in work
                       => [op |-> "delete", node |-> n, who |-> r] \in work'
    BY <1>6 DEF EraseUser, controllerVars
  <2>2. QED
    BY <2>1 DEF EraseInv
<1>7. CASE Web \/ UNCHANGED vars
  <2>1. UNCHANGED <<cur, work, slot, unconfirmed>>
    BY <1>7 DEF Web, SaveUser, DeleteLocally, QueueUpload, QueueFullSync, Enqueue,
       QueueDelete, workerVars, controllerVars, vars
  <2>2. QED
    BY <2>1 DEF EraseInv
<1>8. QED
  BY <1>1, <1>2, <1>3, <1>4, <1>5, <1>6, <1>7 DEF Next, Worker

\* Only EraseUser takes a user out of the registry as part of the job in hand.
LEMMA OnlyEraseUser ==
  ASSUME TypeOK, WorkOf, [Next]_vars, cur' = cur, NEW s \in cur.job.users,
         [op |-> "erase", who |-> s] \in work \ work'
  PROVE  EraseUser(s)
<1>1. [op |-> "erase", who |-> s] \in work /\ cur.kind = "delete"
  BY TaskKind
<1>2. ASSUME NEW n \in Node,
             \/ DisablePassAny(n) \/ PassAnyFails(n)
             \/ \E a \in Addr : ClearSlot(n, a)
             \/ \E r \in cur.job.users : WriteUser(n, r)
      PROVE  FALSE
  <2>1. \E t \in work : t.op \in {"pass", "clear", "write"}
    BY <1>2 DEF DisablePassAny, PassAnyFails, ClearSlot, WriteUser
  <2>2. QED
    BY <1>1, <2>1, TaskKind
<1>3. ASSUME NEW n \in Node, NEW r \in cur.job.users, DeleteUser(n, r) PROVE FALSE
  BY <1>3 DEF DeleteUser
<1>4. ASSUME NEW r \in cur.job.users, EraseUser(r) PROVE r = s
  BY <1>4 DEF EraseUser
<1>5. ~BeginDelete /\ ~BeginUpload /\ ~FinishJob /\ ~Restart
  BY <1>1 DEF BeginDelete, BeginUpload, FinishJob, Restart, Idle
<1>6. ~Web /\ ~UNCHANGED vars
  BY DEF Web, SaveUser, DeleteLocally, QueueUpload, QueueFullSync, Enqueue,
     QueueDelete, workerVars, vars
<1>7. QED
  BY <1>2, <1>3, <1>4, <1>5, <1>6 DEF Next, Worker

\* "The local record is removed only after every selected controller confirms
\* deletion for that user": when a job erases a user, his address grants access
\* on none of its controllers (processOneUserDelete, deleteUser).
THEOREM EraseConfirmedAlways == Spec => EraseConfirmed
<1> DEFINE Confirmed ==
      \A s \in cur.job.users :
        (/\ cur' = cur
         /\ [op |-> "erase", who |-> s] \in work \ work'
         /\ users[s.user] # Absent /\ users'[s.user] = Absent)
        => \A n \in cur.job.nodes : s.addr # None /\ ~slot[n][s.addr].active
<1>1. Init => EraseInv
  BY DEF Init, Idle, EraseInv
<1>2. TypeOK /\ WorkOf /\ EraseInv /\ [Next]_vars => [Confirmed]_vars
  <2> SUFFICES ASSUME TypeOK, WorkOf, EraseInv, [Next]_vars,
                      NEW s \in cur.job.users, cur' = cur,
                      [op |-> "erase", who |-> s] \in work \ work',
                      users[s.user] # Absent, users'[s.user] = Absent,
                      NEW n \in cur.job.nodes
               PROVE  s.addr # None /\ ~slot[n][s.addr].active
    OBVIOUS
  <2>1. EraseUser(s)
    BY OnlyEraseUser
  <2>2. s.user \notin unconfirmed
    BY <2>1 DEF EraseUser, registryVars
  <2>3. [op |-> "delete", node |-> n, who |-> s] \notin work
    BY <2>1 DEF EraseUser
  <2>4. cur.kind = "delete"
    BY TaskKind
  <2>5. QED
    BY <2>2, <2>3, <2>4 DEF EraseInv
<1>3. QED
  BY <1>1, <1>2, TypeInit, TypeStep, WorkOfInit, WorkOfStep, EraseStep, PTL
     DEF Spec, EraseConfirmed

-----------------------------------------------------------------------------
\* A full synchronization leaves exactly the exported users.

\* The users of a full synchronization have addresses, and every one his own.
Distinct(job) ==
  job.flag => \A s, t \in job.users : s.addr # None /\ (s.addr = t.addr => s = t)

\* Upload jobs are numbered in turn, and a full one was allowed when it was queued.
Numbered(job) == job.id \in 1 .. nextUpload - 1 /\ Distinct(job)

UploadInv ==
  /\ nextUpload <= requests + 1
  /\ \A k \in 1 .. Len(uploads) : Numbered(uploads[k])
  /\ cur.kind = "upload" => Numbered(cur.job)

LEMMA FullSyncDistinct ==
  ASSUME FullSyncAllowed, NEW job, job.users = {SnapshotOf(u) : u \in Active}
  PROVE  Distinct(job)
<1> SUFFICES ASSUME NEW u \in Active, NEW v \in Active
             PROVE  /\ SnapshotOf(u).addr # None
                    /\ SnapshotOf(u).addr = SnapshotOf(v).addr => SnapshotOf(u) = SnapshotOf(v)
  BY DEF Distinct
<1>1. SnapshotOf(u).addr = users[u].addr /\ SnapshotOf(v).addr = users[v].addr
  BY DEF SnapshotOf
<1>2. users[u].addr # None /\ (users[u].addr = users[v].addr => u = v)
  BY DEF FullSyncAllowed
<1>3. QED
  BY <1>1, <1>2

LEMMA EnqueueNumbers ==
  ASSUME TypeOK, UploadInv, NEW S \in SUBSET Present, NEW N \in SUBSET Node,
         NEW full \in BOOLEAN, NEW total, Enqueue(S, N, full, total),
         full => S = Active /\ FullSyncAllowed
  PROVE  UploadInv'
<1>a. RegistryType /\ nextUpload \in Nat
  BY DEF TypeOK, JobType
<1>b. PICK p \in Pending :
        p = [id |-> nextUpload, users |-> {SnapshotOf(u) : u \in S},
             nodes |-> N, flag |-> full]
  BY <1>a, PendingType
<1>1. /\ p.id = nextUpload /\ p.users = {SnapshotOf(u) : u \in S} /\ p.flag = full
      /\ uploads' = Append(uploads, p)
  BY <1>b DEF Enqueue
<1>2. Distinct(p)
  <2>1. CASE full
    BY <1>1, <2>1, FullSyncDistinct
  <2>2. CASE ~full
    BY <1>1, <2>2 DEF Distinct
  <2>3. QED
    BY <2>1, <2>2
<1>3. PICK L \in Nat : L = Len(uploads)
  BY LenProperties DEF TypeOK, JobType
<1>4. /\ Len(uploads') = L + 1 /\ uploads'[L + 1] = p
      /\ \A k \in 1 .. L : uploads'[k] = uploads[k]
  BY <1>1, <1>3, AppendProperties DEF Enqueue, TypeOK, JobType
<1>5. /\ nextUpload \in Nat \ {0} /\ nextUpload' = nextUpload + 1
      /\ requests \in Nat /\ requests' = requests + 1 /\ cur' = cur
  BY ConstantTypes DEF Enqueue, Requested, workerVars, TypeOK, JobType
<1>6. ASSUME NEW job, Numbered(job)
      PROVE  job.id \in 1 .. nextUpload' - 1 /\ Distinct(job)
  BY <1>5, <1>6 DEF Numbered
<1>7. p.id \in 1 .. nextUpload' - 1
  BY <1>1, <1>5
<1>8. \A k \in 1 .. L + 1 : k \in 1 .. L \/ k = L + 1
  OBVIOUS
<1>9. \A k \in 1 .. L + 1 : uploads'[k].id \in 1 .. nextUpload' - 1 /\ Distinct(uploads'[k])
  BY <1>2, <1>3, <1>4, <1>6, <1>7, <1>8 DEF UploadInv
<1>10. cur'.kind = "upload" => cur'.job.id \in 1 .. nextUpload' - 1 /\ Distinct(cur'.job)
  BY <1>5, <1>6 DEF UploadInv
<1>11. nextUpload' <= requests' + 1
  BY <1>5 DEF UploadInv
<1>12. QED
  BY <1>4, <1>9, <1>10, <1>11 DEF UploadInv, Numbered, Distinct

LEMMA BeginUploadNumbers ==
  ASSUME TypeOK, UploadInv, BeginUpload
  PROVE  UploadInv'
<1>1. CASE uploads = <<>>
  BY <1>1 DEF BeginUpload, boundVars, UploadInv, Numbered, Distinct
<1>2. CASE uploads # <<>>
  <2>1. PICK L \in Nat : L = Len(uploads)
    BY LenProperties DEF TypeOK, JobType
  <2>a. uploads \in Seq(Pending) /\ uploads' = Tail(uploads)
    BY <1>2 DEF BeginUpload, TypeOK, JobType
  <2>2. /\ L >= 1 /\ Len(uploads') = L - 1
        /\ \A k \in 1 .. L - 1 : uploads'[k] = uploads[k + 1]
        /\ Head(uploads) = uploads[1]
    BY <1>2, <2>1, <2>a, HeadTailProperties, EmptySeq, LenProperties
  <2>3. /\ cur' = [kind |-> "upload", job |-> uploads[1]]
        /\ UNCHANGED <<nextUpload, requests>>
    BY <1>2, <2>2 DEF BeginUpload, boundVars
  <2>4. \A k \in 1 .. L : Numbered(uploads[k])
    BY <2>1 DEF UploadInv
  <2>5. \A k \in 1 .. L - 1 : k + 1 \in 1 .. L
    OBVIOUS
  <2>6. QED
    BY <2>2, <2>3, <2>4, <2>5 DEF UploadInv, Numbered, Distinct
<1>3. QED
  BY <1>1, <1>2

LEMMA UploadStep == TypeOK /\ UploadInv /\ [Next]_vars => UploadInv'
<1> SUFFICES ASSUME TypeOK, UploadInv, [Next]_vars PROVE UploadInv'
  OBVIOUS
<1>1. ASSUME NEW S \in Selections, NEW N \in SUBSET Node, QueueUpload(S, N) PROVE UploadInv'
  <2>1. S \in SUBSET Present
    BY <1>1 DEF QueueUpload
  <2>2. QED
    BY <1>1, <2>1, EnqueueNumbers DEF QueueUpload
<1>2. ASSUME NEW N \in SUBSET Node, QueueFullSync(N) PROVE UploadInv'
  <2>1. Active \in SUBSET Present
    BY DEF Active
  <2>2. QED
    BY <1>2, <2>1, EnqueueNumbers DEF QueueFullSync
<1>3. CASE BeginUpload
  BY <1>3, BeginUploadNumbers
<1>4. CASE UNCHANGED <<uploads, nextUpload>> /\ (cur' = cur \/ cur'.kind # "upload")
           /\ requests' \in Nat /\ requests <= requests'
  <2>1. requests \in Nat /\ nextUpload \in Nat
    BY ConstantTypes DEF TypeOK, JobType
  <2>2. requests' \in Nat /\ requests <= requests'
    BY <1>4
  <2>3. nextUpload <= requests + 1
    BY DEF UploadInv
  <2>4. nextUpload' <= requests' + 1
    <3>1. \A a, b, c \in Nat : a <= b + 1 /\ b <= c => a <= c + 1
      OBVIOUS
    <3>2. nextUpload <= requests' + 1
      BY <2>1, <2>2, <2>3, <3>1, Zenon
    <3>3. nextUpload' = nextUpload
      BY <1>4
    <3>4. QED
      BY <3>2, <3>3, Zenon
  <2>5. \A k \in 1 .. Len(uploads') :
          uploads'[k].id \in 1 .. nextUpload' - 1 /\ Distinct(uploads'[k])
    BY <1>4 DEF UploadInv, Numbered
  <2>6. cur'.kind = "upload" =>
          cur'.job.id \in 1 .. nextUpload' - 1 /\ Distinct(cur'.job)
    BY <1>4 DEF UploadInv, Numbered
  <2>7. QED
    BY <2>4, <2>5, <2>6 DEF UploadInv, Numbered, Distinct
<1>a. requests \in Nat
  BY ConstantTypes DEF TypeOK
<1>5. ASSUME NEW S, NEW N, NEW system, QueueDelete(S, N, system) PROVE UploadInv'
  <2>1. requests' = requests + 1 /\ UNCHANGED <<uploads, nextUpload, cur>>
    BY <1>5 DEF QueueDelete, Requested, workerVars
  <2>2. QED
    BY <1>4, <1>a, <2>1
<1>6. CASE \/ BeginDelete \/ FinishJob \/ UNCHANGED vars
           \/ \E n \in Node : DisablePassAny(n) \/ PassAnyFails(n)
           \/ \E n \in Node, a \in Addr : ClearSlot(n, a)
           \/ \E n \in Node, s \in cur.job.users : WriteUser(n, s) \/ DeleteUser(n, s)
           \/ \E s \in cur.job.users : EraseUser(s)
           \/ \E u \in User, e \in Forms : SaveUser(u, e)
           \/ \E S \in Selections : DeleteLocally(S)
  <2>1. UNCHANGED <<uploads, nextUpload, requests>> /\ (cur' = cur \/ cur'.kind # "upload")
    <3>1. CASE BeginDelete \/ FinishJob \/ UNCHANGED vars
      BY <3>1 DEF BeginDelete, FinishJob, Idle, vars, queueVars, workerVars, boundVars
    <3>2. CASE \/ \E n \in Node : DisablePassAny(n) \/ PassAnyFails(n)
               \/ \E n \in Node, a \in Addr : ClearSlot(n, a)
      BY <3>2 DEF DisablePassAny, PassAnyFails, ClearSlot, queueVars, boundVars
    <3>3. CASE \/ \E n \in Node, s \in cur.job.users : WriteUser(n, s) \/ DeleteUser(n, s)
               \/ \E s \in cur.job.users : EraseUser(s)
      BY <3>3 DEF WriteUser, DeleteUser, EraseUser, queueVars, boundVars
    <3>4. CASE \/ \E u \in User, e \in Forms : SaveUser(u, e)
               \/ \E S \in Selections : DeleteLocally(S)
      BY <3>4 DEF SaveUser, DeleteLocally, queueVars, workerVars
    <3>5. QED
      BY <1>6, <3>1, <3>2, <3>3, <3>4
  <2>2. QED
    BY <1>4, <1>a, <2>1
<1>7. CASE Restart
  BY <1>7, <1>a, EmptySeq DEF Restart, Idle, UploadInv
<1>8. QED
  BY <1>1, <1>2, <1>3, <1>5, <1>6, <1>7 DEF Next, Web, Worker

LEMMA UploadInit == Init => UploadInv
BY DEF Init, Idle, UploadInv

\* The synchronization in hand is in the table and has met no failure so far.
Clean ==
  /\ cur.kind = "upload" /\ cur.job.flag
  /\ uploadJobs[cur.job.id].state = "running"
  /\ uploadJobs[cur.job.id].failed = 0

\* What its tasks have done is still so.
Done(n) ==
  /\ [op |-> "pass", node |-> n] \notin work => ~passAny[n]
  /\ \A a \in Addr \ Addresses(cur.job.users) :
       [op |-> "clear", node |-> n, addr |-> a] \notin work => slot[n][a] = Free
  /\ \A s \in cur.job.users :
       [op |-> "write", node |-> n, who |-> s] \notin work =>
         slot[n][s.addr] = [card |-> s.user, active |-> s.on]

SyncInv == Clean => \A n \in cur.job.nodes : Done(n)

\* The job in hand has a number of the table.
LEMMA HandNumber ==
  ASSUME TypeOK, UploadInv, cur.kind = "upload"
  PROVE  /\ cur.job.id \in JobId /\ uploadJobs[cur.job.id] \in Job
         /\ Distinct(cur.job) /\ cur.job.id # nextUpload
<1>1. nextUpload \in Nat /\ requests \in Nat /\ requests <= MaxRequests
  BY ConstantTypes DEF TypeOK, JobType
<1>2. cur.job.id \in 1 .. nextUpload - 1 /\ Distinct(cur.job)
  BY DEF UploadInv, Numbered
<1>3. cur.job.id \in JobId /\ cur.job.id # nextUpload
  BY <1>1, <1>2, ConstantTypes DEF UploadInv, JobId
<1>4. QED
  BY <1>2, <1>3 DEF TypeOK, JobType

\* A failure that is counted shows.
LEMMA CountedShows ==
  ASSUME NEW jobs \in [JobId -> Job], NEW id \in JobId, NEW result,
         Counted(jobs, id, result)[id].state = "running",
         Counted(jobs, id, result)[id].failed = 0
  PROVE  jobs[id].state = "running" /\ jobs[id].failed = 0 /\ result # "failed"
<1>1. jobs[id] \in Job
  OBVIOUS
<1>2. Counted(jobs, id, result)[id].state = jobs[id].state
  BY <1>1 DEF Counted, Job
<1>3. Counted(jobs, id, result)[id].failed
        = IF result = "failed" THEN jobs[id].failed + 1 ELSE jobs[id].failed
  BY <1>1, <1>2 DEF Counted, Job
<1>4. jobs[id].failed \in Nat
  BY <1>1 DEF Job
<1>5. QED
  BY <1>2, <1>3, <1>4

\* A write touches one slot only.
LEMMA ProgramFrame ==
  ASSUME ControllerType, NEW n \in Node, NEW a \in Addr, NEW content, NEW ok,
         Program(n, a, content, ok)
  PROVE  \A m \in Node, b \in Addr : m # n \/ b # a => slot'[m][b] = slot[m][b]
<1>1. slot' = slot \/ slot' = [slot EXCEPT ![n][a] = content]
  BY DEF Program
<1>2. QED
  BY <1>1 DEF ControllerType

\* A task of the job in hand.
LEMMA HandTypes ==
  ASSUME TypeOK
  PROVE  /\ cur.job.users \subseteq Snapshot /\ cur.job.nodes \subseteq Node
         /\ uploadJobs \in [JobId -> Job] /\ ControllerType
         /\ \A s \in cur.job.users : s.addr \in Addr \union {None}
<1>1. cur.job \in Pending
  BY DEF TypeOK, WorkerType
<1>2. cur.job.users \subseteq Snapshot /\ cur.job.nodes \subseteq Node
  BY <1>1 DEF Pending
<1>3. \A s \in Snapshot : s.addr \in Addr \union {None}
  BY DEF Snapshot
<1>4. QED
  BY <1>2, <1>3 DEF TypeOK, JobType

LEMMA DisablePassAnyDone ==
  ASSUME TypeOK, UploadInv, WorkOf, SyncInv, NEW n \in Node, DisablePassAny(n)
  PROVE  SyncInv'
<1>1. PICK t : t = [op |-> "pass", node |-> n]
  OBVIOUS
<1>2. /\ t \in work /\ work' = work \ {t} /\ passAny' = [passAny EXCEPT ![n] = FALSE]
      /\ uploadJobs' = Counted(uploadJobs, cur.job.id, "success")
      /\ UNCHANGED <<cur, slot>>
  BY <1>1 DEF DisablePassAny, CountUpload
<1>3. SUFFICES ASSUME Clean', NEW m \in cur.job.nodes PROVE Done(m)'
  BY <1>2 DEF SyncInv
<1>4. cur.kind = "upload" /\ cur.job.id \in JobId
  BY <1>1, <1>2, TaskKind, HandNumber
<1>5. Clean
  BY <1>2, <1>3, <1>4, HandTypes, CountedShows DEF Clean
<1>6. Done(m) /\ m \in Node
  BY <1>5, HandTypes DEF SyncInv
<1>7. [op |-> "pass", node |-> m] \notin work' => ~passAny'[m]
  <2>1. passAny \in [Node -> BOOLEAN]
    BY DEF TypeOK, ControllerType
  <2>2. CASE m = n
    BY <1>2, <1>6, <2>1, <2>2
  <2>3. CASE m # n
    BY <1>1, <1>2, <1>6, <2>1, <2>3 DEF Done
  <2>4. QED
    BY <2>2, <2>3
<1>8. \A a : [op |-> "clear", node |-> m, addr |-> a] \notin work'
               => [op |-> "clear", node |-> m, addr |-> a] \notin work
  BY <1>1, <1>2
<1>9. \A s : [op |-> "write", node |-> m, who |-> s] \notin work'
               => [op |-> "write", node |-> m, who |-> s] \notin work
  BY <1>1, <1>2
<1>10. QED
  BY <1>2, <1>6, <1>7, <1>8, <1>9 DEF Done

LEMMA PassAnyFailsDone ==
  ASSUME TypeOK, UploadInv, WorkOf, NEW n \in Node, PassAnyFails(n)
  PROVE  ~Clean'
<1>1. /\ [op |-> "pass", node |-> n] \in work /\ UNCHANGED cur
      /\ uploadJobs' = Skipped(Counted(uploadJobs, cur.job.id, "failed"), cur.job.id)
  BY DEF PassAnyFails
<1>2. cur.kind = "upload" /\ cur.job.id \in JobId
  BY <1>1, TaskKind, HandNumber
<1>3. PICK id \in JobId : id = cur.job.id
  BY <1>2
<1>4. PICK counted \in [JobId -> Job] : counted = Counted(uploadJobs, id, "failed")
  BY HandTypes, CountedType
<1>5. counted[id] \in Job
  BY <1>4
<1>6. /\ uploadJobs'[id].state = counted[id].state
      /\ uploadJobs'[id].failed = counted[id].failed
  BY <1>1, <1>3, <1>4, <1>5 DEF Skipped, Job
<1>7. ~(counted[id].state = "running" /\ counted[id].failed = 0)
  BY <1>4, HandTypes, CountedShows
<1>8. QED
  BY <1>1, <1>3, <1>6, <1>7 DEF Clean

LEMMA ClearSlotDone ==
  ASSUME TypeOK, UploadInv, WorkOf, SyncInv, NEW n \in Node, NEW a \in Addr, ClearSlot(n, a)
  PROVE  SyncInv'
<1>1. PICK t : t = [op |-> "clear", node |-> n, addr |-> a]
  OBVIOUS
<1>2. /\ t \in work /\ work' = work \ {t} /\ UNCHANGED <<cur, passAny>>
      /\ \E ok \in BOOLEAN : /\ Program(n, a, Free, ok)
                             /\ uploadJobs' = Counted(uploadJobs, cur.job.id, Verdict(ok))
  BY <1>1 DEF ClearSlot, CountUpload
<1>3. PICK ok \in BOOLEAN : /\ Program(n, a, Free, ok)
                            /\ uploadJobs' = Counted(uploadJobs, cur.job.id, Verdict(ok))
  BY <1>2
<1>4. SUFFICES ASSUME Clean', NEW m \in cur.job.nodes PROVE Done(m)'
  BY <1>2 DEF SyncInv
<1>5. cur.kind = "upload" /\ cur.job.id \in JobId /\ Distinct(cur.job)
  BY <1>1, <1>2, TaskKind, HandNumber
<1>6. Clean /\ ok
  BY <1>2, <1>3, <1>4, <1>5, HandTypes, CountedShows DEF Clean, Verdict
<1>7. Done(m) /\ m \in Node
  BY <1>6, HandTypes DEF SyncInv
<1>8. /\ \A k \in Node, b \in Addr : k # n \/ b # a => slot'[k][b] = slot[k][b]
      /\ slot'[n][a] = Free
  <2>1. ControllerType /\ Program(n, a, Free, ok)
    BY <1>3, HandTypes
  <2>2. slot'[n][a] = Free
    BY <1>6, <2>1 DEF Program, Verified
  <2>3. QED
    BY <2>1, <2>2, ProgramFrame
<1>9. a \notin Addresses(cur.job.users)
  BY <1>1, <1>2, <1>5 DEF WorkOf, UploadWork
<1>10. [op |-> "pass", node |-> m] \notin work' => ~passAny'[m]
  BY <1>1, <1>2, <1>7 DEF Done
<1>11. ASSUME NEW b \in Addr \ Addresses(cur.job.users),
              [op |-> "clear", node |-> m, addr |-> b] \notin work'
       PROVE  slot'[m][b] = Free
  <2>1. CASE m = n /\ b = a
    BY <1>8, <2>1
  <2>2. CASE m # n \/ b # a
    <3>1. [op |-> "clear", node |-> m, addr |-> b] # t
      BY <1>1, <2>2
    <3>2. QED
      BY <1>2, <1>7, <1>8, <1>11, <2>2, <3>1 DEF Done
  <2>3. QED
    BY <2>1, <2>2
<1>12. ASSUME NEW s \in cur.job.users, [op |-> "write", node |-> m, who |-> s] \notin work'
       PROVE  slot'[m][s.addr] = [card |-> s.user, active |-> s.on]
  <2>1. s.addr \in Addr /\ s.addr # a
    BY <1>5, <1>6, <1>9, HandTypes DEF Clean, Distinct, Addresses
  <2>2. slot'[m][s.addr] = slot[m][s.addr]
    BY <1>7, <1>8, <2>1
  <2>3. [op |-> "write", node |-> m, who |-> s] \notin work
    BY <1>1, <1>2, <1>12
  <2>4. QED
    BY <1>7, <2>2, <2>3 DEF Done
<1>13. QED
  BY <1>2, <1>10, <1>11, <1>12 DEF Done

LEMMA WriteUserDone ==
  ASSUME TypeOK, UploadInv, WorkOf, SyncInv, NEW n \in Node, NEW r \in cur.job.users,
         WriteUser(n, r)
  PROVE  SyncInv'
<1>1. PICK t : t = [op |-> "write", node |-> n, who |-> r]
  OBVIOUS
<1>2. t \in work /\ work' = work \ {t} /\ UNCHANGED <<cur, passAny>>
  BY <1>1 DEF WriteUser
<1>3. SUFFICES ASSUME Clean', NEW m \in cur.job.nodes PROVE Done(m)'
  BY <1>2 DEF SyncInv
<1>4. cur.kind = "upload" /\ cur.job.id \in JobId /\ Distinct(cur.job) /\ cur.job.flag
  BY <1>1, <1>2, <1>3, TaskKind, HandNumber DEF Clean
<1>5. r.addr # None /\ r.addr \in Addr
  BY <1>4, HandTypes DEF Distinct
<1>6. PICK ok \in BOOLEAN : /\ Program(n, r.addr, [card |-> r.user, active |-> r.on], ok)
                            /\ uploadJobs' = Counted(uploadJobs, cur.job.id, Verdict(ok))
  BY <1>5 DEF WriteUser, CountUpload
<1>7. Clean /\ ok
  BY <1>2, <1>3, <1>4, <1>6, HandTypes, CountedShows DEF Clean, Verdict
<1>8. Done(m) /\ m \in Node
  BY <1>7, HandTypes DEF SyncInv
<1>9. /\ \A k \in Node, b \in Addr : k # n \/ b # r.addr => slot'[k][b] = slot[k][b]
      /\ slot'[n][r.addr] = [card |-> r.user, active |-> r.on]
  <2>1. ControllerType /\ Program(n, r.addr, [card |-> r.user, active |-> r.on], ok)
    BY <1>6, HandTypes
  <2>2. slot'[n][r.addr] = [card |-> r.user, active |-> r.on]
    BY <1>7, <2>1 DEF Program, Verified
  <2>3. QED
    BY <1>5, <2>1, <2>2, ProgramFrame
<1>10. [op |-> "pass", node |-> m] \notin work' => ~passAny'[m]
  BY <1>1, <1>2, <1>8 DEF Done
<1>11. ASSUME NEW b \in Addr \ Addresses(cur.job.users),
              [op |-> "clear", node |-> m, addr |-> b] \notin work'
       PROVE  slot'[m][b] = Free
  <2>1. b # r.addr
    BY <1>11 DEF Addresses
  <2>2. [op |-> "clear", node |-> m, addr |-> b] \notin work
    BY <1>1, <1>2, <1>11
  <2>3. QED
    BY <1>8, <1>9, <1>11, <2>1, <2>2 DEF Done
<1>12. ASSUME NEW s \in cur.job.users, [op |-> "write", node |-> m, who |-> s] \notin work'
       PROVE  slot'[m][s.addr] = [card |-> s.user, active |-> s.on]
  <2>1. s.addr \in Addr /\ (s.addr = r.addr => s = r)
    BY <1>4, HandTypes DEF Distinct
  <2>2. CASE m = n /\ s = r
    BY <1>9, <2>2
  <2>3. CASE m # n \/ s # r
    <3>1. slot'[m][s.addr] = slot[m][s.addr]
      BY <1>8, <1>9, <2>1, <2>3
    <3>2. [op |-> "write", node |-> m, who |-> s] # t
      BY <1>1, <2>3
    <3>3. QED
      BY <1>2, <1>8, <1>12, <3>1, <3>2 DEF Done
  <2>4. QED
    BY <2>2, <2>3
<1>13. QED
  BY <1>2, <1>10, <1>11, <1>12 DEF Done

\* A step that leaves controllers, job in hand and its table entry alone.
LEMMA SyncKept ==
  ASSUME SyncInv, UNCHANGED <<slot, passAny, cur, work>>,
         Clean' => Clean
  PROVE  SyncInv'
<1>1. SUFFICES ASSUME Clean', NEW n \in cur.job.nodes PROVE Done(n)'
  BY DEF SyncInv
<1>2. Done(n)
  BY <1>1 DEF SyncInv
<1>3. QED
  BY <1>2 DEF Done

LEMMA EnqueueSync ==
  ASSUME TypeOK, UploadInv, SyncInv, NEW S, NEW N, NEW full, NEW total,
         Enqueue(S, N, full, total)
  PROVE  SyncInv'
<1>1. /\ UNCHANGED <<slot, passAny, cur, work>>
      /\ uploadJobs' = WithJob(uploadJobs, nextUpload, total)
  BY DEF Enqueue, controllerVars, workerVars
<1>2. ASSUME Clean' PROVE Clean
  <2>1. PICK id \in JobId : id = cur.job.id /\ id # nextUpload
    BY <1>1, <1>2, HandNumber DEF Clean
  <2>2. uploadJobs'[id] = AbsentJob \/ uploadJobs'[id] = uploadJobs[id]
    BY <1>1, <2>1, HandTypes DEF WithJob
  <2>3. AbsentJob.state # "running"
    BY DEF AbsentJob, NewJob
  <2>4. QED
    BY <1>1, <1>2, <2>1, <2>2, <2>3 DEF Clean
<1>3. QED
  BY <1>1, <1>2, SyncKept

LEMMA BeginUploadSync ==
  ASSUME TypeOK, SyncInv, BeginUpload
  PROVE  SyncInv'
<1>1. CASE uploads = <<>>
  BY <1>1, SyncKept DEF BeginUpload, controllerVars, Clean
<1>2. CASE uploads # <<>>
  <2>1. /\ cur' = [kind |-> "upload", job |-> Head(uploads)]
        /\ work' = UploadWork(Head(uploads))
    BY <1>2 DEF BeginUpload
  <2>2. SUFFICES ASSUME Head(uploads).flag, NEW n \in Head(uploads).nodes PROVE Done(n)'
    BY <2>1 DEF SyncInv, Clean
  <2>3. /\ [op |-> "pass", node |-> n] \in work'
        /\ \A a \in Addr \ Addresses(Head(uploads).users) :
             [op |-> "clear", node |-> n, addr |-> a] \in work'
        /\ \A s \in Head(uploads).users : [op |-> "write", node |-> n, who |-> s] \in work'
    BY <2>1, <2>2 DEF UploadWork
  <2>4. cur'.job.users = Head(uploads).users
    BY <2>1
  <2>5. QED
    BY <2>3, <2>4 DEF Done, Addresses
<1>3. QED
  BY <1>1, <1>2

LEMMA SyncStep == TypeOK /\ UploadInv /\ WorkOf /\ SyncInv /\ [Next]_vars => SyncInv'
<1> SUFFICES ASSUME TypeOK, UploadInv, WorkOf, SyncInv, [Next]_vars PROVE SyncInv'
  OBVIOUS
<1>1. CASE BeginUpload
  BY <1>1, BeginUploadSync
<1>2. ASSUME NEW n \in Node, DisablePassAny(n) PROVE SyncInv'
  BY <1>2, DisablePassAnyDone
<1>3. ASSUME NEW n \in Node, PassAnyFails(n) PROVE SyncInv'
  BY <1>3, PassAnyFailsDone DEF SyncInv
<1>4. ASSUME NEW n \in Node, NEW a \in Addr, ClearSlot(n, a) PROVE SyncInv'
  BY <1>4, ClearSlotDone
<1>5. ASSUME NEW n \in Node, NEW s \in cur.job.users, WriteUser(n, s) PROVE SyncInv'
  BY <1>5, WriteUserDone
<1>6. ASSUME NEW n \in Node, NEW s \in cur.job.users, DeleteUser(n, s) \/ EraseUser(s)
      PROVE  SyncInv'
  <2>1. cur' = cur /\ \E t \in work : t.op \in {"delete", "erase"}
    BY <1>6 DEF DeleteUser, EraseUser
  <2>2. cur'.kind = "delete"
    BY <2>1, TaskKind
  <2>3. QED
    BY <2>2 DEF SyncInv, Clean
<1>7. ASSUME NEW s \in cur.job.users, EraseUser(s) PROVE SyncInv'
  <2>1. cur' = cur /\ \E t \in work : t.op \in {"delete", "erase"}
    BY <1>7 DEF EraseUser
  <2>2. cur'.kind = "delete"
    BY <2>1, TaskKind
  <2>3. QED
    BY <2>2 DEF SyncInv, Clean
<1>8. CASE BeginDelete
  <2>1. \/ UNCHANGED <<slot, passAny, cur, work, uploadJobs>>
        \/ cur' = [kind |-> "delete", job |-> Head(deletes)]
    BY <1>8 DEF BeginDelete, controllerVars
  <2>2. QED
    BY <2>1, SyncKept DEF SyncInv, Clean
<1>9. CASE FinishJob \/ Restart
  BY <1>9 DEF FinishJob, Restart, Idle, SyncInv, Clean
<1>10. ASSUME NEW S, NEW N \in SUBSET Node, QueueUpload(S, N) \/ QueueFullSync(N) PROVE SyncInv'
  BY <1>10, EnqueueSync DEF QueueUpload, QueueFullSync
<1>11. CASE \/ UNCHANGED vars
            \/ \E S \in Selections, N \in SUBSET Node, system \in BOOLEAN :
                 QueueDelete(S, N, system)
            \/ \E u \in User, e \in Forms : SaveUser(u, e)
            \/ \E S \in Selections : DeleteLocally(S)
  <2>1. UNCHANGED <<slot, passAny, cur, work, uploadJobs>>
    BY <1>11 DEF vars, QueueDelete, SaveUser, DeleteLocally, controllerVars, workerVars, jobVars
  <2>2. QED
    BY <2>1, SyncKept DEF Clean
<1>12. QED
  BY <1>1, <1>2, <1>3, <1>4, <1>5, <1>6, <1>7, <1>8, <1>9, <1>10, <1>11 DEF Next, Web, Worker

\* A full synchronization that reports no failure has left on each of its
\* controllers exactly the exported users, every one at his address, no other
\* card at any address, and Pass Any Cards off (processOneUserUpload, writeUser,
\* clearUserSlot, disablePassAnyCards), for any number of users and addresses.
THEOREM SyncExactAlways == Spec => []SyncExact
<1>1. Init => SyncInv
  BY DEF Init, Idle, SyncInv, Clean
<1>2. TypeOK /\ UploadInv /\ SyncInv => SyncExact
  <2> SUFFICES ASSUME TypeOK, UploadInv, SyncInv, Clean, work = {}, NEW n \in cur.job.nodes
               PROVE  ~passAny[n] /\ \A a \in Addr : slot[n][a] = Desired(cur.job.users, a)
    BY DEF SyncExact, Clean
  <2>1. /\ ~passAny[n]
        /\ \A a \in Addr \ Addresses(cur.job.users) : slot[n][a] = Free
        /\ \A s \in cur.job.users : slot[n][s.addr] = [card |-> s.user, active |-> s.on]
    BY DEF SyncInv, Done
  <2>2. ASSUME NEW a \in Addr PROVE slot[n][a] = Desired(cur.job.users, a)
    <3>1. CASE a \notin Addresses(cur.job.users)
      BY <2>1, <3>1 DEF Desired
    <3>2. CASE a \in Addresses(cur.job.users)
      <4>1. PICK r : r = CHOOSE s \in cur.job.users : s.addr = a
        OBVIOUS
      <4>2. r \in cur.job.users /\ r.addr = a
        BY <3>2, <4>1 DEF Addresses
      <4>3. QED
        BY <2>1, <3>2, <4>1, <4>2 DEF Desired
    <3>3. QED
      BY <3>1, <3>2
  <2>3. QED
    BY <2>1, <2>2
<1>3. QED
  BY <1>1, <1>2, TypeInit, TypeStep, WorkOfInit, WorkOfStep, UploadInit, UploadStep, SyncStep,
     PTL DEF Spec

-----------------------------------------------------------------------------
\* How many tasks a job has.

\* Sets whose elements correspond have the same size.
LEMMA Matching ==
  ASSUME NEW S, NEW T, IsFiniteSet(S), NEW f \in [S -> T],
         \A a, b \in S : f[a] = f[b] => a = b,
         \A t \in T : \E s \in S : f[s] = t
  PROVE  IsFiniteSet(T) /\ Cardinality(T) = Cardinality(S)
BY FS_Bijection DEF ExistsBijection, Bijection, Injection, Surjection, IsInjective

\* Sets without a common element.
LEMMA SizeOfUnion ==
  ASSUME NEW S, NEW T, IsFiniteSet(S), IsFiniteSet(T), S \intersect T = {}
  PROVE  /\ IsFiniteSet(S \union T)
         /\ Cardinality(S \union T) = Cardinality(S) + Cardinality(T)
<1>1. /\ IsFiniteSet(S \union T)
      /\ Cardinality(S \union T)
           = Cardinality(S) + Cardinality(T) - Cardinality(S \intersect T)
  BY FS_Union
<1>2. Cardinality(S) \in Nat /\ Cardinality(T) \in Nat
  BY FS_CardinalityType
<1>3. Cardinality(S \intersect T) = 0
  BY FS_EmptySet
<1>4. QED
  BY <1>1, <1>2, <1>3

\* A task for each controller and user, or for each controller and address.
LEMMA UserTasks ==
  ASSUME NEW N, IsFiniteSet(N), NEW U, IsFiniteSet(U), NEW op
  PROVE  /\ IsFiniteSet([op : {op}, node : N, who : U])
         /\ Cardinality([op : {op}, node : N, who : U]) = Cardinality(N) * Cardinality(U)
<1> DEFINE T == [op : {op}, node : N, who : U]
           f == [p \in N \X U |-> [op |-> op, node |-> p[1], who |-> p[2]]]
<1>1. f \in [N \X U -> T]
  OBVIOUS
<1>2. \A a, b \in N \X U : f[a] = f[b] => a = b
  OBVIOUS
<1>3. \A t \in T : \E s \in N \X U : f[s] = t
  <2> TAKE t \in T
  <2>1. <<t.node, t.who>> \in N \X U /\ f[<<t.node, t.who>>] = t
    OBVIOUS
  <2>2. QED
    BY <2>1
<1>4. IsFiniteSet(N \X U) /\ Cardinality(N \X U) = Cardinality(N) * Cardinality(U)
  BY FS_Product
<1> HIDE DEF T, f
<1>5. IsFiniteSet(T) /\ Cardinality(T) = Cardinality(N \X U)
  BY <1>1, <1>2, <1>3, <1>4, Matching
<1>6. QED
  BY <1>4, <1>5 DEF T

LEMMA ClearTasks ==
  ASSUME NEW N, IsFiniteSet(N), NEW A, IsFiniteSet(A)
  PROVE  /\ IsFiniteSet([op : {"clear"}, node : N, addr : A])
         /\ Cardinality([op : {"clear"}, node : N, addr : A]) = Cardinality(N) * Cardinality(A)
<1> DEFINE T == [op : {"clear"}, node : N, addr : A]
           f == [p \in N \X A |-> [op |-> "clear", node |-> p[1], addr |-> p[2]]]
<1>1. f \in [N \X A -> T]
  OBVIOUS
<1>2. \A a, b \in N \X A : f[a] = f[b] => a = b
  OBVIOUS
<1>3. \A t \in T : \E s \in N \X A : f[s] = t
  <2> TAKE t \in T
  <2>1. <<t.node, t.addr>> \in N \X A /\ f[<<t.node, t.addr>>] = t
    OBVIOUS
  <2>2. QED
    BY <2>1
<1>4. IsFiniteSet(N \X A) /\ Cardinality(N \X A) = Cardinality(N) * Cardinality(A)
  BY FS_Product
<1> HIDE DEF T, f
<1>5. IsFiniteSet(T) /\ Cardinality(T) = Cardinality(N \X A)
  BY <1>1, <1>2, <1>3, <1>4, Matching
<1>6. QED
  BY <1>4, <1>5 DEF T

LEMMA PassTasks ==
  ASSUME NEW N, IsFiniteSet(N)
  PROVE  /\ IsFiniteSet([op : {"pass"}, node : N])
         /\ Cardinality([op : {"pass"}, node : N]) = Cardinality(N)
<1> DEFINE T == [op : {"pass"}, node : N]
           f == [n \in N |-> [op |-> "pass", node |-> n]]
<1>1. f \in [N -> T] /\ \A a, b \in N : f[a] = f[b] => a = b
  OBVIOUS
<1>2. \A t \in T : \E s \in N : f[s] = t
  <2> TAKE t \in T
  <2>1. t.node \in N /\ f[t.node] = t
    OBVIOUS
  <2>2. QED
    BY <2>1
<1> HIDE DEF T, f
<1>3. IsFiniteSet(T) /\ Cardinality(T) = Cardinality(N)
  BY <1>1, <1>2, Matching
<1>4. QED
  BY <1>3 DEF T

LEMMA EraseTasks ==
  ASSUME NEW U, IsFiniteSet(U)
  PROVE  /\ IsFiniteSet([op : {"erase"}, who : U])
         /\ Cardinality([op : {"erase"}, who : U]) = Cardinality(U)
<1> DEFINE T == [op : {"erase"}, who : U]
           f == [u \in U |-> [op |-> "erase", who |-> u]]
<1>1. f \in [U -> T] /\ \A a, b \in U : f[a] = f[b] => a = b
  OBVIOUS
<1>2. \A t \in T : \E s \in U : f[s] = t
  <2> TAKE t \in T
  <2>1. t.who \in U /\ f[t.who] = t
    OBVIOUS
  <2>2. QED
    BY <2>1
<1> HIDE DEF T, f
<1>3. IsFiniteSet(T) /\ Cardinality(T) = Cardinality(U)
  BY <1>1, <1>2, Matching
<1>4. QED
  BY <1>3 DEF T

\* There are as many snapshots as users they were taken of.
LEMMA SnapshotsOf ==
  ASSUME NEW S \in SUBSET User
  PROVE  /\ IsFiniteSet({SnapshotOf(u) : u \in S})
         /\ Cardinality({SnapshotOf(u) : u \in S}) = Cardinality(S)
<1> DEFINE T == {SnapshotOf(u) : u \in S}
           f == [u \in S |-> SnapshotOf(u)]
<1>1. \A u : SnapshotOf(u).user = u
  BY DEF SnapshotOf
<1>2. f \in [S -> T] /\ \A t \in T : \E s \in S : f[s] = t
  OBVIOUS
<1>3. \A a, b \in S : f[a] = f[b] => a = b
  BY <1>1
<1>4. IsFiniteSet(S)
  BY ConstantTypes, FS_Subset
<1> HIDE DEF T, f
<1>5. IsFiniteSet(T) /\ Cardinality(T) = Cardinality(S)
  BY <1>2, <1>3, <1>4, Matching
<1>6. QED
  BY <1>5 DEF T

\* Snapshots with an address each, and no address twice.
LEMMA AddressesOf ==
  ASSUME NEW U, IsFiniteSet(U), \A s, t \in U : s.addr = t.addr => s = t
  PROVE  IsFiniteSet(Addresses(U)) /\ Cardinality(Addresses(U)) = Cardinality(U)
<1> DEFINE f == [s \in U |-> s.addr]
<1>1. /\ f \in [U -> Addresses(U)] /\ \A a, b \in U : f[a] = f[b] => a = b
      /\ \A t \in Addresses(U) : \E s \in U : f[s] = t
  BY DEF Addresses
<1> HIDE DEF f
<1>2. QED
  BY <1>1, Matching

\* Only finitely many snapshots are possible.
LEMMA FiniteSnapshots == IsFiniteSet(Snapshot)
<1> DEFINE A == Addr \union {None}
           P == (User \X A) \X BOOLEAN
           f == [p \in P |-> [user |-> p[1][1], addr |-> p[1][2], on |-> p[2]]]
<1>1. IsFiniteSet(A)
  BY ConstantTypes, FS_AddElement
<1>2. IsFiniteSet(BOOLEAN)
  <2>1. BOOLEAN = {TRUE} \union {FALSE}
    OBVIOUS
  <2>2. IsFiniteSet({TRUE})
    BY FS_Singleton, Zenon
  <2>3. IsFiniteSet({TRUE} \union {FALSE})
    BY <2>2, FS_AddElement, Zenon
  <2>4. QED
    BY <2>1, <2>3, Zenon
<1>3. IsFiniteSet(User \X A)
  BY <1>1, ConstantTypes, FS_Product
<1>4. IsFiniteSet(P)
  BY <1>2, <1>3, FS_Product
<1>5. f \in [P -> Snapshot] /\ \A a, b \in P : f[a] = f[b] => a = b
  BY DEF Snapshot
<1>6. \A t \in Snapshot : \E s \in P : f[s] = t
  <2> TAKE t \in Snapshot
  <2>1. <<<<t.user, t.addr>>, t.on>> \in P /\ f[<<<<t.user, t.addr>>, t.on>>] = t
    BY DEF Snapshot
  <2>2. QED
    BY <2>1
<1> HIDE DEF P, f
<1>7. QED
  BY <1>4, <1>5, <1>6, Matching

\* A full synchronization counts every address of a controller, and one for the option.
LEMMA FullWork ==
  ASSUME NEW N \in SUBSET Node, NEW U \in SUBSET Snapshot,
         \A s, t \in U : s.addr # None /\ (s.addr = t.addr => s = t)
  PROVE  LET W == [op : {"write"}, node : N, who : U]
                    \union ([op : {"pass"}, node : N]
                            \union [op : {"clear"}, node : N, addr : Addr \ Addresses(U)])
         IN  IsFiniteSet(W) /\ Cardinality(W) = (Cardinality(Addr) + 1) * Cardinality(N)
<1> DEFINE A == Addr \ Addresses(U)
           Wr == [op : {"write"}, node : N, who : U]
           Pa == [op : {"pass"}, node : N]
           Cl == [op : {"clear"}, node : N, addr : A]
<1>1. IsFiniteSet(N) /\ IsFiniteSet(U) /\ IsFiniteSet(Addr)
  BY ConstantTypes, FiniteSnapshots, FS_Subset
<1>2. IsFiniteSet(Addresses(U)) /\ Cardinality(Addresses(U)) = Cardinality(U)
  BY <1>1, AddressesOf
<1>3. Addresses(U) \subseteq Addr
  BY DEF Addresses, Snapshot
<1>4. IsFiniteSet(A) /\ Cardinality(A) = Cardinality(Addr) - Cardinality(U)
  <2>1. Addr \intersect Addresses(U) = Addresses(U)
    BY <1>3
  <2>2. /\ IsFiniteSet(Addr \ Addresses(U))
        /\ Cardinality(Addr \ Addresses(U))
             = Cardinality(Addr) - Cardinality(Addr \intersect Addresses(U))
    BY <1>1, FS_Difference
  <2>3. QED
    BY <1>2, <2>1, <2>2
<1>5. PICK n \in Nat, u \in Nat, a \in Nat :
        n = Cardinality(N) /\ u = Cardinality(U) /\ a = Cardinality(Addr)
  BY <1>1, FS_CardinalityType
<1>6. IsFiniteSet(Wr) /\ Cardinality(Wr) = n * u
  BY <1>1, <1>5, UserTasks
<1>7. IsFiniteSet(Pa) /\ Cardinality(Pa) = n
  BY <1>1, <1>5, PassTasks
<1>8. IsFiniteSet(Cl) /\ Cardinality(Cl) = n * (a - u)
  BY <1>1, <1>4, <1>5, ClearTasks
<1>9. Pa \intersect Cl = {} /\ Wr \intersect (Pa \union Cl) = {}
  OBVIOUS
<1> HIDE DEF Wr, Pa, Cl
<1>10. IsFiniteSet(Pa \union Cl) /\ Cardinality(Pa \union Cl) = n + n * (a - u)
  BY <1>7, <1>8, <1>9, SizeOfUnion
<1>11. /\ IsFiniteSet(Wr \union (Pa \union Cl))
       /\ Cardinality(Wr \union (Pa \union Cl)) = n * u + (n + n * (a - u))
  <2>1. /\ IsFiniteSet(Wr \union (Pa \union Cl))
        /\ Cardinality(Wr \union (Pa \union Cl)) = Cardinality(Wr) + Cardinality(Pa \union Cl)
    BY <1>6, <1>9, <1>10, SizeOfUnion
  <2>2. QED
    BY <1>6, <1>10, <2>1
<1>12. n * u + (n + n * (a - u)) = (a + 1) * n
  BY <1>5
<1>13. QED
  BY <1>5, <1>11, <1>12 DEF Wr, Pa, Cl

-----------------------------------------------------------------------------
\* The job tables add up.

\* The tasks of a job whose results are counted, all of them or those left of w.
Countable(kind, job) ==
  IF kind = "upload" THEN UploadWork(job) ELSE [op : {"delete"}, node : job.nodes, who : job.users]

ToCount(kind, w) == IF kind = "upload" THEN w ELSE {t \in w : t.op = "delete"}
ToErase(w) == {t \in w : t.op = "erase"}
WholeWork(kind, job) == IF kind = "upload" THEN UploadWork(job) ELSE DeleteWork(job)

\* What the table says of a job adds up.
Adds(kind, j) ==
  /\ j.completed = j.success + j.failed + j.skipped
  /\ j.completed <= j.total
  /\ j.state = "completed" => j.completed = j.total
  /\ kind = "delete" => j.skipped = 0 /\ j.deleted + j.retained <= j.total

\* The queued jobs are numbered in their order, and the table has the whole of each before it,
\* unless it has dropped the job.
Waiting(kind, q, jobs, next) ==
  \A k \in 1 .. Len(q) :
    /\ q[k].id \in 1 .. next - 1
    /\ \A l \in 1 .. k - 1 : q[l].id < q[k].id
    /\ q[k].nodes # {}
    /\ jobs[q[k].id] \in {AbsentJob, NewJob(Cardinality(Countable(kind, q[k])))}

\* What is counted and what is left of the job in hand make up the whole of it.
Progress(kind, j, w) ==
  j.state # "absent" =>
    /\ j.state = "running"
    /\ j.completed + Cardinality(ToCount(kind, w)) = j.total
    /\ kind = "delete" => j.deleted + j.retained + Cardinality(ToErase(w)) <= j.total

Hand(kind, c, w, q, jobs, next) ==
  c.kind = kind =>
    /\ c.job.id \in 1 .. next - 1
    /\ \A k \in 1 .. Len(q) : c.job.id < q[k].id
    /\ Progress(kind, jobs[c.job.id], w)

Book(kind, c, w, q, jobs, next) ==
  /\ \A i \in JobId : Adds(kind, jobs[i])
  /\ Waiting(kind, q, jobs, next)
  /\ Hand(kind, c, w, q, jobs, next)

Kind == {"upload", "delete"}

LEMMA EmptyAdds ==
  ASSUME NEW kind, NEW total \in Nat
  PROVE  Adds(kind, NewJob(total)) /\ Adds(kind, AbsentJob)
BY DEF Adds, AbsentJob, NewJob

\* A job is queued.
LEMMA BookQueues ==
  ASSUME NEW kind \in Kind, NEW c, NEW w, NEW q \in Seq(Pending), NEW jobs \in [JobId -> Job],
         NEW next \in JobId, Book(kind, c, w, q, jobs, next),
         NEW p \in Pending, p.id = next, p.nodes # {},
         NEW total \in Nat, total = Cardinality(Countable(kind, p))
  PROVE  Book(kind, c, w, Append(q, p), WithJob(jobs, next, total), next + 1)
<1> DEFINE q1 == Append(q, p)
           jobs1 == WithJob(jobs, next, total)
<1>1. PICK L \in Nat : L = Len(q)
  BY LenProperties
<1>2. /\ Len(q1) = L + 1 /\ q1[L + 1] = p
      /\ \A k \in 1 .. L : q1[k] = q[k]
  BY <1>1, AppendProperties
<1>3. next \in Nat
  BY ConstantTypes DEF JobId
<1>4. \A i \in JobId : jobs1[i] \in {NewJob(total), AbsentJob, jobs[i]}
  BY DEF WithJob
<1>5. jobs1[next] = NewJob(total)
  BY <1>3, ConstantTypes DEF WithJob
<1>6. \A i \in JobId : i # next => jobs1[i] \in {AbsentJob, jobs[i]}
  BY DEF WithJob
<1> HIDE DEF q1, jobs1
<1>7. \A i \in JobId : Adds(kind, jobs1[i])
  BY <1>4, EmptyAdds DEF Book
<1>8. \A i \in 1 .. next - 1 : i \in JobId /\ i # next /\ i \in 1 .. (next + 1) - 1 /\ i < next
  BY <1>3, ConstantTypes DEF JobId
<1>9. \A k \in 1 .. L : /\ q[k].id \in 1 .. next - 1
                        /\ \A l \in 1 .. k - 1 : q[l].id < q[k].id
                        /\ q[k].nodes # {}
                        /\ jobs[q[k].id] \in {AbsentJob, NewJob(Cardinality(Countable(kind, q[k])))}
  BY <1>1 DEF Book, Waiting
<1>10. Waiting(kind, q1, jobs1, next + 1)
  <2> SUFFICES ASSUME NEW k \in 1 .. L + 1
               PROVE  /\ q1[k].id \in 1 .. (next + 1) - 1
                      /\ \A l \in 1 .. k - 1 : q1[l].id < q1[k].id
                      /\ q1[k].nodes # {}
                      /\ jobs1[q1[k].id]
                           \in {AbsentJob, NewJob(Cardinality(Countable(kind, q1[k])))}
    BY <1>2 DEF Waiting
  <2>1. CASE k = L + 1
    <3>1. q1[k] = p /\ next \in 1 .. (next + 1) - 1
      BY <1>2, <1>3, <2>1 DEF JobId
    <3>2. \A l \in 1 .. k - 1 : q1[l].id < next
      BY <1>2, <1>8, <1>9, <2>1
    <3>3. QED
      BY <1>5, <3>1, <3>2
  <2>2. CASE k # L + 1
    <3>1. k \in 1 .. L /\ \A l \in 1 .. k - 1 : l \in 1 .. L
      BY <2>2
    <3>2. q1[k] = q[k] /\ \A l \in 1 .. k - 1 : q1[l] = q[l]
      BY <1>2, <3>1
    <3>3. q[k].id \in JobId /\ q[k].id # next /\ q[k].id \in 1 .. (next + 1) - 1
      BY <1>8, <1>9, <3>1
    <3>4. jobs1[q[k].id] \in {AbsentJob, jobs[q[k].id]}
      BY <1>6, <3>3
    <3>5. QED
      BY <1>9, <3>1, <3>2, <3>3, <3>4
  <2>3. QED
    BY <2>1, <2>2
<1>11. Hand(kind, c, w, q1, jobs1, next + 1)
  <2> SUFFICES ASSUME c.kind = kind
               PROVE  /\ c.job.id \in 1 .. (next + 1) - 1
                      /\ \A k \in 1 .. L + 1 : c.job.id < q1[k].id
                      /\ Progress(kind, jobs1[c.job.id], w)
    BY <1>2 DEF Hand
  <2>1. /\ c.job.id \in 1 .. next - 1
        /\ \A k \in 1 .. L : c.job.id < q[k].id
        /\ Progress(kind, jobs[c.job.id], w)
    BY <1>1 DEF Book, Hand
  <2>2. c.job.id \in JobId /\ c.job.id # next /\ c.job.id < next /\ c.job.id \in 1 .. (next + 1) - 1
    BY <1>8, <2>1
  <2>3. \A k \in 1 .. L + 1 : k \in 1 .. L \/ k = L + 1
    OBVIOUS
  <2>4. Progress(kind, jobs1[c.job.id], w)
    <3>1. jobs1[c.job.id] \in {AbsentJob, jobs[c.job.id]}
      BY <1>6, <2>2
    <3>2. Progress(kind, AbsentJob, w)
      BY DEF Progress, AbsentJob, NewJob
    <3>3. QED
      BY <2>1, <3>1, <3>2
  <2>5. QED
    BY <1>2, <2>1, <2>2, <2>3, <2>4
<1>12. QED
  BY <1>7, <1>10, <1>11 DEF Book, q1, jobs1

\* How much there is to do at the start of a job.
LEMMA WorkAtStart ==
  ASSUME NEW kind \in Kind, NEW job \in Pending
  PROVE  /\ IsFiniteSet(WholeWork(kind, job))
         /\ ToCount(kind, WholeWork(kind, job)) = Countable(kind, job)
         /\ IsFiniteSet(Countable(kind, job))
         /\ kind = "delete" /\ job.nodes # {}
              => Cardinality(ToErase(WholeWork(kind, job))) <= Cardinality(Countable(kind, job))
<1>1. /\ job.users \in SUBSET Snapshot /\ job.nodes \in SUBSET Node
      /\ IsFiniteSet(job.users) /\ IsFiniteSet(job.nodes)
  BY ConstantTypes, FiniteSnapshots, FS_Subset DEF Pending
<1>2. PICK u \in Nat, n \in Nat : u = Cardinality(job.users) /\ n = Cardinality(job.nodes)
  BY <1>1, FS_CardinalityType
<1>3. CASE kind = "upload"
  <2>1. IsFiniteSet(Addr \ Addresses(job.users))
    BY ConstantTypes, FS_Difference
  <2>2. /\ IsFiniteSet([op : {"write"}, node : job.nodes, who : job.users])
        /\ IsFiniteSet([op : {"pass"}, node : job.nodes])
        /\ IsFiniteSet([op : {"clear"}, node : job.nodes, addr : Addr \ Addresses(job.users)])
    BY <1>1, <2>1, UserTasks, PassTasks, ClearTasks
  <2>3. IsFiniteSet([op : {"pass"}, node : job.nodes]
                      \union [op : {"clear"}, node : job.nodes, addr : Addr \ Addresses(job.users)])
    BY <2>2, FS_Union
  <2>4. IsFiniteSet(UploadWork(job))
    <3>1. CASE job.flag
      BY <2>2, <2>3, <3>1, FS_Union DEF UploadWork
    <3>2. CASE ~job.flag
      BY <2>2, <3>2, FS_EmptySet, FS_Union DEF UploadWork
    <3>3. QED
      BY <3>1, <3>2
  <2>5. QED
    BY <1>3, <2>4 DEF ToCount, WholeWork, Countable
<1>4. CASE kind = "delete"
  <2> DEFINE De == [op : {"delete"}, node : job.nodes, who : job.users]
             Er == [op : {"erase"}, who : job.users]
  <2>1. IsFiniteSet(De) /\ Cardinality(De) = n * u /\ IsFiniteSet(Er) /\ Cardinality(Er) = u
    BY <1>1, <1>2, UserTasks, EraseTasks
  <2>2. /\ WholeWork(kind, job) \subseteq De \union Er
        /\ ToCount(kind, WholeWork(kind, job)) = De
        /\ ToErase(WholeWork(kind, job)) \in SUBSET Er
    BY <1>4 DEF WholeWork, ToCount, ToErase, DeleteWork
  <2>3. Countable(kind, job) = De
    BY <1>4 DEF Countable
  <2> HIDE DEF De, Er
  <2>4. IsFiniteSet(WholeWork(kind, job))
    BY <2>1, <2>2, FS_Union, FS_Subset
  <2>5. Cardinality(ToErase(WholeWork(kind, job))) \in Nat
        /\ Cardinality(ToErase(WholeWork(kind, job))) <= u
    BY <2>1, <2>2, FS_Subset, FS_CardinalityType
  <2>6. job.nodes # {} => n # 0
    BY <1>1, <1>2, FS_EmptySet
  <2>7. n # 0 => u <= n * u
    <3>1. n # 0 => (n - 1) \in Nat /\ n * u = u + (n - 1) * u
      BY <1>2
    <3>2. \A m \in Nat : m * u \in Nat
      BY <1>2
    <3>3. QED
      BY <1>2, <3>1, <3>2
  <2>8. job.nodes # {} => Cardinality(ToErase(WholeWork(kind, job))) <= n * u
    <3>1. n * u \in Nat
      BY <1>2
    <3>2. QED
      BY <1>2, <2>5, <2>6, <2>7, <3>1
  <2>9. QED
    BY <2>1, <2>2, <2>3, <2>4, <2>8
<1>5. QED
  BY <1>3, <1>4 DEF Kind

\* The worker takes the first job of the queue.
LEMMA BookStarts ==
  ASSUME NEW kind \in Kind, NEW c, NEW w, NEW q \in Seq(Pending), NEW jobs \in [JobId -> Job],
         NEW next \in Nat, next - 1 <= MaxRequests, Book(kind, c, w, q, jobs, next), q # <<>>
  PROVE  Book(kind, [kind |-> kind, job |-> Head(q)], WholeWork(kind, Head(q)), Tail(q),
              Started(jobs, Head(q).id), next)
<1>1. PICK L \in Nat : L = Len(q)
  BY LenProperties
<1>2. /\ L >= 1 /\ Len(Tail(q)) = L - 1
      /\ \A k \in 1 .. L - 1 : Tail(q)[k] = q[k + 1]
      /\ Head(q) = q[1] /\ q[1] \in Pending
  BY <1>1, HeadTailProperties, EmptySeq, LenProperties, ElementOfSeq
<1>3. \A k \in 1 .. L : /\ q[k].id \in 1 .. next - 1
                        /\ \A l \in 1 .. k - 1 : q[l].id < q[k].id
                        /\ q[k].nodes # {}
                        /\ jobs[q[k].id] \in {AbsentJob, NewJob(Cardinality(Countable(kind, q[k])))}
  BY <1>1 DEF Book, Waiting
<1>4. PICK h \in JobId : h = q[1].id
  BY <1>2, <1>3, ConstantTypes DEF JobId
<1> DEFINE jobs1 == Started(jobs, h)
           w1 == WholeWork(kind, q[1])
           q1 == Tail(q)
<1>5. \A i \in JobId : i # h => jobs1[i] = jobs[i]
  BY DEF Started
<1>6. jobs1[h] = IF jobs[h].state # "absent" THEN [jobs[h] EXCEPT !.state = "running"] ELSE jobs[h]
  BY DEF Started
<1>7. PICK total \in Nat : total = Cardinality(Countable(kind, q[1]))
  BY <1>2, WorkAtStart, FS_CardinalityType
<1>8. jobs[h] \in {AbsentJob, NewJob(total)}
  BY <1>2, <1>3, <1>4, <1>7
<1>9. jobs1[h] = AbsentJob \/ jobs1[h] = [NewJob(total) EXCEPT !.state = "running"]
  BY <1>6, <1>8 DEF AbsentJob, NewJob
<1>10. Adds(kind, jobs1[h]) /\ Progress(kind, jobs1[h], w1)
  <2>1. CASE jobs1[h] = AbsentJob
    BY <2>1, EmptyAdds DEF Progress, AbsentJob, NewJob
  <2>2. CASE jobs1[h] = [NewJob(total) EXCEPT !.state = "running"]
    <3>1. Cardinality(ToCount(kind, w1)) = total
      BY <1>2, <1>7, WorkAtStart
    <3>2. kind = "delete" => Cardinality(ToErase(w1)) <= total
      BY <1>2, <1>3, <1>7, WorkAtStart
    <3>3. IsFiniteSet(w1) /\ ToErase(w1) \in SUBSET w1
      BY <1>2, WorkAtStart DEF ToErase
    <3>4. Cardinality(ToErase(w1)) \in Nat
      BY <3>3, FS_Subset, FS_CardinalityType
    <3> HIDE DEF w1, jobs1
    <3>5. QED
      BY <2>2, <3>1, <3>2, <3>4 DEF Adds, Progress, NewJob
  <2>3. QED
    BY <1>9, <2>1, <2>2
<1> HIDE DEF jobs1, w1, q1
<1>11. \A i \in JobId : Adds(kind, jobs1[i])
  BY <1>5, <1>10 DEF Book
<1>12. \A k \in 1 .. L - 1 : k + 1 \in 1 .. L /\ 1 \in 1 .. (k + 1) - 1
                              /\ \A l \in 1 .. k - 1 : l \in 1 .. L - 1 /\ l + 1 \in 1 .. (k + 1) - 1
  OBVIOUS
<1>13. \A k \in 1 .. L - 1 : q1[k] = q[k + 1]
  BY <1>2 DEF q1
<1>14. \A k \in 1 .. L - 1 : h < q1[k].id /\ q1[k].id # h /\ q1[k].id \in JobId
  <2>1. \A i \in 1 .. next - 1 : i \in JobId
    BY ConstantTypes DEF JobId
  <2>2. \A k \in 1 .. L - 1 : h < q[k + 1].id
    BY <1>3, <1>4, <1>12
  <2>3. \A k \in 1 .. L - 1 : q[k + 1].id \in JobId
    BY <1>3, <1>12, <2>1
  <2>4. QED
    BY <1>13, <2>2, <2>3 DEF JobId
<1>15. Waiting(kind, q1, jobs1, next)
  <2> SUFFICES ASSUME NEW k \in 1 .. L - 1
               PROVE  /\ q1[k].id \in 1 .. next - 1
                      /\ \A l \in 1 .. k - 1 : q1[l].id < q1[k].id
                      /\ q1[k].nodes # {}
                      /\ jobs1[q1[k].id]
                           \in {AbsentJob, NewJob(Cardinality(Countable(kind, q1[k])))}
    BY <1>2 DEF Waiting, q1
  <2>1. /\ q[k + 1].id \in 1 .. next - 1
        /\ \A l \in 1 .. (k + 1) - 1 : q[l].id < q[k + 1].id
        /\ q[k + 1].nodes # {}
        /\ jobs[q[k + 1].id] \in {AbsentJob, NewJob(Cardinality(Countable(kind, q[k + 1])))}
    BY <1>3, <1>12
  <2>2. \A l \in 1 .. k - 1 : q1[l] = q[l + 1] /\ q[l + 1].id < q[k + 1].id
    BY <1>12, <1>13, <2>1
  <2>3. q1[k] = q[k + 1] /\ jobs1[q[k + 1].id] = jobs[q[k + 1].id]
    BY <1>5, <1>13, <1>14
  <2>4. QED
    BY <2>1, <2>2, <2>3
<1>16. Hand(kind, [kind |-> kind, job |-> q[1]], w1, q1, jobs1, next)
  <2>1. q[1].id \in 1 .. next - 1
    BY <1>2, <1>3
  <2>2. \A k \in 1 .. Len(q1) : q[1].id < q1[k].id
    BY <1>2, <1>4, <1>14 DEF q1
  <2>3. QED
    BY <1>4, <1>10, <2>1, <2>2 DEF Hand
<1>17. QED
  BY <1>2, <1>4, <1>11, <1>15, <1>16 DEF Book, jobs1, w1, q1

\* Only the entry of the job in hand changes.
LEMMA BookEntry ==
  ASSUME NEW kind \in Kind, NEW c, NEW w, NEW q \in Seq(Pending), NEW jobs, NEW jobs1,
         NEW next \in Nat, next - 1 <= MaxRequests, Book(kind, c, w, q, jobs, next),
         c.kind = kind, NEW c1, NEW w1,
         \A i \in JobId : i # c.job.id => jobs1[i] = jobs[i],
         Adds(kind, jobs1[c.job.id]),
         c1.kind = kind => c1 = c /\ Progress(kind, jobs1[c.job.id], w1)
  PROVE  Book(kind, c1, w1, q, jobs1, next)
<1>1. c.job.id \in 1 .. next - 1 /\ \A k \in 1 .. Len(q) : c.job.id < q[k].id
  BY DEF Book, Hand
<1>2. \A i \in 1 .. next - 1 : i \in JobId
  BY ConstantTypes DEF JobId
<1>3. \A k \in 1 .. Len(q) : q[k].id \in JobId /\ q[k].id # c.job.id
  <2>1. \A k \in 1 .. Len(q) : q[k].id \in 1 .. next - 1
    BY DEF Book, Waiting
  <2>2. QED
    BY <1>1, <1>2, <2>1
<1>4. \A k \in 1 .. Len(q) : jobs1[q[k].id] = jobs[q[k].id]
  BY <1>3
<1>5. Waiting(kind, q, jobs1, next)
  BY <1>4 DEF Book, Waiting
<1>6. \A i \in JobId : Adds(kind, jobs1[i])
  BY DEF Book
<1>7. Hand(kind, c1, w1, q, jobs1, next)
  BY <1>1 DEF Hand
<1>8. QED
  BY <1>5, <1>6, <1>7 DEF Book

\* The entry of the job in hand.
LEMMA HandEntry ==
  ASSUME NEW kind \in Kind, NEW c, NEW w, NEW q, NEW jobs \in [JobId -> Job],
         NEW next \in Nat, next - 1 <= MaxRequests, Book(kind, c, w, q, jobs, next),
         c.kind = kind
  PROVE  /\ c.job.id \in JobId /\ jobs[c.job.id] \in Job
         /\ Adds(kind, jobs[c.job.id]) /\ Progress(kind, jobs[c.job.id], w)
<1>1. c.job.id \in 1 .. next - 1 /\ Progress(kind, jobs[c.job.id], w)
  BY DEF Book, Hand
<1>2. c.job.id \in JobId
  BY <1>1, ConstantTypes DEF JobId
<1>3. QED
  BY <1>1, <1>2 DEF Book

\* The job in hand is completed.
LEMMA BookFinishes ==
  ASSUME NEW kind \in Kind, NEW c, NEW q \in Seq(Pending), NEW jobs \in [JobId -> Job],
         NEW next \in Nat, next - 1 <= MaxRequests, Book(kind, c, {}, q, jobs, next),
         c.kind = kind
  PROVE  Book(kind, Idle, {}, q, Completed(jobs, c.job.id), next)
<1>1. PICK id \in JobId : id = c.job.id /\ jobs[id] \in Job
                          /\ Adds(kind, jobs[id]) /\ Progress(kind, jobs[id], {})
  BY HandEntry
<1> DEFINE jobs1 == Completed(jobs, id)
<1>2. \A i \in JobId : i # id => jobs1[i] = jobs[i]
  BY DEF Completed
<1>3. jobs1[id] = IF jobs[id].state # "absent" THEN [jobs[id] EXCEPT !.state = "completed"]
                  ELSE jobs[id]
  BY DEF Completed
<1>4. Cardinality(ToCount(kind, {})) = 0
  BY FS_EmptySet DEF ToCount
<1> HIDE DEF jobs1
<1>5. Adds(kind, jobs1[id])
  <2>1. CASE jobs1[id] = jobs[id]
    BY <1>1, <2>1
  <2>2. CASE jobs[id].state # "absent" /\ jobs1[id] = [jobs[id] EXCEPT !.state = "completed"]
    <3>1. jobs[id].completed = jobs[id].total
      BY <1>1, <1>4, <2>2 DEF Progress, Job
    <3>2. QED
      BY <1>1, <2>2, <3>1 DEF Adds, Job
  <2>3. QED
    BY <1>3, <2>1, <2>2
<1>6. Idle.kind # kind
  BY DEF Idle, Kind
<1>7. QED
  BY <1>1, <1>2, <1>5, <1>6, BookEntry DEF jobs1

\* A task of the job in hand is done, and its result counted.
LEMMA BookCounts ==
  ASSUME NEW kind \in Kind, NEW c, NEW w, NEW q \in Seq(Pending), NEW jobs \in [JobId -> Job],
         NEW next \in Nat, next - 1 <= MaxRequests, Book(kind, c, w, q, jobs, next),
         c.kind = kind, IsFiniteSet(w), NEW t \in ToCount(kind, w), t.op # "erase",
         NEW result \in {"success", "failed", "skipped"},
         kind = "delete" => result # "skipped"
  PROVE  Book(kind, c, w \ {t}, q, Counted(jobs, c.job.id, result), next)
<1>1. PICK id \in JobId : id = c.job.id /\ jobs[id] \in Job
                          /\ Adds(kind, jobs[id]) /\ Progress(kind, jobs[id], w)
  BY HandEntry
<1> DEFINE jobs1 == Counted(jobs, id, result)
<1>2. \A i \in JobId : i # id => jobs1[i] = jobs[i]
  BY DEF Counted
<1>3. jobs[id].state = "absent" => jobs1[id] = jobs[id]
  BY DEF Counted
<1>4. jobs[id].state # "absent" =>
        /\ jobs1[id].state = jobs[id].state
        /\ jobs1[id].total = jobs[id].total
        /\ jobs1[id].completed = jobs[id].completed + 1
        /\ jobs1[id].success = IF result = "success" THEN jobs[id].success + 1 ELSE jobs[id].success
        /\ jobs1[id].failed = IF result = "failed" THEN jobs[id].failed + 1 ELSE jobs[id].failed
        /\ jobs1[id].skipped = IF result = "skipped" THEN jobs[id].skipped + 1 ELSE jobs[id].skipped
        /\ jobs1[id].deleted = jobs[id].deleted
        /\ jobs1[id].retained = jobs[id].retained
  BY <1>1 DEF Counted, Job
<1> HIDE DEF jobs1
<1>5. ToCount(kind, w \ {t}) = ToCount(kind, w) \ {t} /\ ToErase(w \ {t}) = ToErase(w)
  BY DEF ToCount, ToErase
<1>6. IsFiniteSet(ToCount(kind, w))
  <2>1. ToCount(kind, w) \in SUBSET w
    BY DEF ToCount
  <2>2. QED
    BY <2>1, FS_Subset
<1>7. PICK n \in Nat : n = Cardinality(ToCount(kind, w))
  BY <1>6, FS_CardinalityType
<1>8. n # 0 /\ Cardinality(ToCount(kind, w \ {t})) = n - 1
  <2>1. Cardinality(ToCount(kind, w) \ {t}) = Cardinality(ToCount(kind, w)) - 1
    BY <1>6, FS_RemoveElement
  <2>2. Cardinality(ToCount(kind, w)) # 0
    BY <1>6, FS_EmptySet
  <2>3. QED
    BY <1>5, <1>7, <2>1, <2>2
<1>9. /\ jobs[id].completed \in Nat /\ jobs[id].success \in Nat /\ jobs[id].failed \in Nat
      /\ jobs[id].skipped \in Nat /\ jobs[id].total \in Nat
  BY <1>1 DEF Job
<1>10. Adds(kind, jobs1[id]) /\ Progress(kind, jobs1[id], w \ {t})
  <2>1. CASE jobs[id].state = "absent"
    BY <1>1, <1>3, <2>1 DEF Progress
  <2>2. CASE jobs[id].state # "absent"
    <3>1. jobs[id].state = "running" /\ jobs[id].completed + n = jobs[id].total
          /\ (kind = "delete" =>
                jobs[id].deleted + jobs[id].retained + Cardinality(ToErase(w)) <= jobs[id].total)
      BY <1>1, <1>7, <2>2 DEF Progress
    <3>2. jobs[id].completed + 1 + (n - 1) = jobs[id].total
          /\ jobs[id].completed + 1 <= jobs[id].total
      <4>1. PICK x \in Nat, y \in Nat : x = jobs[id].completed /\ y = jobs[id].total
        BY <1>9
      <4>2. x + n = y
        BY <3>1, <4>1
      <4>3. x + 1 + (n - 1) = y /\ x + 1 <= y
        BY <1>8, <4>2
      <4>4. QED
        BY <4>1, <4>3
    <3>3. jobs[id].completed = jobs[id].success + jobs[id].failed + jobs[id].skipped
          /\ (kind = "delete" => jobs[id].skipped = 0
                                 /\ jobs[id].deleted + jobs[id].retained <= jobs[id].total)
      BY <1>1 DEF Adds
    <3>4. Adds(kind, jobs1[id])
      <4>1. PICK x \in Nat, y \in Nat, z \in Nat :
              x = jobs[id].success /\ y = jobs[id].failed /\ z = jobs[id].skipped
        BY <1>9
      <4>2. PICK u \in Nat : u = jobs[id].completed /\ u = x + y + z
        BY <1>9, <3>3, <4>1
      <4>3. jobs1[id].completed = jobs1[id].success + jobs1[id].failed + jobs1[id].skipped
        <5>1. CASE result = "success"
          <6>1. u + 1 = (x + 1) + y + z
            BY <4>2
          <6>2. QED
            BY <1>4, <2>2, <4>1, <4>2, <5>1, <6>1
        <5>2. CASE result = "failed"
          <6>1. u + 1 = x + (y + 1) + z
            BY <4>2
          <6>2. QED
            BY <1>4, <2>2, <4>1, <4>2, <5>2, <6>1
        <5>3. CASE result = "skipped"
          <6>1. u + 1 = x + y + (z + 1)
            BY <4>2
          <6>2. QED
            BY <1>4, <2>2, <4>1, <4>2, <5>3, <6>1
        <5>4. QED
          BY <5>1, <5>2, <5>3
      <4>4. QED
        BY <1>4, <2>2, <3>1, <3>2, <3>3, <4>3 DEF Adds
    <3>5. Progress(kind, jobs1[id], w \ {t})
      BY <1>4, <1>5, <1>8, <2>2, <3>1, <3>2 DEF Progress
    <3>6. QED
      BY <3>4, <3>5
  <2>3. QED
    BY <2>1, <2>2
<1>11. QED
  BY <1>1, <1>2, <1>10, BookEntry DEF jobs1

\* A user of the deletion in hand is dealt with.
LEMMA BookTallies ==
  ASSUME NEW c, NEW w, NEW q \in Seq(Pending), NEW jobs \in [JobId -> Job],
         NEW next \in Nat, next - 1 <= MaxRequests, Book("delete", c, w, q, jobs, next),
         c.kind = "delete", IsFiniteSet(w), NEW t \in ToErase(w), NEW gone
  PROVE  Book("delete", c, w \ {t}, q, Tallied(jobs, c.job.id, gone), next)
<1>a. "delete" \in Kind
  BY DEF Kind
<1>1. PICK id \in JobId : id = c.job.id /\ jobs[id] \in Job
                          /\ Adds("delete", jobs[id]) /\ Progress("delete", jobs[id], w)
  BY <1>a, HandEntry
<1> DEFINE jobs1 == Tallied(jobs, id, gone)
<1>2. \A i \in JobId : i # id => jobs1[i] = jobs[i]
  BY DEF Tallied
<1>3. jobs[id].state = "absent" => jobs1[id] = jobs[id]
  BY DEF Tallied
<1>4. /\ jobs[id].deleted \in Nat /\ jobs[id].retained \in Nat
      /\ jobs[id].completed \in Nat /\ jobs[id].total \in Nat
  BY <1>1 DEF Job
<1>5. jobs[id].state # "absent" =>
        /\ jobs1[id].state = jobs[id].state
        /\ jobs1[id].total = jobs[id].total
        /\ jobs1[id].completed = jobs[id].completed
        /\ jobs1[id].success = jobs[id].success
        /\ jobs1[id].failed = jobs[id].failed
        /\ jobs1[id].skipped = jobs[id].skipped
        /\ jobs1[id].deleted + jobs1[id].retained = jobs[id].deleted + jobs[id].retained + 1
  <2> SUFFICES ASSUME jobs[id].state # "absent"
               PROVE  /\ jobs1[id].state = jobs[id].state
                      /\ jobs1[id].total = jobs[id].total
                      /\ jobs1[id].completed = jobs[id].completed
                      /\ jobs1[id].success = jobs[id].success
                      /\ jobs1[id].failed = jobs[id].failed
                      /\ jobs1[id].skipped = jobs[id].skipped
                      /\ jobs1[id].deleted + jobs1[id].retained
                           = jobs[id].deleted + jobs[id].retained + 1
    OBVIOUS
  <2>1. jobs1[id] = [jobs[id] EXCEPT !.deleted = IF gone THEN jobs[id].deleted + 1 ELSE jobs[id].deleted,
                                     !.retained = IF gone THEN jobs[id].retained
                                                          ELSE jobs[id].retained + 1]
    BY DEF Tallied
  <2> HIDE DEF jobs1
  <2>2. CASE gone
    BY <1>1, <1>4, <2>1, <2>2 DEF Job
  <2>3. CASE ~gone
    BY <1>1, <1>4, <2>1, <2>3 DEF Job
  <2>4. QED
    BY <2>2, <2>3
<1> HIDE DEF jobs1
<1>6. /\ ToCount("delete", w \ {t}) = ToCount("delete", w)
      /\ ToErase(w \ {t}) = ToErase(w) \ {t}
  BY DEF ToCount, ToErase
<1>7. IsFiniteSet(ToErase(w))
  <2>1. ToErase(w) \in SUBSET w
    BY DEF ToErase
  <2>2. QED
    BY <2>1, FS_Subset
<1>8. PICK n \in Nat : n = Cardinality(ToErase(w))
  BY <1>7, FS_CardinalityType
<1>9. n # 0 /\ Cardinality(ToErase(w \ {t})) = n - 1
  <2>1. Cardinality(ToErase(w) \ {t}) = Cardinality(ToErase(w)) - 1
    BY <1>7, FS_RemoveElement
  <2>2. Cardinality(ToErase(w)) # 0
    BY <1>7, FS_EmptySet
  <2>3. QED
    BY <1>6, <1>8, <2>1, <2>2
<1>10. Adds("delete", jobs1[id]) /\ Progress("delete", jobs1[id], w \ {t})
  <2>1. CASE jobs[id].state = "absent"
    BY <1>1, <1>3, <2>1 DEF Progress
  <2>2. CASE jobs[id].state # "absent"
    <3>1. /\ jobs[id].state = "running"
          /\ jobs[id].completed + Cardinality(ToCount("delete", w)) = jobs[id].total
          /\ jobs[id].deleted + jobs[id].retained + n <= jobs[id].total
      BY <1>1, <1>8, <2>2 DEF Progress
    <3>2. PICK d \in Nat : d = jobs[id].deleted + jobs[id].retained
      BY <1>4
    <3>3. jobs1[id].deleted + jobs1[id].retained = d + 1
      BY <1>5, <2>2, <3>2
    <3>4. d + 1 + (n - 1) <= jobs[id].total /\ d + 1 <= jobs[id].total
      <4>1. PICK y \in Nat : y = jobs[id].total
        BY <1>4
      <4>2. d + n <= y
        BY <3>1, <3>2, <4>1
      <4>3. d + 1 + (n - 1) <= y /\ d + 1 <= y
        BY <1>9, <4>2
      <4>4. QED
        BY <4>1, <4>3
    <3>5. Adds("delete", jobs1[id])
      BY <1>1, <1>5, <2>2, <3>1, <3>3, <3>4 DEF Adds
    <3>6. Progress("delete", jobs1[id], w \ {t})
      BY <1>5, <1>6, <1>9, <2>2, <3>1, <3>3, <3>4 DEF Progress
    <3>7. QED
      BY <3>5, <3>6
  <2>3. QED
    BY <2>1, <2>2
<1>11. QED
  BY <1>1, <1>2, <1>10, <1>a, BookEntry DEF jobs1

\* A full synchronization gives a controller up: its tasks are counted together.
LEMMA BookSkips ==
  ASSUME NEW c, NEW w, NEW q \in Seq(Pending), NEW jobs \in [JobId -> Job],
         NEW next \in Nat, next - 1 <= MaxRequests, Book("upload", c, w, q, jobs, next),
         c.kind = "upload", IsFiniteSet(w), NEW gone \in SUBSET w,
         Cardinality(gone) = Cardinality(Addr) + 1
  PROVE  Book("upload", c, w \ gone, q,
              Skipped(Counted(jobs, c.job.id, "failed"), c.job.id), next)
<1>a. "upload" \in Kind
  BY DEF Kind
<1>1. PICK id \in JobId : id = c.job.id /\ jobs[id] \in Job
                          /\ Adds("upload", jobs[id]) /\ Progress("upload", jobs[id], w)
  BY <1>a, HandEntry
<1> DEFINE jobs0 == Counted(jobs, id, "failed")
           jobs1 == Skipped(jobs0, id)
<1>2. PICK a \in Nat : a = Cardinality(Addr)
  BY ConstantTypes, FS_CardinalityType
<1>3. /\ jobs[id].completed \in Nat /\ jobs[id].success \in Nat /\ jobs[id].failed \in Nat
      /\ jobs[id].skipped \in Nat /\ jobs[id].total \in Nat
  BY <1>1 DEF Job
<1>4. jobs0 \in [JobId -> Job] /\ jobs0[id] \in Job
  BY CountedType
<1>5. /\ jobs0[id].state = jobs[id].state
      /\ jobs[id].state = "absent" => jobs0[id] = jobs[id]
      /\ jobs[id].state # "absent" =>
           /\ jobs0[id].total = jobs[id].total
           /\ jobs0[id].completed = jobs[id].completed + 1
           /\ jobs0[id].success = jobs[id].success
           /\ jobs0[id].failed = jobs[id].failed + 1
           /\ jobs0[id].skipped = jobs[id].skipped
  BY <1>1 DEF Counted, Job
<1>6. \A i \in JobId : i # id => jobs0[i] = jobs[i]
  BY DEF Counted
<1> HIDE DEF jobs0
<1>7. \A i \in JobId : i # id => jobs1[i] = jobs[i]
  BY <1>4, <1>6 DEF Skipped
<1>8. jobs[id].state = "absent" => jobs1[id] = jobs[id]
  BY <1>4, <1>5 DEF Skipped
<1>9. jobs[id].state # "absent" =>
        /\ jobs1[id].state = jobs[id].state
        /\ jobs1[id].total = jobs[id].total
        /\ jobs1[id].completed = jobs[id].completed + 1 + a
        /\ jobs1[id].success = jobs[id].success
        /\ jobs1[id].failed = jobs[id].failed + 1
        /\ jobs1[id].skipped = jobs[id].skipped + a
  <2>1. jobs[id].state # "absent" =>
          jobs1[id] = [jobs0[id] EXCEPT !.completed = @ + a, !.skipped = @ + a]
    BY <1>2, <1>4, <1>5 DEF Skipped
  <2> HIDE DEF jobs1
  <2>2. QED
    BY <1>4, <1>5, <2>1 DEF Job
<1> HIDE DEF jobs1
<1>10. PICK n \in Nat, m \in Nat : n = Cardinality(w) /\ m = Cardinality(w \ gone)
  BY FS_Difference, FS_CardinalityType
<1>11. n = m + a + 1
  <2>1. w \intersect gone = gone
    OBVIOUS
  <2>2. Cardinality(w \ gone) = Cardinality(w) - Cardinality(w \intersect gone)
    BY FS_Difference
  <2>3. Cardinality(w \ gone) = Cardinality(w) - (Cardinality(Addr) + 1)
    BY <2>1, <2>2
  <2>4. m = n - (a + 1)
    BY <1>2, <1>10, <2>3
  <2>5. QED
    BY <2>4
<1>12. ToCount("upload", w) = w /\ ToCount("upload", w \ gone) = w \ gone
  BY DEF ToCount
<1>13. Adds("upload", jobs1[id]) /\ Progress("upload", jobs1[id], w \ gone)
  <2>1. CASE jobs[id].state = "absent"
    BY <1>1, <1>8, <2>1 DEF Progress
  <2>2. CASE jobs[id].state # "absent"
    <3>1. jobs[id].state = "running" /\ jobs[id].completed + n = jobs[id].total
      BY <1>1, <1>10, <1>12, <2>2 DEF Progress
    <3>2. jobs[id].completed = jobs[id].success + jobs[id].failed + jobs[id].skipped
      BY <1>1 DEF Adds
    <3>3. /\ jobs[id].completed + 1 + a + m = jobs[id].total
          /\ jobs[id].completed + 1 + a <= jobs[id].total
      <4>1. PICK x \in Nat, y \in Nat : x = jobs[id].completed /\ y = jobs[id].total
        BY <1>3
      <4>2. x + n = y
        BY <3>1, <4>1
      <4>3. x + 1 + a + m = y /\ x + 1 + a <= y
        BY <1>11, <4>2
      <4>4. QED
        BY <4>1, <4>3
    <3>4. Adds("upload", jobs1[id])
      <4>1. PICK x \in Nat, y \in Nat, z \in Nat :
              x = jobs[id].success /\ y = jobs[id].failed /\ z = jobs[id].skipped
        BY <1>3
      <4>2. jobs[id].completed = x + y + z
        BY <3>2, <4>1
      <4>3. jobs[id].completed + 1 + a = x + (y + 1) + (z + a)
        <5>1. PICK u \in Nat : u = jobs[id].completed
          BY <1>3
        <5>2. u = x + y + z
          BY <4>2, <5>1
        <5>3. u + 1 + a = x + (y + 1) + (z + a)
          BY <1>2, <5>2
        <5>4. QED
          BY <5>1, <5>3
      <4>4. QED
        BY <1>9, <2>2, <3>1, <3>3, <4>1, <4>3 DEF Adds
    <3>5. Progress("upload", jobs1[id], w \ gone)
      BY <1>9, <1>10, <1>12, <2>2, <3>1, <3>3 DEF Progress
    <3>6. QED
      BY <3>4, <3>5
  <2>3. QED
    BY <2>1, <2>2
<1>14. QED
  BY <1>1, <1>7, <1>13, <1>a, BookEntry DEF jobs1, jobs0

\* A controller whose option is still to be turned off has all its tasks ahead.
Untouched ==
  \A n \in Node : [op |-> "pass", node |-> n] \in work =>
    \A t \in UploadWork(cur.job) : t.node = n => t \in work

UploadBook == Book("upload", cur, work, uploads, uploadJobs, nextUpload)
DeleteBook == Book("delete", cur, work, deletes, deleteJobs, nextDelete)

AccountInv ==
  /\ UploadBook
  /\ DeleteBook
  /\ nextDelete <= requests + 1
  /\ Untouched

\* A table is not concerned with jobs of the other kind.
LEMMA BookOther ==
  ASSUME NEW kind, NEW c, NEW w, NEW q, NEW jobs, NEW next, Book(kind, c, w, q, jobs, next),
         NEW c1, NEW w1, c1.kind # kind
  PROVE  Book(kind, c1, w1, q, jobs, next)
BY DEF Book, Hand

LEMMA NumberTypes ==
  ASSUME TypeOK, UploadInv, AccountInv
  PROVE  /\ nextUpload \in Nat /\ nextUpload - 1 <= MaxRequests
         /\ nextDelete \in Nat /\ nextDelete - 1 <= MaxRequests
         /\ requests < MaxRequests => nextUpload \in JobId /\ nextDelete \in JobId
<1>1. /\ nextUpload \in Nat \ {0} /\ nextDelete \in Nat \ {0} /\ requests \in 0 .. MaxRequests
      /\ nextUpload <= requests + 1 /\ nextDelete <= requests + 1
  BY DEF TypeOK, JobType, UploadInv, AccountInv
<1>2. QED
  BY <1>1, ConstantTypes DEF JobId

LEMMA BookTypes ==
  ASSUME TypeOK
  PROVE  /\ uploads \in Seq(Pending) /\ deletes \in Seq(Pending)
         /\ uploadJobs \in [JobId -> Job] /\ deleteJobs \in [JobId -> Job]
         /\ cur.kind \in {"idle", "upload", "delete"} /\ cur.job \in Pending
         /\ "upload" \in Kind /\ "delete" \in Kind
BY DEF TypeOK, JobType, WorkerType, Kind

LEMMA FiniteWork ==
  ASSUME TypeOK, WorkOf
  PROVE  IsFiniteSet(work)
<1>1. CASE cur.kind = "idle"
  BY <1>1, FS_EmptySet DEF TypeOK, WorkerType
<1>2. CASE cur.kind \in Kind
  <2>1. work \in SUBSET WholeWork(cur.kind, cur.job)
    BY <1>2 DEF WorkOf, WholeWork, Kind
  <2>2. IsFiniteSet(WholeWork(cur.kind, cur.job))
    BY <1>2, BookTypes, WorkAtStart
  <2>3. QED
    BY <2>1, <2>2, FS_Subset
<1>3. QED
  BY <1>1, <1>2, BookTypes DEF Kind

\* A job is queued for upload.
LEMMA EnqueueAccounts ==
  ASSUME TypeOK, UploadInv, AccountInv, NEW S \in SUBSET Present, NEW N \in SUBSET Node, N # {},
         NEW full \in BOOLEAN, NEW total \in Nat, Enqueue(S, N, full, total),
         NEW p \in Pending,
         p = [id |-> nextUpload, users |-> {SnapshotOf(u) : u \in S}, nodes |-> N, flag |-> full],
         total = Cardinality(UploadWork(p))
  PROVE  AccountInv'
<1>1. /\ uploads' = Append(uploads, p) /\ nextUpload' = nextUpload + 1
      /\ uploadJobs' = WithJob(uploadJobs, nextUpload, total)
      /\ UNCHANGED <<cur, work, deletes, deleteJobs, nextDelete>>
      /\ requests < MaxRequests /\ requests' = requests + 1
  BY DEF Enqueue, Requested, workerVars
<1>2. /\ nextUpload \in JobId /\ p.id = nextUpload /\ p.nodes # {}
      /\ total = Cardinality(Countable("upload", p))
  BY <1>1, NumberTypes DEF Countable
<1>3. Book("upload", cur, work, Append(uploads, p), WithJob(uploadJobs, nextUpload, total),
           nextUpload + 1)
  BY <1>2, BookTypes, BookQueues DEF AccountInv, UploadBook
<1>4. UploadBook'
  BY <1>1, <1>3 DEF UploadBook
<1>5. DeleteBook' /\ Untouched'
  BY <1>1 DEF AccountInv, DeleteBook, Untouched
<1>6. nextDelete' <= requests' + 1
  BY <1>1, ConstantTypes DEF AccountInv, TypeOK, JobType
<1>7. QED
  BY <1>4, <1>5, <1>6 DEF AccountInv

LEMMA QueueUploadAccounts ==
  ASSUME TypeOK, UploadInv, AccountInv, NEW S, NEW N \in SUBSET Node, QueueUpload(S, N)
  PROVE  AccountInv'
<1>1. S \in SUBSET Present /\ S \in SUBSET User /\ RegistryType /\ nextUpload \in Nat
  BY DEF QueueUpload, Present, TypeOK, JobType
<1>2. PICK total \in Nat : total = Cardinality(S) * Cardinality(N)
  BY <1>1, TotalType
<1>3. PICK p \in Pending :
        p = [id |-> nextUpload, users |-> {SnapshotOf(u) : u \in S}, nodes |-> N, flag |-> FALSE]
  BY <1>1, PendingType
<1>4. UploadWork(p) = [op : {"write"}, node : N, who : {SnapshotOf(u) : u \in S}]
  BY <1>3 DEF UploadWork
<1>5. Cardinality(UploadWork(p)) = total
  <2> DEFINE U == {SnapshotOf(u) : u \in S}
  <2>1. IsFiniteSet(U) /\ Cardinality(U) = Cardinality(S)
    BY <1>1, SnapshotsOf
  <2> HIDE DEF U
  <2>2. IsFiniteSet(N) /\ IsFiniteSet(S)
    BY <1>1, ConstantTypes, FS_Subset
  <2>3. Cardinality([op : {"write"}, node : N, who : U]) = Cardinality(N) * Cardinality(U)
    BY <2>1, <2>2, UserTasks
  <2>4. Cardinality(N) \in Nat /\ Cardinality(S) \in Nat
    BY <2>2, FS_CardinalityType
  <2>5. Cardinality([op : {"write"}, node : N, who : U]) = Cardinality(S) * Cardinality(N)
    BY <2>1, <2>3, <2>4
  <2>6. QED
    BY <1>2, <1>4, <2>5 DEF U
<1>6. Enqueue(S, N, FALSE, total) /\ N # {}
  BY <1>2 DEF QueueUpload
<1>7. QED
  BY <1>1, <1>3, <1>5, <1>6, EnqueueAccounts

LEMMA QueueFullSyncAccounts ==
  ASSUME TypeOK, UploadInv, AccountInv, NEW N \in SUBSET Node, QueueFullSync(N)
  PROVE  AccountInv'
<1>1. Active \in SUBSET Present /\ Active \in SUBSET User /\ RegistryType /\ nextUpload \in Nat
  BY DEF Active, Present, TypeOK, JobType
<1>2. PICK total \in Nat : total = (Cardinality(Addr) + 1) * Cardinality(N)
  BY <1>1, TotalType
<1>3. PICK p \in Pending :
        p = [id |-> nextUpload, users |-> {SnapshotOf(u) : u \in Active}, nodes |-> N,
             flag |-> TRUE]
  BY <1>1, PendingType
<1>4. /\ p.users \in SUBSET Snapshot /\ p.nodes = N /\ p.flag
      /\ p.users = {SnapshotOf(u) : u \in Active}
  BY <1>3 DEF Pending
<1>5. \A s, t \in p.users : s.addr # None /\ (s.addr = t.addr => s = t)
  BY <1>4, FullSyncDistinct DEF QueueFullSync, Distinct
<1>6. UploadWork(p) = [op : {"write"}, node : N, who : p.users]
                        \union ([op : {"pass"}, node : N]
                                \union [op : {"clear"}, node : N,
                                        addr : Addr \ Addresses(p.users)])
  BY <1>4 DEF UploadWork
<1>7. Cardinality(UploadWork(p)) = total
  BY <1>2, <1>4, <1>5, <1>6, FullWork
<1>8. Enqueue(Active, N, TRUE, total) /\ N # {}
  BY <1>2 DEF QueueFullSync
<1>9. QED
  BY <1>1, <1>3, <1>7, <1>8, EnqueueAccounts

LEMMA QueueDeleteAccounts ==
  ASSUME TypeOK, UploadInv, AccountInv, NEW S, NEW N \in SUBSET Node, NEW system \in BOOLEAN,
         QueueDelete(S, N, system)
  PROVE  AccountInv'
<1>1. /\ S \in SUBSET Present /\ S \in SUBSET User /\ RegistryType /\ nextDelete \in Nat
      /\ N # {}
  BY DEF QueueDelete, Present, TypeOK, JobType
<1>2. PICK total \in Nat : total = Cardinality(S) * Cardinality(N)
  BY <1>1, TotalType
<1>3. PICK p \in Pending :
        p = [id |-> nextDelete, users |-> {SnapshotOf(u) : u \in S}, nodes |-> N, flag |-> system]
  BY <1>1, PendingType
<1>4. /\ deletes' = Append(deletes, p) /\ nextDelete' = nextDelete + 1
      /\ deleteJobs' = WithJob(deleteJobs, nextDelete, total)
      /\ UNCHANGED <<cur, work, uploads, uploadJobs, nextUpload>>
      /\ requests < MaxRequests /\ requests' = requests + 1
  BY <1>2, <1>3 DEF QueueDelete, Requested, workerVars
<1>5. Countable("delete", p) = [op : {"delete"}, node : N, who : {SnapshotOf(u) : u \in S}]
  BY <1>3 DEF Countable
<1>6. total = Cardinality(Countable("delete", p))
  <2> DEFINE U == {SnapshotOf(u) : u \in S}
  <2>1. IsFiniteSet(U) /\ Cardinality(U) = Cardinality(S)
    BY <1>1, SnapshotsOf
  <2> HIDE DEF U
  <2>2. IsFiniteSet(N) /\ IsFiniteSet(S)
    BY <1>1, ConstantTypes, FS_Subset
  <2>3. Cardinality([op : {"delete"}, node : N, who : U]) = Cardinality(N) * Cardinality(U)
    BY <2>1, <2>2, UserTasks
  <2>4. Cardinality(N) \in Nat /\ Cardinality(S) \in Nat
    BY <2>2, FS_CardinalityType
  <2>5. Cardinality([op : {"delete"}, node : N, who : U]) = Cardinality(S) * Cardinality(N)
    BY <2>1, <2>3, <2>4
  <2>6. QED
    BY <1>2, <1>5, <2>5 DEF U
<1>7. nextDelete \in JobId /\ p.id = nextDelete /\ p.nodes # {}
  BY <1>1, <1>3, <1>4, NumberTypes
<1>8. Book("delete", cur, work, Append(deletes, p), WithJob(deleteJobs, nextDelete, total),
           nextDelete + 1)
  BY <1>6, <1>7, BookTypes, BookQueues DEF AccountInv, DeleteBook
<1>9. DeleteBook'
  BY <1>4, <1>8 DEF DeleteBook
<1>10. UploadBook' /\ Untouched'
  BY <1>4 DEF AccountInv, UploadBook, Untouched
<1>11. nextDelete' <= requests' + 1
  BY <1>4, ConstantTypes DEF AccountInv, TypeOK, JobType
<1>12. QED
  BY <1>9, <1>10, <1>11 DEF AccountInv

LEMMA BeginDeleteAccounts ==
  ASSUME TypeOK, UploadInv, AccountInv, BeginDelete
  PROVE  AccountInv'
<1>1. UNCHANGED <<uploads, uploadJobs, nextUpload, nextDelete, requests>> /\ cur.kind = "idle"
  BY DEF BeginDelete, boundVars
<1>2. CASE deletes = <<>>
  <2>1. UNCHANGED <<deletes, deleteJobs, cur, work>>
    BY <1>2 DEF BeginDelete
  <2>2. QED
    BY <1>1, <2>1 DEF AccountInv, UploadBook, DeleteBook, Untouched
<1>3. CASE deletes # <<>>
  <2>1. /\ cur' = [kind |-> "delete", job |-> Head(deletes)]
        /\ work' = DeleteWork(Head(deletes)) /\ deletes' = Tail(deletes)
        /\ deleteJobs' = Started(deleteJobs, Head(deletes).id)
    BY <1>3 DEF BeginDelete
  <2>2. Book("delete", [kind |-> "delete", job |-> Head(deletes)],
             WholeWork("delete", Head(deletes)), Tail(deletes),
             Started(deleteJobs, Head(deletes).id), nextDelete)
    BY <1>3, NumberTypes, BookTypes, BookStarts DEF AccountInv, DeleteBook
  <2>3. WholeWork("delete", Head(deletes)) = DeleteWork(Head(deletes))
    BY DEF WholeWork
  <2>4. DeleteBook'
    BY <1>1, <2>1, <2>2, <2>3 DEF DeleteBook
  <2>5. cur'.kind # "upload"
    BY <2>1
  <2>6. UploadBook'
    BY <1>1, <2>5, BookOther DEF AccountInv, UploadBook
  <2>7. \A t \in work' : t.op # "pass"
    BY <2>1 DEF DeleteWork
  <2>8. Untouched'
    BY <2>7 DEF Untouched
  <2>9. QED
    BY <1>1, <2>4, <2>6, <2>8 DEF AccountInv
<1>4. QED
  BY <1>2, <1>3

LEMMA BeginUploadAccounts ==
  ASSUME TypeOK, UploadInv, AccountInv, BeginUpload
  PROVE  AccountInv'
<1>1. UNCHANGED <<deletes, deleteJobs, nextUpload, nextDelete, requests>> /\ cur.kind = "idle"
  BY DEF BeginUpload, boundVars
<1>2. CASE uploads = <<>>
  <2>1. UNCHANGED <<uploads, uploadJobs, cur, work>>
    BY <1>2 DEF BeginUpload
  <2>2. QED
    BY <1>1, <2>1 DEF AccountInv, UploadBook, DeleteBook, Untouched
<1>3. CASE uploads # <<>>
  <2>1. /\ cur' = [kind |-> "upload", job |-> Head(uploads)]
        /\ work' = UploadWork(Head(uploads)) /\ uploads' = Tail(uploads)
        /\ uploadJobs' = Started(uploadJobs, Head(uploads).id)
    BY <1>3 DEF BeginUpload
  <2>2. Book("upload", [kind |-> "upload", job |-> Head(uploads)],
             WholeWork("upload", Head(uploads)), Tail(uploads),
             Started(uploadJobs, Head(uploads).id), nextUpload)
    BY <1>3, NumberTypes, BookTypes, BookStarts DEF AccountInv, UploadBook
  <2>3. WholeWork("upload", Head(uploads)) = UploadWork(Head(uploads))
    BY DEF WholeWork
  <2>4. UploadBook'
    BY <1>1, <2>1, <2>2, <2>3 DEF UploadBook
  <2>5. cur'.kind # "delete"
    BY <2>1
  <2>6. DeleteBook'
    BY <1>1, <2>5, BookOther DEF AccountInv, DeleteBook
  <2>7. work' = UploadWork(cur'.job)
    BY <2>1
  <2>8. Untouched'
    BY <2>7 DEF Untouched, UploadWork, Addresses
  <2>9. QED
    BY <1>1, <2>4, <2>6, <2>8 DEF AccountInv
<1>4. QED
  BY <1>2, <1>3

LEMMA FinishJobAccounts ==
  ASSUME TypeOK, UploadInv, AccountInv, FinishJob
  PROVE  AccountInv'
<1>1. /\ UNCHANGED <<uploads, deletes, nextUpload, nextDelete, requests, work>>
      /\ cur' = Idle /\ work = {} /\ cur.kind # "idle" /\ Idle.kind = "idle"
  BY DEF FinishJob, queueVars, boundVars, Idle
<1>2. Untouched'
  BY <1>1 DEF Untouched
<1>3. CASE cur.kind = "upload"
  <2>1. uploadJobs' = Completed(uploadJobs, cur.job.id) /\ UNCHANGED deleteJobs
    BY <1>3 DEF FinishJob
  <2>2. Book("upload", Idle, {}, uploads, Completed(uploadJobs, cur.job.id), nextUpload)
    BY <1>1, <1>3, NumberTypes, BookTypes, BookFinishes DEF AccountInv, UploadBook
  <2>3. UploadBook'
    BY <1>1, <2>1, <2>2 DEF UploadBook
  <2>4. DeleteBook'
    BY <1>1, <2>1, BookOther DEF AccountInv, DeleteBook
  <2>5. QED
    BY <1>1, <1>2, <2>3, <2>4 DEF AccountInv
<1>4. CASE cur.kind = "delete"
  <2>1. deleteJobs' = Completed(deleteJobs, cur.job.id) /\ UNCHANGED uploadJobs
    BY <1>4 DEF FinishJob
  <2>2. Book("delete", Idle, {}, deletes, Completed(deleteJobs, cur.job.id), nextDelete)
    BY <1>1, <1>4, NumberTypes, BookTypes, BookFinishes DEF AccountInv, DeleteBook
  <2>3. DeleteBook'
    BY <1>1, <2>1, <2>2 DEF DeleteBook
  <2>4. UploadBook'
    BY <1>1, <2>1, BookOther DEF AccountInv, UploadBook
  <2>5. QED
    BY <1>1, <1>2, <2>3, <2>4 DEF AccountInv
<1>5. QED
  BY <1>1, <1>3, <1>4, BookTypes

\* A task of an upload is done and counted.
LEMMA UploadCounts ==
  ASSUME TypeOK, UploadInv, WorkOf, AccountInv, NEW t \in work, t.op \in {"pass", "clear", "write"},
         NEW result \in {"success", "failed", "skipped"},
         work' = work \ {t}, uploadJobs' = Counted(uploadJobs, cur.job.id, result),
         UNCHANGED <<cur, uploads, nextUpload, deletes, deleteJobs, nextDelete, requests>>,
         \A n \in Node : [op |-> "pass", node |-> n] \in work' => t.node # n
  PROVE  AccountInv'
<1>1. cur.kind = "upload"
  BY TaskKind
<1>2. t \in ToCount("upload", work) /\ t.op # "erase" /\ IsFiniteSet(work)
  BY FiniteWork DEF ToCount
<1>3. Book("upload", cur, work \ {t}, uploads, Counted(uploadJobs, cur.job.id, result), nextUpload)
  BY <1>1, <1>2, NumberTypes, BookTypes, BookCounts DEF AccountInv, UploadBook
<1>4. UploadBook'
  BY <1>3 DEF UploadBook
<1>5. DeleteBook'
  BY <1>1, BookOther DEF AccountInv, DeleteBook
<1>6. Untouched'
  BY DEF AccountInv, Untouched, UploadWork, Addresses
<1>7. QED
  BY <1>4, <1>5, <1>6 DEF AccountInv

\* The tasks of a controller that a full synchronization gives up.
LEMMA PassAnyFailsAccounts ==
  ASSUME TypeOK, UploadInv, WorkOf, AccountInv, NEW n \in Node, PassAnyFails(n)
  PROVE  AccountInv'
<1> DEFINE gone == {t \in work : t.node = n}
<1>1. /\ [op |-> "pass", node |-> n] \in work /\ work' = work \ gone
      /\ uploadJobs' = Skipped(Counted(uploadJobs, cur.job.id, "failed"), cur.job.id)
      /\ UNCHANGED <<cur, uploads, nextUpload, deletes, deleteJobs, nextDelete, requests>>
  BY DEF PassAnyFails, queueVars, boundVars
<1>2. cur.kind = "upload"
  BY <1>1, TaskKind
<1>3. work \subseteq UploadWork(cur.job) /\ cur.job.flag /\ n \in cur.job.nodes
  BY <1>1, <1>2 DEF WorkOf, UploadWork
<1>4. gone = {t \in UploadWork(cur.job) : t.node = n}
  BY <1>1, <1>3 DEF AccountInv, Untouched
<1>5. gone = [op : {"write"}, node : {n}, who : cur.job.users]
               \union ([op : {"pass"}, node : {n}]
                       \union [op : {"clear"}, node : {n}, addr : Addr \ Addresses(cur.job.users)])
  <2>1. UploadWork(cur.job)
          = [op : {"write"}, node : cur.job.nodes, who : cur.job.users]
              \union ([op : {"pass"}, node : cur.job.nodes]
                      \union [op : {"clear"}, node : cur.job.nodes,
                              addr : Addr \ Addresses(cur.job.users)])
    BY <1>3 DEF UploadWork
  <2> HIDE DEF gone
  <2>2. QED
    BY <1>3, <1>4, <2>1
<1>6. Cardinality(gone) = Cardinality(Addr) + 1
  <2>1. {n} \in SUBSET Node /\ cur.job.users \in SUBSET Snapshot
    BY BookTypes DEF Pending
  <2>2. \A s, t \in cur.job.users : s.addr # None /\ (s.addr = t.addr => s = t)
    BY <1>2, <1>3, HandNumber DEF Distinct
  <2> HIDE DEF gone
  <2>3. Cardinality(gone) = (Cardinality(Addr) + 1) * Cardinality({n})
    BY <1>5, <2>1, <2>2, FullWork
  <2>4. Cardinality({n}) = 1
    BY FS_Singleton
  <2>5. Cardinality(Addr) \in Nat
    BY ConstantTypes, FS_CardinalityType
  <2>6. QED
    BY <2>3, <2>4, <2>5
<1>7. gone \in SUBSET work
  OBVIOUS
<1>8. \A t : t \in work \ gone <=> t \in work /\ t.node # n
  OBVIOUS
<1> HIDE DEF gone
<1>9. Book("upload", cur, work \ gone, uploads,
           Skipped(Counted(uploadJobs, cur.job.id, "failed"), cur.job.id), nextUpload)
  BY <1>2, <1>6, <1>7, FiniteWork, NumberTypes, BookTypes, BookSkips DEF AccountInv, UploadBook
<1>10. UploadBook'
  BY <1>1, <1>9 DEF UploadBook
<1>11. DeleteBook'
  BY <1>1, <1>2, BookOther DEF AccountInv, DeleteBook
<1>12. Untouched'
  <2> SUFFICES ASSUME NEW m \in Node, [op |-> "pass", node |-> m] \in work',
                      NEW t \in UploadWork(cur.job), t.node = m
               PROVE  t \in work'
    BY <1>1 DEF Untouched, UploadWork, Addresses
  <2>1. [op |-> "pass", node |-> m] \in work /\ m # n
    BY <1>1, <1>8
  <2>2. t \in work
    BY <2>1 DEF AccountInv, Untouched
  <2>3. QED
    BY <1>1, <1>8, <2>1, <2>2
<1>13. QED
  BY <1>1, <1>10, <1>11, <1>12 DEF AccountInv

\* A task of a deletion.
LEMMA DeleteUserAccounts ==
  ASSUME TypeOK, UploadInv, WorkOf, AccountInv, NEW n \in Node, NEW s \in cur.job.users,
         DeleteUser(n, s)
  PROVE  AccountInv'
<1>1. PICK t : t = [op |-> "delete", node |-> n, who |-> s]
  OBVIOUS
<1>2. /\ t \in work /\ work' = work \ {t} /\ t.op = "delete"
      /\ UNCHANGED <<cur, uploads, uploadJobs, nextUpload, deletes, nextDelete, requests>>
  BY <1>1 DEF DeleteUser, queueVars, boundVars
<1>3. PICK result \in {"success", "failed"} :
        deleteJobs' = Counted(deleteJobs, cur.job.id, result)
  BY DEF DeleteUser, Verdict
<1>4. cur.kind = "delete" /\ t \in ToCount("delete", work) /\ IsFiniteSet(work)
  BY <1>2, TaskKind, FiniteWork DEF ToCount
<1>5. Book("delete", cur, work \ {t}, deletes, Counted(deleteJobs, cur.job.id, result), nextDelete)
  BY <1>2, <1>4, NumberTypes, BookTypes, BookCounts DEF AccountInv, DeleteBook
<1>6. DeleteBook'
  BY <1>2, <1>3, <1>5 DEF DeleteBook
<1>7. UploadBook'
  BY <1>2, <1>4, BookOther DEF AccountInv, UploadBook
<1>8. \A m : [op |-> "pass", node |-> m] \notin work
  BY <1>4, TaskKind
<1>9. Untouched'
  BY <1>2, <1>8 DEF Untouched
<1>10. QED
  BY <1>2, <1>6, <1>7, <1>9 DEF AccountInv

LEMMA EraseUserAccounts ==
  ASSUME TypeOK, UploadInv, WorkOf, AccountInv, NEW s \in cur.job.users, EraseUser(s)
  PROVE  AccountInv'
<1>1. PICK t : t = [op |-> "erase", who |-> s]
  OBVIOUS
<1>2. /\ t \in work /\ work' = work \ {t} /\ t.op = "erase"
      /\ UNCHANGED <<cur, uploads, uploadJobs, nextUpload, deletes, nextDelete, requests>>
  BY <1>1 DEF EraseUser, queueVars, boundVars
<1>3. PICK gone : deleteJobs' = Tallied(deleteJobs, cur.job.id, gone)
  BY DEF EraseUser
<1>4. cur.kind = "delete" /\ t \in ToErase(work) /\ IsFiniteSet(work)
  BY <1>2, TaskKind, FiniteWork DEF ToErase
<1>5. Book("delete", cur, work \ {t}, deletes, Tallied(deleteJobs, cur.job.id, gone), nextDelete)
  BY <1>4, NumberTypes, BookTypes, BookTallies DEF AccountInv, DeleteBook
<1>6. DeleteBook'
  BY <1>2, <1>3, <1>5 DEF DeleteBook
<1>7. UploadBook'
  BY <1>2, <1>4, BookOther DEF AccountInv, UploadBook
<1>8. \A m : [op |-> "pass", node |-> m] \notin work
  BY <1>4, TaskKind
<1>9. Untouched'
  BY <1>2, <1>8 DEF Untouched
<1>10. QED
  BY <1>2, <1>6, <1>7, <1>9 DEF AccountInv

\* Empty tables and queues.
LEMMA EmptyBook ==
  ASSUME NEW kind \in Kind, NEW w, NEW next
  PROVE  Book(kind, Idle, w, <<>>, [i \in JobId |-> AbsentJob], next)
<1>1. Idle.kind # kind
  BY DEF Idle, Kind
<1>2. \A i \in JobId : Adds(kind, [j \in JobId |-> AbsentJob][i])
  BY EmptyAdds
<1>3. QED
  BY <1>1, <1>2 DEF Book, Waiting, Hand

LEMMA AccountStep == TypeOK /\ UploadInv /\ WorkOf /\ AccountInv /\ [Next]_vars => AccountInv'
<1> SUFFICES ASSUME TypeOK, UploadInv, WorkOf, AccountInv, [Next]_vars PROVE AccountInv'
  OBVIOUS
<1>1. CASE BeginDelete \/ BeginUpload \/ FinishJob
  BY <1>1, BeginDeleteAccounts, BeginUploadAccounts, FinishJobAccounts
<1>2. ASSUME NEW S, NEW N \in SUBSET Node,
             QueueUpload(S, N) \/ QueueFullSync(N)
             \/ \E system \in BOOLEAN : QueueDelete(S, N, system)
      PROVE  AccountInv'
  BY <1>2, QueueUploadAccounts, QueueFullSyncAccounts, QueueDeleteAccounts
<1>3. ASSUME NEW n \in Node, DisablePassAny(n) PROVE AccountInv'
  <2>1. PICK t : t = [op |-> "pass", node |-> n]
    OBVIOUS
  <2>2. /\ t \in work /\ work' = work \ {t} /\ t.op = "pass" /\ t.node = n
        /\ uploadJobs' = Counted(uploadJobs, cur.job.id, "success")
        /\ UNCHANGED <<cur, uploads, nextUpload, deletes, deleteJobs, nextDelete, requests>>
    BY <1>3, <2>1 DEF DisablePassAny, CountUpload, queueVars, boundVars
  <2>3. \A m \in Node : [op |-> "pass", node |-> m] \in work' => t.node # m
    BY <2>1, <2>2
  <2>4. QED
    BY <2>2, <2>3, UploadCounts
<1>4. ASSUME NEW n \in Node, PassAnyFails(n) PROVE AccountInv'
  BY <1>4, PassAnyFailsAccounts
<1>5. ASSUME NEW n \in Node, NEW a \in Addr, ClearSlot(n, a) PROVE AccountInv'
  <2>1. PICK t : t = [op |-> "clear", node |-> n, addr |-> a]
    OBVIOUS
  <2>2. /\ t \in work /\ work' = work \ {t} /\ t.op = "clear" /\ t.node = n
        /\ \E result \in {"success", "failed"} :
             uploadJobs' = Counted(uploadJobs, cur.job.id, result)
        /\ UNCHANGED <<cur, uploads, nextUpload, deletes, deleteJobs, nextDelete, requests>>
        /\ PhaseOver(n, {"pass"})
    BY <1>5, <2>1 DEF ClearSlot, CountUpload, Verdict, queueVars, boundVars
  <2>3. \A m \in Node : [op |-> "pass", node |-> m] \in work' => t.node # m
    BY <2>2 DEF PhaseOver
  <2>4. QED
    BY <2>2, <2>3, UploadCounts
<1>6. ASSUME NEW n \in Node, NEW s \in cur.job.users, WriteUser(n, s) PROVE AccountInv'
  <2>1. PICK t : t = [op |-> "write", node |-> n, who |-> s]
    OBVIOUS
  <2>2. /\ t \in work /\ work' = work \ {t} /\ t.op = "write" /\ t.node = n
        /\ \E result \in {"success", "failed", "skipped"} :
             uploadJobs' = Counted(uploadJobs, cur.job.id, result) /\ UNCHANGED deleteJobs
        /\ UNCHANGED <<cur, uploads, nextUpload, deletes, nextDelete, requests>>
        /\ PhaseOver(n, {"pass", "clear"})
    BY <1>6, <2>1 DEF WriteUser, CountUpload, Verdict, queueVars, boundVars
  <2>3. \A m \in Node : [op |-> "pass", node |-> m] \in work' => t.node # m
    BY <2>2 DEF PhaseOver
  <2>4. QED
    BY <2>2, <2>3, UploadCounts
<1>7. ASSUME NEW n \in Node, NEW s \in cur.job.users, DeleteUser(n, s) PROVE AccountInv'
  BY <1>7, DeleteUserAccounts
<1>8. ASSUME NEW s \in cur.job.users, EraseUser(s) PROVE AccountInv'
  BY <1>8, EraseUserAccounts
<1>9. CASE \/ UNCHANGED vars
           \/ \E u \in User, e \in Forms : SaveUser(u, e)
           \/ \E S \in Selections : DeleteLocally(S)
  <2>1. UNCHANGED <<cur, work, uploads, uploadJobs, nextUpload, deletes, deleteJobs, nextDelete,
                    requests>>
    BY <1>9 DEF vars, SaveUser, DeleteLocally, queueVars, jobVars, workerVars, boundVars
  <2>2. QED
    BY <2>1 DEF AccountInv, UploadBook, DeleteBook, Untouched
<1>10. CASE Restart
  <2>1. /\ uploads' = <<>> /\ deletes' = <<>> /\ cur' = Idle /\ work' = {}
        /\ uploadJobs' = [i \in JobId |-> AbsentJob] /\ deleteJobs' = [i \in JobId |-> AbsentJob]
        /\ nextDelete' = 1 /\ requests' = requests
    BY <1>10 DEF Restart
  <2>2. UploadBook' /\ DeleteBook'
    BY <2>1, BookTypes, EmptyBook DEF UploadBook, DeleteBook
  <2>3. Untouched' /\ nextDelete' <= requests' + 1
    BY <2>1, ConstantTypes DEF Untouched, TypeOK
  <2>4. QED
    BY <2>2, <2>3 DEF AccountInv
<1>11. QED
  BY <1>1, <1>2, <1>3, <1>4, <1>5, <1>6, <1>7, <1>8, <1>9, <1>10 DEF Next, Web, Worker

LEMMA AccountInit == Init => AccountInv
<1> SUFFICES ASSUME Init PROVE AccountInv
  OBVIOUS
<1>1. /\ uploads = <<>> /\ deletes = <<>> /\ cur = Idle /\ work = {}
      /\ uploadJobs = [i \in JobId |-> AbsentJob] /\ deleteJobs = [i \in JobId |-> AbsentJob]
      /\ nextDelete = 1 /\ requests = 0
  BY DEF Init
<1>2. UploadBook /\ DeleteBook
  BY <1>1, EmptyBook DEF UploadBook, DeleteBook, Kind
<1>3. QED
  BY <1>1, <1>2 DEF AccountInv, Untouched

\* Each result of a job is counted once, under one heading, a job that is completed
\* accounts for all it set out to do, skipped controllers included, and a deletion
\* never tallies more users than it has (append_result, total in queueUserUpload and
\* queueUserDelete), for any number of controllers, addresses, users and jobs.
THEOREM AccountingAlways == Spec => []Accounting
<1>1. TypeOK /\ AccountInv => Accounting
  <2> SUFFICES ASSUME TypeOK, AccountInv PROVE Accounting
    OBVIOUS
  <2>1. \A i \in JobId : uploadJobs[i] \in Job /\ deleteJobs[i] \in Job
    BY BookTypes
  <2>2. \A i \in JobId : Adds("upload", uploadJobs[i]) /\ Adds("delete", deleteJobs[i])
    BY DEF AccountInv, UploadBook, DeleteBook, Book
  <2>3. \A j \in Job : Adds("delete", j) => j.completed = j.success + j.failed
    BY DEF Adds, Job
  <2>4. QED
    BY <2>1, <2>2, <2>3 DEF Accounting, Adds
<1>2. QED
  BY <1>1, TypeInit, TypeStep, WorkOfInit, WorkOfStep, UploadInit, UploadStep, AccountInit,
     AccountStep, PTL DEF Spec
=============================================================================

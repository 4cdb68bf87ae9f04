------------------------------ MODULE UserSync ------------------------------
(***************************************************************************)
(* Access rights on the controllers: upload and delete jobs.  Web requests *)
(* edit the user registry and queue jobs, each with a snapshot of the      *)
(* users it concerns; the serial worker carries the jobs out, one in turn  *)
(* from each queue, with 83H writes that are read back by 87H, and erases  *)
(* users from the registry once every controller of a job has confirmed.   *)
(*                                                                         *)
(* One 87H-83H-87H exchange is one step: the worker is the only writer of  *)
(* the controllers, and nothing it uses in between is shared.  Frames are  *)
(* lost, but none is late (EventCollection has those).  A slot is told     *)
(* apart by whose card it holds and whether its mode grants access.        *)
(***************************************************************************)
EXTENDS Naturals, Sequences, FiniteSets

CONSTANTS
    Node,        \* enabled controllers
    User,        \* users of the registry, each with one card of his own
    Addr,        \* user addresses of a controller (0..1023)
    None,        \* no user, no address, no card
    Other,       \* a card of nobody we know
    Absent,      \* a user the registry does not hold
    InitUsers,   \* the registry at the start
    MaxJobs,     \* jobs of one kind remembered (20 in the code)
    Selections,  \* bound: the sets of users an administrator selects
    Forms,       \* bound: the entries an administrator submits
    MaxRequests, \* bound: jobs requested altogether
    MaxEdits,    \* bound: edits of the registry
    MaxRestarts  \* bound: restarts of the server

\* A user's address may lie outside the controllers' range (imported data).
Entry == [addr : Addr \union {None}, on : BOOLEAN]

ASSUME SyncAssumption ==
    /\ IsFiniteSet(Node) /\ IsFiniteSet(User) /\ IsFiniteSet(Addr)
    /\ None \notin Node \union User \union Addr
    /\ Other \notin User \union {None}
    /\ Absent \notin Entry
    /\ InitUsers \in [User -> Entry \union {Absent}]
    /\ MaxJobs \in Nat \ {0}
    /\ Selections \subseteq SUBSET User
    /\ Forms \subseteq Entry
    /\ {MaxRequests, MaxEdits, MaxRestarts} \subseteq Nat

VARIABLES
    users,        \* the registry
    stored,       \* the registry as stored
    slot,         \* slot[n][a]: what controller n holds at address a
    passAny,      \* passAny[n]: controller n opens to any card
    uploads,      \* upload_queue_
    deletes,      \* delete_queue_
    uploadJobs,   \* upload_jobs_
    deleteJobs,   \* delete_jobs_
    nextUpload,   \* next_upload_id_
    nextDelete,   \* next_delete_id_
    turn,         \* the queue the worker's loop looks at next
    cur,          \* the job in hand
    work,         \* what is left to do of it
    unconfirmed,  \* users of the deletion in hand that a controller has not confirmed
    \* history and bounds
    erased,       \* <<u, n>>: a deletion on controller n erased u from the system
    requests, edits, restarts

registryVars == <<users, stored>>
controllerVars == <<slot, passAny>>
queueVars == <<uploads, deletes, nextUpload, nextDelete>>
jobVars == <<uploadJobs, deleteJobs>>
workerVars == <<turn, cur, work, unconfirmed>>
boundVars == <<requests, edits, restarts>>
vars == <<registryVars, controllerVars, queueVars, jobVars, workerVars, erased,
          boundVars>>

JobId == 1 .. MaxRequests

\* A slot is free (eight zero bytes), or holds a card.
Slot == [card : User \union {None, Other}, active : BOOLEAN]
Free == [card |-> None, active |-> FALSE]
Stranger == [card |-> Other, active |-> TRUE]

\* A user as he was when the job was queued.
Snapshot == [user : User, addr : Addr \union {None}, on : BOOLEAN]
SnapshotOf(u) == [user |-> u, addr |-> users[u].addr, on |-> users[u].on]

Present == {u \in User : users[u] # Absent}

Job == [state : {"absent", "queued", "running", "completed"},
        total : Nat, completed : Nat, success : Nat, failed : Nat, skipped : Nat,
        deleted : Nat, retained : Nat]

NewJob(total) ==
    [state |-> "queued", total |-> total, completed |-> 0, success |-> 0, failed |-> 0,
     skipped |-> 0, deleted |-> 0, retained |-> 0]

AbsentJob == [NewJob(0) EXCEPT !.state = "absent"]

Pending == [id : Nat, users : SUBSET Snapshot, nodes : SUBSET Node, flag : BOOLEAN]

\* What a job has to do, one exchange with a controller (or one erasure) each.
Task ==
    [op : {"pass"}, node : Node]
      \union [op : {"clear"}, node : Node, addr : Addr]
      \union [op : {"write", "delete"}, node : Node, who : Snapshot]
      \union [op : {"erase"}, who : Snapshot]

Idle == [kind |-> "idle", job |-> [id |-> 0, users |-> {}, nodes |-> {}, flag |-> FALSE]]

RegistryType ==
    /\ users \in [User -> Entry \union {Absent}]
    /\ stored \in [User -> Entry \union {Absent}]

ControllerType ==
    /\ slot \in [Node -> [Addr -> Slot]]
    /\ passAny \in [Node -> BOOLEAN]

JobType ==
    /\ uploads \in Seq(Pending)
    /\ deletes \in Seq(Pending)
    /\ uploadJobs \in [JobId -> Job]
    /\ deleteJobs \in [JobId -> Job]
    /\ nextUpload \in Nat \ {0}
    /\ nextDelete \in Nat \ {0}

WorkerType ==
    /\ turn \in {"delete", "upload"}
    /\ cur \in [kind : {"idle", "upload", "delete"}, job : Pending]
    /\ work \in SUBSET Task
    /\ unconfirmed \in SUBSET User
    /\ cur.kind = "idle" => work = {}

\* The type invariant; an idle worker has no work left.
TypeOK ==
    /\ RegistryType
    /\ ControllerType
    /\ JobType
    /\ WorkerType
    /\ erased \in SUBSET (User \X Node)
    /\ requests \in 0 .. MaxRequests
    /\ edits \in 0 .. MaxEdits
    /\ restarts \in 0 .. MaxRestarts

\* The controllers open to any card, and hold cards of times past.
Init ==
    /\ users = InitUsers
    /\ stored = InitUsers
    /\ slot = [n \in Node |-> [a \in Addr |-> Stranger]]
    /\ passAny = [n \in Node |-> TRUE]
    /\ uploads = <<>> /\ deletes = <<>>
    /\ uploadJobs = [i \in JobId |-> AbsentJob]
    /\ deleteJobs = [i \in JobId |-> AbsentJob]
    /\ nextUpload = 1 /\ nextDelete = 1
    /\ turn = "delete"
    /\ cur = Idle
    /\ work = {}
    /\ unconfirmed = {}
    /\ erased = {}
    /\ requests = 0 /\ edits = 0 /\ restarts = 0

-----------------------------------------------------------------------------
\* Web requests: the registry.

\* save(): the result is of interest to erase() only.
SaveRegistry(ok) == stored' = IF ok THEN users' ELSE stored

\* /api/users/save: a user is added or changed, his address forced into range.
SaveUser(u, e) ==
    /\ edits < MaxEdits
    /\ e.addr # None
    /\ edits' = edits + 1
    /\ users' = [users EXCEPT ![u] = e]
    /\ \E ok \in BOOLEAN : SaveRegistry(ok)
    /\ erased' = erased \ ({u} \X Node)
    /\ UNCHANGED <<controllerVars, queueVars, jobVars, workerVars, requests,
                   restarts>>

\* /api/users/delete, and delete-selected without controllers.
DeleteLocally(S) ==
    /\ edits < MaxEdits
    /\ edits' = edits + 1
    /\ S \subseteq Present
    /\ users' = [u \in User |-> IF u \in S THEN Absent ELSE users[u]]
    /\ \E ok \in BOOLEAN : SaveRegistry(ok)
    /\ UNCHANGED <<controllerVars, queueVars, jobVars, workerVars, erased,
                   requests, restarts>>

-----------------------------------------------------------------------------
\* Web requests: jobs.

\* The table with job id added; the oldest one is dropped when there are more
\* than MaxJobs, whatever its state.
WithJob(jobs, id, total) ==
    [i \in DOMAIN jobs |->
       CASE i = id -> NewJob(total)
         [] i + MaxJobs <= id -> AbsentJob
         [] OTHER -> jobs[i]]

Requested ==
    /\ requests < MaxRequests
    /\ requests' = requests + 1

Enqueue(S, N, full, total) ==
    /\ Requested
    /\ nextUpload' = nextUpload + 1
    /\ uploads' = Append(uploads, [id |-> nextUpload, users |-> {SnapshotOf(u) : u \in S},
                                   nodes |-> N, flag |-> full])
    /\ uploadJobs' = WithJob(uploadJobs, nextUpload, total)
    /\ UNCHANGED <<registryVars, controllerVars, deletes, nextDelete, deleteJobs,
                   workerVars, erased, edits, restarts>>

\* /api/controllers/upload-users for selected users.
QueueUpload(S, N) ==
    /\ S # {} /\ S \subseteq Present /\ N # {}
    /\ Enqueue(S, N, FALSE, Cardinality(S) * Cardinality(N))

Active == {u \in Present : users[u].on}

\* Faulty variant of FullSyncAllowed: two users may have the same address.
FullSyncAllowedShared == Active # {} /\ \A u \in Active : users[u].addr # None

\* Every active user has an address of his own within the range.
FullSyncAllowed ==
    /\ Active # {}
    /\ \A u \in Active : users[u].addr # None
    /\ \A u, v \in Active : users[u].addr = users[v].addr => u = v

\* The same request for all users: a full synchronization.
QueueFullSync(N) ==
    /\ N # {}
    /\ FullSyncAllowed
    /\ Enqueue(Active, N, TRUE, (Cardinality(Addr) + 1) * Cardinality(N))

\* /api/users/delete-selected with controllers; flag says whether the users are
\* to leave the system as well.
QueueDelete(S, N, system) ==
    /\ S # {} /\ S \subseteq Present /\ N # {}
    /\ Requested
    /\ nextDelete' = nextDelete + 1
    /\ deletes' = Append(deletes, [id |-> nextDelete, users |-> {SnapshotOf(u) : u \in S},
                                   nodes |-> N, flag |-> system])
    /\ deleteJobs' = WithJob(deleteJobs, nextDelete, Cardinality(S) * Cardinality(N))
    /\ UNCHANGED <<registryVars, controllerVars, uploads, nextUpload, uploadJobs,
                   workerVars, erased, edits, restarts>>

-----------------------------------------------------------------------------
\* The serial worker: jobs.

Started(jobs, id) ==
    [i \in DOMAIN jobs |->
       IF i = id /\ jobs[i].state # "absent" THEN [jobs[i] EXCEPT !.state = "running"]
                                             ELSE jobs[i]]

Completed(jobs, id) ==
    [i \in DOMAIN jobs |->
       IF i = id /\ jobs[i].state # "absent" THEN [jobs[i] EXCEPT !.state = "completed"]
                                             ELSE jobs[i]]

Addresses(snapshots) == {s.addr : s \in snapshots}

\* Full synchronization: Pass Any Cards off, every address without a user
\* cleared, every user written.  Otherwise the users are just written.  The code
\* goes through controllers and users in their order; here any order will do.
UploadWork(job) ==
    [op : {"write"}, node : job.nodes, who : job.users]
      \union IF job.flag
             THEN [op : {"pass"}, node : job.nodes]
                    \union [op : {"clear"}, node : job.nodes,
                            addr : Addr \ Addresses(job.users)]
             ELSE {}

DeleteWork(job) ==
    [op : {"delete"}, node : job.nodes, who : job.users]
      \union IF job.flag THEN [op : {"erase"}, who : job.users] ELSE {}

\* processOneUserDelete, or nothing to delete; processOneUserUpload follows.
BeginDelete ==
    /\ cur.kind = "idle" /\ turn = "delete"
    /\ turn' = "upload"
    /\ IF deletes = <<>>
       THEN UNCHANGED <<deletes, deleteJobs, cur, work>>
       ELSE /\ cur' = [kind |-> "delete", job |-> Head(deletes)]
            /\ work' = DeleteWork(Head(deletes))
            /\ deletes' = Tail(deletes)
            /\ deleteJobs' = Started(deleteJobs, Head(deletes).id)
    /\ UNCHANGED <<registryVars, controllerVars, uploads, nextUpload, nextDelete,
                   uploadJobs, unconfirmed, erased, boundVars>>

\* processOneUserUpload, or nothing to upload; then the loop starts again.
BeginUpload ==
    /\ cur.kind = "idle" /\ turn = "upload"
    /\ turn' = "delete"
    /\ IF uploads = <<>>
       THEN UNCHANGED <<uploads, uploadJobs, cur, work>>
       ELSE /\ cur' = [kind |-> "upload", job |-> Head(uploads)]
            /\ work' = UploadWork(Head(uploads))
            /\ uploads' = Tail(uploads)
            /\ uploadJobs' = Started(uploadJobs, Head(uploads).id)
    /\ UNCHANGED <<registryVars, controllerVars, deletes, nextUpload, nextDelete,
                   deleteJobs, unconfirmed, erased, boundVars>>

\* Faulty variant of FinishJob: a job that left the table is dropped half done.
FinishJobEvicted ==
    /\ cur.kind = "delete"
    /\ work = {} \/ deleteJobs[cur.job.id].state = "absent"
    /\ cur' = Idle
    /\ unconfirmed' = {}
    /\ deleteJobs' = Completed(deleteJobs, cur.job.id)
    /\ UNCHANGED <<registryVars, controllerVars, queueVars, turn, work, uploadJobs, erased,
                   boundVars>>

\* All is done: the job is completed.
FinishJob ==
    /\ cur.kind # "idle" /\ work = {}
    /\ cur' = Idle
    /\ unconfirmed' = {}
    /\ IF cur.kind = "upload"
       THEN uploadJobs' = Completed(uploadJobs, cur.job.id) /\ UNCHANGED deleteJobs
       ELSE deleteJobs' = Completed(deleteJobs, cur.job.id) /\ UNCHANGED uploadJobs
    /\ UNCHANGED <<registryVars, controllerVars, queueVars, turn, work, erased, boundVars>>

-----------------------------------------------------------------------------
\* The serial worker: exchanges with a controller.

\* Faulty variant of Verified: the ACK of 83H is enough.
AckIsEnough(answered, n, a, content) == answered

\* A write counts only if 87H reads back what was written.
Verified(answered, n, a, content) == answered /\ slot'[n][a] = content

\* 83H: content goes to address a of controller n, or it does not; the exchange
\* is answered, or it is not.  ok is what the code makes of it.
Program(n, a, content, ok) ==
    \E took, answered \in BOOLEAN :
        /\ slot' = IF took THEN [slot EXCEPT ![n][a] = content] ELSE slot
        /\ ok = Verified(answered, n, a, content)

\* A result is counted if the table still has the job.
Counted(jobs, id, result) ==
    [i \in DOMAIN jobs |->
       IF i = id /\ jobs[i].state # "absent"
       THEN [jobs[i] EXCEPT !.completed = @ + 1,
                            !.success = IF result = "success" THEN @ + 1 ELSE @,
                            !.failed = IF result = "failed" THEN @ + 1 ELSE @,
                            !.skipped = IF result = "skipped" THEN @ + 1 ELSE @]
       ELSE jobs[i]]

Verdict(ok) == IF ok THEN "success" ELSE "failed"

CountUpload(result) ==
    /\ uploadJobs' = Counted(uploadJobs, cur.job.id, result)
    /\ UNCHANGED deleteJobs

\* Phase 0 of a full synchronization: disablePassAnyCards.
DisablePassAny(n) ==
    LET t == [op |-> "pass", node |-> n] IN
    /\ t \in work
    /\ work' = work \ {t}
    /\ passAny' = [passAny EXCEPT ![n] = FALSE]
    /\ CountUpload("success")
    /\ UNCHANGED <<registryVars, slot, queueVars, turn, cur, unconfirmed, erased, boundVars>>

\* Faulty variant of PassAnyFails: the whole job is given up.
PassAnyFailsAbandon(n) ==
    /\ [op |-> "pass", node |-> n] \in work
    /\ work' = {}
    /\ cur' = Idle
    /\ \E off \in BOOLEAN : passAny' = [passAny EXCEPT ![n] = @ /\ ~off]
    /\ CountUpload("failed")
    /\ UNCHANGED <<registryVars, slot, queueVars, turn, unconfirmed, erased, boundVars>>

\* All addresses of a controller are counted as skipped.
Skipped(jobs, id) ==
    [i \in DOMAIN jobs |->
       IF i = id /\ jobs[i].state # "absent"
       THEN [jobs[i] EXCEPT !.completed = @ + Cardinality(Addr),
                            !.skipped = @ + Cardinality(Addr)]
       ELSE jobs[i]]

\* Its failure: this controller is left alone (though the option may be off by
\* now), and all its addresses are counted as skipped.
PassAnyFails(n) ==
    /\ [op |-> "pass", node |-> n] \in work
    /\ work' = {t \in work : t.node # n}
    /\ \E off \in BOOLEAN : passAny' = [passAny EXCEPT ![n] = @ /\ ~off]
    /\ uploadJobs' = Skipped(Counted(uploadJobs, cur.job.id, "failed"), cur.job.id)
    /\ UNCHANGED <<registryVars, slot, queueVars, deleteJobs, turn, cur, unconfirmed,
                   erased, boundVars>>

\* No task of one of these kinds is left for controller n.
PhaseOver(n, ops) == \A t \in work : t.op \in ops => t.node # n

\* Phase 1: clearUserSlot.
ClearSlot(n, a) ==
    LET t == [op |-> "clear", node |-> n, addr |-> a] IN
    /\ t \in work
    /\ PhaseOver(n, {"pass"})
    /\ work' = work \ {t}
    /\ \E ok \in BOOLEAN : Program(n, a, Free, ok) /\ CountUpload(Verdict(ok))
    /\ UNCHANGED <<registryVars, passAny, queueVars, turn, cur, unconfirmed, erased, boundVars>>

\* Phase 2, and all of a selective upload: writeUser.
WriteUser(n, s) ==
    LET t == [op |-> "write", node |-> n, who |-> s] IN
    /\ t \in work
    /\ PhaseOver(n, {"pass", "clear"})
    /\ work' = work \ {t}
    /\ IF s.addr = None
       THEN CountUpload("skipped") /\ UNCHANGED slot
       ELSE \E ok \in BOOLEAN :
              /\ Program(n, s.addr, [card |-> s.user, active |-> s.on], ok)
              /\ CountUpload(Verdict(ok))
    /\ UNCHANGED <<registryVars, passAny, queueVars, turn, cur, unconfirmed, erased, boundVars>>

\* deleteUser: only the mode of the slot is changed; a slot that grants no
\* access already is confirmed by the first 87H.
Disable(n, a, ok) ==
    IF slot[n][a].active
    THEN Program(n, a, [slot[n][a] EXCEPT !.active = FALSE], ok)
    ELSE UNCHANGED slot

\* Faulty variant of Confirm: a failure of a job that left the table is lost.
ConfirmCounted(s, ok) ==
    unconfirmed' = IF ok \/ deleteJobs[cur.job.id].state = "absent"
                   THEN unconfirmed ELSE unconfirmed \union {s.user}

Confirm(s, ok) ==
    unconfirmed' = IF ok THEN unconfirmed ELSE unconfirmed \union {s.user}

DeleteUser(n, s) ==
    LET t == [op |-> "delete", node |-> n, who |-> s] IN
    /\ t \in work
    /\ work' = work \ {t}
    /\ \E ok \in BOOLEAN :
         /\ IF s.addr = None THEN ~ok /\ UNCHANGED slot ELSE Disable(n, s.addr, ok)
         /\ Confirm(s, ok)
         /\ deleteJobs' = Counted(deleteJobs, cur.job.id, Verdict(ok))
    /\ UNCHANGED <<registryVars, passAny, queueVars, uploadJobs, turn, cur, erased, boundVars>>

\* How many users the job has removed from the system, or left in it.
Tallied(jobs, id, gone) ==
    [i \in DOMAIN jobs |->
       IF i = id /\ jobs[i].state # "absent"
       THEN [jobs[i] EXCEPT !.deleted = IF gone THEN @ + 1 ELSE @,
                            !.retained = IF gone THEN @ ELSE @ + 1]
       ELSE jobs[i]]

\* The user leaves the registry if all controllers have confirmed; a failed
\* save is reported as if he had not.
EraseUser(s) ==
    LET t == [op |-> "erase", who |-> s]
        u == s.user IN
    /\ t \in work
    /\ \A d \in work : d.op = "delete" => d.who # s
    /\ work' = work \ {t}
    /\ IF u \in unconfirmed \/ users[u] = Absent
       THEN /\ deleteJobs' = Tallied(deleteJobs, cur.job.id, FALSE)
            /\ UNCHANGED <<registryVars, erased>>
       ELSE /\ users' = [users EXCEPT ![u] = Absent]
            /\ erased' = erased \union ({u} \X cur.job.nodes)
            /\ \E ok \in BOOLEAN :
                 SaveRegistry(ok) /\ deleteJobs' = Tallied(deleteJobs, cur.job.id, ok)
    /\ UNCHANGED <<controllerVars, queueVars, uploadJobs, turn, cur, unconfirmed, boundVars>>

\* The server dies and is started again: jobs are forgotten, done or not.
Restart ==
    /\ restarts < MaxRestarts
    /\ restarts' = restarts + 1
    /\ users' = stored
    /\ uploads' = <<>> /\ deletes' = <<>>
    /\ uploadJobs' = [i \in JobId |-> AbsentJob]
    /\ deleteJobs' = [i \in JobId |-> AbsentJob]
    /\ nextUpload' = 1 /\ nextDelete' = 1
    /\ turn' = "delete" /\ cur' = Idle /\ work' = {} /\ unconfirmed' = {}
    /\ UNCHANGED <<stored, controllerVars, erased, requests, edits>>

Web ==
    \/ \E u \in User, e \in Forms : SaveUser(u, e)
    \/ \E S \in Selections : DeleteLocally(S)
    \/ \E S \in Selections, N \in SUBSET Node : QueueUpload(S, N)
    \/ \E N \in SUBSET Node : QueueFullSync(N)
    \/ \E S \in Selections, N \in SUBSET Node, system \in BOOLEAN : QueueDelete(S, N, system)

Worker ==
    \/ BeginDelete
    \/ BeginUpload
    \/ FinishJob
    \/ \E n \in Node : DisablePassAny(n)
    \/ \E n \in Node : PassAnyFails(n)
    \/ \E n \in Node, a \in Addr : ClearSlot(n, a)
    \/ \E n \in Node, s \in cur.job.users : WriteUser(n, s)
    \/ \E n \in Node, s \in cur.job.users : DeleteUser(n, s)
    \/ \E s \in cur.job.users : EraseUser(s)

Next == Web \/ Worker \/ Restart

Spec == Init /\ [][Next]_vars

\* The worker thread keeps running.
FairSpec == Spec /\ WF_vars(Worker)

-----------------------------------------------------------------------------
\* Properties.

Desired(snapshots, a) ==
    IF a \in Addresses(snapshots)
    THEN LET s == CHOOSE s \in snapshots : s.addr = a IN [card |-> s.user, active |-> s.on]
    ELSE Free

\* A full synchronization that reports no failure has left on each of its
\* controllers exactly the exported users, every one at his address, no other
\* card at any address, and Pass Any Cards off.
\* (processOneUserUpload, writeUser, clearUserSlot, disablePassAnyCards)
SyncExact ==
    (/\ cur.kind = "upload" /\ cur.job.flag /\ work = {}
     /\ uploadJobs[cur.job.id].state = "running"
     /\ uploadJobs[cur.job.id].failed = 0) =>
        \A n \in cur.job.nodes :
            /\ ~passAny[n]
            /\ \A a \in Addr : slot[n][a] = Desired(cur.job.users, a)

\* "The local record is removed only after every selected controller confirms
\* deletion for that user": when a job erases a user, his address grants access
\* on none of its controllers - also if the job has left the table by then.
\* (processOneUserDelete)
EraseConfirmed ==
    [][\A s \in cur.job.users :
         (/\ cur' = cur
          /\ [op |-> "erase", who |-> s] \in work \ work'
          /\ users[s.user] # Absent /\ users'[s.user] = Absent)
         => \A n \in cur.job.nodes : s.addr # None /\ ~slot[n][s.addr].active]_vars

\* Each result of a job is counted once, under one heading, and a job that is
\* completed accounts for all it set out to do, skipped controllers included;
\* a deletion never tallies more users than it has.
\* (append_result, total in queueUserUpload and queueUserDelete)
Accounting ==
    /\ \A i \in JobId : LET j == uploadJobs[i] IN
         /\ j.completed = j.success + j.failed + j.skipped
         /\ j.completed <= j.total
         /\ j.state = "completed" => j.completed = j.total
    /\ \A i \in JobId : LET j == deleteJobs[i] IN
         /\ j.completed = j.success + j.failed
         /\ j.completed <= j.total
         /\ j.state = "completed" => j.completed = j.total
         /\ j.deleted + j.retained <= j.total

\* Every job that is queued comes to an end, whatever its controllers do:
\* deletions do not starve uploads, a controller that fails does not stop the
\* others.  (Or it is forgotten: dropped from the table, or lost in a restart.)
\* (loop, processOneUserDelete, processOneUserUpload)
EveryJobEnds ==
    /\ \A i \in JobId : (uploadJobs[i].state \in {"queued", "running"})
                             ~> (uploadJobs[i].state \in {"completed", "absent"})
    /\ \A i \in JobId : (deleteJobs[i].state \in {"queued", "running"})
                             ~> (deleteJobs[i].state \in {"completed", "absent"})
=============================================================================

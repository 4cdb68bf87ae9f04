----------------------------- MODULE UserRegistry -----------------------------
(***************************************************************************)
(* The user registry (UserManager) and the list of departments             *)
(* (DepartmentManager) under the requests of the web server, each of which *)
(* runs in a thread of its own (WebServer::loop), and the merge of the     *)
(* legacy CSV files when the server starts.                                *)
(*                                                                         *)
(* A request is a program, a sequence of steps.  A step is what the code   *)
(* does under one lock: a change of users_ or departments_, the snapshot   *)
(* that save() takes of it, the transaction that stores the snapshot.      *)
(* Between two steps of a request other requests run.                      *)
(*                                                                         *)
(* Abstracted: a user is his id, the set of his cards and his department   *)
(* (names, PIN, dates and flags move along and decide nothing here);       *)
(* storage is MariaDB, whose transactions are atomic and whose keys refuse *)
(* a registry with a shared card or a shared id.                           *)
(***************************************************************************)
EXTENDS Integers, Sequences, FiniteSets, FiniteSetsExt, SequencesExt

CONSTANTS
    Thread,       \* threads that serve requests
    Card, Dept,
    NoDept,       \* the empty department name
    NoCopy,       \* no user has been read
    Requests,     \* bound: the requests clients send
    InitUsers,    \* users stored before the first start
    InitDepts,    \* departments stored before the first start
    LegacyUsers,  \* rows of users.csv found at the first start
    LegacyDepts,  \* rows of departments.csv found at the first start
    MaxRequests,  \* bound: requests altogether
    MaxFaults,    \* bound: failures of the storage
    MaxCrashes    \* bound: restarts after the first start

\* The steps requests are made of, one for each lock a handler takes.
StepName ==
    {"upsert", "erase", "assign", "release", "ensureUser", "replace", "moveUsers",
     "copyOwner", "copyUser", "checkFree", "upsertNew", "putCopy",
     "listDept", "renameDept", "checkUse", "dropDept", "readUsed", "ensureDepts",
     "snapUsers", "writeUsers", "tryWriteUsers", "snapDepts", "writeDepts"}

\* An id is whatever a form or a row of a CSV file says; upsert() alone asks for more than 0.
UserRow == [id : Int, cards : SUBSET Card, dept : Dept \union {NoDept}]

\* One record for all requests: what a request does not use is 0, {}, NoDept or <<>>.
Request ==
    [op : {"save", "delete", "assign", "remove", "create", "import", "addDept",
           "rename", "drop", "soyalMerge", "soyalCreate", "soyalAssign"},
     id : Int, cards : SUBSET Card, dept : Dept \union {NoDept},
     to : Dept \union {NoDept}, rows : Seq(UserRow)]

\* What the keys of the tables demand: no id twice, and no card twice.
OneOwnerEach(us) ==
    \A i, j \in DOMAIN us :
        i # j => us[i].id # us[j].id /\ us[i].cards \intersect us[j].cards = {}

\* /api/import/soyal/apply-record itself refuses to assign a card to an id below 1.
ASSUME RegistryAssumption ==
    /\ NoDept \notin Dept
    /\ NoCopy \notin UserRow
    /\ Requests \subseteq Request
    /\ \A r \in Requests : r.op = "soyalAssign" => r.id > 0
    /\ {InitUsers, LegacyUsers} \subseteq Seq(UserRow)
    /\ OneOwnerEach(InitUsers)
    /\ {InitDepts, LegacyDepts} \subseteq SUBSET Dept
    /\ {MaxRequests, MaxFaults, MaxCrashes} \subseteq Nat

VARIABLES
    users,      \* users_
    depts,      \* departments_
    storedUsers, storedDepts, \* the tables skud_users (and cards), skud_departments
    legacy,     \* the CSV files still there: [users, depts]
    up,         \* the server has started
    req,        \* req[t]: the request thread t serves
    todo,       \* todo[t]: the steps left of it
    copy,       \* copy[t]: the user an import works on, as read
    snap,       \* snap[t]: the snapshot save() holds
    \* history and bounds
    held,       \* held[s]: the pairs of threads that hold snapshots of s, older one first
    late,       \* late[s]: those whose snapshot a newer one, or an unsaved change, has overtaken
    stale,      \* stale[s]: a save of s failed, was overtaken or left out, and none has made
                \* up for it
    imported,   \* an import has replaced the registry
    unlisted,   \* a department was renamed or dropped beside other requests, or half way
    requests, faults, crashes

memoryVars == <<users, depts>>
storedVars == <<storedUsers, storedDepts>>
threadVars == <<req, todo, copy, snap>>
saveVars == <<held, late, stale>>
boundVars == <<requests, faults, crashes>>
vars == <<memoryVars, storedVars, legacy, up, threadVars, saveVars, imported,
          unlisted, boundVars>>

Store == {"users", "depts"}
NoRequest == [op |-> "none", id |-> 0, cards |-> {}, dept |-> NoDept, to |-> NoDept,
              rows |-> <<>>]

Quiet == up /\ \A t \in Thread : todo[t] = <<>>

\* A thread with a snapshot is paired with itself too.
Holders(s) == {t \in Thread : <<t, t>> \in held[s]}
HeldBefore(t, s) == {a \in Holders(s) \ {t} : <<a, t>> \in held[s]}

MemoryType ==
    /\ {users, storedUsers} \subseteq Seq(UserRow)
    /\ {depts, storedDepts} \subseteq SUBSET Dept
    /\ legacy \in [users : Seq(UserRow), depts : SUBSET Dept]

ThreadType ==
    /\ req \in [Thread -> Request \union {NoRequest}]
    /\ todo \in [Thread -> Seq(StepName)]
    /\ copy \in [Thread -> UserRow \union {NoCopy}]
    /\ snap \in [Thread -> [users : Seq(UserRow), depts : SUBSET Dept]]

HistoryType ==
    /\ {up, imported, unlisted} \subseteq BOOLEAN
    /\ held \in [Store -> SUBSET (Thread \X Thread)]
    /\ late \in [Store -> SUBSET Thread]
    /\ stale \in [Store -> BOOLEAN]
    /\ requests \in 0 .. MaxRequests
    /\ faults \in 0 .. MaxFaults
    /\ crashes \in 0 .. MaxCrashes

TypeOK == MemoryType /\ ThreadType /\ HistoryType

-----------------------------------------------------------------------------
\* The registry as a value.

IdsOf(us) == {us[i].id : i \in DOMAIN us}
Owners(us, c) == {us[i].id : i \in {j \in DOMAIN us : c \in us[j].cards}}
UsedDepts(us) == {us[i].dept : i \in DOMAIN us} \ {NoDept}

NextId(us) == Max(IdsOf(us) \union {0}) + 1

\* Take the cards cs away from every user other than id.
Detach(us, id, cs) ==
    [i \in DOMAIN us |-> IF us[i].id = id THEN us[i]
                         ELSE [us[i] EXCEPT !.cards = @ \ cs]]

\* The first row with u's id becomes u; without such a row u is appended.
Put(us, u) ==
    IF u.id \in IdsOf(us)
    THEN [us EXCEPT ![SelectInSeq(us, LAMBDA x : x.id = u.id)] = u]
    ELSE Append(us, u)

\* A user without an id gets the next one.
WithId(us, u) == IF u.id <= 0 THEN [u EXCEPT !.id = NextId(us)] ELSE u

Upserted(us, u) ==
    LET v == WithId(us, u) IN Put(Detach(us, v.id, v.cards), v)

Assigned(us, id, c) ==
    LET i == SelectInSeq(us, LAMBDA x : x.id = id)
    IN  [Detach(us, id, {c}) EXCEPT ![i].cards = @ \union {c}]

\* Take the card c away from every user.
Released(us, c) == [i \in DOMAIN us |-> [us[i] EXCEPT !.cards = @ \ {c}]]

Erased(us, ids) ==
    LET left[k \in 0 .. Len(us)] ==
            IF k = 0 THEN <<>>
            ELSE IF us[k].id \in ids THEN left[k - 1] ELSE Append(left[k - 1], us[k])
    IN  left[Len(us)]

\* The cards of the row u that another user has.
Foreign(us, u) ==
    {c \in u.cards : \E i \in DOMAIN us : us[i].id # u.id /\ c \in us[i].cards}

\* The stored row with what it lacks: the cards cs of u, and his department.
Filled(row, u, cs) ==
    [row EXCEPT !.cards = @ \union cs, !.dept = IF @ = NoDept THEN u.dept ELSE @]

\* Faulty variant of WithRow: a user the database lacks keeps every card of his row.
WithRowUnchecked(us, u) ==
    IF u.id \notin IdsOf(us)
    THEN Append(us, u)
    ELSE LET i == SelectInSeq(us, LAMBDA x : x.id = u.id)
         IN  [us EXCEPT ![i] = Filled(us[i], u, u.cards \ Foreign(us, u))]

\* A row of users.csv fills what the database lacks of its user, or adds the user; a card
\* that another user has stays with him.
WithRow(us, u) ==
    IF u.id \notin IdsOf(us)
    THEN Append(us, [u EXCEPT !.cards = @ \ Foreign(us, u)])
    ELSE LET i == SelectInSeq(us, LAMBDA x : x.id = u.id)
         IN  [us EXCEPT ![i] = Filled(us[i], u, u.cards \ Foreign(us, u))]

\* load(): the rows of users.csv in their order.
Merged(us, csv) ==
    LET merged[k \in 0 .. Len(csv)] ==
            IF k = 0 THEN us ELSE WithRow(merged[k - 1], csv[k])
    IN  merged[Len(csv)]

\* SELECT ... ORDER BY id.
ById(us) ==
    {o \in {[i \in DOMAIN us |-> us[p[i]]] : p \in Injection(DOMAIN us, DOMAIN us)} :
        \A i, j \in DOMAIN us : i < j => o[i].id <= o[j].id}

-----------------------------------------------------------------------------
\* Requests: the handlers of the web server as programs.

SaveUsers == <<"snapUsers", "writeUsers">>
SaveUsersAnyway == <<"snapUsers", "tryWriteUsers">>   \* the result is not looked at
SaveDepts == <<"snapDepts", "writeDepts">>

Steps(op) ==
    CASE op = "save" -> <<"upsert">> \o SaveUsersAnyway \o <<"listDept">> \o SaveDepts
      [] op = "delete" -> <<"erase">> \o SaveUsers
      [] op = "assign" -> <<"assign">> \o SaveUsers
      [] op = "remove" -> <<"release">> \o SaveUsers
      [] op = "create" -> <<"ensureUser">> \o SaveUsers
      [] op = "import" -> <<"replace">> \o SaveUsers \o <<"readUsed", "ensureDepts">> \o SaveDepts
      [] op = "addDept" -> <<"listDept">> \o SaveDepts
      [] op = "rename" -> <<"renameDept">> \o SaveDepts \o <<"moveUsers">> \o SaveUsers
      [] op = "drop" -> <<"checkUse", "dropDept">> \o SaveDepts
      [] op = "soyalMerge" ->
            <<"copyOwner", "putCopy">> \o SaveUsersAnyway \o <<"listDept">> \o SaveDepts
      [] op = "soyalCreate" ->
            <<"checkFree", "upsertNew">> \o SaveUsersAnyway
              \o <<"putCopy">> \o SaveUsersAnyway \o <<"listDept">> \o SaveDepts
      [] op = "soyalAssign" ->
            <<"assign">> \o SaveUsers
              \o <<"copyUser", "putCopy">> \o SaveUsersAnyway \o <<"listDept">> \o SaveDepts

\* Renaming and dropping a department are the requests that read or change both lists.
Delicate(op) == op \in {"rename", "drop"}

Receive(t) ==
    /\ up /\ todo[t] = <<>> /\ requests < MaxRequests
    /\ \E r \in Requests :
          /\ req' = [req EXCEPT ![t] = r]
          /\ todo' = [todo EXCEPT ![t] = Steps(r.op)]
          /\ unlisted' = (unlisted \/ \E s \in Thread \ {t} :
                             todo[s] # <<>> /\ (Delicate(r.op) \/ Delicate(req[s].op)))
    /\ requests' = requests + 1
    /\ UNCHANGED <<memoryVars, storedVars, legacy, up, copy, snap, saveVars, imported,
                   faults, crashes>>

At(t, step) == up /\ todo[t] # <<>> /\ Head(todo[t]) = step

\* The request goes on with its next step, or is answered; what it held is dropped.
Ends(t) ==
    /\ todo' = [todo EXCEPT ![t] = <<>>]
    /\ req' = [req EXCEPT ![t] = NoRequest]
    /\ copy' = [copy EXCEPT ![t] = NoCopy]

Advance(t) ==
    IF Len(todo[t]) = 1 THEN Ends(t)
    ELSE todo' = [todo EXCEPT ![t] = Tail(@)] /\ UNCHANGED <<req, copy>>

\* Skip n steps: the code's early return from a manager, not from the handler.
SkipTo(t, n) ==
    IF Len(todo[t]) <= n THEN Ends(t)
    ELSE todo' = [todo EXCEPT ![t] = SubSeq(@, n + 1, Len(@))] /\ UNCHANGED <<req, copy>>

restOfUsers == <<depts, storedVars, legacy, up, snap, saveVars, unlisted, boundVars>>
restOfDepts == <<users, storedVars, legacy, up, snap, saveVars, imported, unlisted, boundVars>>

-----------------------------------------------------------------------------
\* Steps on users_, each under mu_.

UpsertUser(t) ==
    /\ At(t, "upsert")
    /\ users' = Upserted(users, [id |-> req[t].id, cards |-> req[t].cards, dept |-> req[t].dept])
    /\ Advance(t)
    /\ UNCHANGED <<restOfUsers, imported>>

EraseUser(t) ==
    /\ At(t, "erase")
    /\ users' = Erased(users, {req[t].id})
    /\ IF users' = users THEN Ends(t) ELSE Advance(t)
    /\ UNCHANGED <<restOfUsers, imported>>

AssignCard(t) ==
    /\ At(t, "assign") /\ req[t].id \in IdsOf(users)
    /\ \E c \in req[t].cards : users' = Assigned(users, req[t].id, c)
    /\ Advance(t)
    /\ UNCHANGED <<restOfUsers, imported>>

\* The user is not there (any more).  His card has left its owner when that is noticed, and
\* the request is refused without a save.
AssignToMissing(t) ==
    /\ At(t, "assign") /\ req[t].id \notin IdsOf(users)
    /\ \E c \in req[t].cards : users' = Released(users, c)
    /\ Ends(t)
    /\ IF users' = users
       THEN UNCHANGED <<late, stale>>
       ELSE /\ late' = [late EXCEPT !["users"] = Holders("users")]
            /\ stale' = [stale EXCEPT !["users"] = TRUE]
    /\ UNCHANGED <<depts, storedVars, legacy, up, snap, held, imported, unlisted, boundVars>>

\* Faulty variant of RemoveCard: only the last user decides whether to save.
RemoveCardLastCounts(t) ==
    /\ At(t, "release")
    /\ \E c \in req[t].cards :
          /\ users' = Released(users, c)
          /\ IF users = <<>> \/ c \notin Last(users).cards THEN Ends(t) ELSE Advance(t)
    /\ UNCHANGED <<restOfUsers, imported>>

RemoveCard(t) ==
    /\ At(t, "release")
    /\ \E c \in req[t].cards : users' = Released(users, c)
    /\ IF users' = users THEN Ends(t) ELSE Advance(t)
    /\ UNCHANGED <<restOfUsers, imported>>

EnsureUserForCard(t) ==
    /\ At(t, "ensureUser")
    /\ \E c \in req[t].cards :
          IF Owners(users, c) = {}
          THEN /\ users' = Append(users, [id |-> NextId(users), cards |-> {c}, dept |-> NoDept])
               /\ Advance(t)
          ELSE Ends(t) /\ UNCHANGED users
    /\ UNCHANGED <<restOfUsers, imported>>

ImportCsv(t) ==
    /\ At(t, "replace")
    /\ users' = req[t].rows
    /\ imported' = TRUE
    /\ Advance(t)
    /\ UNCHANGED restOfUsers

\* UserManager::renameDepartment, the second half of a rename.
MoveUsers(t) ==
    /\ At(t, "moveUsers")
    /\ users' = [i \in DOMAIN users |->
                    IF users[i].dept = req[t].dept THEN [users[i] EXCEPT !.dept = req[t].to]
                    ELSE users[i]]
    /\ Advance(t)
    /\ UNCHANGED <<restOfUsers, imported>>

-----------------------------------------------------------------------------
\* A record of a SOYAL file: the user is read, completed and written back.

\* What the file adds to a user: a department, if he has none.
Completed(u, r) == [u EXCEPT !.dept = IF @ = NoDept THEN r.dept ELSE @]

FirstUser(us, Test(_)) == us[SelectInSeq(us, Test)]

CopyOwner(t) ==
    /\ At(t, "copyOwner")
    /\ \E c \in req[t].cards :
          IF Owners(users, c) = {}
          THEN Ends(t)                       \* "no_match"
          ELSE /\ copy' = [copy EXCEPT ![t] = FirstUser(users, LAMBDA u : c \in u.cards)]
               /\ todo' = [todo EXCEPT ![t] = Tail(@)]
               /\ UNCHANGED req
    /\ UNCHANGED <<users, restOfUsers, imported>>

\* byId after assignCard: the user may be gone again.
CopyUser(t) ==
    /\ At(t, "copyUser")
    /\ IF req[t].id \in IdsOf(users)
       THEN /\ copy' = [copy EXCEPT ![t] = FirstUser(users, LAMBDA u : u.id = req[t].id)]
            /\ todo' = [todo EXCEPT ![t] = Tail(@)]
            /\ UNCHANGED req
       ELSE Ends(t)
    /\ UNCHANGED <<users, restOfUsers, imported>>

\* byCard before a user is created: an owner is completed instead.
CheckFree(t) ==
    /\ At(t, "checkFree")
    /\ \E c \in req[t].cards :
          IF Owners(users, c) = {}
          THEN Advance(t)
          ELSE /\ copy' = [copy EXCEPT ![t] = FirstUser(users, LAMBDA u : c \in u.cards)]
               /\ todo' = [todo EXCEPT ![t] = SubSeq(@, 5, Len(@))]
               /\ UNCHANGED req
    /\ UNCHANGED <<users, restOfUsers, imported>>

UpsertNew(t) ==
    /\ At(t, "upsertNew")
    /\ LET u == [id |-> NextId(users), cards |-> req[t].cards, dept |-> req[t].dept]
       IN  /\ users' = Upserted(users, u)
           /\ copy' = [copy EXCEPT ![t] = u]
    /\ todo' = [todo EXCEPT ![t] = Tail(@)]
    /\ UNCHANGED <<req, restOfUsers, imported>>

\* Faulty variant of PutCopy: the completed user is written as a new one.
PutCopyAsNew(t) ==
    /\ At(t, "putCopy")
    /\ LET u == [Completed(copy[t], req[t]) EXCEPT !.id = NextId(users)]
       IN  /\ users' = Upserted(users, u)
           /\ copy' = [copy EXCEPT ![t] = u]
    /\ todo' = [todo EXCEPT ![t] = Tail(@)]
    /\ UNCHANGED <<req, restOfUsers, imported>>

PutCopy(t) ==
    /\ At(t, "putCopy")
    /\ LET u == WithId(users, Completed(copy[t], req[t]))
       IN  /\ users' = Upserted(users, u)
           /\ copy' = [copy EXCEPT ![t] = u]
    /\ todo' = [todo EXCEPT ![t] = Tail(@)]
    /\ UNCHANGED <<req, restOfUsers, imported>>

-----------------------------------------------------------------------------
\* Steps on departments_, each under its mutex.

\* add(): of the user just saved, or of the form.
DeptToList(t) == IF copy[t] # NoCopy THEN copy[t].dept ELSE req[t].dept

\* Faulty variant of AddDept: an empty name is listed too.
AddDeptEmpty(t) ==
    /\ At(t, "listDept")
    /\ IF DeptToList(t) \in depts
       THEN SkipTo(t, 3) /\ UNCHANGED depts
       ELSE depts' = depts \union {DeptToList(t)} /\ Advance(t)
    /\ UNCHANGED restOfDepts

AddDept(t) ==
    /\ At(t, "listDept")
    /\ IF DeptToList(t) \in depts \union {NoDept}
       THEN SkipTo(t, 3) /\ UNCHANGED depts
       ELSE depts' = depts \union {DeptToList(t)} /\ Advance(t)
    /\ UNCHANGED restOfDepts

RenameDept(t) ==
    /\ At(t, "renameDept")
    /\ IF req[t].dept \in depts /\ req[t].to \notin depts \union {NoDept}
       THEN depts' = (depts \ {req[t].dept}) \union {req[t].to} /\ Advance(t)
       ELSE Ends(t) /\ UNCHANGED depts
    /\ UNCHANGED restOfDepts

CheckUse(t) ==
    /\ At(t, "checkUse")
    /\ IF req[t].dept \in UsedDepts(users) THEN Ends(t) ELSE Advance(t)
    /\ UNCHANGED <<depts, restOfDepts>>

DropDept(t) ==
    /\ At(t, "dropDept")
    /\ depts' = depts \ {req[t].dept}
    /\ IF depts' = depts THEN Ends(t) ELSE Advance(t)
    /\ UNCHANGED restOfDepts

\* usedDepartments() and ensure() hold different locks: the list is a copy.
ReadUsed(t) ==
    /\ At(t, "readUsed")
    /\ snap' = [snap EXCEPT ![t].depts = UsedDepts(users)]
    /\ Advance(t)
    /\ UNCHANGED <<memoryVars, storedVars, legacy, up, saveVars, imported, unlisted, boundVars>>

\* Faulty variant of EnsureDepts: names are added to an empty list only.
EnsureDeptsOfEmptyList(t) ==
    /\ At(t, "ensureDepts")
    /\ depts' = IF depts = {} THEN snap[t].depts ELSE depts
    /\ IF depts' = depts THEN Ends(t) ELSE Advance(t)
    /\ UNCHANGED restOfDepts

EnsureDepts(t) ==
    /\ At(t, "ensureDepts")
    /\ depts' = depts \union snap[t].depts
    /\ IF depts' = depts THEN Ends(t) ELSE Advance(t)
    /\ UNCHANGED restOfDepts

-----------------------------------------------------------------------------
\* save(): the snapshot under the lock, the transaction outside of it.

TakeSnapshot(t, s) ==
    /\ snap' = [snap EXCEPT ![t] = IF s = "users" THEN [@ EXCEPT !.users = users]
                                                  ELSE [@ EXCEPT !.depts = depts]]
    /\ held' = [held EXCEPT ![s] = @ \union {<<a, t>> : a \in Holders(s) \union {t}}]
    /\ Advance(t)
    /\ UNCHANGED <<memoryVars, storedVars, legacy, up, late, stale, imported, unlisted,
                   boundVars>>

SnapUsers(t) == At(t, "snapUsers") /\ TakeSnapshot(t, "users")
SnapDepts(t) == At(t, "snapDepts") /\ TakeSnapshot(t, "depts")

\* The keys of skud_users and skud_user_cards; no two departments have one name.
Accepted(t, s) == s = "users" => OneOwnerEach(snap[t].users)

\* What is left of held[s] without t's snapshot.
HeldWithout(t, s) == {p \in held[s] : t \notin {p[1], p[2]}}

EmptySnap == [users |-> <<>>, depts |-> {}]

Commit(t, s) ==
    /\ Accepted(t, s)
    /\ IF s = "users" THEN storedUsers' = snap[t].users /\ UNCHANGED storedDepts
                      ELSE storedDepts' = snap[t].depts /\ UNCHANGED storedUsers
    /\ late' = [late EXCEPT ![s] = (@ \union HeldBefore(t, s)) \ {t}]
    /\ held' = [held EXCEPT ![s] = HeldWithout(t, s)]
    /\ stale' = [stale EXCEPT ![s] = t \in late[s]]
    /\ snap' = [snap EXCEPT ![t] = EmptySnap]
    /\ Advance(t)
    /\ UNCHANGED <<memoryVars, legacy, up, imported, unlisted, boundVars>>

\* Refused by a key, or the connection fails: rolled back.
Rollback(t, s, ignored) ==
    /\ IF Accepted(t, s) THEN faults < MaxFaults /\ faults' = faults + 1
                         ELSE UNCHANGED faults
    /\ held' = [held EXCEPT ![s] = HeldWithout(t, s)]
    /\ late' = [late EXCEPT ![s] = (@ \union Holders(s)) \ {t}]
    /\ stale' = [stale EXCEPT ![s] = TRUE]
    /\ snap' = [snap EXCEPT ![t] = EmptySnap]
    /\ unlisted' = (unlisted \/ req[t].op \in {"import", "rename"})
    /\ IF ignored THEN Advance(t) ELSE Ends(t)
    /\ UNCHANGED <<memoryVars, storedVars, legacy, up, imported, requests, crashes>>

WriteUsers(t) ==
    \/ (At(t, "writeUsers") \/ At(t, "tryWriteUsers")) /\ Commit(t, "users")
    \/ At(t, "writeUsers") /\ Rollback(t, "users", FALSE)
    \/ At(t, "tryWriteUsers") /\ Rollback(t, "users", TRUE)

WriteDepts(t) ==
    /\ At(t, "writeDepts")
    /\ Commit(t, "depts") \/ Rollback(t, "depts", FALSE)

-----------------------------------------------------------------------------
\* Start and crash.

Crash ==
    /\ up /\ crashes < MaxCrashes
    /\ crashes' = crashes + 1
    /\ up' = FALSE
    /\ users' = <<>> /\ depts' = {}
    /\ req' = [t \in Thread |-> NoRequest]
    /\ todo' = [t \in Thread |-> <<>>]
    /\ copy' = [t \in Thread |-> NoCopy]
    /\ snap' = [t \in Thread |-> EmptySnap]
    /\ held' = [s \in Store |-> {}]
    /\ late' = [s \in Store |-> {}]
    /\ stale' = [s \in Store |-> FALSE]
    /\ imported' = FALSE /\ unlisted' = FALSE
    /\ UNCHANGED <<storedVars, legacy, requests, faults>>

LoadedUsers == ById(Merged(storedUsers, legacy.users))
LoadedDepts == storedDepts \union legacy.depts

\* The start gives up: after the merged users are stored and before their CSV is removed,
\* or while the departments are loaded.  The next start merges what is still there.
StartFails ==
    /\ ~up /\ faults < MaxFaults
    /\ faults' = faults + 1
    /\ storedUsers' \in LoadedUsers
    /\ legacy' \in {legacy, [legacy EXCEPT !.users = <<>>]}
    /\ UNCHANGED <<memoryVars, storedDepts, up, threadVars, saveVars, imported, unlisted,
                   requests, crashes>>

\* App::init: users, departments, and the departments of the users, whose save may fail.
Start ==
    /\ ~up /\ up' = TRUE
    /\ users' \in LoadedUsers /\ storedUsers' = users'
    /\ depts' = LoadedDepts \union UsedDepts(users')
    /\ \/ storedDepts' = depts' /\ UNCHANGED <<faults, stale>>
       \/ /\ faults < MaxFaults /\ depts' # LoadedDepts
          /\ storedDepts' = LoadedDepts
          /\ faults' = faults + 1
          /\ stale' = [stale EXCEPT !["depts"] = TRUE]
    /\ legacy' = [users |-> <<>>, depts |-> {}]
    /\ UNCHANGED <<threadVars, held, late, imported, unlisted, requests, crashes>>

Init ==
    /\ up = FALSE
    /\ users = <<>> /\ depts = {}
    /\ storedUsers = InitUsers /\ storedDepts = InitDepts
    /\ legacy = [users |-> LegacyUsers, depts |-> LegacyDepts]
    /\ req = [t \in Thread |-> NoRequest]
    /\ todo = [t \in Thread |-> <<>>]
    /\ copy = [t \in Thread |-> NoCopy]
    /\ snap = [t \in Thread |-> EmptySnap]
    /\ held = [s \in Store |-> {}]
    /\ late = [s \in Store |-> {}]
    /\ stale = [s \in Store |-> FALSE]
    /\ imported = FALSE /\ unlisted = FALSE
    /\ requests = 0 /\ faults = 0 /\ crashes = 0

UserStep(t) ==
    \/ UpsertUser(t) \/ EraseUser(t) \/ AssignCard(t) \/ RemoveCard(t)
    \/ EnsureUserForCard(t) \/ ImportCsv(t) \/ MoveUsers(t)
    \/ CopyOwner(t) \/ CopyUser(t) \/ CheckFree(t) \/ UpsertNew(t) \/ PutCopy(t)

DeptStep(t) ==
    \/ AddDept(t) \/ RenameDept(t) \/ CheckUse(t) \/ DropDept(t)
    \/ ReadUsed(t) \/ EnsureDepts(t)

SaveStep(t) == SnapUsers(t) \/ SnapDepts(t) \/ WriteUsers(t) \/ WriteDepts(t)

Next ==
    \/ \E t \in Thread :
          Receive(t) \/ UserStep(t) \/ AssignToMissing(t) \/ DeptStep(t) \/ SaveStep(t)
    \/ Crash \/ StartFails \/ Start

Spec == Init /\ [][Next]_vars

-----------------------------------------------------------------------------
\* Properties.

\* A card has one owner and an id one user, whatever requests run side by side and whatever
\* a leftover CSV holds, unless an import has put its rows in unchecked.
OneOwner == ~imported => OneOwnerEach(users) /\ OneOwnerEach(storedUsers)

\* When no request is under way the tables hold what memory holds: a change that was left
\* unsaved (a card assigned to a user who is not there), a save that failed and one that was
\* overtaken by an older snapshot are made up for by the next save in order, and no other
\* handler forgets to save.  A restart then loses nothing.
StoredWhenQuiet ==
    Quiet => /\ ~stale["users"] => storedUsers = users
             /\ ~stale["depts"] => storedDepts = depts

\* Every user's department is in the list when no request is under way, after a start in any
\* case, and afterwards unless a department was renamed or dropped beside another request,
\* or an import or a rename could not be saved.
DeptsListed == Quiet /\ ~unlisted => UsedDepts(users) \subseteq depts

\* A card passes from one user to another only by a request that names it, by an import of
\* the whole registry, or because a user was written back who is no longer as he was read, or
\* whom the import had left without an id.
CardsPassByName ==
    [][\A c \in Card : \A x, y \in IdsOf(users) \union IdsOf(users)' :
          up /\ x # y /\ x \in Owners(users, c) \ Owners(users, c)'
             /\ y \in Owners(users, c)' \ Owners(users, c)
          => \E t \in Thread :
                /\ todo'[t] # todo[t]
                /\ \/ c \in req[t].cards
                   \/ At(t, "replace")
                   \/ /\ At(t, "putCopy")
                      /\ copy[t].id <= 0 \/ copy[t] \notin {users[i] : i \in DOMAIN users}]_vars
=============================================================================

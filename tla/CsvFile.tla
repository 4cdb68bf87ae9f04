-------------------------------- MODULE CsvFile --------------------------------
(***************************************************************************)
(* How every file of the program is saved, when MariaDB is not used and    *)
(* for system.conf always: the data are written to <path>.tmp, which is    *)
(* renamed to <path>; if that fails <path> is removed and the renaming     *)
(* tried once more.  Config and FileStore hold their mutex throughout;     *)
(* UserManager, DepartmentManager and ControllerManager hold theirs only   *)
(* while they copy the data, so that two saves of one file may overlap.    *)
(*                                                                         *)
(* A version of the data is a number, in the order in which memory went    *)
(* through them; 0 stands for a file that is missing, empty or torn.       *)
(* Renaming is atomic, as POSIX has it, and only the process crashes, not  *)
(* the machine: what was written before is not lost with it.               *)
(***************************************************************************)
EXTENDS Naturals, FiniteSets

CONSTANTS
    Thread,
    NoFile, Nobody,
    MaxVersion,  \* bound: versions of the data
    MaxSaves,    \* bound: saves
    MaxFaults,   \* bound: failures of the file system
    MaxCrashes   \* bound: restarts

Inode == 1 .. Cardinality(Thread) + 2
Version == 1 .. MaxVersion + MaxCrashes

ASSUME FileAssumption ==
    /\ IsFiniteSet(Thread) /\ Nobody \notin Thread
    /\ NoFile \notin Nat
    /\ MaxVersion \in Nat \ {0}
    /\ {MaxSaves, MaxFaults, MaxCrashes} \subseteq Nat

VARIABLES
    locked,   \* the mutex is held during the whole save
    mutex,
    memory,   \* the data in memory
    newest,   \* the newest version there was
    path, tmp,  \* the inodes of <path> and <path>.tmp
    data,     \* data[i]: what inode i holds
    pc,       \* pc[t]: where thread t is in save()
    snap,     \* snap[t]: the data it saves
    fd,       \* fd[t]: the inode it writes to
    \* history and bounds
    alone,    \* alone[t]: no other save and no fault since t's began
    spoiled,  \* saves overlapped or the file system failed, and no save has made up for it
    promised, \* the newest version a save has reported stored since then
    saves, faults, crashes

diskVars == <<path, tmp, data>>
threadVars == <<pc, snap, fd>>
memoryVars == <<memory, newest>>
historyVars == <<alone, spoiled, promised>>
boundVars == <<saves, faults, crashes>>
vars == <<locked, mutex, memoryVars, diskVars, threadVars, historyVars, boundVars>>

Idle(t) == pc[t] = "idle"
Others(t) == Thread \ {t}

DiskType ==
    /\ path \in Inode \union {NoFile} /\ tmp \in Inode \union {NoFile}
    /\ data \in [Inode -> Version \union {0}]

ThreadType ==
    /\ pc \in [Thread -> {"idle", "open", "write", "rename", "remove", "again"}]
    /\ snap \in [Thread -> Version \union {0}]
    /\ fd \in [Thread -> Inode \union {NoFile}]
    /\ mutex \in Thread \union {Nobody}

HistoryType ==
    /\ alone \in [Thread -> BOOLEAN] /\ spoiled \in BOOLEAN
    /\ promised \in Version

TypeOK ==
    /\ locked \in BOOLEAN
    /\ memory \in Version /\ newest \in Version
    /\ DiskType /\ ThreadType /\ HistoryType
    /\ saves \in 0 .. MaxSaves /\ faults \in 0 .. MaxFaults /\ crashes \in 0 .. MaxCrashes

\* Faulty variant of Readable: a missing file is not told apart.
ReadableUnchecked == IF path = NoFile THEN NoFile ELSE data[path]

\* What load() finds.
Readable == IF path = NoFile THEN 0 ELSE data[path]

\* Memory changes; where the mutex covers a save it covers this as well.
Edit ==
    /\ newest < MaxVersion
    /\ locked => mutex = Nobody
    /\ newest' = newest + 1
    /\ memory' = newest + 1
    /\ UNCHANGED <<locked, mutex, diskVars, threadVars, historyVars, boundVars>>

\* Faulty variant of Begin: the mutex is not waited for.
BeginUnlocked(t) ==
    /\ Idle(t) /\ saves < MaxSaves
    /\ saves' = saves + 1
    /\ snap' = [snap EXCEPT ![t] = memory]
    /\ pc' = [pc EXCEPT ![t] = "open"]
    /\ LET overlap == \E s \in Others(t) : ~Idle(s)
       IN  /\ alone' = [s \in Thread |-> IF s = t \/ ~Idle(s) THEN ~overlap ELSE alone[s]]
           /\ spoiled' = (spoiled \/ overlap)
    /\ UNCHANGED <<locked, mutex, memoryVars, diskVars, fd, promised, faults, crashes>>

\* save() is called and copies the data.
Begin(t) ==
    /\ Idle(t) /\ saves < MaxSaves
    /\ locked => mutex = Nobody
    /\ mutex' = IF locked THEN t ELSE mutex
    /\ saves' = saves + 1
    /\ snap' = [snap EXCEPT ![t] = memory]
    /\ pc' = [pc EXCEPT ![t] = "open"]
    /\ LET overlap == \E s \in Others(t) : ~Idle(s)
       IN  /\ alone' = [s \in Thread |-> IF s = t \/ ~Idle(s) THEN ~overlap ELSE alone[s]]
           /\ spoiled' = (spoiled \/ overlap)
    /\ UNCHANGED <<locked, memoryVars, diskVars, fd, promised, faults, crashes>>

\* Faulty variant of Open: the file itself is opened and written.
OpenInPlace(t) ==
    /\ pc[t] = "open"
    /\ \E i \in IF path = NoFile THEN Inode \ {fd[s] : s \in Thread} ELSE {path} :
          /\ tmp' = i
          /\ fd' = [fd EXCEPT ![t] = i]
          /\ data' = [data EXCEPT ![i] = 0]
    /\ pc' = [pc EXCEPT ![t] = "write"]
    /\ UNCHANGED <<locked, mutex, memoryVars, path, snap, historyVars, boundVars>>

\* The temporary file is opened, and emptied if it is there.
Open(t) ==
    /\ pc[t] = "open"
    /\ \E i \in IF tmp = NoFile THEN Inode \ ({path} \union {fd[s] : s \in Thread}) ELSE {tmp} :
          /\ tmp' = i
          /\ fd' = [fd EXCEPT ![t] = i]
          /\ data' = [data EXCEPT ![i] = 0]
    /\ pc' = [pc EXCEPT ![t] = "write"]
    /\ UNCHANGED <<locked, mutex, memoryVars, path, snap, historyVars, boundVars>>

\* The thread has written and closed the file.  Two that write to one file overwrite each
\* other's bytes: unless the later text is as long, the tail of the earlier one remains.
Write(t) ==
    /\ pc[t] = "write"
    /\ \E v \in IF data[fd[t]] = 0 THEN {snap[t]} ELSE {snap[t], 0} :
          data' = [data EXCEPT ![fd[t]] = v]
    /\ pc' = [pc EXCEPT ![t] = "rename"]
    /\ UNCHANGED <<locked, mutex, memoryVars, path, tmp, snap, fd, historyVars, boundVars>>

\* The disk is full: nobody looks at the state of the stream.
WriteFails(t) ==
    /\ pc[t] = "write" /\ faults < MaxFaults
    /\ data' = [data EXCEPT ![fd[t]] = 0]
    /\ pc' = [pc EXCEPT ![t] = "rename"]
    /\ faults' = faults + 1
    /\ spoiled' = TRUE
    /\ alone' = [alone EXCEPT ![t] = FALSE]
    /\ UNCHANGED <<locked, mutex, memoryVars, path, tmp, snap, fd, promised, saves, crashes>>

\* save() returns, and the mutex is released.
Return(t, ok) ==
    /\ pc' = [pc EXCEPT ![t] = "idle"]
    /\ fd' = [fd EXCEPT ![t] = NoFile]
    /\ snap' = [snap EXCEPT ![t] = 0]
    /\ mutex' = IF locked THEN Nobody ELSE mutex
    /\ spoiled' = (spoiled /\ ~(ok /\ alone[t]))
    /\ promised' = IF ok /\ (alone[t] \/ snap[t] > promised) THEN snap[t] ELSE promised
    /\ alone' = [alone EXCEPT ![t] = FALSE]

Replace ==
    /\ path' = tmp
    /\ tmp' = NoFile
    /\ UNCHANGED data

Rename(t) ==
    /\ pc[t] = "rename" /\ tmp # NoFile
    /\ Replace /\ Return(t, TRUE)
    /\ UNCHANGED <<locked, memoryVars, boundVars>>

\* There is no temporary file any more: another save has renamed it.
RenameMisses(t) ==
    /\ pc[t] = "rename" /\ tmp = NoFile
    /\ pc' = [pc EXCEPT ![t] = "remove"]
    /\ UNCHANGED <<locked, mutex, memoryVars, diskVars, snap, fd, historyVars, boundVars>>

\* The file system refuses.
RenameFails(t) ==
    /\ pc[t] = "rename" /\ tmp # NoFile /\ faults < MaxFaults
    /\ pc' = [pc EXCEPT ![t] = "remove"]
    /\ faults' = faults + 1
    /\ spoiled' = TRUE
    /\ alone' = [alone EXCEPT ![t] = FALSE]
    /\ UNCHANGED <<locked, mutex, memoryVars, diskVars, snap, fd, promised, saves, crashes>>

Remove(t) ==
    /\ pc[t] = "remove"
    /\ path' = NoFile
    /\ pc' = [pc EXCEPT ![t] = "again"]
    /\ UNCHANGED <<locked, mutex, memoryVars, tmp, data, snap, fd, historyVars, boundVars>>

RenameAgain(t) ==
    /\ pc[t] = "again"
    /\ IF tmp # NoFile THEN Replace /\ Return(t, TRUE)
                       ELSE UNCHANGED diskVars /\ Return(t, FALSE)
    /\ UNCHANGED <<locked, memoryVars, boundVars>>

\* The process dies anywhere in a save, and the next one loads what is there; without a
\* file to load it starts with no data, which is a version of its own.
Restart ==
    /\ crashes < MaxCrashes
    /\ crashes' = crashes + 1
    /\ newest' = IF Readable = 0 THEN newest + 1 ELSE newest
    /\ memory' = IF Readable = 0 THEN newest + 1 ELSE Readable
    /\ mutex' = Nobody
    /\ pc' = [t \in Thread |-> "idle"]
    /\ snap' = [t \in Thread |-> 0]
    /\ fd' = [t \in Thread |-> NoFile]
    /\ alone' = [t \in Thread |-> FALSE]
    /\ UNCHANGED <<locked, diskVars, spoiled, promised, saves, faults>>

Init ==
    /\ locked \in BOOLEAN
    /\ mutex = Nobody
    /\ memory = 1 /\ newest = 1
    /\ path = 1 /\ tmp = NoFile
    /\ data = [i \in Inode |-> IF i = 1 THEN 1 ELSE 0]
    /\ pc = [t \in Thread |-> "idle"]
    /\ snap = [t \in Thread |-> 0]
    /\ fd = [t \in Thread |-> NoFile]
    /\ alone = [t \in Thread |-> FALSE]
    /\ spoiled = FALSE /\ promised = 1
    /\ saves = 0 /\ faults = 0 /\ crashes = 0

Next ==
    \/ Edit \/ Restart
    \/ \E t \in Thread :
          \/ Begin(t) \/ Open(t) \/ Write(t) \/ WriteFails(t)
          \/ Rename(t) \/ RenameMisses(t) \/ RenameFails(t) \/ Remove(t) \/ RenameAgain(t)

Spec == Init /\ [][Next]_vars

-----------------------------------------------------------------------------
\* Properties.

\* The file keeps the promise of SnapshotFile, through crashes at every point of a save, until
\* two saves of it overlap or the file system fails; and again from the next save that
\* neither happens to.
Promise == INSTANCE SnapshotFile WITH value <- Readable
FileKeepsPromise == Promise!Spec

\* Where the mutex is held throughout, and the file system does not fail, saves do not
\* overlap: the branch that removes the file is never entered, and there is always a file
\* that can be read.
LockedFileStays ==
    locked /\ faults = 0 => ~spoiled /\ Readable # 0 /\ \A t \in Thread : pc[t] # "remove"
=============================================================================

----------------------------- MODULE CsvFileProofs -----------------------------
(***************************************************************************)
(* Proofs about CsvFile, for any number of threads, saves, failures and    *)
(* restarts: type correctness, that a file saved under the lock is always  *)
(* there and whole, and that every file keeps the promise of SnapshotFile. *)
(***************************************************************************)
EXTENDS CsvFile, TLAPS, FiniteSetTheorems

-----------------------------------------------------------------------------
\* The inductive invariant.

\* No version is newer than the newest; a save writes one that memory went through since.
Versions ==
    /\ memory <= newest /\ newest <= MaxVersion + crashes
    /\ \A t \in Thread : ~Idle(t) => snap[t] \in Version /\ snap[t] <= memory
    /\ \A t \in Thread : snap[t] <= newest
    /\ \A i \in Inode : data[i] <= newest

\* A save that has been alone since it began has the temporary file to itself, and the
\* file holds what it has written to it so far.
AloneHasTmp ==
    \A t \in Thread : alone[t] =>
        /\ \A s \in Others(t) : Idle(s)
        /\ pc[t] \in {"open", "write", "rename"}
        /\ pc[t] = "write" => fd[t] = tmp /\ tmp # NoFile /\ data[tmp] = 0
        /\ pc[t] = "rename" => tmp # NoFile /\ data[tmp] = snap[t]

\* The two names are of two files.
TwoNames == path = NoFile \/ path # tmp

\* While the promise is not void the file holds a version between the one promised and the
\* one in memory, and a save under way is alone and writes none older than the file's.
PromiseStands ==
    ~spoiled =>
        /\ path # NoFile /\ data[path] # 0
        /\ promised <= data[path] /\ data[path] <= memory
        /\ \A t \in Thread : ~Idle(t) => alone[t] /\ data[path] <= snap[t]

\* Where the lock is held throughout, a thread in a save holds it, and only a failure of
\* the file system voids the promise.
LockHeld ==
    locked =>
        /\ \A t \in Thread : ~Idle(t) => mutex = t
        /\ faults = 0 => ~spoiled

Inv == TypeOK /\ Versions /\ AloneHasTmp /\ TwoNames /\ PromiseStands /\ LockHeld

-----------------------------------------------------------------------------
\* Type correctness and the invariant.

\* What the assumption on the constants gives the steps below.
LEMMA ConstantTypes ==
    /\ MaxVersion \in Nat \ {0} /\ MaxSaves \in Nat /\ MaxFaults \in Nat /\ MaxCrashes \in Nat
    /\ Nobody \notin Thread /\ NoFile \notin Inode
    /\ Version \subseteq Nat \ {0} /\ 1 \in Version /\ 1 \in Inode
<1>1. Cardinality(Thread) \in Nat
  BY FileAssumption, FS_CardinalityType
<1>2. {MaxSaves, MaxFaults, MaxCrashes} \subseteq Nat
  BY FileAssumption
<1>3. MaxSaves \in Nat /\ MaxFaults \in Nat /\ MaxCrashes \in Nat
  BY <1>2
<1>4. QED
  BY FileAssumption, <1>1, <1>3 DEF Version, Inode

\* The program starts with the file stored and no save under way.
LEMMA InitInv == Init => Inv
<1> SUFFICES ASSUME Init PROVE Inv
  OBVIOUS
<1> USE ConstantTypes
<1>1. DiskType /\ ThreadType /\ HistoryType
  BY DEF Init, DiskType, ThreadType, HistoryType
<1>2. TypeOK
  BY <1>1 DEF Init, TypeOK
<1>3. QED
  BY <1>2 DEF Init, Inv, Versions, AloneHasTmp, TwoNames, PromiseStands, LockHeld, Idle

\* Every step of a save, of memory or of a restart preserves the invariant.
LEMMA InvNext == Inv /\ [Next]_vars => Inv'
<1> SUFFICES ASSUME Inv, [Next]_vars PROVE Inv'
  OBVIOUS
<1> USE ConstantTypes DEF Inv, TypeOK
<1>1. CASE Edit
  <2>1. newest + 1 \in Version
    BY <1>1 DEF Edit, DiskType, ThreadType, HistoryType, Version
  <2>2. QED
    BY <1>1, <2>1 DEF Edit, diskVars, threadVars, historyVars, boundVars, DiskType, ThreadType, HistoryType, Versions,
       AloneHasTmp, TwoNames, PromiseStands, LockHeld, Idle, Version
<1>2. ASSUME NEW t \in Thread, Begin(t) PROVE Inv'
  <2>1. TypeOK'
    <3>1. DiskType' /\ (saves \in 0 .. MaxSaves)'
      BY <1>2 DEF Begin, memoryVars, diskVars, DiskType
    <3>2. ThreadType'
      BY <1>2 DEF Begin, memoryVars, diskVars, ThreadType
    <3>3. HistoryType'
      BY <1>2 DEF Begin, HistoryType
    <3>4. QED
      BY <1>2, <3>1, <3>2, <3>3 DEF Begin, memoryVars
  <2>2. Versions' /\ TwoNames'
    BY <1>2 DEF Begin, memoryVars, diskVars, DiskType, ThreadType, HistoryType, Versions, TwoNames, Idle
  <2>3. AloneHasTmp'
    BY <1>2 DEF Begin, memoryVars, diskVars, DiskType, ThreadType, HistoryType, AloneHasTmp, Idle, Others
  <2>4. PromiseStands'
    BY <1>2 DEF Begin, memoryVars, diskVars, DiskType, ThreadType, HistoryType, PromiseStands, Idle, Others
  <2>5. LockHeld'
    BY <1>2 DEF Begin, memoryVars, diskVars, DiskType, ThreadType, HistoryType, LockHeld, Idle, Others
  <2>6. QED
    BY <2>1, <2>2, <2>3, <2>4, <2>5
<1>3. ASSUME NEW t \in Thread, Open(t) PROVE Inv'
  <2>1. TypeOK'
    BY <1>3 DEF Open, memoryVars, historyVars, boundVars, DiskType, ThreadType, HistoryType
  <2>2. Versions' /\ TwoNames'
    BY <1>3 DEF Open, memoryVars, historyVars, boundVars, DiskType, ThreadType, HistoryType, Versions, TwoNames, Idle
  <2>3. AloneHasTmp'
    BY <1>3 DEF Open, memoryVars, historyVars, boundVars, DiskType, ThreadType, HistoryType, AloneHasTmp, Idle, Others
  <2>4. PromiseStands'
    BY <1>3 DEF Open, memoryVars, historyVars, boundVars, DiskType, ThreadType, HistoryType, TwoNames, PromiseStands, Idle
  <2>5. LockHeld'
    BY <1>3 DEF Open, memoryVars, historyVars, boundVars, DiskType, ThreadType, HistoryType, LockHeld, Idle
  <2>6. QED
    BY <2>1, <2>2, <2>3, <2>4, <2>5
<1>4. ASSUME NEW t \in Thread, Write(t) PROVE Inv'
  <2> USE DEF Write, memoryVars, historyVars, boundVars
  <2>1. DiskType'
    <3>1. PICK v \in Version \union {0} : data' = [data EXCEPT ![fd[t]] = v]
      BY <1>4 DEF ThreadType
    <3>2. data' \in [Inode -> Version \union {0}]
      BY <3>1 DEF DiskType
    <3>3. QED
      BY <1>4, <3>2 DEF DiskType
  <2>2. ThreadType' /\ HistoryType'
    BY <1>4 DEF ThreadType, HistoryType
  <2>3. TypeOK'
    BY <1>4, <2>1, <2>2
  <2>4. Versions' /\ TwoNames'
    BY <1>4 DEF DiskType, ThreadType, Versions, TwoNames, Idle
  <2>5. AloneHasTmp'
    BY <1>4 DEF DiskType, ThreadType, HistoryType, AloneHasTmp, Idle, Others
  <2>6. PromiseStands'
    BY <1>4 DEF DiskType, ThreadType, HistoryType, AloneHasTmp, TwoNames, PromiseStands, Idle
  <2>7. LockHeld'
    BY <1>4 DEF ThreadType, LockHeld, Idle
  <2>8. QED
    BY <2>3, <2>4, <2>5, <2>6, <2>7
<1>5. ASSUME NEW t \in Thread, WriteFails(t) PROVE Inv'
  <2> USE DEF WriteFails, memoryVars
  <2>1. DiskType' /\ (faults \in 0 .. MaxFaults)'
    <3>1. data' \in [Inode -> Version \union {0}]
      BY <1>5 DEF DiskType
    <3>2. QED
      BY <1>5, <3>1 DEF DiskType
  <2>2. ThreadType' /\ HistoryType'
    BY <1>5 DEF ThreadType, HistoryType
  <2>3. TypeOK'
    BY <1>5, <2>1, <2>2
  <2>4. Versions' /\ TwoNames'
    BY <1>5 DEF DiskType, ThreadType, Versions, TwoNames, Idle
  <2>5. AloneHasTmp'
    BY <1>5 DEF DiskType, ThreadType, HistoryType, AloneHasTmp, Idle, Others
  <2>6. PromiseStands' /\ LockHeld'
    BY <1>5 DEF ThreadType, PromiseStands, LockHeld, Idle
  <2>7. QED
    BY <2>3, <2>4, <2>5, <2>6
<1>6. ASSUME NEW t \in Thread, Rename(t) \/ (RenameAgain(t) /\ tmp # NoFile) PROVE Inv'
  <2>1. /\ pc[t] \in {"rename", "again"} /\ tmp # NoFile
        /\ Replace /\ Return(t, TRUE)
        /\ UNCHANGED <<locked, memoryVars, boundVars>>
    BY <1>6 DEF Rename, RenameAgain
  <2> USE <2>1 DEF Replace, Return, memoryVars, boundVars
  <2>2. DiskType'
    BY DEF DiskType
  <2>3. ThreadType'
    BY DEF ThreadType
  <2>4. snap[t] \in Version
    BY DEF Versions, Idle
  <2>5. HistoryType'
    BY <2>4 DEF HistoryType
  <2>6. TypeOK'
    BY <2>2, <2>3, <2>5
  <2>7. Versions' /\ TwoNames'
    BY DEF DiskType, ThreadType, Versions, TwoNames, Idle
  <2>8. AloneHasTmp'
    BY DEF DiskType, ThreadType, HistoryType, AloneHasTmp, Idle, Others
  <2>9. PromiseStands'
    <3>1. CASE alone[t]
      <4>1. path' = tmp /\ data' = data /\ data[tmp] = snap[t] /\ promised' = snap[t]
        BY <3>1 DEF AloneHasTmp
      <4>2. snap[t] # 0 /\ snap[t] <= memory /\ memory' = memory /\ snap[t] \in Nat
        BY <2>4 DEF Versions, Idle
      <4>3. \A s \in Thread : Idle(s)'
        BY <3>1 DEF AloneHasTmp, Others, Idle, ThreadType
      <4>4. QED
        BY <4>1, <4>2, <4>3 DEF PromiseStands
    <3>2. CASE ~alone[t]
      <4>1. spoiled
        BY <3>2 DEF PromiseStands, Idle
      <4>2. QED
        BY <3>2, <4>1 DEF PromiseStands
    <3>3. QED
      BY <3>1, <3>2
  <2>10. LockHeld'
    BY DEF ThreadType, HistoryType, LockHeld, Idle
  <2>11. QED
    BY <2>6, <2>7, <2>8, <2>9, <2>10
<1>7. ASSUME NEW t \in Thread, RenameAgain(t), tmp = NoFile PROVE Inv'
  <2>1. /\ pc[t] = "again" /\ UNCHANGED diskVars /\ Return(t, FALSE)
        /\ UNCHANGED <<locked, memoryVars, boundVars>>
    BY <1>7 DEF RenameAgain
  <2> USE <2>1 DEF Return, memoryVars, boundVars, diskVars
  <2>2. DiskType' /\ HistoryType'
    BY DEF DiskType, HistoryType
  <2>3. ThreadType'
    BY DEF ThreadType
  <2>4. TypeOK'
    BY <2>2, <2>3
  <2>5. Versions' /\ TwoNames'
    BY DEF DiskType, ThreadType, Versions, TwoNames, Idle
  <2>6. AloneHasTmp'
    BY DEF DiskType, ThreadType, HistoryType, AloneHasTmp, Idle, Others
  <2>7. PromiseStands' /\ LockHeld'
    <3>1. ~alone[t] /\ spoiled /\ spoiled'
      BY DEF AloneHasTmp, PromiseStands, Idle, HistoryType
    <3>2. QED
      BY <3>1 DEF PromiseStands, LockHeld, Idle, ThreadType
  <2>8. QED
    BY <2>4, <2>5, <2>6, <2>7
<1>8. ASSUME NEW t \in Thread, RenameMisses(t) PROVE Inv'
  <2> USE DEF RenameMisses, memoryVars, diskVars, historyVars, boundVars
  <2>1. DiskType' /\ HistoryType'
    BY <1>8 DEF DiskType, HistoryType
  <2>2. ThreadType'
    BY <1>8 DEF ThreadType
  <2>3. TypeOK'
    BY <1>8, <2>1, <2>2
  <2>4. Versions' /\ TwoNames' /\ LockHeld'
    BY <1>8 DEF DiskType, ThreadType, Versions, TwoNames, LockHeld, Idle
  <2>5. AloneHasTmp'
    BY <1>8 DEF ThreadType, HistoryType, AloneHasTmp, Idle, Others
  <2>6. PromiseStands'
    BY <1>8 DEF ThreadType, AloneHasTmp, PromiseStands, Idle
  <2>7. QED
    BY <2>3, <2>4, <2>5, <2>6
<1>9. ASSUME NEW t \in Thread, RenameFails(t) PROVE Inv'
  <2> USE DEF RenameFails, memoryVars, diskVars
  <2>1. DiskType' /\ (faults \in 0 .. MaxFaults)'
    BY <1>9 DEF DiskType
  <2>2. ThreadType' /\ HistoryType'
    BY <1>9 DEF ThreadType, HistoryType
  <2>3. TypeOK'
    BY <1>9, <2>1, <2>2
  <2>4. Versions' /\ TwoNames' /\ LockHeld'
    BY <1>9 DEF DiskType, ThreadType, Versions, TwoNames, LockHeld, Idle
  <2>5. AloneHasTmp' /\ PromiseStands'
    BY <1>9 DEF ThreadType, HistoryType, AloneHasTmp, PromiseStands, Idle, Others
  <2>6. QED
    BY <2>3, <2>4, <2>5
<1>10. ASSUME NEW t \in Thread, Remove(t) PROVE Inv'
  <2> USE DEF Remove, memoryVars, historyVars, boundVars
  <2>1. DiskType' /\ HistoryType'
    BY <1>10 DEF DiskType, HistoryType
  <2>2. ThreadType'
    BY <1>10 DEF ThreadType
  <2>3. TypeOK'
    BY <1>10, <2>1, <2>2
  <2>4. Versions' /\ TwoNames' /\ LockHeld'
    BY <1>10 DEF DiskType, ThreadType, Versions, TwoNames, LockHeld, Idle
  <2>5. AloneHasTmp' /\ PromiseStands'
    BY <1>10 DEF ThreadType, HistoryType, AloneHasTmp, PromiseStands, Idle, Others
  <2>6. QED
    BY <2>3, <2>4, <2>5
<1>11. CASE Restart
  <2> USE <1>11 DEF Restart, diskVars
  <2>1. newest + 1 \in Version
    BY DEF Versions, Version
  <2>2. Readable \in Version \union {0} /\ Readable <= newest
    BY DEF DiskType, Versions, Readable
  <2>3. DiskType' /\ HistoryType'
    BY DEF DiskType, HistoryType
  <2>4. ThreadType'
    BY DEF ThreadType
  <2>5. TypeOK'
    BY <2>1, <2>2, <2>3, <2>4
  <2>6. Versions'
    <3>1. newest <= newest' /\ memory' <= newest' /\ newest' <= MaxVersion + crashes'
      BY <2>1, <2>2 DEF Versions
    <3>2. \A i \in Inode : data'[i] <= newest'
      <4>1. TAKE i \in Inode
      <4>2. data' = data /\ data[i] <= newest
        BY DEF Versions
      <4>3. data[i] \in Version \union {0} /\ newest \in Version
        BY DEF DiskType
      <4>4. newest' \in Version
        BY <2>5
      <4>5. data[i] \in Nat /\ newest \in Nat /\ newest' \in Nat
        BY <4>3, <4>4 DEF Version
      <4>6. QED
        BY <3>1, <4>2, <4>5
    <3>3. QED
      BY <2>5, <3>1, <3>2 DEF Versions, Idle
  <2>7. AloneHasTmp' /\ TwoNames' /\ LockHeld'
    BY DEF AloneHasTmp, TwoNames, LockHeld, Idle
  <2>8. PromiseStands'
    BY <2>1 DEF DiskType, HistoryType, PromiseStands, Readable, Idle
  <2>9. QED
    BY <2>5, <2>6, <2>7, <2>8
<1>12. CASE UNCHANGED vars
  BY <1>12 DEF vars, memoryVars, diskVars, threadVars, historyVars, boundVars, DiskType, ThreadType, HistoryType,
     Versions, AloneHasTmp, TwoNames, PromiseStands, LockHeld, Idle
<1>13. ASSUME NEW t \in Thread, RenameAgain(t) PROVE Inv'
  BY <1>6, <1>7, <1>13
<1>14. QED
  BY <1>1, <1>2, <1>3, <1>4, <1>5, <1>6, <1>8, <1>9, <1>10, <1>11, <1>12, <1>13 DEF Next

\* The invariant holds in every reachable state.
LEMMA Invariance == Spec => []Inv
BY InitInv, InvNext, PTL DEF Spec

\* Whatever the interleaving of saves, failures and restarts, every variable keeps its type.
THEOREM TypeCorrect == Spec => []TypeOK
<1>1. Inv => TypeOK
  BY DEF Inv
<1>2. QED
  BY <1>1, Invariance, PTL

\* A file whose mutex is held during the whole save (system.conf, the lists of FileStore) is
\* always there and whole, and its save never enters the branch that removes it, as long
\* as the file system does not fail.
THEOREM LockedFileStaysAlways == Spec => []LockedFileStays
<1>1. Inv => LockedFileStays
  BY ConstantTypes DEF Inv, LockedFileStays, LockHeld, PromiseStands, AloneHasTmp, Readable, Idle
<1>2. QED
  BY <1>1, Invariance, PTL

-----------------------------------------------------------------------------
\* The refinement of SnapshotFile.

LEMMA InitRefines == Init => Promise!Init
BY ConstantTypes DEF Init, Promise!Init, Readable

\* A save that repairs the file, or stores a version while the promise stands, is the last
\* step of an alone thread.
LEMMA StoreRefines ==
    ASSUME Inv, NEW t \in Thread, Rename(t) \/ (RenameAgain(t) /\ tmp # NoFile), ~spoiled'
    PROVE  Promise!Repair \/ (~spoiled /\ Promise!Save)
<1> USE ConstantTypes
<1>1. /\ ~Idle(t) /\ Replace /\ Return(t, TRUE) /\ UNCHANGED memory
  BY DEF Rename, RenameAgain, Idle, memoryVars
<1>2. alone[t]
  BY <1>1 DEF Return, Inv, PromiseStands
<1>3. tmp # NoFile /\ data[tmp] = snap[t]
  BY <1>2 DEF Rename, RenameAgain, Inv, AloneHasTmp
<1>4. Readable' = snap[t] /\ promised' = snap[t]
  BY <1>1, <1>2, <1>3 DEF Replace, Return, Readable
<1>5. snap[t] \in Nat /\ 0 < snap[t] /\ snap[t] <= memory /\ memory \in Nat
  <2>1. snap[t] \in Version /\ snap[t] <= memory
    BY <1>1 DEF Inv, Versions
  <2>2. memory \in Version
    BY DEF Inv, TypeOK
  <2>3. snap[t] \in Nat \ {0} /\ memory \in Nat \ {0}
    BY <2>1, <2>2
  <2>4. QED
    BY <2>1, <2>3
<1>6. CASE spoiled
  BY <1>1, <1>4, <1>5, <1>6 DEF Promise!Repair
<1>7. CASE ~spoiled
  <2>1. Readable <= snap[t] /\ promised <= Readable /\ Readable \in Nat /\ promised \in Nat
    BY <1>1, <1>7 DEF Inv, TypeOK, DiskType, HistoryType, PromiseStands, Readable
  <2>2. QED
    BY <1>1, <1>4, <1>5, <1>7, <2>1 DEF Promise!Save
<1>8. QED
  BY <1>6, <1>7

\* Every step of a save, of memory or of a restart is one of SnapshotFile or leaves its
\* variables as they are.
LEMMA NextRefines == Inv /\ Inv' /\ [Next]_vars => [Promise!Next]_(Promise!fileVars)
<1> SUFFICES ASSUME Inv, Inv', [Next]_vars, ~spoiled'
             PROVE  Promise!Next \/ UNCHANGED <<memory, Readable, promised, spoiled>>
  BY DEF Promise!Next, Promise!Spoil, Promise!fileVars
<1> USE ConstantTypes
<1>1. CASE Edit
  <2>1. memory' > memory /\ UNCHANGED <<Readable, promised, spoiled>>
    BY <1>1 DEF Edit, diskVars, historyVars, Readable, Inv, TypeOK, Versions
  <2>2. QED
    BY <2>1 DEF Promise!Next, Promise!Edit
<1>2. ASSUME NEW t \in Thread, Begin(t) PROVE UNCHANGED <<memory, Readable, promised, spoiled>>
  BY <1>2 DEF Begin, memoryVars, diskVars, Readable, Inv, TypeOK, HistoryType
<1>3. ASSUME NEW t \in Thread, Open(t) PROVE UNCHANGED <<memory, Readable, promised, spoiled>>
  <2>1. UNCHANGED <<memory, path, promised, spoiled>>
    BY <1>3 DEF Open, memoryVars, historyVars
  <2>2. PICK i \in Inode : data' = [data EXCEPT ![i] = 0] /\ (path # NoFile => i # path)
    BY <1>3 DEF Open, Inv, TypeOK, DiskType, TwoNames
  <2>3. path # NoFile => data'[path] = data[path]
    BY <2>2 DEF Inv, TypeOK, DiskType
  <2>4. QED
    BY <2>1, <2>3 DEF Readable
<1>4. ASSUME NEW t \in Thread, Write(t) PROVE UNCHANGED <<memory, Readable, promised, spoiled>>
  <2>1. UNCHANGED <<memory, path, promised, spoiled>>
    BY <1>4 DEF Write, memoryVars, historyVars
  <2>2. fd[t] = tmp /\ path # NoFile /\ path # tmp
    BY <1>4, <2>1 DEF Write, Inv, PromiseStands, AloneHasTmp, TwoNames, Idle
  <2>3. data'[path] = data[path]
    BY <1>4, <2>2 DEF Write, Inv, TypeOK, DiskType
  <2>4. QED
    BY <2>1, <2>3 DEF Readable
<1>5. ASSUME NEW t \in Thread, Rename(t) PROVE Promise!Next
  BY <1>5, StoreRefines DEF Promise!Next
<1>6. ASSUME NEW t \in Thread, RenameAgain(t) PROVE Promise!Next
  <2>1. CASE tmp # NoFile
    BY <1>6, <2>1, StoreRefines DEF Promise!Next
  <2>2. CASE tmp = NoFile
    <3>1. spoiled /\ UNCHANGED spoiled
      BY <1>6, <2>2 DEF RenameAgain, Return, Inv, TypeOK, HistoryType, PromiseStands, AloneHasTmp, Idle
    <3>2. QED
      BY <3>1
  <2>3. QED
    BY <2>1, <2>2
<1>7. ASSUME NEW t \in Thread, WriteFails(t) \/ RenameFails(t) PROVE FALSE
  BY <1>7 DEF WriteFails, RenameFails
<1>8. ASSUME NEW t \in Thread, RenameMisses(t) \/ Remove(t) PROVE FALSE
  BY <1>8 DEF RenameMisses, Remove, historyVars, Inv, PromiseStands, AloneHasTmp, Idle
<1>9. CASE Restart
  <2>1. UNCHANGED <<path, data, promised, spoiled>>
    BY <1>9 DEF Restart, diskVars
  <2>2. memory' = Readable /\ UNCHANGED <<Readable, promised, spoiled>>
    BY <1>9, <2>1 DEF Restart, Readable, Inv, PromiseStands
  <2>3. QED
    BY <2>2 DEF Promise!Next, Promise!Reload
<1>10. CASE UNCHANGED vars
  BY <1>10 DEF vars, memoryVars, diskVars, historyVars, Readable
<1>11. QED
  BY <1>1, <1>2, <1>3, <1>4, <1>5, <1>6, <1>7, <1>8, <1>9, <1>10 DEF Next

\* A saved file always reads as one whole version, never an older one than a save has
\* reported stored, through crashes at any point of a save, unless two saves of it overlapped
\* or the file system failed since the last save to which neither happened.
THEOREM FileImplementsPromise == Spec => FileKeepsPromise
<1>1. Init => Promise!Init
  BY InitRefines
<1>2. Inv /\ Inv' /\ [Next]_vars => [Promise!Next]_(Promise!fileVars)
  BY NextRefines
<1>3. QED
  BY <1>1, <1>2, Invariance, PTL DEF Spec, FileKeepsPromise, Promise!Spec
=============================================================================

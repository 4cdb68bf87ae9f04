----------------------------- MODULE SnapshotFile -----------------------------
(***************************************************************************)
(* What a file that is always saved whole promises: it holds one version   *)
(* of the data, never an older one than a save has reported stored, and a  *)
(* restart continues with it.  The promise is void while the file is       *)
(* spoiled, and holds again from the save that repairs it.                 *)
(***************************************************************************)
EXTENDS Naturals

VARIABLES
    memory,    \* the version in memory
    value,     \* the version in the file
    promised,  \* the newest version a save has reported stored
    spoiled    \* the promise is void

fileVars == <<memory, value, promised, spoiled>>

Init ==
    /\ memory \in Nat \ {0}
    /\ value = memory /\ promised = memory
    /\ spoiled = FALSE

\* Memory changes: versions are numbered in order.
Edit == memory' > memory /\ UNCHANGED <<value, promised>>

\* A newer version replaces the one in the file, in one step; the save reports success
\* then, or never.
Save ==
    /\ value' \in value .. memory
    /\ promised' \in promised .. value'
    /\ UNCHANGED memory

\* The program dies and reads the file again.
Reload == memory' = value /\ UNCHANGED <<value, promised>>

Spoil == spoiled'

Repair == spoiled /\ ~spoiled' /\ 0 < value' /\ promised' <= value' /\ value' <= memory'

Next ==
    \/ ~spoiled /\ ~spoiled' /\ (Edit \/ Save \/ Reload)
    \/ Spoil
    \/ Repair

Spec == Init /\ [][Next]_fileVars
=============================================================================

---------------------------- MODULE EventLedger ----------------------------
(***************************************************************************)
(* What event collection promises: every controller keeps its access       *)
(* events in a FIFO, an event is forgotten by its controller only from the *)
(* head of that FIFO and only after it has a row in the event journal, and *)
(* a journal row is never withdrawn.                                       *)
(***************************************************************************)
EXTENDS Naturals, Sequences

CONSTANTS
    Node,       \* RS-485 node ids of the controllers
    Frame,      \* raw 25H event frames
    MaxSwipes   \* bound on the events one controller holds at a time

VARIABLES
    fifo,       \* fifo[n]: events still held by controller n, oldest first
    journal     \* <<n, f>>: frame f of controller n is stored

Init ==
    /\ fifo = [n \in Node |-> <<>>]
    /\ journal = {}

\* A card is presented to controller n.
Occur(n, f) ==
    /\ Len(fifo[n]) < MaxSwipes
    /\ fifo' = [fifo EXCEPT ![n] = Append(@, f)]
    /\ UNCHANGED journal

\* The oldest event of controller n gets its journal row.
Record(n) ==
    /\ fifo[n] # <<>>
    /\ journal' = journal \union {<<n, Head(fifo[n])>>}
    /\ UNCHANGED fifo

\* Controller n forgets its oldest event, which is journalled already.
Forget(n) ==
    /\ fifo[n] # <<>>
    /\ <<n, Head(fifo[n])>> \in journal
    /\ fifo' = [fifo EXCEPT ![n] = Tail(@)]
    /\ UNCHANGED journal

Next ==
    \E n \in Node :
        \/ \E f \in Frame : Occur(n, f)
        \/ Record(n)
        \/ Forget(n)

vars == <<fifo, journal>>

Spec == Init /\ [][Next]_vars
=============================================================================

---------------------------- MODULE MCAttendance ----------------------------
(***************************************************************************)
(* Instances of Attendance for TLC: both cards belong to user u1, or one   *)
(* does and nobody owns the other yet.                                     *)
(***************************************************************************)
EXTENDS Attendance

CONSTANTS n1, n2, cardA, cardB, u1, u2

BothCards == [c \in {cardA, cardB} |-> u1]
CardBUnknown == [c \in {cardA, cardB} |-> IF c = cardA THEN u1 ELSE None]

\* Nothing tells one controller from another.
ControllersAlike == Permutations({n1, n2})
=============================================================================

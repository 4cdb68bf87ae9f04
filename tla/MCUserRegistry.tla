---------------------------- MODULE MCUserRegistry ----------------------------
(***************************************************************************)
(* An instance of UserRegistry for TLC: two users with a card each, one of *)
(* them in a department; a leftover users.csv that claims the card of one  *)
(* of them for a third, and another one for the other, who lacks a         *)
(* department; and requests of every kind, chosen so that they meet on the *)
(* same cards, users and departments.  An import may hold a card twice, or *)
(* a user without an id.                                                   *)
(***************************************************************************)
EXTENDS UserRegistry

CONSTANTS c1, c2, d1, d2

U(i, cs, d) == [id |-> i, cards |-> cs, dept |-> d]
R(op, i, cs, d, to, rows) ==
    [op |-> op, id |-> i, cards |-> cs, dept |-> d, to |-> to, rows |-> rows]

TwoUsers == <<U(1, {c1}, d1), U(2, {c2}, NoDept)>>
OneDept == {d1}
Leftover == <<U(3, {c1}, NoDept), U(2, {c1, c2}, d1)>>
LeftoverDepts == {}

SomeRequests ==
    {R("save", 0, {c1}, d2, NoDept, <<>>), R("save", 1, {c1, c2}, NoDept, NoDept, <<>>),
     R("delete", 1, {}, NoDept, NoDept, <<>>),
     R("assign", 1, {c2}, NoDept, NoDept, <<>>),
     R("remove", 0, {c1}, NoDept, NoDept, <<>>),
     R("create", 0, {c1}, NoDept, NoDept, <<>>),
     R("import", 0, {}, NoDept, NoDept, <<U(1, {c1}, d2), U(2, {c1}, NoDept)>>),
     R("import", 0, {}, NoDept, NoDept, <<U(2, {c1, c2}, d2)>>),
     R("import", 0, {}, NoDept, NoDept, <<U(0, {c1, c2}, NoDept)>>),
     R("addDept", 0, {}, d2, NoDept, <<>>),
     R("rename", 0, {}, d1, d2, <<>>),
     R("drop", 0, {}, d1, NoDept, <<>>),
     R("soyalMerge", 0, {c1}, d2, NoDept, <<>>),
     R("soyalCreate", 0, {c2}, d2, NoDept, <<>>),
     R("soyalAssign", 2, {c1}, d2, NoDept, <<>>)}

\* The threads are alike, and no property tells them apart.
ThreadSymmetry == Permutations(Thread)
=============================================================================

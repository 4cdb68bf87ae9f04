----------------------------- MODULE MCUserSync -----------------------------
(***************************************************************************)
(* Instances of UserSync for TLC: an active user with an address, and a    *)
(* disabled one who was imported without; the forms give either of them    *)
(* the first address or the second.                                        *)
(***************************************************************************)
EXTENDS UserSync

CONSTANTS u1, u2, a0, a1

TwoUsers ==
    [u \in {u1, u2} |-> IF u = u1 THEN [addr |-> a0, on |-> TRUE]
                                  ELSE [addr |-> None, on |-> FALSE]]

SomeForms == {[addr |-> a0, on |-> TRUE], [addr |-> a1, on |-> TRUE]}
=============================================================================

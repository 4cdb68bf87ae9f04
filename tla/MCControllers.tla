--------------------------- MODULE MCControllers ---------------------------
(***************************************************************************)
(* Instances of Controllers for TLC: device d1 answers to node 1, d2 to 2, *)
(* d3 to 3.                                                                *)
(***************************************************************************)
EXTENDS Controllers

CONSTANTS d1, d2, d3

Wired == [d \in Device |-> CASE d = d1 -> 1 [] d = d2 -> 2 [] OTHER -> 3]
=============================================================================

---------------------------- MODULE MCPrioQueue -----------------------------
(***************************************************************************)
(* Small instances of PrioQueue.                                           *)
(***************************************************************************)
EXTENDS PrioQueue

CONSTANTS p1, p2, p3, p4, p5

OneOrTwo == [p \in Packets |-> IF p \in {p1, p3} THEN 1 ELSE 2]
=============================================================================

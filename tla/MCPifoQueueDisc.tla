-------------------------- MODULE MCPifoQueueDisc --------------------------
(***************************************************************************)
(* Small instances of PifoQueueDisc.                                       *)
(***************************************************************************)
EXTENDS PifoQueueDisc

CONSTANTS p1, p2, p3, p4

OneByte == [p \in Packets |-> 1]

EightPriorities == 0 .. 7

\* A filter that matches nothing (-1) or ranks, below 0 as well.
SignedRanks == {-3, -2, -1, 0, 1}
=============================================================================

----------------------- MODULE MCTrafficControlLayer -----------------------
(***************************************************************************)
(* Small instances of TrafficControlLayer.                                 *)
(***************************************************************************)
EXTENDS TrafficControlLayer

CONSTANTS single, multi, c0, c1, p1, p2, p3, p4

\* The root multi has a child for each of two transmission queues.
ChildOfMulti == [d \in {multi} |-> [q \in TxQueues |-> IF q = 0 THEN c0 ELSE c1]]
=============================================================================

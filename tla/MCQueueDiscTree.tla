--------------------------- MODULE MCQueueDiscTree --------------------------
(***************************************************************************)
(* A small instance of QueueDiscTree: three packets and limits up to two,  *)
(* so that the limit of the child and the capacity of each internal queue  *)
(* are reached.                                                            *)
(***************************************************************************)
EXTENDS QueueDiscTree

CONSTANTS p1, p2, p3

\* One interactive packet (band 0) and two bulk ones (band 2); a packet without its tag is
\* best effort (band 1).
ThreePriorities == [p \in Packets |-> IF p = p1 THEN 6 ELSE 2]
=============================================================================

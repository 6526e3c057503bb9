---------------------------- MODULE MCQueueDisc ----------------------------
(***************************************************************************)
(* Small instances of QueueDisc: the packets alternate between the         *)
(* transmission queues of the device.                                      *)
(***************************************************************************)
EXTENDS QueueDisc

CONSTANTS p1, p2, p3, p4, t1, t2

TwoQueues == [p \in Packets |-> IF p \in {p1, p3} THEN t1 ELSE t2]
OneQueue == [p \in Packets |-> t1]
=============================================================================

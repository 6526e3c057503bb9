----------------------------- MODULE TrackQsize -----------------------------
(***************************************************************************)
(* The P4 program track-qsize.p4: it computes the size of the queue from   *)
(* the enqueue and dequeue events and drops arrivals above a threshold.    *)
(***************************************************************************)
EXTENDS Integers

CONSTANTS
  QTHRESH,    \* the threshold, in bytes
  DepthMod    \* number of values of a QueueDepth_t

ASSUME QsizeAssumption == QTHRESH \in Nat /\ DepthMod \in Nat \ {0}

\* P4's saturating addition and subtraction of QueueDepth_t.
SatAdd(a, b) == IF a + b < DepthMod THEN a + b ELSE DepthMod - 1
SatSub(a, b) == IF a >= b THEN a - b ELSE 0

InitQsize == [program |-> "track-qsize", qsize |-> 0]

\* Mutant: a dropped packet is subtracted, although it was never added.
compute_qsize_of_drops(qsize, m) ==
  CASE m.trigger = "enq" -> SatAdd(qsize, m.pkt_len_bytes)
    [] m.trigger \in {"deq", "drop"} -> SatSub(qsize, m.pkt_len_bytes)
    [] OTHER -> qsize

\* compute_qsize_pipe: the new value of qsize_reg.
compute_qsize(qsize, m) ==
  CASE m.trigger = "enq" -> SatAdd(qsize, m.pkt_len_bytes)
    [] m.trigger = "deq" -> SatSub(qsize, m.pkt_len_bytes)
    [] OTHER -> qsize

TrackQsizeIngress(reg, m) ==
  LET qsize == compute_qsize(reg.qsize, m)
  IN  {[registers |-> [reg EXCEPT !.qsize = qsize],
        trace |-> [m.trace EXCEPT ![1] = qsize],
        drop |-> qsize > QTHRESH,
        len |-> m.pkt_len_bytes]}
=============================================================================

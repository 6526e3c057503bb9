----------------------------- MODULE Microburst -----------------------------
(***************************************************************************)
(* The P4 program microburst.p4: from the enqueue and dequeue events it    *)
(* counts the bytes that every flow has in the queue, and the flows (the   *)
(* culprits) that have more than their share.                              *)
(***************************************************************************)
EXTENDS Integers

CONSTANTS
  FairShare,    \* QTHRESH, in bytes
  FlowMask,     \* NUM_FLOW_ENTRIES: flow hashes are cut to so many values
  CountMod      \* number of values of a QueueDepth_t

ASSUME MicroburstAssumption ==
  /\ FairShare \in Nat /\ FlowMask \in Nat \ {0}
  /\ CountMod \in Nat /\ FlowMask < CountMod

FlowIDs == 0 .. (FlowMask - 1)
FlowID(hash) == hash % FlowMask

SatPlus(a, b) == IF a + b < CountMod THEN a + b ELSE CountMod - 1
SatMinus(a, b) == IF a >= b THEN a - b ELSE 0

InitMicroburst ==
  [program |-> "microburst", flow_count |-> [f \in FlowIDs |-> 0], num_culprits |-> 0]

\* The count of the packet's flow after its event.
Counted(count, m) ==
  CASE m.trigger = "enq" -> SatPlus(count, m.pkt_len_bytes)
    [] m.trigger = "deq" -> SatMinus(count, m.pkt_len_bytes)
    [] OTHER -> count

\* Whether the event took the count over the share, or back to it.
BecomesCulprit(count, m) ==
  m.trigger = "enq" /\ count > FairShare /\ (count - m.pkt_len_bytes) % CountMod <= FairShare

\* Mutant: back to the share is not yet below it.
CeasesBelowShare(count, m) ==
  m.trigger = "deq" /\ count < FairShare /\ (count + m.pkt_len_bytes) % CountMod >= FairShare

CeasesCulprit(count, m) ==
  m.trigger = "deq" /\ count <= FairShare /\ (count + m.pkt_len_bytes) % CountMod > FairShare

\* num_culprits after an event that left its flow with count bytes.
Culprits(culprits, count, m) ==
  IF BecomesCulprit(count, m) THEN SatPlus(culprits, 1)
  ELSE IF CeasesCulprit(count, m) THEN SatMinus(culprits, 1)
  ELSE culprits

\* Only an arrival has a flow_hash and a queried flow_count.
MicroburstIngress(reg, m) ==
  LET f == FlowID(m.flow_hash)
      count == Counted(reg.flow_count[f], m)
      culprits == Culprits(reg.num_culprits, count, m)
      queried == m.trigger = "ingress"
  IN  {[registers |-> [reg EXCEPT !.flow_count[f] = count, !.num_culprits = culprits],
        trace |-> <<culprits, IF queried THEN f ELSE 0, IF queried THEN count ELSE 0,
                    m.trace[4]>>,
        drop |-> FALSE,
        len |-> m.pkt_len_bytes]}
=============================================================================

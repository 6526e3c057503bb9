--------------------------- MODULE PifoQueueDisc ---------------------------
(***************************************************************************)
(* The PIFO queue disc (traffic-control/model/pifo-queue-disc.cc): a       *)
(* packet filter gives every packet a rank, an int32_t, and the rank       *)
(* becomes the priority, a uint32_t, of the packet in the one internal     *)
(* PrioQueue.  Run passes packets to a device with several transmission    *)
(* queues, and keeps in m_requeued one whose transmission queue is stopped *)
(* (on a device with one queue it would not have been dequeued).           *)
(***************************************************************************)
EXTENDS PrioQueue

CONSTANTS
  Results,    \* what Classify may return: PF_NO_MATCH (-1) or a rank
  Modulus,    \* 2^32 in the code
  NoPacket

ASSUME PifoAssumption ==
  /\ Results \subseteq Int
  /\ Modulus \in Nat \ {0} /\ Priorities = 0 .. Modulus - 1
  /\ \A r \in Results : -Modulus <= 2 * r /\ 2 * r < Modulus
  /\ NoPacket \notin Packets
  /\ ~ InBytes    \* CheckConfig requires a queue in packet mode

VARIABLES
  rank,        \* history: the rank of every classified packet
  classified,  \* history: the packets that the filter has seen
  arrived,     \* history: the packets given to the queue disc
  requeued,    \* m_requeued
  passed       \* history: the packets that Dequeue returned or Run sent, in order

discVars == <<rank, classified, arrived, requeued, passed>>
pifoVars == <<prioVars, discVars>>

PF_NO_MATCH == -1

-----------------------------------------------------------------------------
PifoInit ==
  /\ Init
  /\ rank = [p \in Packets |-> 0]
  /\ classified = {} /\ arrived = {}
  /\ requeued = NoPacket
  /\ passed = <<>>

\* int32_t rank = 0, unless a filter knows better.
RankOf(ret) == IF ret = PF_NO_MATCH THEN 0 ELSE ret

\* Mutant: a negative rank is cut off at 0.
RankCutOff(r) == IF r < 0 THEN 0 ELSE r

\* SetPriority (rank) takes a uint32_t.
SetPriority(r) == r % Modulus

\* Mutant: > for >=.
FullTooLate == nPackets > Limit

\* GetCurrentSize () >= GetMaxSize (), the size of the internal queue.
Full == nPackets >= Limit

DoEnqueue(p, ret) ==
  /\ p \notin arrived
  /\ arrived' = arrived \cup {p}
  /\ \/ /\ Full
        /\ UNCHANGED <<prioVars, rank, classified>>
     \/ /\ ~ Full
        /\ classified' = classified \cup {p}
        /\ rank' = [rank EXCEPT ![p] = RankOf(ret)]
        /\ Enqueue(p, SetPriority(RankOf(ret)))
  /\ UNCHANGED <<requeued, passed>>

\* The packet that m_requeued or, if it is empty, the internal queue gives up.
Extract(p) ==
  \/ /\ requeued # NoPacket /\ p = requeued
     /\ UNCHANGED prioVars
  \/ /\ requeued = NoPacket
     /\ Dequeue /\ p = Head(items)

\* QueueDisc::Dequeue returns a packet to a caller that keeps it.
DequeueReturns(p) ==
  /\ Extract(p)
  /\ requeued' = NoPacket
  /\ passed' = Append(passed, p)
  /\ UNCHANGED <<rank, classified, arrived>>

\* Mutant: a packet that cannot be sent is not kept.
RunLosesRefused(p) ==
  /\ Extract(p)
  /\ requeued' = NoPacket
  /\ passed' \in {passed, Append(passed, p)}
  /\ UNCHANGED <<rank, classified, arrived>>

\* QueueDisc::Restart: the device takes the packet; or its transmission queue is stopped
\* and Requeue keeps it, or it stays in m_requeued if it was there.
Restart(p) ==
  /\ Extract(p)
  /\ \/ requeued' = NoPacket /\ passed' = Append(passed, p)
     \/ requeued' = p /\ UNCHANGED passed
  /\ UNCHANGED <<rank, classified, arrived>>

PifoNext ==
  \/ \E p \in Packets, ret \in Results : DoEnqueue(p, ret)
  \/ \E p \in Packets : DequeueReturns(p) \/ Restart(p)

PifoSpec == PifoInit /\ [][PifoNext]_pifoVars

-----------------------------------------------------------------------------
\* Rank r goes before rank s, or is as good: the lower one does if both are negative or none
\* is, and a rank that is not negative goes before every negative one, which is a very large
\* number once it is a uint32_t.
NotAfter(r, s) == IF (r < 0) = (s < 0) THEN r <= s ELSE s < 0

\* A packet leaves the internal queue when none waits there that goes before it.  Among the
\* ranks that are not negative this is "lower rank, higher priority" (pifo-queue-disc.h:32);
\* a packet with a negative rank leaves only when no other is left.
LowestRankFirst ==
  [][left' # left => \A p \in ToSet(items) : NotAfter(rank[Last(left')], rank[p])]_pifoVars

\* The filter computes a rank for the packets that are enqueued and for no other, so that
\* the state of the rank computation keeps up with the queue (the comment in DoEnqueue):
\* the internal queue refuses no packet that passed the test of the queue disc.
RankedIsEnqueued == classified = ToSet(items) \cup ToSet(left)

\* What the queue extracted is passed on in that order, but for the packet in m_requeued,
\* which is the next.
PassedInOrder ==
  left = IF requeued = NoPacket THEN passed ELSE Append(passed, requeued)
=============================================================================

----------------------------- MODULE QueueDisc -----------------------------
(***************************************************************************)
(* The base class of every queueing discipline                             *)
(* (traffic-control/model/queue-disc.cc), used as the root of a device:    *)
(* Enqueue, Dequeue, Peek and the Run loop that feeds a NetDevice with one *)
(* or several transmission queues, each of which the device may stop and   *)
(* wake.                                                                   *)
(*                                                                         *)
(* What a concrete discipline decides in DoEnqueue and DoDequeue is left   *)
(* open: it refuses or accepts a packet, and it extracts any packet it     *)
(* holds, after dropping any others on the way.                            *)
(***************************************************************************)
EXTENDS Integers, Sequences, FiniteSets

CONSTANTS
  Packets,    \* the items handed to the queue disc, each of them once
  None,       \* a null Ptr<QueueDiscItem>
  TxQueues,   \* the transmission queues of the device
  TxQueueOf,  \* item->GetTxQueueIndex (), for every packet
  Quota,      \* m_quota
  UintMod,    \* 2^32, the number of values of a uint32_t
  MayPeek     \* whether some caller uses Peek and Dequeue beside Run

ASSUME PacketsAssumption == IsFiniteSet(Packets) /\ None \notin Packets
ASSUME TxAssumption ==
  IsFiniteSet(TxQueues) /\ TxQueues # {} /\ TxQueueOf \in [Packets -> TxQueues]
ASSUME UintAssumption == UintMod \in Nat /\ Quota \in 0 .. (UintMod - 1)
ASSUME MayPeekAssumption == MayPeek \in BOOLEAN

VARIABLES
  internal,   \* packets in the internal queues and child queue discs
  requeued,   \* m_requeued
  peeked,     \* m_peeked
  nPackets,   \* m_nPackets
  \* m_stats: nTotalReceivedPackets and so on
  nReceived, nEnqueued, nDequeued, nDroppedBefore, nDroppedAfter, nRequeued,
  pc,         \* where Run is; m_running is pc # "idle"
  item,       \* the item Transmit has handed to NetDevice::Send
  burst,      \* how often Send was called in this (or the last) Run
  stopped     \* NetDeviceQueue::IsStopped, for every transmission queue

stats == <<nReceived, nEnqueued, nDequeued, nDroppedBefore, nDroppedAfter, nRequeued>>
codeVars == <<internal, requeued, peeked, nPackets, stats, pc, item, burst, stopped>>

\* History: what happened to the packets, in the order it happened.
VARIABLES
  arrived,    \* packets passed to Enqueue
  rejected,   \* packets DropBeforeEnqueue was called for
  dropped,    \* packets DropAfterDequeue was called for
  extracted,  \* packets DoDequeue returned, in order
  delivered,  \* packets given to the device or to a caller of Dequeue, in order
  sent,       \* packets given to the device
  headers     \* how often AddHeader was called, for every packet

history == <<arrived, rejected, dropped, extracted, delivered, sent, headers>>
vars == <<codeVars, history>>

Init ==
  /\ internal = {}
  /\ requeued = None
  /\ peeked = FALSE
  /\ nPackets = 0
  /\ nReceived = 0 /\ nEnqueued = 0 /\ nDequeued = 0
  /\ nDroppedBefore = 0 /\ nDroppedAfter = 0 /\ nRequeued = 0
  /\ pc = "idle"
  /\ item = None
  /\ burst = 0
  /\ stopped = [q \in TxQueues |-> FALSE]
  /\ arrived = {}
  /\ rejected = {}
  /\ dropped = {}
  /\ extracted = <<>>
  /\ delivered = <<>>
  /\ sent = {}
  /\ headers = [p \in Packets |-> 0]

-----------------------------------------------------------------------------
IsStopped(p) == stopped[TxQueueOf[p]]

\* Enqueue: the internal queue or the child fires PacketEnqueued ...
PacketEnqueued(p) ==
  /\ internal' = internal \cup {p}
  /\ nPackets' = nPackets + 1
  /\ nEnqueued' = nEnqueued + 1
  /\ UNCHANGED <<nDroppedBefore, rejected>>

\* ... or the packet is dropped, by the internal queue, a child or DoEnqueue.
DropBeforeEnqueue(p) ==
  /\ rejected' = rejected \cup {p}
  /\ nDroppedBefore' = nDroppedBefore + 1
  /\ UNCHANGED <<internal, nPackets, nEnqueued>>

Enqueue(p) ==
  /\ p \notin arrived
  /\ arrived' = arrived \cup {p}
  /\ nReceived' = nReceived + 1
  /\ PacketEnqueued(p) \/ DropBeforeEnqueue(p)
  /\ UNCHANGED <<requeued, peeked, nDequeued, nDroppedAfter, nRequeued, item, dropped,
                 extracted, delivered, sent, headers>>

(***************************************************************************)
(* DoDequeue drops D and returns p, or null once nothing is left (every    *)
(* discipline of the repository is work-conserving).  PacketDequeued,      *)
(* which moves the counters, is suppressed for the returned packet while   *)
(* m_peeked is set, but DropAfterDequeue lifts m_peeked for those it       *)
(* drops, so that they are always counted.                                 *)
(***************************************************************************)
Extraction(D, p) ==
  /\ D \subseteq internal
  /\ \/ p \in internal \ D
     \/ p = None /\ D = internal

CountDequeued(n, d) ==
  /\ nPackets' = nPackets - n
  /\ nDequeued' = nDequeued + n
  /\ nDroppedAfter' = nDroppedAfter + d
  /\ UNCHANGED <<nReceived, nEnqueued, nDroppedBefore>>

\* Mutant: DropAfterDequeue does not lift m_peeked.
DropsUncountedInPeek(D, p, peeking) ==
  /\ Extraction(D, p)
  /\ internal' = internal \ (D \cup {p})
  /\ dropped' = dropped \cup D
  /\ extracted' = IF p = None THEN extracted ELSE Append(extracted, p)
  /\ CountDequeued(IF peeking THEN 0 ELSE Cardinality(D \cup ({p} \ {None})), Cardinality(D))

\* Mutant: the packet is returned and stays in the internal queue.
ReturnedNotRemoved(D, p, peeking) ==
  /\ Extraction(D, p)
  /\ internal' = internal \ D
  /\ dropped' = dropped \cup D
  /\ extracted' = IF p = None THEN extracted ELSE Append(extracted, p)
  /\ CountDequeued(Cardinality(D) + (IF p = None \/ peeking THEN 0 ELSE 1), Cardinality(D))

DoDequeue(D, p, peeking) ==
  /\ Extraction(D, p)
  /\ internal' = internal \ (D \cup {p})
  /\ dropped' = dropped \cup D
  /\ extracted' = IF p = None THEN extracted ELSE Append(extracted, p)
  /\ CountDequeued(Cardinality(D) + (IF p = None \/ peeking THEN 0 ELSE 1), Cardinality(D))

PeekedPackets == IF peeked THEN 1 ELSE 0

\* Mutant: PacketDequeued is called for every packet taken from m_requeued.
TakenCountedTwice ==
  /\ requeued # None
  /\ requeued' = None
  /\ peeked' = FALSE
  /\ CountDequeued(1, 0)
  /\ UNCHANGED <<internal, dropped, extracted>>

\* A held packet leaves m_requeued: PacketDequeued is called now if Peek put it there.
TakeRequeued ==
  /\ requeued # None
  /\ requeued' = None
  /\ peeked' = FALSE
  /\ CountDequeued(PeekedPackets, 0)
  /\ UNCHANGED <<internal, dropped, extracted>>

\* Mutant: Peek does not look for a packet that is already held.
PeekOverHeld ==
  /\ MayPeek
  /\ pc # "restart"
  /\ \E D \in SUBSET internal, p \in internal \cup {None} :
       /\ DoDequeue(D, p, TRUE)
       /\ requeued' = p
       /\ peeked' = (p # None)
  /\ UNCHANGED <<nRequeued, pc, item, burst, stopped, arrived, rejected, delivered, sent,
                 headers>>

\* Peek and Dequeue, for a caller beside Run: between two runs, or from within Send.
Peek ==
  /\ MayPeek
  /\ pc # "restart"
  /\ requeued = None
  /\ \E D \in SUBSET internal, p \in internal \cup {None} :
       /\ DoDequeue(D, p, TRUE)
       /\ requeued' = p
       /\ peeked' = (p # None)
  /\ UNCHANGED <<nRequeued, pc, item, burst, stopped, arrived, rejected, delivered, sent,
                 headers>>

\* Mutant: Dequeue does not look at m_requeued.
DequeuePastHeld ==
  /\ MayPeek
  /\ pc # "restart"
  /\ \E D \in SUBSET internal, p \in internal \cup {None} :
       /\ DoDequeue(D, p, FALSE)
       /\ delivered' = IF p = None THEN delivered ELSE Append(delivered, p)
  /\ UNCHANGED <<requeued, peeked, nRequeued, pc, item, burst, stopped, arrived, rejected,
                 sent, headers>>

Dequeue ==
  /\ MayPeek
  /\ pc # "restart"
  /\ \/ /\ TakeRequeued
        /\ delivered' = Append(delivered, requeued)
     \/ /\ requeued = None
        /\ \E D \in SUBSET internal, p \in internal \cup {None} :
             /\ DoDequeue(D, p, FALSE)
             /\ delivered' = IF p = None THEN delivered ELSE Append(delivered, p)
        /\ UNCHANGED <<requeued, peeked>>
  /\ UNCHANGED <<nRequeued, pc, item, burst, stopped, arrived, rejected, sent, headers>>

-----------------------------------------------------------------------------
\* Run, as far as RunBegin: a nested call (from within Send) returns at once.
RunBegin ==
  IF pc = "idle"
  THEN pc' = "restart" /\ burst' = 0
  ELSE UNCHANGED <<pc, burst>>

RunEnd == pc' = "idle" /\ item' = None

\* The traffic control layer enqueues a packet and runs the root queue disc.  It may
\* do so from within Send (a device that loops packets back to the stack).
Send(p) ==
  /\ pc # "restart"
  /\ Enqueue(p)
  /\ RunBegin
  /\ UNCHANGED stopped

\* The device wakes a transmission queue, possibly from within Send: the wake
\* callback of the queue is Run.
Wake(q) ==
  /\ pc # "restart"
  /\ stopped[q]
  /\ stopped' = [stopped EXCEPT ![q] = FALSE]
  /\ RunBegin
  /\ UNCHANGED <<internal, requeued, peeked, nPackets, stats, item, history>>

Stop(q) ==
  /\ pc # "restart"
  /\ ~ stopped[q]
  /\ stopped' = [stopped EXCEPT ![q] = TRUE]
  /\ UNCHANGED <<internal, requeued, peeked, nPackets, stats, pc, item, burst,
                 history>>

\* Transmit hands p to the device, or keeps it.
TransmitSend(p) ==
  /\ pc' = "sending"
  /\ item' = p
  /\ burst' = burst + 1
  /\ sent' = sent \cup {p}
  /\ delivered' = Append(delivered, p)

Requeue(p) ==
  /\ requeued' = p
  /\ nRequeued' = nRequeued + 1

\* Mutant: any stopped queue blocks the requeued packet, not only its own.
BlockedByAnyQueue ==
  /\ pc = "restart"
  /\ \E q \in TxQueues : stopped[q]
  /\ requeued # None \/ Cardinality(TxQueues) = 1
  /\ RunEnd
  /\ UNCHANGED <<internal, requeued, peeked, nPackets, stats, burst, stopped,
                 history>>

\* Restart when DequeuePacket returns null because the device is stopped: the queue of
\* the requeued packet, or the only queue there is.
RestartBlocked ==
  /\ pc = "restart"
  /\ \/ requeued # None /\ IsStopped(requeued)
     \/ requeued = None /\ Cardinality(TxQueues) = 1 /\ \A q \in TxQueues : stopped[q]
  /\ RunEnd
  /\ UNCHANGED <<internal, requeued, peeked, nPackets, stats, burst, stopped,
                 history>>

\* Mutant: DequeuePacket adds the header to a requeued packet too.
RequeuedGetsHeader ==
  /\ pc = "restart"
  /\ TakeRequeued
  /\ ~ IsStopped(requeued)
  /\ TransmitSend(requeued)
  /\ headers' = [headers EXCEPT ![requeued] = @ + 1]
  /\ UNCHANGED <<nRequeued, stopped, arrived, rejected>>

\* Restart when the requeued packet can be sent.
RestartRequeued ==
  /\ pc = "restart"
  /\ TakeRequeued
  /\ ~ IsStopped(requeued)
  /\ TransmitSend(requeued)
  /\ UNCHANGED <<nRequeued, stopped, arrived, rejected, headers>>

\* Restart when DequeuePacket calls Dequeue: nothing is left, or the packet gets its
\* header and is sent, or it is requeued because its transmission queue is stopped.
RestartDequeue ==
  /\ pc = "restart"
  /\ requeued = None
  /\ Cardinality(TxQueues) > 1 \/ \A q \in TxQueues : ~ stopped[q]
  /\ \E D \in SUBSET internal, p \in internal \cup {None} :
       /\ DoDequeue(D, p, FALSE)
       /\ headers' = IF p = None THEN headers ELSE [headers EXCEPT ![p] = @ + 1]
       /\ \/ /\ p = None
             /\ RunEnd
             /\ UNCHANGED <<requeued, nRequeued, burst, sent, delivered>>
          \/ /\ p # None /\ IsStopped(p)
             /\ Requeue(p)
             /\ RunEnd
             /\ UNCHANGED <<burst, sent, delivered>>
          \/ /\ p # None /\ ~ IsStopped(p)
             /\ TransmitSend(p)
             /\ UNCHANGED <<requeued, nRequeued>>
  /\ UNCHANGED <<peeked, stopped, arrived, rejected>>

\* Mutant: the quota is tested before it is decremented.
QuotaTestedFirst == (Quota - burst + 1) % UintMod

\* What is left of the local variable quota of Run, a uint32_t.
QuotaLeft == (Quota - burst) % UintMod

\* Mutant: Transmit returns false while the last packet is still queued.
SendReturnsEarly ==
  /\ pc = "sending"
  /\ IF nPackets <= 1 \/ IsStopped(item) \/ QuotaLeft = 0
     THEN RunEnd
     ELSE pc' = "restart" /\ item' = None
  /\ UNCHANGED <<internal, requeued, peeked, nPackets, stats, burst, stopped,
                 history>>

\* Send returns: Run goes on unless Transmit returns false or the quota is used up.
SendReturns ==
  /\ pc = "sending"
  /\ IF nPackets = 0 \/ IsStopped(item) \/ QuotaLeft = 0
     THEN RunEnd
     ELSE pc' = "restart" /\ item' = None
  /\ UNCHANGED <<internal, requeued, peeked, nPackets, stats, burst, stopped,
                 history>>

Next ==
  \/ \E p \in Packets : Send(p)
  \/ \E q \in TxQueues : Wake(q) \/ Stop(q)
  \/ Peek
  \/ Dequeue
  \/ RestartBlocked
  \/ RestartRequeued
  \/ RestartDequeue
  \/ SendReturns

Spec == Init /\ [][Next]_vars

-----------------------------------------------------------------------------
(***************************************************************************)
(* Fairness: Run is a loop of one thread and goes on, NetDevice::Send      *)
(* returns, and a device that stopped a queue wakes it once it has         *)
(* transmitted, however often it stops it again.                           *)
(***************************************************************************)
Fairness ==
  /\ WF_vars(RestartBlocked \/ RestartRequeued \/ RestartDequeue)
  /\ WF_vars(SendReturns)
  /\ \A q \in TxQueues : SF_vars(Wake(q))

FairSpec == Spec /\ Fairness

-----------------------------------------------------------------------------
Held == IF requeued = None THEN {} ELSE {requeued}
InSequence(s) == {s[i] : i \in DOMAIN s}

\* Every variable has its type; m_nPackets, an unsigned counter, never wraps.
TypeOK ==
  /\ internal \subseteq Packets
  /\ requeued \in Packets \cup {None}
  /\ peeked \in BOOLEAN
  /\ nPackets \in Nat
  /\ {nReceived, nEnqueued, nDequeued, nDroppedBefore, nDroppedAfter, nRequeued} \subseteq Nat
  /\ pc \in {"idle", "restart", "sending"}
  /\ item \in Packets \cup {None}
  /\ burst \in Nat
  /\ stopped \in [TxQueues -> BOOLEAN]
  /\ arrived \subseteq Packets
  /\ rejected \subseteq Packets
  /\ dropped \subseteq Packets
  /\ extracted \in Seq(Packets)
  /\ delivered \in Seq(Packets)
  /\ sent \subseteq Packets
  /\ headers \in [Packets -> Nat]

\* No packet is lost, dropped twice, or both dropped and passed on, whatever the order of
\* Peek, Dequeue, Requeue and nested calls: it was refused, or dropped, or still is in an
\* internal queue, or was extracted by DoDequeue, and exactly one of these.
OnePlace ==
  /\ arrived = rejected \cup dropped \cup internal \cup InSequence(extracted)
  /\ rejected \cap (dropped \cup internal \cup InSequence(extracted)) = {}
  /\ dropped \cap (internal \cup InSequence(extracted)) = {}
  /\ internal \cap InSequence(extracted) = {}
  /\ \A i, j \in DOMAIN extracted : extracted[i] = extracted[j] => i = j

\* m_requeued, filled by Peek and by Requeue and emptied by Dequeue and DequeuePacket,
\* never reorders or loses packets: the packets leave in the order in which the
\* discipline extracted them, and the only one behind is the one in m_requeued.
RelayOrder ==
  extracted = IF requeued = None THEN delivered ELSE Append(delivered, requeued)

\* m_peeked is only ever set together with m_requeued.
PeekedIsHeld == peeked => requeued # None

\* The counters of what came in, of what left the queues, and of what is in them.
ReceivedExact ==
  /\ nReceived = Cardinality(arrived)
  /\ nDroppedBefore = Cardinality(rejected)
  /\ nReceived = nDroppedBefore + nEnqueued

DequeuedExact ==
  /\ nDroppedAfter = Cardinality(dropped)
  /\ nDequeued + PeekedPackets = nDroppedAfter + Len(extracted)
  /\ nRequeued <= Len(extracted)

QueuedExact ==
  /\ nEnqueued = nDequeued + nPackets
  /\ nPackets = Cardinality(internal) + PeekedPackets

\* The counters, moved by callbacks that m_peeked suspends, agree with the packets: the
\* identities of queue-disc.h hold, m_nPackets counts the packets in the queues and a
\* peeked one, the asserts in Enqueue and Dequeue never fail, and no packet is requeued
\* twice.
CountersExact == ReceivedExact /\ DequeuedExact /\ QueuedExact

\* Between runs, a packet that Requeue put aside waits for a stopped transmission queue,
\* whose wake-up runs the queue disc again.
HeldIsBlocked == pc = "idle" /\ requeued # None /\ ~ peeked => IsStopped(requeued)

\* No wake-up is lost to the m_running guard: between runs a backlog is left behind only
\* if the device still has a queue to wake, or the last Run sent its quota of packets.
NoStrandedBacklog ==
  pc = "idle" /\ internal \cup Held # {} => (\E q \in TxQueues : stopped[q]) \/ burst = Quota

\* SetQuota: the quota is the maximum number of packets a Run passes to the device.
QuotaBound == burst <= Quota

\* The network header is added to a packet before it is sent to the device, and once.
SentWithHeader == \A p \in sent : headers[p] = 1

\* Liveness, for a quota no Run uses up: every packet the queue disc holds
\* is eventually sent, dropped or handed to a caller.
EveryPacketLeaves ==
  \A p \in Packets : p \in internal \cup Held ~> p \notin internal \cup Held

-----------------------------------------------------------------------------
\* The queue disc is a relay of packets with a single place for the announced packet.
Relay == INSTANCE PacketRelay
  WITH waiting <- internal \cup Held,
       next <- requeued,
       out <- delivered,
       lost <- rejected \cup dropped

\* The queue disc implements the relay.
ImplementsRelay == Relay!Spec
=============================================================================

---------------------------- MODULE QueueDiscTree ---------------------------
(***************************************************************************)
(* A root queue disc whose only class is a PfifoFastQueueDisc              *)
(* (traffic-control/model/pifo-tree-queue-disc.cc) with its three internal *)
(* queues.  The root is a P4QueueDisc, or a disc that passes packets on    *)
(* unchanged and inherits DoPeek from QueueDisc.                           *)
(*                                                                         *)
(* Three layers count every packet, each of them told by the traces of the *)
(* one below.  Whoever holds a queue may flush it or remove packets from   *)
(* it at any time, and the sizes may be set before and after the discs are *)
(* initialized.                                                            *)
(***************************************************************************)
EXTENDS DiscStats

CONSTANTS
  Packets,      \* the items passed to the root, each of them once
  PriorityOf,   \* the priority in the SocketPriorityTag of the packet
  Limits        \* the values tried for the sizes, in packets

ASSUME TreeAssumption ==
  /\ IsFiniteSet(Packets) /\ None \notin Packets
  /\ PriorityOf \in [Packets -> Nat]
  /\ IsFiniteSet(Limits) /\ Limits \subseteq Nat

VARIABLES
  phase,        \* "config" until the discs are initialized, then "ready"
  p4,           \* the root is a P4QueueDisc
  parent,       \* the root queue disc
  child,        \* the PfifoFastQueueDisc
  bands,        \* its internal queues: bands[i + 1] is GetInternalQueue (i)
  tagged        \* the packets that still carry their SocketPriorityTag

\* History: the packets in the order in which the bands accepted them and in which they
\* left the bands to be sent, those that arrived, whether the limit was raised after the
\* initialization, and the highest limit there was since then.
VARIABLES accepted, extracted, arrived, raised, highest

history == <<accepted, extracted, arrived, raised, highest>>
vars == <<phase, p4, parent, child, bands, tagged, history>>

Sizes == {Size(unit, value) : unit \in {"packets", "bytes"}, value \in Limits}

Init ==
  /\ phase = "config"
  /\ p4 \in BOOLEAN
  /\ parent = NewDisc(Size("bytes", 1))
  /\ child \in {NewDisc(Size("packets", n)) : n \in Limits \ {0}}
  /\ bands = <<>>
  /\ tagged = Packets
  /\ accepted = <<>> /\ extracted = <<>> /\ arrived = {} /\ raised = FALSE /\ highest = 0

-----------------------------------------------------------------------------
\* Mutant: only the first internal queue is looked at.
FirstQueueSuffices(capacities) == Len(capacities) = 3 /\ capacities[1] >= child.maxSize.value

\* CheckConfig of the child, which looks at the first two of the three internal queues.
CheckConfig(capacities) ==
  /\ Len(capacities) = 3
  /\ \A i \in 1 .. 2 : capacities[i] >= child.maxSize.value

\* The internal queues that the user has added, or three that CheckConfig creates.
InternalQueues(added) ==
  IF added = <<>> THEN [i \in 1 .. 3 |-> child.maxSize.value] ELSE added

\* DoInitialize of the root, and through it of the child.
Initialize ==
  /\ phase = "config"
  /\ phase' = "ready"
  /\ \E added \in BoundedSeq(Limits \ {0}, 3) :
       LET capacities == InternalQueues(added)
       IN  /\ CheckConfig(capacities)
           /\ bands' = [i \in 1 .. 3 |-> NewQueue(capacities[i])]
  /\ highest' = child.maxSize.value
  /\ UNCHANGED <<p4, parent, child, tagged, accepted, extracted, arrived, raised>>

ChildSetMaxSize(size) ==
  /\ child' = SetOwnMaxSize(child, size, TRUE)
  /\ raised' = (raised \/ (phase = "ready" /\ child'.maxSize.value > child.maxSize.value))
  /\ highest' = IF phase = "ready" /\ child'.maxSize.value > highest
                THEN child'.maxSize.value ELSE highest

\* SetMaxSize of the child, or of the root, which passes it on and ignores the answer.
SetMaxSize(size) ==
  /\ \/ ChildSetMaxSize(size) /\ UNCHANGED parent
     \/ /\ AcceptsSize(parent, size, p4)
        /\ parent' = [parent EXCEPT !.maxSize = size]
        /\ ChildSetMaxSize(size)
  /\ UNCHANGED <<phase, p4, bands, tagged, accepted, extracted, arrived>>

-----------------------------------------------------------------------------
prio2band == <<1, 2, 2, 2, 1, 2, 0, 0, 1, 1, 1, 1, 1, 1, 1, 1>>
BandOf(priority) == prio2band[(priority % 16) + 1] + 1

\* P4QueueDisc replaces the packet of the item by a new one, which has no tags.
ReplacePacket(p) == IF p4 THEN tagged \ {p} ELSE tagged

\* The priority that DoEnqueue finds in the packet, 0 without a tag.
PriorityTag(p, carriers) == IF p \in carriers THEN PriorityOf[p] ELSE 0

\* A packet was refused, at either level, or is in band b.
Refused(p, c, fired) ==
  /\ child' = c
  /\ parent' = AddQueueDiscClass(Received(parent), fired).disc
  /\ UNCHANGED <<bands, accepted>>

\* DoEnqueue of the child, inside Enqueue of the root: the limit of the disc is tested
\* first, and the internal queue tests its own.
ChildEnqueue(p, b) ==
  LET received == Received(child)
      limited == DropBeforeEnqueue(received, p, LIMIT_EXCEEDED_DROP)
      queued == DoEnqueue(bands[b], p)
      counted == AddInternalQueue(received, queued.fired)
  IN  IF child.nPackets >= child.maxSize.value
      THEN Refused(p, limited.disc, limited.fired)
      ELSE /\ bands' = [bands EXCEPT ![b] = queued.queue]
           /\ child' = counted.disc
           /\ parent' = AddQueueDiscClass(Received(parent), counted.fired).disc
           /\ accepted' = IF queued.item = None THEN accepted ELSE Append(accepted, p)

\* The P4 program drops the packet.
ProgramDrop(p) ==
  /\ p4
  /\ parent' = DropBeforeEnqueue(Received(parent), p, P4_DROP).disc
  /\ UNCHANGED <<child, bands, accepted>>

Enqueue(p) ==
  /\ phase = "ready"
  /\ p \notin arrived
  /\ arrived' = arrived \cup {p}
  /\ tagged' = ReplacePacket(p)
  /\ ProgramDrop(p) \/ ChildEnqueue(p, BandOf(PriorityTag(p, tagged')))
  /\ UNCHANGED <<phase, p4, extracted, raised, highest>>

NonEmpty == {b \in 1 .. 3 : NPackets(bands[b]) > 0}

\* Mutant: the bands are searched from the last one.
LastBand == IF NonEmpty = {} THEN 1 ELSE Max(NonEmpty)

\* The band that DoDequeue and DoPeek of the child take the packet from.
ServedBand == IF NonEmpty = {} THEN 1 ELSE Min(NonEmpty)

\* DoDequeue of the child, inside DoDequeue of the root d.
Extract(d) ==
  LET b == ServedBand
      taken == DoDequeue(bands[b])
      counted == AddInternalQueue(child, taken.fired)
  IN  [item |-> taken.item, bands |-> [bands EXCEPT ![b] = taken.queue],
       child |-> counted.disc, parent |-> AddQueueDiscClass(d, counted.fired).disc]

\* The packet that DoDequeue extracts leaves the bands, and the root becomes d.
Extracted(x, d) ==
  /\ bands' = x.bands
  /\ child' = x.child
  /\ parent' = d
  /\ extracted' = IF x.item = None THEN extracted ELSE Append(extracted, x.item)
  /\ UNCHANGED <<phase, p4, tagged, accepted, arrived, raised, highest>>

\* Peek of the root: it extracts the next packet and keeps it, unless the root is a
\* P4QueueDisc, which asks the child and changes nothing.
Peek ==
  /\ phase = "ready" /\ ~ p4
  /\ parent.requeued = None
  /\ LET x == Extract([parent EXCEPT !.peeked = TRUE])
     IN  Extracted(x, [x.parent EXCEPT !.requeued = x.item, !.peeked = (x.item # None)])

\* Dequeue of the root, the packet in m_requeued first.
Dequeue ==
  /\ phase = "ready"
  /\ \/ /\ parent.requeued # None
        /\ parent' = TakeRequeued(parent).disc
        /\ UNCHANGED <<phase, p4, child, bands, tagged, history>>
     \/ /\ parent.requeued = None
        /\ LET x == Extract(parent) IN Extracted(x, x.parent)

\* Transmit finds the transmission queue of the dequeued packet stopped.
Requeue ==
  /\ phase = "ready"
  /\ parent.requeued = None /\ NonEmpty # {}
  /\ LET x == Extract(parent)
     IN  Extracted(x, [x.parent EXCEPT !.requeued = x.item, !.nRequeued = @ + 1])

\* Remove, called on an internal queue: what it leaves of the queue and of the discs.
Removal(s) ==
  LET o == DoRemove(s.queue)
      counted == AddInternalQueue(s.child, o.fired)
  IN  [queue |-> o.queue, child |-> counted.disc,
       parent |-> AddQueueDiscClass(s.parent, counted.fired).disc]

\* Remove, called n times on internal queue b.
RemovePackets(b, n) ==
  LET left[i \in 0 .. n] ==
        IF i = 0 THEN [queue |-> bands[b], child |-> child, parent |-> parent]
        ELSE Removal(left[i - 1])
  IN  /\ phase = "ready"
      /\ b \in NonEmpty
      /\ bands' = [bands EXCEPT ![b] = left[n].queue]
      /\ child' = left[n].child
      /\ parent' = left[n].parent
      /\ UNCHANGED <<phase, p4, tagged, accepted, extracted, arrived, raised, highest>>

RemovePacket(b) == RemovePackets(b, 1)

\* Remove until the queue is empty.
FlushQueue(b) == RemovePackets(b, NPackets(bands[b]))

Next ==
  \/ Initialize
  \/ \E size \in Sizes : SetMaxSize(size)
  \/ \E p \in Packets : Enqueue(p)
  \/ Peek
  \/ Dequeue
  \/ Requeue
  \/ \E b \in 1 .. 3 : RemovePacket(b) \/ FlushQueue(b)

Spec == Init /\ [][Next]_vars

-----------------------------------------------------------------------------
DiscType(d) ==
  /\ {d.nPackets, d.nReceived, d.nEnqueued, d.nDequeued, d.nRequeued} \subseteq Nat
  /\ d.droppedBefore \in [Reasons -> Nat] /\ d.droppedAfter \in [Reasons -> Nat]
  /\ d.requeued \in Packets \cup {None} /\ d.peeked \in BOOLEAN
  /\ d.maxSize \in [unit : {"packets", "bytes"}, value : Nat]

\* Every variable has its type: no counter of any layer wraps below zero.
TypeOK ==
  /\ phase \in {"config", "ready"} /\ p4 \in BOOLEAN
  /\ DiscType(parent) /\ DiscType(child)
  /\ Len(bands) = IF phase = "ready" THEN 3 ELSE 0
  /\ \A b \in DOMAIN bands :
       bands[b].packets \in Seq(Packets) /\ NPackets(bands[b]) <= bands[b].maxSize
  /\ (tagged \cup arrived) \subseteq Packets /\ raised \in BOOLEAN /\ highest \in Nat
  /\ {accepted, extracted} \subseteq Seq(Packets)

InBands == UNION {ToSet(bands[b].packets) : b \in DOMAIN bands}
SumBands(f) == SumOver(f, DOMAIN bands)

\* The assertions of Enqueue, Dequeue and GetStats, for a disc.
Balanced(d) ==
  /\ d.nReceived = DroppedBefore(d) + d.nEnqueued
  /\ d.nEnqueued = d.nDequeued + d.nPackets

\* What the lower layer counts, the upper layer counts once more, under the prefixed
\* reason.
SameDrops ==
  \A r \in OwnReasons :
    GetNDroppedPackets(parent, CHILD_QUEUE_DISC_DROP \o r) = GetNDroppedPackets(child, r)

QueueDrops ==
  /\ child.droppedBefore[INTERNAL_QUEUE_DROP] = SumBands([b \in DOMAIN bands |-> bands[b].droppedBefore])
  /\ child.droppedAfter[INTERNAL_QUEUE_DROP] = SumBands([b \in DOMAIN bands |-> bands[b].droppedAfter])

\* The three layers agree on every packet, whichever layer drops it and for whichever
\* reason, while a peek of the root suspends part of its accounting and queues are
\* emptied behind the back of the discs: the assertions hold at both discs, m_nPackets
\* is what is below, a peeked packet included, the drops by reason are those of the layer
\* below, and GetStats counts the packets sent.
LayersAgree ==
  /\ Balanced(parent) /\ Balanced(child)
  /\ child.nPackets = Cardinality(InBands)
  /\ parent.nPackets = child.nPackets + (IF parent.peeked THEN 1 ELSE 0)
  /\ parent.nReceived = child.nReceived + GetNDroppedPackets(parent, P4_DROP)
  /\ SameDrops /\ QueueDrops
  /\ ~ parent.peeked =>
       GetStatsSent(parent) = Len(extracted) - (IF parent.requeued # None THEN 1 ELSE 0)

\* A packet that has passed the limit of the disc is dropped by an internal queue only if
\* the queue is smaller than a limit that was in force since the initialization.  To the
\* two queues that CheckConfig looks at this happens only after the limit was raised, which
\* nothing checks, but to the third one, which it leaves out, under any limit.
InternalQueuesSuffice ==
  \A b \in DOMAIN bands : bands[b].droppedBefore > 0 =>
    /\ bands[b].maxSize < highest
    /\ b = 3 \/ raised

Position(s, p) == CHOOSE i \in DOMAIN s : s[i] = p
Before(s, p, q) == Position(s, p) < Position(s, q)

BandOfPacket(p) == BandOf(IF p4 THEN 0 ELSE PriorityOf[p])

Sooner(p, q) ==
  \/ BandOfPacket(p) < BandOfPacket(q)
  \/ BandOfPacket(p) = BandOfPacket(q) /\ Before(accepted, p, q)

\* The packet that leaves the bands, for a peek, to be sent or to be requeued, is of a more
\* urgent band than every other packet that waits, or was accepted before it: a packet that
\* arrives late overtakes those of the bands below.  Below a P4QueueDisc all packets are of
\* priority 0, whatever their tags said, and leave first in, first out.
UrgentFirst ==
  [][\A p \in Packets : extracted' = Append(extracted, p) =>
       p \in InBands /\ \A q \in InBands \ {p} : Sooner(p, q)]_vars
=============================================================================

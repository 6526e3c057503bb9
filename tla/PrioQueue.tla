----------------------------- MODULE PrioQueue -----------------------------
(***************************************************************************)
(* The priority queue of packets (network/utils/prio-queue.h), a           *)
(* std::priority_queue ordered by ItemComp, and the counters it keeps      *)
(* beside it.  The heap is the one of libstdc++: ItemComp is not a strict  *)
(* order (it is >=), so that what the heap does with it counts.            *)
(***************************************************************************)
EXTENDS Sequences, FiniteSets, SequencesExt, Sums

CONSTANTS
  Packets,
  Priorities,   \* the values of GetPriority ()
  Bytes,        \* GetSize (), for every packet
  InBytes,      \* whether the limit is in bytes or in packets
  Limit         \* GetMaxSize ()

ASSUME PrioQueueAssumption ==
  /\ Priorities \subseteq Nat /\ 0 \in Priorities
  /\ Bytes \in [Packets -> Nat]
  /\ InBytes \in BOOLEAN /\ Limit \in Nat

VARIABLES
  items,      \* m_items, the array of the heap
  priority,   \* item->GetPriority ()
  nPackets, nBytes,
  nReceived, nDroppedBefore, nDroppedAfter,   \* nTotalReceivedPackets and so on
  offered,    \* history: the packets given to Enqueue
  left        \* history: the packets that left the heap, in order

counters == <<nPackets, nBytes, nReceived, nDroppedBefore, nDroppedAfter>>
prioVars == <<items, priority, counters, offered, left>>

-----------------------------------------------------------------------------
\* Mutant: the comparison of a max-heap.
ItemCompReversed(l, r, prio) == prio[l] <= prio[r]

ItemComp(l, r, prio) == prio[l] >= prio[r]

\* A heap with a hole at an index (from 0, as in the array), to be filled by v.
Holes == Seq(Packets) \X Nat
Fill(s, v) == [s[1] EXCEPT ![s[2] + 1] = v]

\* The hole changes places with the element at another index.
MoveHole(s, to) == <<[s[1] EXCEPT ![s[2] + 1] = s[1][to + 1]], to>>

\* One round of the loop of std::__push_heap: the hole moves up, if v may precede its parent.
Up(v, prio) ==
  [s \in Holes |->
     LET parent == (s[2] - 1) \div 2
     IN  IF s[2] > 0 /\ ItemComp(s[1][parent + 1], v, prio) THEN MoveHole(s, parent) ELSE s]

SiftUp(s, v, prio) == Fill(Iterate(Up(v, prio), s, s[2]), v)

\* One round of that of std::__adjust_heap: the hole moves down, to a leaf in the end.
Down(prio) ==
  [s \in Holes |->
     LET n == Len(s[1])
         right == 2 * s[2] + 2
         child == IF right < n /\ ~ ItemComp(s[1][right + 1], s[1][right], prio)
                  THEN right ELSE right - 1
     IN  IF child < n THEN MoveHole(s, child) ELSE s]

\* v moves up from the leaf.
SiftDown(s, v, prio) == SiftUp(Iterate(Down(prio), s, Len(s[1])), v, prio)

HeapPush(heap, v, prio) == SiftUp(<<Append(heap, v), Len(heap)>>, v, prio)

HeapPop(heap, prio) ==
  IF Len(heap) = 1 THEN <<>> ELSE SiftDown(<<Front(heap), 0>>, Last(heap), prio)

\* One packet more is popped of a heap, after those of a sequence.
PopNext(prio) ==
  [s \in Seq(Packets) \X Seq(Packets) |->
     IF s[1] = <<>> THEN s ELSE <<HeapPop(s[1], prio), Append(s[2], Head(s[1]))>>]

\* The packets of the heap in the order in which it gives them up.
PopAll(heap, prio) == Iterate(PopNext(prio), <<heap, <<>>>>, Len(heap))[2]

-----------------------------------------------------------------------------
Init ==
  /\ items = <<>>
  /\ priority = [p \in Packets |-> 0]
  /\ nPackets = 0 /\ nBytes = 0
  /\ nReceived = 0 /\ nDroppedBefore = 0 /\ nDroppedAfter = 0
  /\ offered = {}
  /\ left = <<>>

\* GetCurrentSize () + item > GetMaxSize ()
Exceeds(p) == IF InBytes THEN nBytes + Bytes[p] > Limit ELSE nPackets + 1 > Limit

Enqueue(p, prio) ==
  /\ offered' = offered \cup {p}
  /\ priority' = [priority EXCEPT ![p] = prio]
  /\ IF Exceeds(p)
     THEN /\ nDroppedBefore' = nDroppedBefore + 1
          /\ UNCHANGED <<items, nPackets, nBytes, nReceived>>
     ELSE /\ items' = HeapPush(items, p, priority')
          /\ nBytes' = nBytes + Bytes[p]
          /\ nPackets' = nPackets + 1
          /\ nReceived' = nReceived + 1
          /\ UNCHANGED nDroppedBefore
  /\ UNCHANGED <<nDroppedAfter, left>>

\* Mutant: the packet is taken off the count twice.
PopTopCountsTwice ==
  /\ nPackets > 0
  /\ items' = HeapPop(items, priority)
  /\ left' = Append(left, Head(items))
  /\ nBytes' = nBytes - Bytes[Head(items)]
  /\ nPackets' = nPackets - 2

\* What Dequeue and DoRemove (Remove ()) have in common; both do nothing if nPackets is 0.
PopTop ==
  /\ nPackets > 0
  /\ items' = HeapPop(items, priority)
  /\ left' = Append(left, Head(items))
  /\ nBytes' = nBytes - Bytes[Head(items)]
  /\ nPackets' = nPackets - 1

Dequeue ==
  /\ PopTop
  /\ UNCHANGED <<priority, nReceived, nDroppedBefore, nDroppedAfter, offered>>

DoRemove ==
  /\ PopTop
  /\ nDroppedAfter' = nDroppedAfter + 1
  /\ UNCHANGED <<priority, nReceived, nDroppedBefore, offered>>

\* Mutant: the packets are removed in the order of the array.
FlushInArrayOrder ==
  /\ nPackets > 0
  /\ items' = <<>>
  /\ left' = left \o items
  /\ nBytes' = 0 /\ nPackets' = 0
  /\ nDroppedAfter' = nDroppedAfter + Len(items)
  /\ UNCHANGED <<priority, nReceived, nDroppedBefore, offered>>

\* Remove until the queue is empty.
Flush ==
  /\ nPackets > 0
  /\ items' = <<>>
  /\ left' = left \o PopAll(items, priority)
  /\ nBytes' = nBytes - SumOver(Bytes, ToSet(items))
  /\ nPackets' = nPackets - Len(items)
  /\ nDroppedAfter' = nDroppedAfter + Len(items)
  /\ UNCHANGED <<priority, nReceived, nDroppedBefore, offered>>

\* A packet is offered once, with a priority of its owner's choice.
Offer(p, prio) == p \notin offered /\ Enqueue(p, prio)

Next ==
  \/ \E p \in Packets, prio \in Priorities : Offer(p, prio)
  \/ Dequeue
  \/ DoRemove
  \/ Flush

Spec == Init /\ [][Next]_prioVars

-----------------------------------------------------------------------------
\* The counters that the queue keeps beside the array agree with it and with each other,
\* so that the early return on nPackets = 0 never meets a non-empty heap.
QueueCounters ==
  /\ nPackets = Len(items)
  /\ nBytes = SumOver(Bytes, ToSet(items))
  /\ nReceived = nPackets + Len(left)
  /\ Cardinality(offered) = nReceived + nDroppedBefore
  /\ nDroppedAfter <= Len(left)

\* The queue never holds more than its limit.
WithinLimit == IF InBytes THEN nBytes <= Limit ELSE nPackets <= Limit

\* Every variable has its type, the counters are those of the array and the limit holds.
TypeOK ==
  /\ items \in Seq(Packets)
  /\ priority \in [Packets -> Priorities]
  /\ {nPackets, nBytes, nReceived, nDroppedBefore, nDroppedAfter} \subseteq Nat
  /\ offered \subseteq Packets
  /\ left \in Seq(Packets)
  /\ QueueCounters /\ WithinLimit

\* No element of the array comes before its parent: std::priority_queue keeps its heap
\* although ItemComp holds in both directions between equal priorities.
HeapOrdered ==
  \A i \in 2 .. Len(items) : priority[items[i \div 2]] <= priority[items[i]]

\* The queue implements a PIFO.
PifoQueue == INSTANCE Pifo WITH Ranks <- Priorities, held <- ToSet(items), rank <- priority

ImplementsPifo == PifoQueue!Spec
=============================================================================

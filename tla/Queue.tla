-------------------------------- MODULE Queue -------------------------------
(***************************************************************************)
(* The base class of the packet queues (network/utils/queue.h), in packet  *)
(* mode, used as a drop-tail queue: packets enter at the tail and leave at *)
(* the head.                                                               *)
(*                                                                         *)
(* The state of a queue is a record, and an operation maps it to the       *)
(* record it leaves, the packet it returns and the traces it fires, in the *)
(* order in which it fires them.                                           *)
(***************************************************************************)
EXTENDS Integers, Sequences, SequencesExt

CONSTANT None   \* a null Ptr<Item>

\* A traced callback: the name of the trace, its packet, and the reason of a drop, which
\* the traces of a Queue do not tell.
Trace(name, item, reason) == [trace |-> name, item |-> item, reason |-> reason]
NoReason == <<>>

\* A new queue.
NewQueue(maxSize) ==
  [packets |-> <<>>, maxSize |-> maxSize, received |-> 0, droppedBefore |-> 0,
   droppedAfter |-> 0]

Outcome(q, item, fired) == [queue |-> q, item |-> item, fired |-> fired]

NPackets(q) == Len(q.packets)

\* Mutant: a full queue takes one more packet.
TakesOneMore(q) == NPackets(q) > q.maxSize

\* GetCurrentSize () + item > GetMaxSize ()
IsFull(q) == NPackets(q) + 1 > q.maxSize

DropFull(q, p) ==
  Outcome([q EXCEPT !.droppedBefore = @ + 1], None, <<Trace("DropBeforeEnqueue", p, NoReason)>>)

Insert(q, p) ==
  Outcome([q EXCEPT !.packets = Append(@, p), !.received = @ + 1], p,
          <<Trace("Enqueue", p, NoReason)>>)

DoEnqueue(q, p) == IF IsFull(q) THEN DropFull(q, p) ELSE Insert(q, p)

DoDequeue(q) ==
  IF NPackets(q) = 0
  THEN Outcome(q, None, <<>>)
  ELSE Outcome([q EXCEPT !.packets = Tail(@)], Head(q.packets),
               <<Trace("Dequeue", Head(q.packets), NoReason)>>)

\* DropAfterDequeue: what the drop of a packet leaves of the outcome of its dequeueing.
DropDequeued(o) ==
  Outcome([o.queue EXCEPT !.droppedAfter = @ + 1], o.item,
          Append(o.fired, Trace("DropAfterDequeue", o.item, NoReason)))

\* A removed packet is dequeued first and then dropped.
DoRemove(q) == IF NPackets(q) = 0 THEN DoDequeue(q) ELSE DropDequeued(DoDequeue(q))
=============================================================================

------------------------------ MODULE DiscStats -----------------------------
(***************************************************************************)
(* The accounting of a queue disc (traffic-control/model/queue-disc.cc) as *)
(* the sink of the traces of its internal queues and of its child: the     *)
(* counters, the drops by reason, and the traces that it fires in turn,    *)
(* which its own parent is a sink of.  As in Queue, a disc is a record and *)
(* an operation maps it to an effect: the record it leaves and the traces  *)
(* it fires.                                                               *)
(***************************************************************************)
EXTENDS Queue, Sums

\* The reasons of the drops.  A drop of a child has the reason of the child with a prefix,
\* CHILD_QUEUE_DISC_DROP.
INTERNAL_QUEUE_DROP == <<"internal">>
CHILD_QUEUE_DISC_DROP == <<"child">>
LIMIT_EXCEEDED_DROP == <<"limit">>
P4_DROP == <<"p4">>

OwnReasons == {INTERNAL_QUEUE_DROP, LIMIT_EXCEEDED_DROP, P4_DROP}
Reasons == OwnReasons \cup {CHILD_QUEUE_DISC_DROP \o r : r \in OwnReasons}
NoDrops == [r \in Reasons |-> 0]

\* A QueueSize.
Size(unit, value) == [unit |-> unit, value |-> value]

NewDisc(maxSize) ==
  [nPackets |-> 0, nReceived |-> 0, nEnqueued |-> 0, nDequeued |-> 0, nRequeued |-> 0,
   droppedBefore |-> NoDrops, droppedAfter |-> NoDrops,
   requeued |-> None, peeked |-> FALSE, maxSize |-> maxSize]

Effect(d, fired) == [disc |-> d, fired |-> fired]

Received(d) == [d EXCEPT !.nReceived = @ + 1]

PacketEnqueued(d, p) ==
  Effect([d EXCEPT !.nPackets = @ + 1, !.nEnqueued = @ + 1],
         <<Trace("Enqueue", p, NoReason)>>)

\* A packet that a peek extracts is not dequeued yet.
PacketDequeued(d, p) ==
  IF d.peeked
  THEN Effect(d, <<>>)
  ELSE Effect([d EXCEPT !.nPackets = @ - 1, !.nDequeued = @ + 1],
              <<Trace("Dequeue", p, NoReason)>>)

DropBeforeEnqueue(d, p, reason) ==
  Effect([d EXCEPT !.droppedBefore[reason] = @ + 1],
         <<Trace("DropBeforeEnqueue", p, reason)>>)

\* Mutant: m_peeked is not restored after a drop in the context of a peek.
DropEndsPeek(d, p, reason) ==
  LET dropped == [d EXCEPT !.droppedAfter[reason] = @ + 1]
      dequeued == PacketDequeued([dropped EXCEPT !.peeked = FALSE], p)
      fired == <<Trace("DropAfterDequeue", p, reason)>>
  IN  IF d.peeked
      THEN Effect(dequeued.disc, dequeued.fired \o fired)
      ELSE Effect(dropped, fired)

\* In the context of a peek the packet has not been dequeued yet: this is done first, with
\* m_peeked lifted for the time of the call.
DropAfterDequeue(d, p, reason) ==
  LET dropped == [d EXCEPT !.droppedAfter[reason] = @ + 1]
      dequeued == PacketDequeued([dropped EXCEPT !.peeked = FALSE], p)
      fired == <<Trace("DropAfterDequeue", p, reason)>>
  IN  IF d.peeked
      THEN Effect([dequeued.disc EXCEPT !.peeked = TRUE], dequeued.fired \o fired)
      ELSE Effect(dropped, fired)

\* What the constructor and AddInternalQueue or AddQueueDiscClass connect to the trace t;
\* prefix names where the trace comes from.
Sink(d, t, prefix) ==
  CASE t.trace = "Enqueue" -> PacketEnqueued(d, t.item)
    [] t.trace = "Dequeue" -> PacketDequeued(d, t.item)
    [] t.trace = "DropBeforeEnqueue" -> DropBeforeEnqueue(d, t.item, prefix \o t.reason)
    [] t.trace = "DropAfterDequeue" -> DropAfterDequeue(d, t.item, prefix \o t.reason)

\* An effect, and then the one of another trace on the disc that it leaves.
AndSink(e, t, prefix) ==
  LET told == Sink(e.disc, t, prefix) IN Effect(told.disc, e.fired \o told.fired)

Sinks(d, fired, prefix) ==
  LET told[n \in 0 .. Len(fired)] ==
        IF n = 0 THEN Effect(d, <<>>) ELSE AndSink(told[n - 1], fired[n], prefix)
  IN  told[Len(fired)]

AddInternalQueue(d, fired) == Sinks(d, fired, INTERNAL_QUEUE_DROP)
AddQueueDiscClass(d, fired) == Sinks(d, fired, CHILD_QUEUE_DISC_DROP)

\* The packet in m_requeued is taken: if it was peeked, it is dequeued now.
TakeRequeued(d) ==
  IF d.peeked
  THEN PacketDequeued([d EXCEPT !.requeued = None, !.peeked = FALSE], d.requeued)
  ELSE Effect([d EXCEPT !.requeued = None], <<>>)

\* SetMaxSize for a disc without a child; fixed tells whether the mode may not change.
AcceptsSize(d, size, fixed) == size.value > 0 /\ (fixed => size.unit = d.maxSize.unit)

SetOwnMaxSize(d, size, fixed) ==
  IF AcceptsSize(d, size, fixed) THEN [d EXCEPT !.maxSize = size] ELSE d

\* Stats::GetNDroppedPackets
GetNDroppedPackets(d, reason) == d.droppedBefore[reason] + d.droppedAfter[reason]

DroppedBefore(d) == SumOver(d.droppedBefore, Reasons)
DroppedAfter(d) == SumOver(d.droppedAfter, Reasons)

\* nTotalSentPackets as GetStats computes it.
GetStatsSent(d) ==
  d.nDequeued - (IF d.requeued # None THEN 1 ELSE 0) - DroppedAfter(d)
=============================================================================

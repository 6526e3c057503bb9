---------------------------- MODULE P4QueueDisc ----------------------------
(***************************************************************************)
(* The queue disc whose decisions are made by a P4 program                 *)
(* (traffic-control/model/p4-queue-disc.cc), as the root of a device with  *)
(* one transmission queue and with a FIFO queue disc as its child.         *)
(*                                                                         *)
(* Every arrival, timer tick, drop, enqueue and dequeue is a run of the    *)
(* P4 pipeline.  Pipeline is a parameter: given the registers of the       *)
(* program and the metadata of a run it returns the set of its outcomes.   *)
(* Simulated time is discrete; a double is a multiple of 1 / Scale.        *)
(***************************************************************************)
EXTENDS Sequences, FiniteSets, SequencesExt, Sums

CONSTANTS
  Packets,         \* the items that may arrive, each of them once
  SizeOf,          \* item->GetSize () on arrival
  FlowOf,          \* item->Hash ()
  MaxSize,         \* GetMaxSize (), in bytes
  QSizeBits,       \* m_qSizeBits
  TimeReference,   \* m_timeReference, 0 when timer events are disabled
  DropEvents, EnqEvents, DeqEvents,  \* m_enDropEvents, m_enEnqEvents, m_enDeqEvents
  DqThreshold,     \* m_dqThreshold
  Ptc,             \* m_ptc, packets per unit of time
  QwInverse,       \* 1 / m_qW
  Scale,           \* fixed-point resolution of m_qAvg and m_avgDqRate
  MaxTime,         \* bound of the simulated time
  Pipeline(_, _),  \* SimpleP4Pipe::process_pipeline
  InitRegisters    \* the registers before the first run, of every program to be run

ASSUME P4Assumption ==
  /\ IsFiniteSet(Packets) /\ Packets # {}
  /\ SizeOf \in [Packets -> Nat \ {0}] /\ FlowOf \in [Packets -> Nat]
  /\ {MaxSize, Scale, QwInverse, DqThreshold} \subseteq Nat \ {0}
  /\ {QSizeBits, TimeReference, Ptc, MaxTime} \subseteq Nat
  /\ {DropEvents, EnqEvents, DeqEvents} \subseteq BOOLEAN

VARIABLES
  now,            \* Simulator::Now ()
  registers,      \* the P4 program that was loaded, and its registers
  p4Vars,         \* m_p4Var1 .. m_p4Var4
  queue,          \* the packets in the child queue disc
  nBytes,         \* m_nBytes
  size,           \* item->GetSize ()
  stamp,          \* item->GetTimeStamp ()
  received, droppedBytes, enqueued,  \* nTotalReceivedBytes and so on
  idle, idleTime, qAvg, qLatency,
  inMeasurement, dqCount, dqStart, avgDqRate,
  timerEvent,     \* when m_timerEvent expires
  running,        \* m_running: the root queue disc is being run
  stopped,        \* the transmission queue is stopped
  arrived         \* history: the packets that have arrived

estimates == <<idle, idleTime, qAvg>>
measurement == <<inMeasurement, dqCount, dqStart, avgDqRate>>
bytes == <<nBytes, received, droppedBytes, enqueued>>
vars == <<now, registers, p4Vars, queue, size, stamp, bytes, estimates, qLatency,
          measurement, timerEvent, running, stopped, arrived>>

NoTimer == MaxTime + 1
DqCountInvalid == -1

\* CheckConfig schedules the first timer event, if timer events are enabled.
FirstTimerEvent == IF TimeReference = 0 THEN NoTimer ELSE TimeReference

Init ==
  /\ now = 0
  /\ registers \in InitRegisters
  /\ p4Vars = <<0, 0, 0, 0>>
  /\ queue = <<>> /\ nBytes = 0
  /\ size = SizeOf
  /\ stamp = [p \in Packets |-> 0]
  /\ received = 0 /\ droppedBytes = 0 /\ enqueued = 0
  /\ idle = TRUE /\ idleTime = 0 /\ qAvg = 0 /\ qLatency = 0
  /\ inMeasurement = FALSE /\ dqCount = DqCountInvalid /\ dqStart = 0 /\ avgDqRate = 0
  /\ timerEvent = FirstTimerEvent
  /\ running = FALSE
  /\ stopped = FALSE
  /\ arrived = {}

-----------------------------------------------------------------------------
\* (1 << m_qSizeBits) - 1
FullScale == 2^QSizeBits - 1

\* std::round of n / d, for n, d >= 0.
Rounded(n, d) == (2 * n + d) \div (2 * d)

\* From [0, MaxSize] to [0, FullScale]; the argument is a multiple of 1 / s.
MapSize(x, s) == Rounded(x * FullScale, s * MaxSize)

\* The moving average after m samples of nQueued bytes, all but one of them missed.
Estimator(nQueued, m, avg) ==
  (avg * Power(QwInverse - 1, m)) \div Power(QwInverse, m) + (nQueued * Scale) \div QwInverse

(***************************************************************************)
(* The metadata of a run: its trigger, the state of the queue, and the     *)
(* packet that triggered it.  drop_qdepth, enq_qdepth and deq_qdepth of    *)
(* the code are the field qdepth of the run with that trigger, and so on;  *)
(* only arrivals and timer events see the latency, the dequeue rate and    *)
(* the idle time.  AndFields(f, g) is the record with the fields of both.  *)
(***************************************************************************)
AndFields(f, g) ==
  [x \in (DOMAIN f) \cup (DOMAIN g) |-> IF x \in DOMAIN f THEN f[x] ELSE g[x]]

QueueMetadata(trigger, n, avg) ==
  [trigger |-> trigger,
   qdepth |-> MapSize(n, 1), qdepth_bytes |-> n,
   avg_qdepth |-> MapSize(avg, Scale), avg_qdepth_bytes |-> Rounded(avg, Scale),
   timestamp |-> now, trace |-> p4Vars]

PacketMetadata(p, len) ==
  [pkt_len |-> MapSize(len, 1), pkt_len_bytes |-> len, flow_hash |-> FlowOf[p]]

NoPacketMetadata == [pkt_len |-> 0, pkt_len_bytes |-> 0, flow_hash |-> 0]

DelayMetadata ==
  [idle_time |-> idleTime, qlatency |-> qLatency,
   avg_deq_rate_bytes |-> Rounded(avgDqRate, Scale)]

IngressMetadata(p, avg) ==
  AndFields(QueueMetadata("ingress", nBytes, avg),
            AndFields(PacketMetadata(p, size[p]), DelayMetadata))

TimerMetadata ==
  AndFields(QueueMetadata("timer", nBytes, qAvg), AndFields(NoPacketMetadata, DelayMetadata))

EventMetadata(trigger, p, len, n, avg) ==
  AndFields(QueueMetadata(trigger, n, avg), PacketMetadata(p, len))

\* An outcome of a run has the registers and trace variables it leaves, whether it says
\* drop, and the length of the packet it deparses; only that of an arrival heeds the
\* latter two.
NoRun == [registers |-> registers, trace |-> p4Vars]

\* The outcomes of a run that follows the run r, if CheckConfig has connected its event.
EventRun(enabled, r, m) ==
  IF enabled THEN Pipeline(r.registers, [m EXCEPT !.trace = r.trace]) ELSE {r}

SetOutputs(r) == registers' = r.registers /\ p4Vars' = r.trace

-----------------------------------------------------------------------------
\* DropBeforeEnqueue, and the drop event when it is enabled.
Drop(p, len, ingress, avg) ==
  /\ \E r \in EventRun(DropEvents, ingress, EventMetadata("drop", p, len, nBytes, avg)) :
       SetOutputs(r)
  /\ droppedBytes' = droppedBytes + len
  /\ UNCHANGED <<queue, nBytes, enqueued>>

\* The child enqueues p; its trace fires PacketEnqueued and then the enqueue event.
ChildEnqueue(p, len, ingress, avg) ==
  /\ nBytes + len <= MaxSize
  /\ queue' = Append(queue, p)
  /\ nBytes' = nBytes + len
  /\ enqueued' = enqueued + len
  /\ \E r \in EventRun(EnqEvents, ingress, EventMetadata("enq", p, len, nBytes + len, avg)) :
       SetOutputs(r)
  /\ UNCHANGED droppedBytes

\* Mutant: DoEnqueue calls DropBeforeEnqueue for what the child has dropped.
ChildDropTwice(p, len, ingress, avg) ==
  /\ nBytes + len > MaxSize
  /\ \E r \in EventRun(DropEvents, ingress, EventMetadata("drop", p, len, nBytes, avg)) :
       SetOutputs(r)
  /\ droppedBytes' = droppedBytes + 2 * len
  /\ UNCHANGED <<queue, nBytes, enqueued>>

\* The child drops p, and its drop is a drop of the parent.
ChildDrop(p, len, ingress, avg) ==
  nBytes + len > MaxSize /\ Drop(p, len, ingress, avg)

\* The sample of an arrival, and those of the packets that the idle period missed.
Samples == (IF idle THEN Ptc * (now - idleTime) ELSE 0) + 1

\* Mutant: an arrival does not end the idle period.
IdlePersists(p) ==
  LET avg == Estimator(nBytes, Samples, qAvg)
  IN  /\ qAvg' = avg
      /\ UNCHANGED idle
      /\ \E r \in Pipeline(registers, IngressMetadata(p, avg)) :
           /\ size' = [size EXCEPT ![p] = r.len]
           /\ \/ r.drop /\ UNCHANGED stamp /\ Drop(p, r.len, r, avg)
              \/ /\ ~ r.drop
                 /\ stamp' = [stamp EXCEPT ![p] = now]
                 /\ ChildEnqueue(p, r.len, r, avg) \/ ChildDrop(p, r.len, r, avg)

DoEnqueue(p) ==
  LET avg == Estimator(nBytes, Samples, qAvg)
  IN  /\ qAvg' = avg
      /\ idle' = FALSE
      /\ \E r \in Pipeline(registers, IngressMetadata(p, avg)) :
           /\ size' = [size EXCEPT ![p] = r.len]
           /\ \/ r.drop /\ UNCHANGED stamp /\ Drop(p, r.len, r, avg)
              \/ /\ ~ r.drop
                 /\ stamp' = [stamp EXCEPT ![p] = now]
                 /\ ChildEnqueue(p, r.len, r, avg) \/ ChildDrop(p, r.len, r, avg)

\* TrafficControlLayer::Send: the packet is enqueued and the queue disc is run.
Send(p) ==
  /\ ~ running
  /\ p \notin arrived
  /\ arrived' = arrived \cup {p}
  /\ received' = received + size[p]
  /\ DoEnqueue(p)
  /\ running' = TRUE
  /\ UNCHANGED <<now, idleTime, qLatency, measurement, timerEvent, stopped>>

\* The end of a measurement cycle, and the start of the next if enough data is left.
EndCycle(count, left, since) ==
  /\ inMeasurement' = (left > DqThreshold)
  /\ dqCount' = 0
  /\ dqStart' = IF left > DqThreshold THEN now ELSE since

\* The average of the dequeue rate after a cycle of count bytes.
AverageRate(count, since) ==
  LET rate == (count * Scale) \div (now - since)
  IN  IF now = since THEN avgDqRate
      ELSE IF avgDqRate = 0 THEN rate
      ELSE (avgDqRate + rate) \div 2

\* The dequeue rate is measured over cycles of at least DqThreshold bytes; left is what
\* the child still holds.
MeasureRate(len, left) ==
  LET start == ~ inMeasurement /\ left >= DqThreshold
      count == (IF start THEN 0 ELSE dqCount) + len
      since == IF start THEN now ELSE dqStart
  IN  \/ /\ ~ (inMeasurement \/ start)
         /\ UNCHANGED measurement
      \/ /\ inMeasurement \/ start
         /\ count < DqThreshold
         /\ inMeasurement' = TRUE /\ dqCount' = count /\ dqStart' = since
         /\ UNCHANGED avgDqRate
      \/ /\ inMeasurement \/ start
         /\ count >= DqThreshold
         /\ avgDqRate' = AverageRate(count, since)
         /\ EndCycle(count, left, since)

\* Mutant: the latency has the wrong sign.
NegativeLatency(p) == stamp[p] - now

Latency(p) == now - stamp[p]

\* Run, with the transmission queue not stopped: a packet is dequeued and sent.  The
\* device may stop the queue; the run goes on as long as there are packets, the queue is
\* not stopped and the quota is not used up.
DequeuePacket ==
  LET p == Head(queue)
      left == nBytes - size[p]
  IN  /\ running /\ ~ stopped
      /\ queue # <<>>
      /\ queue' = Tail(queue)
      /\ nBytes' = left
      /\ \E r \in EventRun(DeqEvents, NoRun, EventMetadata("deq", p, size[p], left, qAvg)) :
           SetOutputs(r)
      /\ qLatency' = Latency(p)
      /\ MeasureRate(size[p], left)
      /\ stopped' \in BOOLEAN
      /\ running' \in IF queue' = <<>> \/ stopped' THEN {FALSE} ELSE BOOLEAN
      /\ UNCHANGED <<now, size, stamp, received, droppedBytes, enqueued, estimates,
                     timerEvent, arrived>>

\* Run finds the queue empty.
DequeueNothing ==
  /\ running /\ ~ stopped
  /\ queue = <<>>
  /\ idle' = TRUE
  /\ idleTime' = now
  /\ running' = FALSE
  /\ UNCHANGED <<now, registers, p4Vars, queue, size, stamp, bytes, qAvg, qLatency,
                 measurement, timerEvent, stopped, arrived>>

\* Run does not dequeue while the only transmission queue is stopped.
RunBlocked ==
  /\ running /\ stopped
  /\ running' = FALSE
  /\ UNCHANGED <<now, registers, p4Vars, queue, size, stamp, bytes, estimates, qLatency,
                 measurement, timerEvent, stopped, arrived>>

\* The device wakes the queue disc.
Wake ==
  /\ ~ running /\ stopped
  /\ stopped' = FALSE
  /\ running' = TRUE
  /\ UNCHANGED <<now, registers, p4Vars, queue, size, stamp, bytes, estimates, qLatency,
                 measurement, timerEvent, arrived>>

Reschedule == timerEvent' = now + TimeReference

RunTimerEvent ==
  /\ ~ running
  /\ timerEvent = now
  /\ \E r \in Pipeline(registers, TimerMetadata) : SetOutputs(r)
  /\ Reschedule
  /\ UNCHANGED <<now, queue, size, stamp, bytes, estimates, qLatency, measurement, running,
                 stopped, arrived>>

\* Time passes once the events of this instant have been executed.
Tick ==
  /\ ~ running
  /\ now < MaxTime /\ now < timerEvent
  /\ now' = now + 1
  /\ UNCHANGED <<registers, p4Vars, queue, size, stamp, bytes, estimates, qLatency,
                 measurement, timerEvent, running, stopped, arrived>>

Next ==
  \/ \E p \in Packets : Send(p)
  \/ DequeuePacket
  \/ DequeueNothing
  \/ RunBlocked
  \/ Wake
  \/ RunTimerEvent
  \/ Tick

Spec == Init /\ [][Next]_vars

-----------------------------------------------------------------------------
TotalSize(S) == SumOver(size, S)
LargestPacket == Max({SizeOf[p] : p \in Packets})

\* m_qAvg is an average: it never leaves the range that MapSize maps, so that avg_qdepth
\* fits in m_qSizeBits bits, however long the idle periods.
QAvgInRange == qAvg <= MaxSize * Scale /\ MapSize(qAvg, Scale) <= FullScale

\* A measurement cycle ends with the packet that completes DqThreshold bytes, so that the
\* measured rate is at most that of DqThreshold bytes and a packet in one unit of time.
RateBounded ==
  /\ inMeasurement => dqCount \in 0 .. (DqThreshold - 1) /\ dqStart <= now
  /\ avgDqRate <= (DqThreshold + LargestPacket) * Scale

\* Timer events are TimeReference apart, whatever happens in between, and none is missed.
TimerOnTime ==
  TimeReference > 0 =>
    timerEvent % TimeReference = 0 /\ timerEvent \in now .. (now + TimeReference)

\* Every variable of the queue disc has its type and its range, that of the average, of the
\* dequeue rate and of the next timer event included.
TypeOK ==
  /\ now \in 0 .. MaxTime
  /\ queue \in Seq(Packets)
  /\ size \in [Packets -> Nat] /\ stamp \in [Packets -> 0 .. MaxTime]
  /\ {nBytes, received, droppedBytes, enqueued, qAvg, qLatency, avgDqRate} \subseteq Nat
  /\ p4Vars \in Seq(Nat) /\ Len(p4Vars) = 4
  /\ {idleTime, dqStart} \subseteq 0 .. MaxTime
  /\ dqCount \in Nat \cup {DqCountInvalid}
  /\ timerEvent \in Nat
  /\ {idle, inMeasurement, running, stopped} \subseteq BOOLEAN
  /\ arrived \subseteq Packets
  /\ QAvgInRange /\ RateBounded /\ TimerOnTime

\* The assertions of QueueDisc::Enqueue and Dequeue on the bytes: what was received was
\* either dropped or enqueued, whoever dropped it (the program or the child), and m_nBytes,
\* kept by the traces of the child, is what the child holds.
BytesExact ==
  /\ received = droppedBytes + enqueued
  /\ nBytes = TotalSize(ToSet(queue))

\* An idle period is one of an empty queue, and m_idleTime is not in the future: the
\* number of missed packets is never negative.
IdleIsEmpty == idle => queue = <<>> /\ idleTime <= now

\* m_idle tells whether the queue is idle, that is, empty.
EmptyIsIdle == ~ running /\ queue = <<>> => idle
=============================================================================

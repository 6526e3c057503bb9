-------------------------- MODULE P4QueueDiscProofs -------------------------
(***************************************************************************)
(* Proofs about P4QueueDisc for any set of packets, any parameters and any *)
(* P4 program that leaves the length of a packet alone, and about the      *)
(* programs of P4Programs, which are of this kind.                         *)
(***************************************************************************)
EXTENDS P4Programs, DataProofs

Traces == {t \in Seq(Nat) : Len(t) = 4}

\* What a program may rely on in the metadata of a run.
IsMetadata(m) ==
  /\ m.trigger \in {"ingress", "timer", "drop", "enq", "deq"}
  /\ m.trace \in Traces
  /\ m.pkt_len_bytes \in Nat /\ m.flow_hash \in Nat
  /\ m.qdepth \in Nat /\ m.avg_qdepth \in Nat /\ m.timestamp \in 0 .. MaxTime
  /\ m.trigger \in {"ingress", "timer"} => m.idle_time \in Nat /\ m.qlatency \in 0 .. MaxTime

\* What the programs leave behind: registers of their types, R, trace variables, and a
\* packet of the length it had.
ProgramSafe(R) ==
  /\ InitRegisters \subseteq R
  /\ \A reg \in R : \A m : IsMetadata(m) =>
       \A r \in Pipeline(reg, m) :
         r.registers \in R /\ r.trace \in Traces /\ r.len = m.pkt_len_bytes

-----------------------------------------------------------------------------
\* The range of MapSize.
LEMMA FullScaleNat == FullScale \in Nat
BY PowerOfTwo, P4Assumption DEF FullScale, P4Assumption

LEMMA MapSizeNat ==
  ASSUME NEW x \in Nat, NEW s \in Nat \ {0}
  PROVE  MapSize(x, s) \in Nat
<1> DEFINE d == s * MaxSize
           n == x * FullScale
<1>1. d \in Nat \ {0} /\ n \in Nat
  BY FullScaleNat, P4Assumption DEF P4Assumption
<1>2. 2 * n + d \in Nat /\ 2 * d \in Nat \ {0}
  BY <1>1
<1> HIDE DEF d, n
<1>3. (2 * n + d) \div (2 * d) \in Nat
  BY <1>2, QuotientProperties
<1> QED
  BY <1>3 DEF MapSize, Rounded, d, n

LEMMA MapSizeInRange ==
  ASSUME NEW x \in Nat, NEW s \in Nat \ {0}, x <= s * MaxSize
  PROVE  MapSize(x, s) <= FullScale
<1> DEFINE d == s * MaxSize
           n == x * FullScale
<1>1. d \in Nat \ {0} /\ n \in Nat /\ d * FullScale \in Nat /\ FullScale \in Nat
  <2>1. d \in Nat \ {0} /\ FullScale \in Nat
    BY FullScaleNat, P4Assumption DEF P4Assumption
  <2> HIDE DEF d
  <2> QED
    BY <2>1
<1>2. n <= d * FullScale
  BY <1>1
<1>3. (2 * d) * (FullScale + 1) = 2 * (d * FullScale) + 2 * d
  BY <1>1
<1> HIDE DEF d, n
<1>4. 2 * n + d < (2 * d) * (FullScale + 1)
  <2> DEFINE k == d * FullScale
             l == FullScale + 1
  <2>1. /\ d \in Nat \ {0} /\ n \in Nat /\ k \in Nat /\ n <= k
        /\ (2 * d) * l = 2 * k + 2 * d
    BY <1>1, <1>2, <1>3
  <2> HIDE DEF k
  <2>2. 2 * n + d < 2 * k + 2 * d
    BY <2>1
  <2> QED
    BY <2>1, <2>2
<1>5. (2 * n + d) \div (2 * d) <= FullScale
  BY <1>1, <1>4, QuotientBound
<1> QED
  BY <1>5 DEF MapSize, Rounded, d, n

-----------------------------------------------------------------------------
\* The metadata of every run.
LEMMA QueueMetadataFields ==
  ASSUME NEW n \in Nat, NEW avg \in Nat, NEW t, now \in 0 .. MaxTime, p4Vars \in Traces
  PROVE  LET q == QueueMetadata(t, n, avg)
         IN  /\ DOMAIN q = {"trigger", "qdepth", "qdepth_bytes", "avg_qdepth",
                            "avg_qdepth_bytes", "timestamp", "trace"}
             /\ q.trigger = t /\ q.trace = p4Vars /\ q.timestamp = now
             /\ q.qdepth = MapSize(n, 1) /\ q.qdepth \in Nat
             /\ q.avg_qdepth = MapSize(avg, Scale) /\ q.avg_qdepth \in Nat
BY MapSizeNat, P4Assumption DEF QueueMetadata, P4Assumption

LEMMA EventMetadataFields ==
  ASSUME NEW n \in Nat, NEW avg \in Nat, NEW t \in {"drop", "enq", "deq"}, NEW p \in Packets,
         NEW len \in Nat, NEW w \in Traces, now \in 0 .. MaxTime, p4Vars \in Traces
  PROVE  LET m == [EventMetadata(t, p, len, n, avg) EXCEPT !.trace = w]
         IN  /\ IsMetadata(m)
             /\ m.trigger = t /\ m.trace = w /\ m.pkt_len_bytes = len
             /\ m.flow_hash = FlowOf[p]
<1> DEFINE q == QueueMetadata(t, n, avg)
           k == PacketMetadata(p, len)
           e == EventMetadata(t, p, len, n, avg)
<1>1. /\ DOMAIN q = {"trigger", "qdepth", "qdepth_bytes", "avg_qdepth",
                     "avg_qdepth_bytes", "timestamp", "trace"}
      /\ q.trigger = t /\ q.timestamp \in 0 .. MaxTime /\ q.qdepth \in Nat /\ q.avg_qdepth \in Nat
  BY QueueMetadataFields
<1>2. /\ DOMAIN k = {"pkt_len", "pkt_len_bytes", "flow_hash"}
      /\ k.pkt_len_bytes = len /\ k.flow_hash = FlowOf[p]
  BY DEF PacketMetadata
<1>3. e = [x \in (DOMAIN q) \cup (DOMAIN k) |-> IF x \in DOMAIN q THEN q[x] ELSE k[x]]
  BY DEF EventMetadata, AndFields
<1>4. FlowOf[p] \in Nat
  BY P4Assumption DEF P4Assumption
<1> HIDE DEF q, k, e
<1>5. /\ e.trigger = t /\ e.timestamp \in 0 .. MaxTime /\ e.qdepth \in Nat /\ e.avg_qdepth \in Nat
      /\ e.pkt_len_bytes = len /\ e.flow_hash = FlowOf[p] /\ "trace" \in DOMAIN e
  BY <1>1, <1>2, <1>3
<1> DEFINE m == [e EXCEPT !.trace = w]
<1>6. /\ m.trigger = t /\ m.timestamp \in 0 .. MaxTime /\ m.qdepth \in Nat /\ m.avg_qdepth \in Nat
      /\ m.pkt_len_bytes = len /\ m.flow_hash = FlowOf[p] /\ m.trace = w
  BY <1>5
<1> HIDE DEF m
<1>7. IsMetadata(m)
  BY <1>4, <1>6 DEF IsMetadata
<1> QED
  BY <1>6, <1>7 DEF m, e

LEMMA ArrivalMetadataFields ==
  ASSUME NEW avg \in Nat, NEW p \in Packets, now \in 0 .. MaxTime, p4Vars \in Traces,
         {nBytes, size[p], idleTime} \subseteq Nat, qLatency \in 0 .. MaxTime
  PROVE  LET m == IngressMetadata(p, avg)
         IN  /\ IsMetadata(m)
             /\ m.trigger = "ingress" /\ m.trace = p4Vars /\ m.pkt_len_bytes = size[p]
             /\ m.flow_hash = FlowOf[p] /\ m.qdepth = MapSize(nBytes, 1)
             /\ m.avg_qdepth = MapSize(avg, Scale)
<1> DEFINE q == QueueMetadata("ingress", nBytes, avg)
           k == PacketMetadata(p, size[p])
           d == DelayMetadata
           e == AndFields(k, d)
           m == IngressMetadata(p, avg)
<1>1. /\ DOMAIN q = {"trigger", "qdepth", "qdepth_bytes", "avg_qdepth",
                     "avg_qdepth_bytes", "timestamp", "trace"}
      /\ q.trigger = "ingress" /\ q.timestamp \in 0 .. MaxTime /\ q.qdepth \in Nat
      /\ q.avg_qdepth \in Nat /\ q.trace = p4Vars
      /\ q.qdepth = MapSize(nBytes, 1) /\ q.avg_qdepth = MapSize(avg, Scale)
  BY QueueMetadataFields
<1>2. /\ DOMAIN k = {"pkt_len", "pkt_len_bytes", "flow_hash"}
      /\ k.pkt_len_bytes = size[p] /\ k.flow_hash = FlowOf[p]
  BY DEF PacketMetadata
<1>3. /\ DOMAIN d = {"idle_time", "qlatency", "avg_deq_rate_bytes"}
      /\ d.idle_time = idleTime /\ d.qlatency = qLatency
  BY DEF DelayMetadata
<1>4. FlowOf[p] \in Nat
  BY P4Assumption DEF P4Assumption
<1>5. /\ e = [x \in (DOMAIN k) \cup (DOMAIN d) |-> IF x \in DOMAIN k THEN k[x] ELSE d[x]]
      /\ m = [x \in (DOMAIN q) \cup (DOMAIN e) |-> IF x \in DOMAIN q THEN q[x] ELSE e[x]]
  BY DEF IngressMetadata, AndFields
<1> HIDE DEF q, k, d, e, m
<1>6. /\ DOMAIN e = {"pkt_len", "pkt_len_bytes", "flow_hash", "idle_time", "qlatency",
                     "avg_deq_rate_bytes"}
      /\ e.pkt_len_bytes = size[p] /\ e.flow_hash = FlowOf[p]
      /\ e.idle_time = idleTime /\ e.qlatency = qLatency
  BY <1>2, <1>3, <1>5
<1>7. /\ m.trigger = "ingress" /\ m.timestamp \in 0 .. MaxTime /\ m.qdepth \in Nat
      /\ m.avg_qdepth \in Nat /\ m.trace = p4Vars
      /\ m.qdepth = MapSize(nBytes, 1) /\ m.avg_qdepth = MapSize(avg, Scale)
      /\ m.pkt_len_bytes = size[p] /\ m.flow_hash = FlowOf[p]
      /\ m.idle_time = idleTime /\ m.qlatency = qLatency
  BY <1>1, <1>5, <1>6
<1>8. IsMetadata(m)
  BY <1>4, <1>7 DEF IsMetadata
<1> QED
  BY <1>7, <1>8 DEF m

LEMMA TimerMetadataFields ==
  ASSUME now \in 0 .. MaxTime, p4Vars \in Traces, {nBytes, qAvg, idleTime} \subseteq Nat,
         qLatency \in 0 .. MaxTime
  PROVE  LET m == TimerMetadata
         IN  IsMetadata(m) /\ m.trigger = "timer" /\ m.trace = p4Vars /\ m.pkt_len_bytes = 0
<1> DEFINE q == QueueMetadata("timer", nBytes, qAvg)
           k == NoPacketMetadata
           d == DelayMetadata
           e == AndFields(k, d)
           m == TimerMetadata
<1>1. /\ DOMAIN q = {"trigger", "qdepth", "qdepth_bytes", "avg_qdepth",
                     "avg_qdepth_bytes", "timestamp", "trace"}
      /\ q.trigger = "timer" /\ q.timestamp \in 0 .. MaxTime /\ q.qdepth \in Nat
      /\ q.avg_qdepth \in Nat /\ q.trace = p4Vars
  BY QueueMetadataFields
<1>2. /\ DOMAIN k = {"pkt_len", "pkt_len_bytes", "flow_hash"}
      /\ k.pkt_len_bytes = 0 /\ k.flow_hash = 0
  BY DEF NoPacketMetadata
<1>3. /\ DOMAIN d = {"idle_time", "qlatency", "avg_deq_rate_bytes"}
      /\ d.idle_time = idleTime /\ d.qlatency = qLatency
  BY DEF DelayMetadata
<1>4. /\ e = [x \in (DOMAIN k) \cup (DOMAIN d) |-> IF x \in DOMAIN k THEN k[x] ELSE d[x]]
      /\ m = [x \in (DOMAIN q) \cup (DOMAIN e) |-> IF x \in DOMAIN q THEN q[x] ELSE e[x]]
  BY DEF TimerMetadata, AndFields
<1> HIDE DEF q, k, d, e, m
<1>5. /\ DOMAIN e = {"pkt_len", "pkt_len_bytes", "flow_hash", "idle_time", "qlatency",
                     "avg_deq_rate_bytes"}
      /\ e.pkt_len_bytes = 0 /\ e.flow_hash = 0
      /\ e.idle_time = idleTime /\ e.qlatency = qLatency
  BY <1>2, <1>3, <1>4
<1>6. /\ m.trigger = "timer" /\ m.timestamp \in 0 .. MaxTime /\ m.qdepth \in Nat
      /\ m.avg_qdepth \in Nat /\ m.trace = p4Vars
      /\ m.pkt_len_bytes = 0 /\ m.flow_hash = 0
      /\ m.idle_time = idleTime /\ m.qlatency = qLatency
  BY <1>1, <1>4, <1>5
<1>7. IsMetadata(m)
  BY <1>6 DEF IsMetadata
<1> QED
  BY <1>6, <1>7 DEF m

-----------------------------------------------------------------------------
\* The moving average of sizes in a range stays in it.
LEMMA EstimatorInRange ==
  ASSUME NEW n \in 0 .. MaxSize, NEW m \in Nat \ {0}, NEW avg \in 0 .. (MaxSize * Scale)
  PROVE  Estimator(n, m, avg) \in 0 .. (MaxSize * Scale)
<1> DEFINE q == QwInverse
           top == MaxSize * Scale
           a == Power(q - 1, m - 1)
           b == Power(q, m - 1)
           x == (avg * ((q - 1) * a)) \div (q * b)
           y == (n * Scale) \div q
<1>1. /\ q \in Nat \ {0} /\ q - 1 \in Nat /\ q - 1 <= q /\ m - 1 \in Nat
      /\ Scale \in Nat \ {0} /\ MaxSize \in Nat /\ avg \in Nat /\ n \in Nat
      /\ n <= MaxSize
  BY P4Assumption, SMT DEF P4Assumption
<1>2. top \in Nat /\ n * Scale \in Nat /\ avg <= top
  BY <1>1, ProductNat
<1>3. n * Scale <= top
  BY <1>1
<1>4. a \in Nat /\ b \in Nat \ {0} /\ a <= b
  <2> HIDE DEF q
  <2> QED
    BY <1>1, PowerNat, PowerPositive, PowerGrows
<1>5. Power(q - 1, m) = (q - 1) * a /\ Power(q, m) = q * b
  <2>1. (m - 1) + 1 = m
    OBVIOUS
  <2>2. Power(q - 1, (m - 1) + 1) = (q - 1) * a /\ Power(q, (m - 1) + 1) = q * b
    <3> HIDE DEF q
    <3> QED
      BY <1>1, PowerNext
  <2> QED
    BY <2>1, <2>2
<1>6. Estimator(n, m, avg) = x + y
  BY <1>5 DEF Estimator
<1> HIDE DEF a, b, top, q
<1>7. (q - 1) * a \in Nat /\ q * b \in Nat \ {0} /\ avg * (q - 1) \in Nat
  BY <1>1, <1>4
<1>8. x \in Nat /\ (q * b) * x <= avg * ((q - 1) * a)
  <2> DEFINE u == (q - 1) * a
             w == q * b
  <2>1. u \in Nat /\ w \in Nat \ {0} /\ avg \in Nat
    BY <1>1, <1>7
  <2> HIDE DEF u, w
  <2>2. avg * u \in Nat
    BY <2>1
  <2>3. (avg * u) \div w \in Nat /\ w * ((avg * u) \div w) <= avg * u
    BY <2>1, <2>2, QuotientProperties
  <2> QED
    BY <2>3 DEF u, w
<1>9. y \in Nat /\ q * y <= n * Scale
  BY <1>1, <1>2, QuotientProperties
<1> HIDE DEF x, y
<1>10. q * x <= avg * (q - 1)
  <2> DEFINE r == avg * (q - 1)
             s == q * x
  <2>1. avg * ((q - 1) * a) = r * a /\ (q * b) * x = b * s
    BY <1>1, <1>4, <1>8
  <2>2. r \in Nat /\ s \in Nat
    BY <1>1, <1>7, <1>8, ProductNat
  <2>3. b * s <= r * a
    BY <1>8, <2>1
  <2> HIDE DEF r, s
  <2>4. r * a <= r * b /\ r * b = b * r
    BY <1>4, <2>2, ProductGrows
  <2>5. b * s \in Nat /\ r * a \in Nat /\ b * r \in Nat
    BY <1>4, <2>2, ProductNat
  <2>6. b * s <= b * r
    BY <2>3, <2>4, <2>5
  <2>7. s <= r
    BY <1>4, <2>2, <2>6, FactorCancels
  <2> QED
    BY <2>7 DEF r, s
<1>11. avg * (q - 1) <= top * (q - 1) /\ top * (q - 1) = q * top - top
  BY <1>1, <1>2
<1>12. q * (x + y) = q * x + q * y
  BY <1>1, <1>8, <1>9
<1>13. /\ q * x \in Nat /\ q * y \in Nat /\ q * top \in Nat /\ avg * (q - 1) \in Nat
       /\ top * (q - 1) \in Nat
  BY <1>1, <1>2, <1>7, <1>8, <1>9, ProductNat
<1>14. q * (x + y) <= q * top
  BY <1>2, <1>3, <1>9, <1>10, <1>11, <1>12, <1>13
<1>15. x + y <= top
  BY <1>1, <1>2, <1>8, <1>9, <1>14, FactorCancels
<1> QED
  BY <1>2, <1>6, <1>8, <1>9, <1>15 DEF top

-----------------------------------------------------------------------------
(***************************************************************************)
(* The inductive invariant, for programs whose registers are in R.  The    *)
(* sizes never change, since no program truncates or extends a packet; the *)
(* bytes in the queue are counted right because no packet is in it twice.  *)
(***************************************************************************)
Queued(R) ==
  /\ now \in 0 .. MaxTime
  /\ registers \in R /\ p4Vars \in Traces
  /\ size = SizeOf
  /\ arrived \subseteq Packets
  /\ queue \in Seq(Packets) /\ ToSet(queue) \subseteq arrived /\ Distinct(queue)
  /\ nBytes = TotalSize(ToSet(queue)) /\ nBytes \in 0 .. MaxSize
  /\ received \in Nat /\ droppedBytes \in Nat /\ enqueued \in Nat
  /\ received = droppedBytes + enqueued

Times ==
  /\ stamp \in [Packets -> 0 .. now]
  /\ qLatency \in 0 .. now
  /\ idleTime \in 0 .. now /\ dqStart \in 0 .. now
  /\ idle \in BOOLEAN /\ (idle => queue = <<>>)
  /\ running \in BOOLEAN /\ stopped \in BOOLEAN

Average == qAvg \in 0 .. (MaxSize * Scale)

Rate ==
  /\ inMeasurement \in BOOLEAN
  /\ dqCount \in Nat \cup {DqCountInvalid}
  /\ inMeasurement => dqCount \in 0 .. (DqThreshold - 1)
  /\ avgDqRate \in 0 .. ((DqThreshold + LargestPacket) * Scale)

Timer == timerEvent \in Nat /\ TimerOnTime

P4Inv(R) == Queued(R) /\ Times /\ Average /\ Rate /\ Timer

LEMMA SizeFacts ==
  /\ \A p \in Packets : SizeOf[p] \in Nat \ {0}
  /\ LargestPacket \in Nat
  /\ \A p \in Packets : SizeOf[p] <= LargestPacket
<1> DEFINE S == {SizeOf[p] : p \in Packets}
           B == {T \in SUBSET S : T # {} => \E x \in T : \A y \in T : x >= y}
<1>1. \A p \in Packets : SizeOf[p] \in Nat \ {0}
  BY P4Assumption DEF P4Assumption
<1>2. S \subseteq Nat /\ S # {}
  BY <1>1, P4Assumption DEF P4Assumption
<1>3. IsFiniteSet(S)
  <2>1. IsFiniteSet(Packets)
    BY P4Assumption DEF P4Assumption
  <2> DEFINE f == [p \in Packets |-> SizeOf[p]]
  <2>2. f \in Surjection(Packets, S)
    BY DEF Surjection
  <2> QED
    BY <2>1, <2>2, FS_Surjection
<1> HIDE DEF S
<1>4. ASSUME NEW T \in SUBSET S, \A U \in SUBSET T : U # T => U \in B
      PROVE  T \in B
  <2> SUFFICES ASSUME T # {} PROVE \E x \in T : \A y \in T : x >= y
    OBVIOUS
  <2> PICK x \in T : TRUE
    OBVIOUS
  <2>1. T \ {x} \in SUBSET T /\ T \ {x} # T
    OBVIOUS
  <2>2. T \ {x} # {} => \E z \in T \ {x} : \A y \in T \ {x} : z >= y
    BY <1>4, <2>1
  <2>3. CASE T \ {x} = {}
    BY <1>2, <2>3
  <2>4. CASE T \ {x} # {}
    <3> PICK z \in T \ {x} : \A y \in T \ {x} : z >= y
      BY <2>2, <2>4
    <3>1. x \in Nat /\ z \in Nat /\ T \subseteq Nat
      BY <1>2
    <3> QED
      BY <3>1
  <2> QED
    BY <2>3, <2>4
<1>5. SUBSET S \subseteq B
  <2> HIDE DEF B
  <2> QED
    BY <1>3, <1>4, SubsetInduction
<1>6. \E x \in S : \A y \in S : x >= y
  BY <1>2, <1>5
<1>7. Max(S) \in S /\ \A y \in S : Max(S) >= y
  BY <1>6 DEF Max
<1> QED
  BY <1>1, <1>2, <1>7 DEF LargestPacket, S

-----------------------------------------------------------------------------
(***************************************************************************)
(* The steps that run the program, in terms of what the program is given   *)
(* and leaves behind.                                                      *)
(***************************************************************************)
\* The run for an event of packet p, after the run r; or none, if it is not connected.
EventFollows(enabled, trigger, p, r) ==
  IF enabled
  THEN \E m : /\ IsMetadata(m)
              /\ m.trigger = trigger /\ m.trace = r.trace
              /\ m.pkt_len_bytes = size[p] /\ m.flow_hash = FlowOf[p]
              /\ \E s \in Pipeline(r.registers, m) : SetOutputs(s)
  ELSE SetOutputs(r)

IsDropped(p, r) ==
  /\ r.drop \/ nBytes + size[p] > MaxSize
  /\ EventFollows(DropEvents, "drop", p, r)
  /\ droppedBytes' = droppedBytes + size[p]
  /\ queue' = queue /\ nBytes' = nBytes /\ enqueued' = enqueued

IsEnqueued(p, r) ==
  /\ ~ r.drop /\ nBytes + size[p] <= MaxSize
  /\ EventFollows(EnqEvents, "enq", p, r)
  /\ droppedBytes' = droppedBytes
  /\ queue' = Append(queue, p) /\ nBytes' = nBytes + size[p]
  /\ enqueued' = enqueued + size[p]

IsArrival(m, p) ==
  /\ IsMetadata(m)
  /\ m.trigger = "ingress" /\ m.trace = p4Vars /\ m.pkt_len_bytes = size[p]
  /\ m.flow_hash = FlowOf[p] /\ m.qdepth = MapSize(nBytes, 1)
  /\ m.avg_qdepth = MapSize(qAvg', Scale)

LEMMA AverageFollows ==
  ASSUME NEW R, P4Inv(R), NEW p \in Packets, Send(p)
  PROVE  Average'
<1>1. qAvg' = Estimator(nBytes, Samples, qAvg)
  BY DEF Send, DoEnqueue
<1>2. Samples \in Nat \ {0}
  <2>1. Ptc \in Nat /\ now - idleTime \in Nat
    <3>1. Ptc \in Nat /\ MaxTime \in Nat
      BY P4Assumption DEF P4Assumption
    <3>2. now \in 0 .. MaxTime /\ idleTime \in 0 .. now
      BY DEF P4Inv, Queued, Times
    <3> QED
      BY <3>1, <3>2
  <2>2. Ptc * (now - idleTime) \in Nat
    BY <2>1, ProductNat
  <2> QED
    BY <2>2 DEF Samples
<1>3. nBytes \in 0 .. MaxSize /\ qAvg \in 0 .. (MaxSize * Scale)
  BY DEF P4Inv, Queued, Average
<1> QED
  BY <1>1, <1>2, <1>3, EstimatorInRange DEF Average

LEMMA ArrivalRuns ==
  ASSUME NEW R, ProgramSafe(R), P4Inv(R), NEW p \in Packets, Send(p)
  PROVE  /\ size' = size /\ received' = received + size[p] /\ p \notin arrived
         /\ \E m : IsArrival(m, p) /\ \E r \in Pipeline(registers, m) :
              /\ r.registers \in R /\ r.trace \in Traces
              /\ IsDropped(p, r) \/ IsEnqueued(p, r)
<1> DEFINE avg == Estimator(nBytes, Samples, qAvg)
           m == IngressMetadata(p, avg)
<1>1. avg = qAvg' /\ avg \in Nat
  <2>1. avg = qAvg'
    BY DEF Send, DoEnqueue
  <2>2. qAvg' \in 0 .. (MaxSize * Scale)
    BY AverageFollows DEF Average
  <2> QED
    BY <2>1, <2>2
<1>2. PICK r \in Pipeline(registers, m) :
        /\ size' = [size EXCEPT ![p] = r.len]
        /\ \/ r.drop /\ UNCHANGED stamp /\ Drop(p, r.len, r, avg)
           \/ /\ ~ r.drop
              /\ stamp' = [stamp EXCEPT ![p] = now]
              /\ ChildEnqueue(p, r.len, r, avg) \/ ChildDrop(p, r.len, r, avg)
  BY DEF Send, DoEnqueue
<1>3. /\ now \in Nat /\ now \in 0 .. MaxTime /\ p4Vars \in Traces /\ registers \in R
      /\ size \in [Packets -> Nat \ {0}] /\ nBytes \in Nat
      /\ {nBytes, size[p], idleTime} \subseteq Nat /\ qLatency \in 0 .. MaxTime
  <2>1. /\ now \in 0 .. MaxTime /\ MaxTime \in Nat /\ qLatency \in 0 .. now
        /\ idleTime \in 0 .. now
    BY P4Assumption DEF P4Inv, Queued, Times, P4Assumption
  <2>2. now \in Nat /\ qLatency \in 0 .. MaxTime /\ idleTime \in Nat
    BY <2>1
  <2>3. /\ p4Vars \in Traces /\ registers \in R /\ nBytes \in Nat
        /\ size \in [Packets -> Nat \ {0}]
    BY SizeFacts, P4Assumption DEF P4Inv, Queued, P4Assumption
  <2> QED
    BY <2>1, <2>2, <2>3
<1>4. IsArrival(m, p)
  <2> HIDE DEF avg
  <2>1. LET k == IngressMetadata(p, avg)
        IN  /\ IsMetadata(k)
            /\ k.trigger = "ingress" /\ k.trace = p4Vars /\ k.pkt_len_bytes = size[p]
            /\ k.flow_hash = FlowOf[p] /\ k.qdepth = MapSize(nBytes, 1)
            /\ k.avg_qdepth = MapSize(avg, Scale)
    BY <1>1, <1>3, ArrivalMetadataFields
  <2> QED
    BY <1>1, <2>1 DEF IsArrival
<1>5. r.registers \in R /\ r.trace \in Traces /\ r.len = size[p]
  <2> HIDE DEF m
  <2> QED
    BY <1>2, <1>3, <1>4 DEF ProgramSafe, IsArrival
<1>6. size' = size
  BY <1>2, <1>3, <1>5
<1> HIDE DEF m, avg
<1>7. ASSUME NEW t \in {"drop", "enq"}, NEW enabled, NEW n \in Nat,
             \E s \in EventRun(enabled, r, EventMetadata(t, p, r.len, n, avg)) : SetOutputs(s)
      PROVE  EventFollows(enabled, t, p, r)
  <2>1. CASE enabled
    <3> DEFINE k == [EventMetadata(t, p, r.len, n, avg) EXCEPT !.trace = r.trace]
    <3>1. /\ IsMetadata(k) /\ k.trigger = t /\ k.trace = r.trace
          /\ k.pkt_len_bytes = r.len /\ k.flow_hash = FlowOf[p]
      <4>1. t \in {"drop", "enq", "deq"} /\ r.len \in Nat
        BY <1>3, <1>5
      <4> QED
        BY <1>1, <1>3, <1>5, <1>7, <4>1, EventMetadataFields
    <3>2. \E s \in Pipeline(r.registers, k) : SetOutputs(s)
      BY <1>7, <2>1 DEF EventRun
    <3> HIDE DEF k
    <3> QED
      BY <1>5, <2>1, <3>1, <3>2 DEF EventFollows
  <2>2. CASE ~ enabled
    BY <1>7, <2>2 DEF EventRun, EventFollows
  <2> QED
    BY <2>1, <2>2
<1>8. Drop(p, r.len, r, avg) =>
        /\ EventFollows(DropEvents, "drop", p, r)
        /\ droppedBytes' = droppedBytes + size[p]
        /\ queue' = queue /\ nBytes' = nBytes /\ enqueued' = enqueued
  BY <1>3, <1>5, <1>7 DEF Drop
<1>9. ChildEnqueue(p, r.len, r, avg) =>
        /\ nBytes + size[p] <= MaxSize
        /\ EventFollows(EnqEvents, "enq", p, r)
        /\ droppedBytes' = droppedBytes
        /\ queue' = Append(queue, p) /\ nBytes' = nBytes + size[p]
        /\ enqueued' = enqueued + size[p]
  <2>1. nBytes + r.len \in Nat
    BY <1>3, <1>5
  <2> QED
    BY <1>5, <1>7, <2>1 DEF ChildEnqueue
<1>10. IsDropped(p, r) \/ IsEnqueued(p, r)
  BY <1>2, <1>5, <1>8, <1>9 DEF ChildDrop, IsDropped, IsEnqueued
<1> QED
  BY <1>2, <1>4, <1>5, <1>6, <1>10 DEF Send

LEMMA DepartureRuns ==
  ASSUME NEW R, ProgramSafe(R), P4Inv(R), DequeuePacket
  PROVE  /\ queue # <<>> /\ Head(queue) \in Packets /\ queue' = Tail(queue)
         /\ nBytes' = nBytes - size[Head(queue)]
         /\ EventFollows(DeqEvents, "deq", Head(queue), NoRun)
<1> DEFINE p == Head(queue)
           left == nBytes - size[p]
<1>1. queue # <<>> /\ queue \in Seq(Packets) /\ queue' = Tail(queue) /\ nBytes' = left
  BY DEF DequeuePacket, P4Inv, Queued
<1>2. p \in Packets /\ p \in ToSet(queue)
  BY <1>1, DequeuedQueue
<1> HIDE DEF p
<1>3. /\ size[p] \in Nat /\ SumOver(size, ToSet(queue)) = nBytes /\ nBytes \in Nat
      /\ now \in Nat /\ now \in 0 .. MaxTime /\ p4Vars \in Traces /\ qAvg \in Nat
      /\ size \in [Packets -> Nat]
  BY <1>2, SizeFacts, P4Assumption, SMT DEF P4Inv, Queued, TotalSize, Average, P4Assumption
<1>4. IsFiniteSet(ToSet(queue)) /\ ToSet(queue) \subseteq Packets
  <2>1. ToSet(queue) \subseteq Packets /\ IsFiniteSet(Packets)
    BY P4Assumption DEF P4Inv, Queued, P4Assumption
  <2> QED
    BY <2>1, FS_Subset
<1>5. left \in Nat
  <2>1. \A y \in ToSet(queue) : size[y] \in Nat /\ size[y] \in Int
    BY <1>3, <1>4
  <2>2. IsFiniteSet(ToSet(queue) \ {p})
    BY <1>4, FS_Subset
  <2>3. SumOver(size, ToSet(queue)) = size[p] + SumOver(size, ToSet(queue) \ {p})
    BY <1>2, <1>4, <2>1, SumOverRemove
  <2>4. SumOver(size, ToSet(queue) \ {p}) \in Nat
    BY <2>1, <2>2, SumOverNat
  <2> QED
    BY <1>3, <2>3, <2>4
<1>6. PICK s \in EventRun(DeqEvents, NoRun, EventMetadata("deq", p, size[p], left, qAvg)) :
        SetOutputs(s)
  BY DEF DequeuePacket, p
<1>7. EventFollows(DeqEvents, "deq", p, NoRun)
  <2>1. CASE DeqEvents
    <3> DEFINE k == [EventMetadata("deq", p, size[p], left, qAvg) EXCEPT !.trace = p4Vars]
    <3>1. NoRun.trace = p4Vars /\ NoRun.registers = registers
      BY DEF NoRun
    <3>2. /\ IsMetadata(k) /\ k.trigger = "deq" /\ k.trace = p4Vars
          /\ k.pkt_len_bytes = size[p] /\ k.flow_hash = FlowOf[p]
      <4> HIDE DEF left
      <4> QED
        BY <1>2, <1>3, <1>5, EventMetadataFields
    <3>3. \E e \in Pipeline(registers, k) : SetOutputs(e)
      BY <1>6, <2>1, <3>1 DEF EventRun
    <3> HIDE DEF k
    <3> QED
      BY <2>1, <3>1, <3>2, <3>3 DEF EventFollows
  <2>2. CASE ~ DeqEvents
    BY <1>6, <2>2 DEF EventRun, EventFollows
  <2> QED
    BY <2>1, <2>2
<1> QED
  BY <1>1, <1>2, <1>7 DEF p

\* The program can only leave registers of their types.
LEMMA EventSafe ==
  ASSUME NEW R, ProgramSafe(R), NEW enabled, NEW t, NEW p, NEW r,
         r.registers \in R, r.trace \in Traces, EventFollows(enabled, t, p, r)
  PROVE  registers' \in R /\ p4Vars' \in Traces
BY DEF EventFollows, ProgramSafe, SetOutputs

LEMMA TimerRuns ==
  ASSUME NEW R, ProgramSafe(R), P4Inv(R), RunTimerEvent
  PROVE  \E m : /\ IsMetadata(m)
                /\ m.trigger = "timer" /\ m.trace = p4Vars /\ m.pkt_len_bytes = 0
                /\ \E r \in Pipeline(registers, m) :
                     r.registers \in R /\ r.trace \in Traces /\ SetOutputs(r)
<1>1. /\ now \in Nat /\ now \in 0 .. MaxTime /\ p4Vars \in Traces /\ registers \in R
      /\ {nBytes, qAvg, idleTime} \subseteq Nat /\ qLatency \in 0 .. MaxTime
  BY P4Assumption DEF P4Inv, Queued, Times, Average, P4Assumption
<1>2. LET m == TimerMetadata
      IN  IsMetadata(m) /\ m.trigger = "timer" /\ m.trace = p4Vars /\ m.pkt_len_bytes = 0
  BY <1>1, TimerMetadataFields
<1>3. PICK r \in Pipeline(registers, TimerMetadata) : SetOutputs(r)
  BY DEF RunTimerEvent
<1>4. r.registers \in R /\ r.trace \in Traces
  BY <1>1, <1>2, <1>3 DEF ProgramSafe
<1> QED
  BY <1>2, <1>3, <1>4

-----------------------------------------------------------------------------
\* Each part of the invariant, step by step: the queue and the bytes,
LEMMA QueueSums ==
  ASSUME NEW R, Queued(R)
  PROVE  /\ size \in [Packets -> Nat \ {0}] /\ IsFiniteSet(ToSet(queue))
         /\ ToSet(queue) \subseteq Packets
         /\ \A p \in Packets \ ToSet(queue) :
              SumOver(size, ToSet(queue) \cup {p}) = nBytes + size[p]
         /\ \A p \in ToSet(queue) :
              /\ SumOver(size, ToSet(queue) \ {p}) = nBytes - size[p]
              /\ nBytes - size[p] \in Nat
<1>1. /\ size \in [Packets -> Nat \ {0}] /\ nBytes = SumOver(size, ToSet(queue))
      /\ \A p \in Packets : size[p] \in Nat /\ size[p] \in Int
      /\ nBytes \in Nat
  BY SizeFacts, P4Assumption DEF Queued, TotalSize, P4Assumption
<1>2. ToSet(queue) \subseteq Packets /\ IsFiniteSet(ToSet(queue))
  <2>1. ToSet(queue) \subseteq Packets /\ IsFiniteSet(Packets)
    BY P4Assumption DEF Queued, P4Assumption
  <2> QED
    BY <2>1, FS_Subset
<1> DEFINE S == ToSet(queue)
<1>3. S \subseteq Packets /\ IsFiniteSet(S) /\ nBytes = SumOver(size, S)
  BY <1>1, <1>2
<1> HIDE DEF S
<1>4. ASSUME NEW p \in Packets \ S
      PROVE  SumOver(size, S \cup {p}) = nBytes + size[p]
  BY <1>1, <1>3, SumOverAdd
<1>5. ASSUME NEW p \in S
      PROVE  SumOver(size, S \ {p}) = nBytes - size[p] /\ nBytes - size[p] \in Nat
  <2> DEFINE r == SumOver(size, S \ {p})
  <2>1. nBytes = size[p] + r
    BY <1>1, <1>3, SumOverRemove
  <2>2. IsFiniteSet(S \ {p}) /\ \A x \in S \ {p} : size[x] \in Nat
    BY <1>1, <1>3, FS_Subset
  <2>3. r \in Nat /\ size[p] \in Nat
    BY <1>1, <1>3, <2>2, SumOverNat
  <2> HIDE DEF r
  <2>4. r = nBytes - size[p]
    BY <1>1, <2>1, <2>3
  <2> QED
    BY <2>3, <2>4 DEF r
<1> QED
  BY <1>1, <1>2, <1>4, <1>5 DEF S

LEMMA QueuedFollows ==
  ASSUME NEW R, ProgramSafe(R), P4Inv(R), Next
  PROVE  Queued(R)'
<1> USE DEF P4Inv
<1>0. Queued(R) /\ MaxSize \in Nat /\ MaxTime \in Nat
  BY P4Assumption DEF P4Assumption
<1>1. ASSUME NEW p \in Packets, Send(p)
      PROVE  Queued(R)'
  <2>1. /\ now' = now /\ arrived' = arrived \cup {p} /\ p \notin ToSet(queue)
        /\ size' = size /\ received' = received + size[p]
    BY <1>1, ArrivalRuns DEF Send, Queued
  <2>2. PICK r : /\ r.registers \in R /\ r.trace \in Traces
                 /\ IsDropped(p, r) \/ IsEnqueued(p, r)
    BY <1>1, ArrivalRuns
  <2>3. registers' \in R /\ p4Vars' \in Traces
    BY <2>2, EventSafe DEF IsDropped, IsEnqueued
  <2>4. size[p] \in Nat
    BY QueueSums
  <2>5. CASE IsDropped(p, r)
    <3>1. received' \in Nat /\ droppedBytes' \in Nat /\ received' = droppedBytes' + enqueued'
      BY <2>1, <2>4, <2>5 DEF IsDropped, Queued
    <3> QED
      BY <2>1, <2>3, <2>5, <3>1 DEF IsDropped, Queued, TotalSize
  <2>6. CASE IsEnqueued(p, r)
    <3>1. /\ received' \in Nat /\ enqueued' \in Nat /\ droppedBytes' = droppedBytes
          /\ received' = droppedBytes' + enqueued'
      BY <2>1, <2>4, <2>6, SMTT(30) DEF IsEnqueued, Queued
    <3>2. /\ queue' \in Seq(Packets) /\ ToSet(queue') = ToSet(queue) \cup {p}
          /\ Distinct(queue')
      BY <1>0, <2>1, <2>6, AppendedQueue DEF IsEnqueued, Queued
    <3>3. nBytes' = SumOver(size, ToSet(queue')) /\ nBytes' \in 0 .. MaxSize
      <4>1. nBytes' = nBytes + size[p] /\ nBytes' <= MaxSize
        BY <2>6 DEF IsEnqueued
      <4>2. nBytes + size[p] \in Nat
        BY <1>0, <2>4 DEF Queued
      <4> QED
        BY <1>0, <2>1, <3>2, <4>1, <4>2, QueueSums
    <3> QED
      BY <1>0, <2>1, <2>3, <3>1, <3>2, <3>3 DEF Queued, TotalSize
  <2> QED
    BY <2>2, <2>5, <2>6
<1>2. ASSUME DequeuePacket
      PROVE  Queued(R)'
  <2> DEFINE p == Head(queue)
  <2>1. /\ queue # <<>> /\ p \in Packets /\ queue' = Tail(queue)
        /\ nBytes' = nBytes - size[p]
        /\ EventFollows(DeqEvents, "deq", p, NoRun)
    BY <1>2, DepartureRuns
  <2>2. UNCHANGED <<now, size, arrived, received, droppedBytes, enqueued>>
    BY <1>2 DEF DequeuePacket
  <2>3. registers' \in R /\ p4Vars' \in Traces
    <3>1. NoRun.registers = registers /\ NoRun.trace = p4Vars
      BY DEF NoRun
    <3> QED
      BY <1>0, <2>1, <3>1, EventSafe DEF Queued
  <2>4. /\ p \in ToSet(queue) /\ queue' \in Seq(Packets) /\ Distinct(queue')
        /\ ToSet(queue') = ToSet(queue) \ {p}
    BY <1>0, <2>1, DequeuedQueue DEF Queued
  <2> HIDE DEF p
  <2>5. nBytes' = SumOver(size, ToSet(queue')) /\ nBytes' \in 0 .. MaxSize
    <3>1. nBytes' = SumOver(size, ToSet(queue')) /\ nBytes' \in Nat
      BY <1>0, <2>1, <2>4, QueueSums
    <3>2. size[p] \in Nat
      BY <1>0, <2>1, QueueSums
    <3> QED
      BY <1>0, <2>1, <3>1, <3>2 DEF Queued
  <2> QED
    BY <1>0, <2>2, <2>3, <2>4, <2>5 DEF Queued, TotalSize
<1>3. ASSUME RunTimerEvent
      PROVE  Queued(R)'
  <2>1. registers' \in R /\ p4Vars' \in Traces
    BY <1>3, TimerRuns DEF SetOutputs
  <2> QED
    BY <1>0, <1>3, <2>1 DEF RunTimerEvent, Queued, TotalSize, bytes
<1>4. ASSUME Tick
      PROVE  Queued(R)'
  <2>1. now' \in 0 .. MaxTime
    BY <1>0, <1>4 DEF Tick, Queued
  <2> QED
    BY <1>0, <1>4, <2>1 DEF Tick, Queued, TotalSize, bytes
<1>5. CASE DequeueNothing
  BY <1>0, <1>5 DEF DequeueNothing, Queued, TotalSize, bytes
<1>6. CASE RunBlocked
  BY <1>0, <1>6 DEF RunBlocked, Queued, TotalSize, bytes
<1>7. CASE Wake
  BY <1>0, <1>7 DEF Wake, Queued, TotalSize, bytes
<1> QED
  BY <1>1, <1>2, <1>3, <1>4, <1>5, <1>6, <1>7 DEF Next

\* the clock and what is measured against it,
LEMMA TimesFollow ==
  ASSUME NEW R, ProgramSafe(R), P4Inv(R), Next
  PROVE  Times'
<1>0. /\ Queued(R) /\ Times /\ now \in 0 .. MaxTime /\ MaxTime \in Nat /\ now \in Nat
      /\ queue \in Seq(Packets)
  BY P4Assumption, SMTT(30) DEF P4Inv, Queued, P4Assumption
<1>1. ASSUME NEW p \in Packets, Send(p)
      PROVE  Times'
  <2>1. /\ UNCHANGED <<now, idleTime, qLatency, dqStart, stopped>>
        /\ idle' = FALSE /\ running' = TRUE
    BY <1>1 DEF Send, DoEnqueue, measurement
  <2>2. stamp' = stamp \/ stamp' = [stamp EXCEPT ![p] = now]
    BY <1>1 DEF Send, DoEnqueue
  <2>3. stamp' \in [Packets -> 0 .. now]
    BY <1>0, <2>2 DEF Times
  <2> QED
    BY <1>0, <2>1, <2>3 DEF Times
<1>2. ASSUME DequeuePacket
      PROVE  Times'
  <2>1. /\ UNCHANGED <<now, stamp, idle, idleTime>> /\ queue # <<>>
        /\ qLatency' = now - stamp[Head(queue)]
        /\ stopped' \in BOOLEAN /\ running' \in BOOLEAN
    BY <1>2 DEF DequeuePacket, estimates, Latency
  <2>2. dqStart' = dqStart \/ dqStart' = now
    BY <1>2 DEF DequeuePacket, MeasureRate, EndCycle, measurement
  <2>3. qLatency' \in 0 .. now
    <3>1. Head(queue) \in Packets
      BY <1>0, <2>1, DequeuedQueue
    <3>2. stamp[Head(queue)] \in 0 .. now
      BY <1>0, <3>1 DEF Times
    <3> QED
      BY <1>0, <2>1, <3>2
  <2> QED
    BY <1>0, <2>1, <2>2, <2>3 DEF Times
<1>3. ASSUME DequeueNothing
      PROVE  Times'
  <2>1. /\ UNCHANGED <<now, queue, stamp, qLatency, dqStart, stopped>>
        /\ idleTime' = now
    BY <1>3 DEF DequeueNothing, measurement
  <2>2. idle' = TRUE /\ running' = FALSE /\ queue' = <<>>
    BY <1>3 DEF DequeueNothing
  <2>3. idle' \in BOOLEAN /\ (idle' => queue' = <<>>) /\ running' \in BOOLEAN
    BY <2>2, Zenon
  <2>4. /\ idleTime' \in 0 .. now' /\ stamp' \in [Packets -> 0 .. now'] /\ qLatency' \in 0 .. now'
        /\ dqStart' \in 0 .. now'
    BY <1>0, <2>1 DEF Times
  <2>5. stopped' \in BOOLEAN
    BY <1>0, <2>1, Zenon DEF Times
  <2> QED
    BY <2>3, <2>4, <2>5, Zenon DEF Times
<1>4. ASSUME Tick
      PROVE  Times'
  <2>1. /\ now' = now + 1
        /\ UNCHANGED <<queue, stamp, qLatency, idle, idleTime, dqStart, running, stopped>>
    BY <1>4 DEF Tick, estimates, measurement
  <2>2. \A t \in 0 .. now : t \in 0 .. now'
    BY <1>0, <2>1
  <2>3. stamp \in [Packets -> 0 .. now']
    BY <1>0, <2>2 DEF Times
  <2> QED
    BY <1>0, <2>1, <2>2, <2>3 DEF Times
<1>5. CASE RunBlocked
  BY <1>0, <1>5 DEF RunBlocked, Times, estimates, measurement
<1>6. CASE Wake
  BY <1>0, <1>6 DEF Wake, Times, estimates, measurement
<1>7. CASE RunTimerEvent
  BY <1>0, <1>7 DEF RunTimerEvent, Times, estimates, measurement
<1> QED
  BY <1>1, <1>2, <1>3, <1>4, <1>5, <1>6, <1>7 DEF Next

\* the average,
LEMMA AverageKept ==
  ASSUME NEW R, P4Inv(R), Next
  PROVE  Average'
<1>1. ASSUME NEW p \in Packets, Send(p)
      PROVE  Average'
  BY <1>1, AverageFollows
<1>2. ASSUME qAvg' = qAvg
      PROVE  Average'
  BY <1>2 DEF P4Inv, Average
<1> QED
  BY <1>1, <1>2 DEF Next, DequeuePacket, DequeueNothing, RunBlocked, Wake, RunTimerEvent,
                    Tick, estimates

\* the dequeue rate, which is that of less than DqThreshold bytes and one packet,
LEMMA AverageRateBounded ==
  ASSUME NEW count \in 0 .. (DqThreshold + LargestPacket), NEW since \in 0 .. now,
         now \in Nat, Rate
  PROVE  AverageRate(count, since) \in 0 .. ((DqThreshold + LargestPacket) * Scale)
<1> DEFINE most == DqThreshold + LargestPacket
           top == most * Scale
           n == count * Scale
           rate == n \div (now - since)
<1>1. /\ most \in Nat /\ Scale \in Nat /\ count \in Nat /\ count <= most
      /\ avgDqRate \in 0 .. top
  BY SizeFacts, P4Assumption DEF P4Assumption, Rate
<1>2. n \in Nat /\ top \in Nat /\ n <= top
  <2> HIDE DEF most
  <2> QED
    BY <1>1, ProductNat
<1> HIDE DEF n, top
<1>3. ASSUME now # since
      PROVE  rate \in Nat /\ rate <= n
  <2> DEFINE d == now - since
  <2>1. d \in Nat \ {0}
    BY <1>3
  <2> HIDE DEF d
  <2>2. n \div d \in Nat /\ d * (n \div d) <= n
    BY <1>2, <2>1, QuotientProperties
  <2> DEFINE x == n \div d
  <2> HIDE DEF x
  <2>3. x <= d * x /\ d * x \in Nat
    BY <2>1, <2>2 DEF x
  <2> QED
    BY <1>2, <2>2, <2>3 DEF x, d
<1> HIDE DEF rate
<1>4. ASSUME now # since
      PROVE  (avgDqRate + rate) \div 2 \in 0 .. top
  BY <1>1, <1>2, <1>3, <1>4
<1>5. AverageRate(count, since) \in 0 .. top
  BY <1>1, <1>2, <1>3, <1>4 DEF AverageRate, rate, n
<1> QED
  BY <1>5 DEF top

LEMMA RateFollows ==
  ASSUME NEW R, ProgramSafe(R), P4Inv(R), Next
  PROVE  Rate'
<1>1. ASSUME UNCHANGED measurement
      PROVE  Rate'
  BY <1>1 DEF P4Inv, Rate, measurement
<1>2. ASSUME DequeuePacket
      PROVE  Rate'
  <2> DEFINE len == size[Head(queue)]
             left == nBytes - len
             start == ~ inMeasurement /\ left >= DqThreshold
             count == (IF start THEN 0 ELSE dqCount) + len
             since == IF start THEN now ELSE dqStart
             top == (DqThreshold + LargestPacket) * Scale
  <2>1. len \in Nat /\ len <= LargestPacket
    BY <1>2, DepartureRuns, SizeFacts DEF P4Inv, Queued
  <2>2. DqThreshold \in Nat \ {0} /\ LargestPacket \in Nat /\ Rate /\ now \in Nat
    BY SizeFacts, P4Assumption DEF P4Inv, Queued, P4Assumption
  <2>3. MeasureRate(len, left)
    BY <1>2 DEF DequeuePacket
  <2> HIDE DEF len, left
  <2>4. ASSUME inMeasurement \/ start
        PROVE  count \in 0 .. (DqThreshold + LargestPacket) /\ since \in 0 .. now
    BY <2>1, <2>2, <2>4 DEF Rate, P4Inv, Times
  <2>5. CASE inMeasurement \/ start
    <3> HIDE DEF count, since
    <3>1. CASE count < DqThreshold
      <4>1. inMeasurement' = TRUE /\ dqCount' = count /\ avgDqRate' = avgDqRate
        <5> HIDE DEF start
        <5> QED
          BY <2>2, <2>3, <2>4, <2>5, <3>1 DEF MeasureRate, count, since, start
      <4>2. count \in 0 .. (DqThreshold - 1)
        BY <2>2, <2>4, <2>5, <3>1
      <4> QED
        BY <2>2, <4>1, <4>2 DEF Rate
    <3>2. CASE ~ (count < DqThreshold)
      <4>1. avgDqRate' = AverageRate(count, since) /\ EndCycle(count, left, since)
        BY <2>3, <2>5, <3>2 DEF MeasureRate, count, since
      <4>2. inMeasurement' = (left > DqThreshold) /\ dqCount' = 0
        BY <4>1 DEF EndCycle
      <4>3. inMeasurement' \in BOOLEAN
        <5> DEFINE goesOn == left > DqThreshold
        <5>1. inMeasurement' = goesOn
          BY <4>2
        <5>2. goesOn \in BOOLEAN
          BY SMT
        <5> HIDE DEF goesOn
        <5> QED
          BY <5>1, <5>2
      <4>4. avgDqRate' \in 0 .. top
        BY <2>2, <2>4, <2>5, <4>1, AverageRateBounded
      <4>5. 0 \in 0 .. (DqThreshold - 1)
        BY <2>2
      <4> QED
        BY <2>2, <4>2, <4>3, <4>4, <4>5 DEF Rate
    <3> QED
      BY <3>1, <3>2
  <2>6. CASE ~ (inMeasurement \/ start)
    <3>1. UNCHANGED measurement
      BY <2>3, <2>6 DEF MeasureRate
    <3> QED
      BY <1>1, <3>1
  <2> QED
    BY <2>5, <2>6
<1> QED
  BY <1>1, <1>2 DEF Next, Send, DequeueNothing, RunBlocked, Wake, RunTimerEvent, Tick

\* and the timer event.
LEMMA NextMultiple ==
  ASSUME NEW n \in Nat, NEW d \in Nat \ {0}, n % d = 0
  PROVE  (n + d) % d = 0 /\ (n + d) \div d = n \div d + 1
<1> DEFINE q == n \div d
           r == (n + d) \div d
<1>1. q \in Nat /\ r \in Nat
  BY QuotientProperties
<1>2. n = d * q /\ (n + d) % d = (n + d) - d * r
  OBVIOUS
<1>3. d * r <= n + d /\ n + d < d * r + d
  BY QuotientProperties
<1> HIDE DEF q, r
<1>4. d * (q + 1) = n + d /\ d * (r + 1) = d * r + d
  BY <1>1, <1>2
<1>5. r <= q + 1
  BY <1>1, <1>3, <1>4, FactorCancels
<1>6. q + 1 <= r
  <2> SUFFICES ASSUME r <= q PROVE FALSE
    BY <1>1
  <2>1. d * r <= d * q
    BY <1>1, ProductGrows
  <2> QED
    BY <1>1, <1>2, <1>3, <2>1, ProductNat
<1>7. r = q + 1
  BY <1>1, <1>5, <1>6
<1> QED
  BY <1>2, <1>4, <1>7 DEF q, r

LEMMA TimerFollows ==
  ASSUME NEW R, P4Inv(R), Next
  PROVE  Timer'
<1>0. /\ Timer /\ now \in Nat /\ TimeReference \in Nat /\ timerEvent \in Nat
  BY P4Assumption DEF P4Inv, Queued, P4Assumption, Timer
<1>1. ASSUME UNCHANGED <<now, timerEvent>>
      PROVE  Timer'
  BY <1>0, <1>1 DEF Timer, TimerOnTime
<1>2. ASSUME RunTimerEvent
      PROVE  Timer'
  <2>1. timerEvent' = now + TimeReference /\ now' = now /\ timerEvent = now
    BY <1>2 DEF RunTimerEvent, Reschedule
  <2>2. TimeReference > 0 => timerEvent' % TimeReference = 0
    <3> SUFFICES ASSUME TimeReference > 0 PROVE timerEvent' % TimeReference = 0
      OBVIOUS
    <3>1. TimeReference \in Nat \ {0} /\ now % TimeReference = 0
      BY <1>0, <2>1 DEF Timer, TimerOnTime
    <3>2. (now + TimeReference) % TimeReference = 0
      BY <1>0, <3>1, NextMultiple
    <3> QED
      BY <2>1, <3>2
  <2> QED
    BY <1>0, <2>1, <2>2 DEF Timer, TimerOnTime
<1>3. ASSUME Tick
      PROVE  Timer'
  <2>1. now' = now + 1 /\ now < timerEvent /\ timerEvent' = timerEvent
    BY <1>3 DEF Tick
  <2> QED
    BY <1>0, <2>1 DEF Timer, TimerOnTime
<1> QED
  BY <1>1, <1>2, <1>3 DEF Next, Send, DequeuePacket, DequeueNothing, RunBlocked, Wake

-----------------------------------------------------------------------------
LEMMA P4Initially ==
  ASSUME NEW R, ProgramSafe(R), Init
  PROVE  P4Inv(R)
<1>1. /\ MaxTime \in Nat /\ MaxSize \in Nat /\ Scale \in Nat /\ DqThreshold \in Nat
      /\ TimeReference \in Nat /\ LargestPacket \in Nat
  BY SizeFacts, P4Assumption DEF P4Assumption
<1>2. ToSet(queue) = {} /\ queue \in Seq(Packets) /\ Distinct(queue)
  BY DEF Init, ToSet, Distinct
<1>3. TotalSize(ToSet(queue)) = 0
  BY <1>2, SumOverEmpty DEF TotalSize
<1>4. <<0, 0, 0, 0>> \in Traces
  BY DEF Traces
<1>5. Queued(R)
  BY <1>1, <1>2, <1>3, <1>4 DEF Init, Queued, ProgramSafe
<1>6. Times
  <2>1. /\ idle \in BOOLEAN /\ (idle => queue = <<>>) /\ running \in BOOLEAN
        /\ stopped \in BOOLEAN
    BY Zenon DEF Init
  <2>2. /\ now = 0 /\ qLatency = 0 /\ idleTime = 0 /\ dqStart = 0
        /\ stamp = [p \in Packets |-> 0]
    BY DEF Init
  <2> QED
    BY <2>1, <2>2 DEF Times
<1>7. Average
  BY <1>1, ProductNat DEF Init, Average
<1>8. Rate
  <2>1. (DqThreshold + LargestPacket) * Scale \in Nat
    BY <1>1, ProductNat
  <2>2. inMeasurement = FALSE /\ dqCount = DqCountInvalid /\ avgDqRate = 0
    BY DEF Init
  <2>3. inMeasurement \in BOOLEAN /\ ~ inMeasurement
    BY <2>2, Zenon
  <2> QED
    BY <2>1, <2>2, <2>3 DEF Rate
<1>9. Timer
  <2>1. TimeReference > 0 => TimeReference % TimeReference = 0
    BY <1>1
  <2> QED
    BY <1>1, <2>1 DEF Init, Timer, TimerOnTime, FirstTimerEvent, NoTimer
<1> QED
  BY <1>5, <1>6, <1>7, <1>8, <1>9 DEF P4Inv

LEMMA P4Step ==
  ASSUME NEW R, ProgramSafe(R), P4Inv(R), [Next]_vars
  PROVE  P4Inv(R)'
<1>1. CASE Next
  BY <1>1, QueuedFollows, TimesFollow, AverageKept, RateFollows, TimerFollows DEF P4Inv
<1>2. CASE UNCHANGED vars
  BY <1>2 DEF vars, bytes, estimates, measurement, P4Inv, Queued, Times, Average, Rate,
              Timer, TimerOnTime, TotalSize
<1> QED
  BY <1>1, <1>2

LEMMA P4Invariant ==
  ASSUME NEW R, ProgramSafe(R)
  PROVE  Spec => []P4Inv(R)
<1>1. Init => P4Inv(R)
  BY P4Initially
<1>2. P4Inv(R) /\ [Next]_vars => P4Inv(R)'
  BY P4Step
<1> QED
  BY <1>1, <1>2, PTL DEF Spec

LEMMA InvariantImplies ==
  ASSUME NEW R, P4Inv(R)
  PROVE  TypeOK /\ BytesExact /\ IdleIsEmpty
<1> USE DEF P4Inv
<1>1. /\ now \in 0 .. MaxTime /\ MaxTime \in Nat /\ MaxSize \in Nat
      /\ Scale \in Nat \ {0} /\ TimeReference \in Nat
      /\ \A t : t \in 0 .. now => t \in 0 .. MaxTime /\ t <= now
  BY P4Assumption DEF P4Assumption, Queued
<1>2. /\ {nBytes, received, droppedBytes, enqueued, qAvg, qLatency, avgDqRate} \subseteq Nat
      /\ queue \in Seq(Packets) /\ p4Vars \in Seq(Nat) /\ Len(p4Vars) = 4
      /\ arrived \subseteq Packets /\ size \in [Packets -> Nat]
  <2>1. size \in [Packets -> Nat]
    BY SizeFacts, P4Assumption DEF Queued, P4Assumption
  <2> QED
    BY <1>1, <2>1 DEF Queued, Times, Average, Rate, Traces
<1>3. /\ stamp \in [Packets -> 0 .. MaxTime] /\ {idleTime, dqStart} \subseteq 0 .. MaxTime
      /\ dqCount \in Nat \cup {DqCountInvalid} /\ timerEvent \in Nat
  BY <1>1 DEF Times, Rate, Timer
<1>4. {idle, inMeasurement, running, stopped} \subseteq BOOLEAN
  BY Zenon DEF Times, Rate
<1>5. QAvgInRange
  <2>1. qAvg \in Nat /\ qAvg <= MaxSize * Scale /\ Scale * MaxSize = MaxSize * Scale
    BY <1>1, ProductNat DEF Average
  <2>2. MapSize(qAvg, Scale) <= FullScale
    BY <1>1, <2>1, MapSizeInRange
  <2> QED
    BY <2>1, <2>2 DEF QAvgInRange
<1>6. RateBounded
  <2>1. (DqThreshold + LargestPacket) * Scale \in Nat
    BY SizeFacts, P4Assumption, ProductNat DEF P4Assumption
  <2>2. inMeasurement => dqCount \in 0 .. (DqThreshold - 1) /\ dqStart <= now
    BY <1>1 DEF Rate, Times
  <2> QED
    BY <2>1, <2>2 DEF Rate, RateBounded
<1>7. TypeOK
  BY <1>1, <1>2, <1>3, <1>4, <1>5, <1>6 DEF TypeOK, Timer
<1>8. BytesExact
  BY DEF BytesExact, Queued
<1>9. IdleIsEmpty
  BY <1>1 DEF IdleIsEmpty, Times
<1> QED
  BY <1>7, <1>8, <1>9

\* Whatever the program drops, the variables of the queue disc keep their types and ranges:
\* the average stays within the queue, the dequeue rate within that of a measurement cycle,
\* and the timer event is never late (P4QueueDisc::DoEnqueue, DoDequeue, RunTimerEvent).
THEOREM P4TypeCorrect ==
  ASSUME NEW R, ProgramSafe(R)
  PROVE  Spec => []TypeOK
<1>1. P4Inv(R) => TypeOK
  BY InvariantImplies
<1> QED
  BY <1>1, P4Invariant, PTL

\* The bytes that were received were dropped or enqueued, and m_nBytes counts the queue, for
\* every program that leaves the length of a packet alone (QueueDisc::Enqueue, Dequeue).
THEOREM P4BytesExact ==
  ASSUME NEW R, ProgramSafe(R)
  PROVE  Spec => []BytesExact
<1>1. P4Inv(R) => BytesExact
  BY InvariantImplies
<1> QED
  BY <1>1, P4Invariant, PTL

\* A queue disc that calls itself idle is empty and has been so for a while that is not
\* negative (P4QueueDisc::DoEnqueue counts the packets that it has missed).
THEOREM P4IdleIsEmpty ==
  ASSUME NEW R, ProgramSafe(R)
  PROVE  Spec => []IdleIsEmpty
<1>1. P4Inv(R) => IdleIsEmpty
  BY InvariantImplies
<1> QED
  BY <1>1, P4Invariant, PTL

-----------------------------------------------------------------------------
(***************************************************************************)
(* The programs of the examples.                                           *)
(***************************************************************************)
QsizeRegisters == [program : {"track-qsize"}, qsize : Nat]
TokenRegisters == [program : {"token-bucket"}, tokens : Nat]
MicroburstRegisters ==
  [program : {"microburst"}, flow_count : [FlowIDs -> Nat], num_culprits : Nat]
PieRegisters == [program : {"pie"}, prob : Nat, qdelay : Nat, time_next : Nat]
EwmaRegisters == [program : {"red-ewma"}, avg : Nat]

Programs ==
  {InitAny, InitRed} \cup QsizeRegisters \cup TokenRegisters \cup MicroburstRegisters
    \cup PieRegisters \cup EwmaRegisters

\* An outcome that the queue disc can use, of the program that was run.
IsOutcome(reg, m, r) ==
  /\ r.registers \in Programs /\ r.registers.program = reg.program
  /\ r.trace \in Traces /\ r.len = m.pkt_len_bytes

LEMMA TraceKept ==
  ASSUME NEW t \in Traces, NEW i \in 1 .. 4, NEW n \in Nat
  PROVE  [t EXCEPT ![i] = n] \in Traces /\ [t EXCEPT ![i] = n][i] = n
<1> DEFINE w == [t EXCEPT ![i] = n]
<1>1. t \in Seq(Nat) /\ Len(t) = 4
  BY DEF Traces
<1>2. t \in [1 .. 4 -> Nat]
  BY <1>1, LenProperties
<1>3. w \in [1 .. 4 -> Nat] /\ w[i] = n
  BY <1>2
<1> HIDE DEF w
<1>4. w \in Seq(Nat)
  <2>1. w \in UNION {[1 .. k -> Nat] : k \in Nat}
    BY <1>3
  <2>2. Seq(Nat) = UNION {[1 .. k -> Nat] : k \in Nat}
    BY ONLY SeqDef
  <2> QED
    BY <2>1, <2>2, Zenon
<1>5. Len(w) = 4
  BY <1>3, <1>4, LenProperties
<1> QED
  BY <1>3, <1>4, <1>5 DEF Traces, w

LEMMA QsizeRun ==
  ASSUME NEW reg \in QsizeRegisters, NEW m, IsMetadata(m), NEW r \in TrackQsizeIngress(reg, m)
  PROVE  /\ IsOutcome(reg, m, r)
         /\ r.registers \in QsizeRegisters
         /\ r.registers.qsize = compute_qsize(reg.qsize, m)
         /\ r.trace[1] = compute_qsize(reg.qsize, m)
         /\ r.drop = (compute_qsize(reg.qsize, m) > QTHRESH)
<1> DEFINE qsize == compute_qsize(reg.qsize, m)
<1>1. qsize \in Nat
  BY QsizeAssumption DEF compute_qsize, SatAdd, SatSub, IsMetadata, QsizeRegisters,
                         QsizeAssumption
<1> HIDE DEF qsize
<1> DEFINE new == [reg EXCEPT !.qsize = qsize]
           trace == [m.trace EXCEPT ![1] = qsize]
<1>2. /\ new \in QsizeRegisters /\ new.qsize = qsize
      /\ new.program = "track-qsize" /\ reg.program = "track-qsize"
  BY <1>1 DEF QsizeRegisters
<1>3. trace \in Traces /\ trace[1] = qsize
  BY <1>1, TraceKept DEF IsMetadata
<1>4. /\ r.registers = new /\ r.trace = trace /\ r.len = m.pkt_len_bytes
      /\ r.drop = (qsize > QTHRESH)
  BY DEF TrackQsizeIngress, qsize
<1> HIDE DEF new, trace
<1> QED
  BY <1>2, <1>3, <1>4 DEF IsOutcome, Programs, qsize

LEMMA TokenRun ==
  ASSUME NEW reg \in TokenRegisters, NEW m, IsMetadata(m), NEW r \in TokenBucketIngress(reg, m)
  PROVE  /\ IsOutcome(reg, m, r)
         /\ r.registers \in TokenRegisters
         /\ r.registers.tokens = token_bucket(reg.tokens, m)[1]
         /\ r.drop = ~ token_bucket(reg.tokens, m)[2]
<1> DEFINE tb == token_bucket(reg.tokens, m)
<1>1. tb[1] \in Nat
  BY TokenAssumption DEF token_bucket, Filled, Granted, Request, IsMetadata, TokenRegisters,
                         TokenAssumption
<1> HIDE DEF tb
<1> DEFINE new == [reg EXCEPT !.tokens = tb[1]]
<1>2. /\ new \in TokenRegisters /\ new.tokens = tb[1]
      /\ new.program = "token-bucket" /\ reg.program = "token-bucket"
  BY <1>1 DEF TokenRegisters
<1>3. /\ r.registers = new /\ r.trace = m.trace /\ r.len = m.pkt_len_bytes
      /\ r.drop = ~ tb[2]
  BY DEF TokenBucketIngress, tb
<1> HIDE DEF new
<1> QED
  BY <1>2, <1>3 DEF IsOutcome, Programs, tb, IsMetadata

LEMMA FlowIDInRange ==
  ASSUME NEW h \in Nat
  PROVE  FlowID(h) \in FlowIDs /\ FlowID(h) \in Nat
BY MicroburstAssumption DEF FlowID, FlowIDs, MicroburstAssumption

LEMMA MicroburstRun ==
  ASSUME NEW reg \in MicroburstRegisters, NEW m, IsMetadata(m),
         NEW r \in MicroburstIngress(reg, m)
  PROVE  LET f == FlowID(m.flow_hash)
             count == Counted(reg.flow_count[f], m)
             culprits == Culprits(reg.num_culprits, count, m)
         IN  /\ IsOutcome(reg, m, r)
             /\ r.registers \in MicroburstRegisters
             /\ r.registers.flow_count = [reg.flow_count EXCEPT ![f] = count]
             /\ r.registers.num_culprits = culprits
             /\ r.trace[1] = culprits
<1> DEFINE f == FlowID(m.flow_hash)
           count == Counted(reg.flow_count[f], m)
           culprits == Culprits(reg.num_culprits, count, m)
           queried == m.trigger = "ingress"
           new == [reg EXCEPT !.flow_count[f] = count, !.num_culprits = culprits]
           trace == <<culprits, IF queried THEN f ELSE 0, IF queried THEN count ELSE 0,
                      m.trace[4]>>
<1>1. f \in FlowIDs /\ f \in Nat
  BY FlowIDInRange DEF IsMetadata
<1>2. reg.flow_count[f] \in Nat /\ reg.num_culprits \in Nat
  BY <1>1 DEF MicroburstRegisters
<1> HIDE DEF f
<1>3. count \in Nat
  BY <1>2, MicroburstAssumption DEF Counted, SatPlus, SatMinus, IsMetadata,
                                    MicroburstAssumption
<1> HIDE DEF count
<1>4. culprits \in Nat
  BY <1>2, MicroburstAssumption DEF Culprits, SatPlus, SatMinus, MicroburstAssumption
<1> HIDE DEF culprits
<1>5. /\ new \in MicroburstRegisters /\ new.num_culprits = culprits
      /\ new.flow_count = [reg.flow_count EXCEPT ![f] = count]
      /\ new.program = "microburst" /\ reg.program = "microburst"
  BY <1>1, <1>3, <1>4 DEF MicroburstRegisters
<1>6. trace \in Traces /\ trace[1] = culprits
  BY <1>1, <1>3, <1>4 DEF Traces, IsMetadata
<1>7. r = [registers |-> new, trace |-> trace, drop |-> FALSE, len |-> m.pkt_len_bytes]
  BY DEF MicroburstIngress, f, count, culprits
<1> HIDE DEF new, trace
<1> QED
  BY <1>5, <1>6, <1>7 DEF IsOutcome, Programs, f, count, culprits

LEMMA DividedNat ==
  ASSUME NEW n \in Nat, NEW k \in Nat
  PROVE  n \div 2^k \in Nat /\ n \div 2^k <= n
<1> DEFINE d == 2^k
           q == n \div d
<1>1. d \in Nat \ {0}
  BY PowerOfTwo
<1> HIDE DEF d
<1>2. q \in Nat /\ d * q <= n
  BY <1>1, QuotientProperties
<1> HIDE DEF q
<1>3. q <= d * q /\ d * q \in Nat
  BY <1>1, <1>2
<1>4. q \in Nat /\ q <= n
  BY <1>2, <1>3
<1> QED
  BY <1>4 DEF q, d

LEMMA DividedInt ==
  ASSUME NEW n \in Int, NEW k \in Nat
  PROVE  n \div 2^k \in Int
BY PowerOfTwo, QuotientProperties

LEMMA SignedInt ==
  ASSUME NEW x \in Int
  PROVE  Unsigned(x) \in Nat /\ Unsigned(x) < Word /\ Signed(x) \in Int
<1>1. Word \in Nat \ {0}
  BY PieAssumption DEF PieAssumption
<1>2. Unsigned(x) \in 0 .. (Word - 1)
  BY <1>1 DEF Unsigned
<1> QED
  BY <1>1, <1>2 DEF Signed

PieConstants ==
  /\ PIE.target \in Nat /\ PIE.period \in Nat /\ PIE.late \in Nat /\ PIE.alpha \in Nat
  /\ PIE.beta \in Nat /\ PIE.maxProb \in Nat \ {0} /\ PIE.light \in Nat /\ PIE.medium \in Nat
  /\ PIE.heavy \in Nat /\ PIE.step \in Nat /\ PIE.deltaShift \in Nat
  /\ PIE.lightShift \in Nat /\ PIE.mediumShift \in Nat /\ PIE.heavyShift \in Nat
  /\ PIE.decayShift \in Nat

LEMMA PieConstantsTyped == PieConstants
BY PieAssumption DEF PieAssumption, PieConstants

LEMMA DeltaInt ==
  ASSUME NEW prob \in Nat, NEW qdelay \in Nat, NEW old \in Nat
  PROVE  Delta(prob, qdelay, old) \in Int
<1> USE PieConstantsTyped DEF PieConstants
<1> DEFINE a == PIE.alpha * (qdelay - PIE.target)
           b == PIE.beta * (qdelay - old)
           pi == Signed(Signed(a) + Signed(b))
           d == pi \div 2^PIE.deltaShift
           graded == Graded(pi, prob)
           limited == IF graded > PIE.step /\ prob >= PIE.heavy THEN PIE.step ELSE graded
<1>1. a \in Int /\ b \in Int
  OBVIOUS
<1> HIDE DEF a, b
<1>2. pi \in Int
  BY <1>1, SignedInt
<1> HIDE DEF pi
<1>3. d \in Int
  BY <1>2, DividedInt
<1> HIDE DEF d
<1>4. /\ d \div 2^PIE.lightShift \in Int /\ d \div 2^PIE.mediumShift \in Int
      /\ d \div 2^PIE.heavyShift \in Int /\ Signed(2 * d) \in Int
  BY <1>3, DividedInt, SignedInt
<1>5. graded \in Int
  BY <1>4 DEF Graded, d
<1> HIDE DEF graded
<1>6. limited \in Int
  BY <1>5
<1> HIDE DEF limited
<1>7. Delta(prob, qdelay, old) = IF qdelay > PIE.late THEN limited + PIE.step ELSE limited
  BY DEF Delta, limited, graded, pi, a, b
<1> QED
  BY <1>6, <1>7

LEMMA NewProbNat ==
  ASSUME NEW prob \in Nat, NEW qdelay \in Nat, NEW old \in Nat
  PROVE  NewProb(prob, qdelay, old) \in Nat
<1> USE PieConstantsTyped DEF PieConstants
<1> DEFINE delta == Delta(prob, qdelay, old)
           moved == Unsigned(prob + delta)
           decayed == IF qdelay = 0 /\ old = 0
                      THEN moved - moved \div 2^PIE.decayShift ELSE moved
<1>1. delta \in Int
  BY DeltaInt
<1> HIDE DEF delta
<1>2. moved \in Nat
  BY <1>1, SignedInt
<1> HIDE DEF moved
<1>3. moved \div 2^PIE.decayShift \in Nat /\ moved \div 2^PIE.decayShift <= moved
  BY <1>2, DividedNat
<1>4. decayed \in Nat
  BY <1>2, <1>3
<1> HIDE DEF decayed
<1>5. NewProb(prob, qdelay, old) \in {PIE.maxProb, 0, decayed}
  BY <1>1, <1>4 DEF NewProb, decayed, moved, delta
<1> QED
  BY <1>4, <1>5

LEMMA PieSafe ==
  ASSUME NEW reg \in PieRegisters, NEW m, IsMetadata(m), NEW r \in PieIngress(reg, m)
  PROVE  IsOutcome(reg, m, r)
<1> DEFINE own == m.trigger \in {"drop", "enq", "deq"}
           qdelay == IF own THEN 0 ELSE m.qlatency
           new == Updated(reg, qdelay, IF own THEN 0 ELSE m.timestamp)
           trace == [m.trace EXCEPT ![4] = new.prob % PIE.maxProb]
<1>1. qdelay \in Nat /\ reg.prob \in Nat /\ reg.qdelay \in Nat /\ reg.time_next \in Nat
  BY DEF IsMetadata, PieRegisters
<1> HIDE DEF qdelay
<1>2. NewProb(reg.prob, qdelay, reg.qdelay) \in Nat
  BY <1>1, NewProbNat
<1>3. PIE.period \in Nat /\ PIE.maxProb \in Nat \ {0}
  BY PieConstantsTyped DEF PieConstants
<1>4. new \in PieRegisters
  <2> DEFINE prob == NewProb(reg.prob, qdelay, reg.qdelay)
             moved == [reg EXCEPT !.prob = prob, !.qdelay = qdelay,
                                  !.time_next = @ + PIE.period]
  <2>1. new = moved \/ new = reg
    BY DEF Updated
  <2>2. prob \in Nat
    BY <1>2
  <2> HIDE DEF prob
  <2>3. moved \in PieRegisters
    <3> DEFINE next == reg.time_next + PIE.period
    <3>1. next \in Nat
      BY <1>1, <1>3
    <3>2. moved = [reg EXCEPT !.prob = prob, !.qdelay = qdelay, !.time_next = next]
      OBVIOUS
    <3> HIDE DEF moved, next
    <3> QED
      BY <1>1, <2>2, <3>1, <3>2 DEF PieRegisters
  <2> HIDE DEF moved, new
  <2> QED
    BY <2>1, <2>3
<1> HIDE DEF new
<1>5. trace \in Traces
  <2>1. new.prob % PIE.maxProb \in Nat
    BY <1>3, <1>4 DEF PieRegisters
  <2> DEFINE n == new.prob % PIE.maxProb
  <2> HIDE DEF n
  <2>2. [m.trace EXCEPT ![4] = n] \in Traces
    BY <2>1, TraceKept DEF IsMetadata, n
  <2> QED
    BY <2>2 DEF n
<1>6. /\ r.registers \in {reg, new} /\ r.trace \in {m.trace, trace}
      /\ r.len = m.pkt_len_bytes
  <2> DEFINE qdepth == IF own THEN 0 ELSE m.qdepth
             exposed == (qdelay >= PIE.target \div 2 \/ new.prob >= PIE.certain)
                          /\ qdepth > PIE.minDepth
  <2>1. \/ r = [registers |-> reg, trace |-> m.trace, drop |-> TRUE, len |-> m.pkt_len_bytes]
        \/ \E d \in IF exposed THEN Draws(new.prob) ELSE {FALSE} :
             r = [registers |-> new, trace |-> trace, drop |-> d, len |-> m.pkt_len_bytes]
    BY DEF PieIngress, own, qdelay, new
  <2> HIDE DEF exposed, trace, new
  <2>2. ASSUME r = [registers |-> reg, trace |-> m.trace, drop |-> TRUE,
                    len |-> m.pkt_len_bytes]
        PROVE  r.registers = reg /\ r.trace = m.trace /\ r.len = m.pkt_len_bytes
    BY <2>2
  <2>3. ASSUME NEW d, r = [registers |-> new, trace |-> trace, drop |-> d,
                           len |-> m.pkt_len_bytes]
        PROVE  r.registers = new /\ r.trace = trace /\ r.len = m.pkt_len_bytes
    BY <2>3
  <2> QED
    BY <2>1, <2>2, <2>3, Zenon
<1> HIDE DEF trace
<1>7. reg.program = "pie" /\ new.program = "pie"
  BY <1>4 DEF PieRegisters
<1> QED
  BY <1>4, <1>5, <1>6, <1>7 DEF IsOutcome, Programs, IsMetadata

\* A set of numbers has a least one.
LEMMA LeastNumber ==
  ASSUME NEW S \in SUBSET Nat, S # {}
  PROVE  Min(S) \in S
<1> DEFINE O == OpToRel(<, Nat)
<1>1. IsWellFoundedOn(O, Nat)
  BY NatLessThanWellFounded
<1>2. \A y, x \in Nat : <<y, x>> \in O <=> y < x
  BY DEF OpToRel
<1> HIDE DEF O
<1>3. PICK x \in S : \A y \in S : ~ (<<y, x>> \in O)
  BY <1>1, WFMin
<1>4. \A y \in S : x <= y
  <2> SUFFICES ASSUME NEW y \in S PROVE x <= y
    OBVIOUS
  <2>1. x \in Nat /\ y \in Nat
    OBVIOUS
  <2>2. ~ (y < x)
    BY <1>2, <1>3, <2>1
  <2> QED
    BY <2>1, <2>2
<1> QED
  BY <1>4 DEF Min

LEMMA DecayFactorNat ==
  ASSUME NEW t
  PROVE  DecayFactor(t) \in Nat
<1> DEFINE hits == {i \in DOMAIN RED.decay : t <= RED.decay[i].upTo}
<1>1. RED.decay \in Seq([upTo : Nat, factor : 0 .. 7]) /\ RED.longDecay \in Nat
  BY RedTablesAssumption DEF RedTablesAssumption
<1>2. hits \in SUBSET Nat
  BY <1>1
<1>3. CASE hits = {}
  BY <1>1, <1>3 DEF DecayFactor
<1>4. CASE hits # {}
  <2>1. Min(hits) \in DOMAIN RED.decay
    <3> HIDE DEF hits
    <3>1. Min(hits) \in hits
      BY <1>2, <1>4, LeastNumber
    <3> QED
      BY <3>1 DEF hits
  <2> DEFINE entry == RED.decay[Min(hits)]
  <2>2. entry \in [upTo : Nat, factor : 0 .. 7]
    <3> DEFINE table == RED.decay
               i == Min(hits)
               S == [upTo : Nat, factor : 0 .. 7]
    <3>1. table \in Seq(S) /\ i \in DOMAIN table
      BY <1>1, <2>1
    <3> HIDE DEF table, i, S
    <3>2. table[i] \in S
      BY <3>1
    <3> QED
      BY <3>2 DEF table, i, S
  <2>3. DecayFactor(t) = entry.factor
    BY <1>4 DEF DecayFactor
  <2> HIDE DEF entry
  <2> QED
    BY <2>2, <2>3
<1> QED
  BY <1>3, <1>4

LEMMA EwmaStepBetween ==
  ASSUME NEW avg \in Nat, NEW depth \in Nat
  PROVE  /\ EwmaStep(avg, depth) \in Nat
         /\ depth > avg => EwmaStep(avg, depth) \in avg .. depth
         /\ depth <= avg => EwmaStep(avg, depth) \in depth .. avg
<1>1. RED.logQw \in Nat
  BY RedTablesAssumption DEF RedTablesAssumption
<1>2. CASE depth > avg
  <2> DEFINE d == depth - avg
             x == d \div 2^RED.logQw
  <2>1. d \in Nat
    BY <1>2
  <2> HIDE DEF d
  <2>2. x \in Nat /\ x <= d
    BY <1>1, <2>1, DividedNat
  <2>3. EwmaStep(avg, depth) = avg + x
    BY <1>2 DEF EwmaStep, d
  <2> HIDE DEF x
  <2> QED
    BY <1>2, <2>2, <2>3 DEF d
<1>3. CASE ~ (depth > avg)
  <2> DEFINE d == avg - depth
             x == d \div 2^RED.logQw
  <2>1. d \in Nat
    BY <1>3
  <2> HIDE DEF d
  <2>2. x \in Nat /\ x <= d
    BY <1>1, <2>1, DividedNat
  <2>3. EwmaStep(avg, depth) = avg - x
    BY <1>3 DEF EwmaStep, d
  <2> HIDE DEF x
  <2> QED
    BY <1>3, <2>2, <2>3 DEF d
<1> QED
  BY <1>2, <1>3

LEMMA NewAverageNat ==
  ASSUME NEW avg \in Nat, NEW depth \in Nat, NEW t
  PROVE  NewAverage(avg, depth, t) \in Nat
BY EwmaStepBetween, DecayFactorNat, DividedNat DEF NewAverage

\* The average after a run.
SampledAverage(reg, m) ==
  IF Own(m) THEN NewAverage(reg.avg, 0, 0)
  ELSE NewAverage(reg.avg, m.qdepth, m.timestamp - m.idle_time)

LEMMA EwmaRun ==
  ASSUME NEW reg \in EwmaRegisters, NEW m, IsMetadata(m), NEW r \in RedEwmaIngress(reg, m)
  PROVE  /\ IsOutcome(reg, m, r)
         /\ r.registers \in EwmaRegisters
         /\ r.registers.avg = SampledAverage(reg, m)
         /\ r.drop \in RedDraws(SampledAverage(reg, m))
<1> DEFINE avg == SampledAverage(reg, m)
           new == [reg EXCEPT !.avg = avg]
           trace == [m.trace EXCEPT ![1] = avg]
<1>1. avg \in Nat
  BY NewAverageNat DEF EwmaRegisters, IsMetadata, SampledAverage
<1> HIDE DEF avg
<1>2. /\ new \in EwmaRegisters /\ new.avg = avg
      /\ new.program = "red-ewma" /\ reg.program = "red-ewma"
  BY <1>1 DEF EwmaRegisters
<1>3. trace \in Traces
  BY <1>1, TraceKept DEF IsMetadata
<1>4. /\ r.registers = new /\ r.trace = trace /\ r.len = m.pkt_len_bytes
      /\ r.drop \in RedDraws(avg)
  BY DEF RedEwmaIngress, RedOutcomes, avg, SampledAverage
<1> HIDE DEF new, trace
<1> QED
  BY <1>2, <1>3, <1>4 DEF IsOutcome, Programs, avg

\* One of the programs is loaded.
ProgramsLoaded ==
  /\ InitRegisters \subseteq ProgramRegisters
  /\ \A reg, m : Pipeline(reg, m) = ProgramPipeline(reg, m)

LEMMA WhichProgram ==
  ASSUME NEW reg \in Programs
  PROVE  /\ reg.program \in {"any", "red", "track-qsize", "token-bucket", "microburst", "pie",
                             "red-ewma"}
         /\ reg.program = "any" => reg = InitAny
         /\ reg.program = "red" => reg = InitRed
         /\ reg.program = "track-qsize" => reg \in QsizeRegisters
         /\ reg.program = "token-bucket" => reg \in TokenRegisters
         /\ reg.program = "microburst" => reg \in MicroburstRegisters
         /\ reg.program = "pie" => reg \in PieRegisters
         /\ reg.program = "red-ewma" => reg \in EwmaRegisters
<1>1. InitAny.program = "any" /\ InitRed.program = "red"
  BY DEF InitAny, InitRed
<1>2. /\ \A r \in QsizeRegisters : r.program = "track-qsize"
      /\ \A r \in TokenRegisters : r.program = "token-bucket"
      /\ \A r \in MicroburstRegisters : r.program = "microburst"
      /\ \A r \in PieRegisters : r.program = "pie"
      /\ \A r \in EwmaRegisters : r.program = "red-ewma"
  BY DEF QsizeRegisters, TokenRegisters, MicroburstRegisters, PieRegisters, EwmaRegisters
<1> QED
  BY <1>1, <1>2 DEF Programs

LEMMA ProgramRun ==
  ASSUME NEW reg \in Programs, NEW m, IsMetadata(m), NEW r \in ProgramPipeline(reg, m)
  PROVE  IsOutcome(reg, m, r)
<1>1. CASE reg.program = "any"
  <2>1. r \in AnyIngress(reg, m)
    BY <1>1 DEF ProgramPipeline
  <2>2. r.registers = reg /\ r.trace = m.trace /\ r.len = m.pkt_len_bytes
    BY <2>1 DEF AnyIngress
  <2> QED
    BY <2>2 DEF IsOutcome, IsMetadata
<1>2. CASE reg.program = "red"
  <2>1. r \in RedIngress(reg, m)
    BY <1>2 DEF ProgramPipeline
  <2>2. r.registers = reg /\ r.trace = m.trace /\ r.len = m.pkt_len_bytes
    BY <2>1 DEF RedIngress, RedOutcomes
  <2> QED
    BY <2>2 DEF IsOutcome, IsMetadata
<1>3. CASE reg.program = "track-qsize"
  BY <1>3, WhichProgram, QsizeRun DEF ProgramPipeline
<1>4. CASE reg.program = "token-bucket"
  BY <1>4, WhichProgram, TokenRun DEF ProgramPipeline
<1>5. CASE reg.program = "microburst"
  BY <1>5, WhichProgram, MicroburstRun DEF ProgramPipeline
<1>6. CASE reg.program = "pie"
  BY <1>6, WhichProgram, PieSafe DEF ProgramPipeline
<1>7. CASE reg.program = "red-ewma"
  BY <1>7, WhichProgram, EwmaRun DEF ProgramPipeline
<1> QED
  BY <1>1, <1>2, <1>3, <1>4, <1>5, <1>6, <1>7, WhichProgram

LEMMA ProgramsSafe ==
  ASSUME ProgramsLoaded
  PROVE  ProgramSafe(Programs)
<1>1. ProgramRegisters \subseteq Programs
  <2>1. InitQsize \in QsizeRegisters
    BY DEF InitQsize, QsizeRegisters
  <2>2. InitTokens \in TokenRegisters
    BY DEF InitTokens, TokenRegisters
  <2>3. InitMicroburst \in MicroburstRegisters
    BY DEF InitMicroburst, MicroburstRegisters
  <2>4. InitPie \in PieRegisters
    BY DEF InitPie, PieRegisters
  <2>5. InitRedEwma \in EwmaRegisters
    BY DEF InitRedEwma, EwmaRegisters
  <2> QED
    BY <2>1, <2>2, <2>3, <2>4, <2>5 DEF ProgramRegisters, Programs
<1> QED
  BY <1>1, ProgramRun DEF ProgramsLoaded, ProgramSafe, IsOutcome

\* A program stays loaded.
LEMMA EventRuns ==
  ASSUME ProgramsLoaded, NEW enabled, NEW t, NEW p, NEW r, r.registers \in Programs,
         r.trace \in Traces, EventFollows(enabled, t, p, r)
  PROVE  registers' \in Programs /\ registers'.program = r.registers.program
<1>1. CASE enabled
  <2>1. PICK m, s : /\ IsMetadata(m) /\ s \in ProgramPipeline(r.registers, m)
                    /\ registers' = s.registers
    BY <1>1 DEF EventFollows, ProgramsLoaded, SetOutputs
  <2> QED
    BY <2>1, ProgramRun DEF IsOutcome
<1>2. CASE ~ enabled
  BY <1>2 DEF EventFollows, SetOutputs
<1> QED
  BY <1>1, <1>2

LEMMA ProgramStays ==
  ASSUME ProgramsLoaded, P4Inv(Programs), Next
  PROVE  registers' \in Programs /\ registers'.program = registers.program
<1> USE ProgramsSafe
<1>1. registers \in Programs
  BY DEF P4Inv, Queued
<1>2. ASSUME NEW p \in Packets, Send(p)
      PROVE  registers' \in Programs /\ registers'.program = registers.program
  <2>1. PICK m, r : /\ IsMetadata(m) /\ r \in ProgramPipeline(registers, m)
                    /\ IsDropped(p, r) \/ IsEnqueued(p, r)
    BY <1>2, ArrivalRuns DEF IsArrival, ProgramsLoaded
  <2>2. /\ r.registers \in Programs /\ r.trace \in Traces
        /\ r.registers.program = registers.program
    BY <1>1, <2>1, ProgramRun DEF IsOutcome
  <2> QED
    BY <2>1, <2>2, EventRuns DEF IsDropped, IsEnqueued
<1>3. ASSUME DequeuePacket
      PROVE  registers' \in Programs /\ registers'.program = registers.program
  <2>1. NoRun.registers = registers /\ NoRun.trace = p4Vars /\ p4Vars \in Traces
    BY DEF NoRun, P4Inv, Queued
  <2>2. EventFollows(DeqEvents, "deq", Head(queue), NoRun)
    BY <1>3, DepartureRuns
  <2> QED
    BY <1>1, <2>1, <2>2, EventRuns
<1>4. ASSUME RunTimerEvent
      PROVE  registers' \in Programs /\ registers'.program = registers.program
  <2>1. PICK m, r : /\ IsMetadata(m) /\ r \in ProgramPipeline(registers, m)
                    /\ registers' = r.registers
    BY <1>4, TimerRuns DEF SetOutputs, ProgramsLoaded
  <2> QED
    BY <1>1, <2>1, ProgramRun DEF IsOutcome
<1> QED
  BY <1>1, <1>2, <1>3, <1>4 DEF Next, DequeueNothing, RunBlocked, Wake, Tick

LEMMA ProgramsInvariant ==
  ASSUME ProgramsLoaded
  PROVE  ProgramSpec => []P4Inv(Programs)
<1>1. ProgramInit => P4Inv(Programs)
  BY ProgramsSafe, P4Initially DEF ProgramInit
<1>2. P4Inv(Programs) /\ [ProgramNext]_programVars => P4Inv(Programs)'
  <2>1. [ProgramNext]_programVars => [Next]_vars
    BY DEF ProgramNext, OpenWindow, programVars
  <2> QED
    BY <2>1, ProgramsSafe, P4Step
<1> QED
  BY <1>1, <1>2, PTL DEF ProgramSpec

\* With any of the programs loaded, the variables of the queue disc keep their types and
\* ranges (P4QueueDisc::DoEnqueue, DoDequeue, RunTimerEvent).
THEOREM ProgramsTypeCorrect ==
  ASSUME ProgramsLoaded
  PROVE  ProgramSpec => []TypeOK
<1>1. P4Inv(Programs) => TypeOK
  BY InvariantImplies
<1> QED
  BY <1>1, ProgramsInvariant, PTL

\* With any of them, no byte is lost to the counters (QueueDisc::Enqueue, Dequeue),
THEOREM ProgramsBytesExact ==
  ASSUME ProgramsLoaded
  PROVE  ProgramSpec => []BytesExact
<1>1. P4Inv(Programs) => BytesExact
  BY InvariantImplies
<1> QED
  BY <1>1, ProgramsInvariant, PTL

\* and only an empty queue is called idle (P4QueueDisc::DoDequeue).
THEOREM ProgramsIdleIsEmpty ==
  ASSUME ProgramsLoaded
  PROVE  ProgramSpec => []IdleIsEmpty
<1>1. P4Inv(Programs) => IdleIsEmpty
  BY InvariantImplies
<1> QED
  BY <1>1, ProgramsInvariant, PTL

-----------------------------------------------------------------------------
(***************************************************************************)
(* track-qsize.p4: the register follows the queue if the enqueue and       *)
(* dequeue events are connected and no queue is too long for its width.    *)
(***************************************************************************)
EventsConnected == EnqEvents = TRUE /\ DeqEvents = TRUE

\* What track-qsize.p4 has in its register, and traces, as the size of the queue.
Told(reg, trace, n) == reg \in QsizeRegisters /\ reg.qsize = n /\ trace[1] = n

LEMMA QsizeTold ==
  ASSUME ProgramsLoaded, NEW reg, NEW trace, NEW n \in Nat, Told(reg, trace, n),
         NEW m, IsMetadata(m), NEW r \in Pipeline(reg, m), NEW k \in Nat,
         compute_qsize(n, m) = k
  PROVE  Told(r.registers, r.trace, k) /\ r.trace \in Traces /\ r.drop = (k > QTHRESH)
<1>1. r \in TrackQsizeIngress(reg, m)
  <2>1. reg.program = "track-qsize"
    BY DEF Told, QsizeRegisters
  <2> QED
    BY <2>1 DEF ProgramsLoaded, ProgramPipeline
<1> QED
  BY <1>1, QsizeRun DEF Told, IsOutcome

LEMMA QsizeFollows ==
  ASSUME ProgramsLoaded, EventsConnected, MaxSize < DepthMod,
         P4Inv(Programs), QsizeIsQueueSize, Next
  PROVE  QsizeIsQueueSize'
<1> USE ProgramsSafe
<1> SUFFICES ASSUME Loaded("track-qsize")'
             PROVE  /\ registers'.qsize = nBytes' /\ p4Vars'[1] = nBytes'
                    /\ nBytes' <= QTHRESH + LargestPacket
  BY DEF QsizeIsQueueSize
<1>1. registers \in QsizeRegisters
  BY ProgramStays, WhichProgram DEF Loaded, P4Inv, Queued
<1>2. /\ Told(registers, p4Vars, nBytes) /\ nBytes <= QTHRESH + LargestPacket
      /\ nBytes \in Nat /\ nBytes <= MaxSize /\ p4Vars \in Traces
  <2>1. Loaded("track-qsize")
    BY <1>1 DEF Loaded, QsizeRegisters
  <2> QED
    BY <1>1, <2>1, P4Assumption DEF Told, QsizeIsQueueSize, P4Inv, Queued, P4Assumption
<1>3. /\ MaxSize \in Nat /\ DepthMod \in Nat /\ QTHRESH \in Nat /\ LargestPacket \in Nat
      /\ \A p \in Packets : size[p] \in Nat /\ size[p] <= LargestPacket
  BY P4Assumption, QsizeAssumption, SizeFacts
     DEF P4Assumption, QsizeAssumption, P4Inv, Queued
<1>4. ASSUME NEW p \in Packets, Send(p)
      PROVE  Told(registers', p4Vars', nBytes') /\ nBytes' <= QTHRESH + LargestPacket
  <2>1. PICK m, r : /\ r \in Pipeline(registers, m) /\ IsArrival(m, p)
                    /\ IsDropped(p, r) \/ IsEnqueued(p, r)
    BY <1>4, ArrivalRuns
  <2>2. /\ Told(r.registers, r.trace, nBytes) /\ r.trace \in Traces
        /\ r.drop = (nBytes > QTHRESH)
    <3>1. IsMetadata(m) /\ compute_qsize(nBytes, m) = nBytes
      BY <2>1 DEF IsArrival, compute_qsize
    <3> QED
      BY <1>2, <2>1, <3>1, QsizeTold
  <2>3. CASE IsDropped(p, r)
    <3>1. nBytes' = nBytes /\ EventFollows(DropEvents, "drop", p, r)
      BY <2>3 DEF IsDropped
    <3>2. CASE DropEvents
      <4>1. PICK k, s :
              /\ s \in Pipeline(r.registers, k) /\ IsMetadata(k) /\ k.trigger = "drop"
              /\ registers' = s.registers /\ p4Vars' = s.trace
        BY <3>1, <3>2 DEF EventFollows, SetOutputs
      <4>2. compute_qsize(nBytes, k) = nBytes
        BY <4>1 DEF compute_qsize
      <4>3. Told(s.registers, s.trace, nBytes)
        BY <1>2, <2>2, <4>1, <4>2, QsizeTold
      <4> QED
        BY <1>2, <3>1, <4>1, <4>3
    <3>3. CASE ~ DropEvents
      <4>1. registers' = r.registers /\ p4Vars' = r.trace
        BY <3>1, <3>3 DEF EventFollows, SetOutputs
      <4> QED
        BY <1>2, <2>2, <3>1, <4>1
    <3> QED
      BY <3>2, <3>3
  <2>4. CASE IsEnqueued(p, r)
    <3>1. /\ nBytes' = nBytes + size[p] /\ nBytes + size[p] <= MaxSize /\ ~ r.drop
          /\ EventFollows(EnqEvents, "enq", p, r)
      BY <2>4 DEF IsEnqueued
    <3>2. PICK k, s :
            /\ s \in Pipeline(r.registers, k) /\ IsMetadata(k) /\ k.trigger = "enq" /\ k.pkt_len_bytes = size[p]
            /\ registers' = s.registers /\ p4Vars' = s.trace
      BY <3>1 DEF EventFollows, SetOutputs, EventsConnected
    <3>3. nBytes + size[p] \in Nat
      BY <1>2, <1>3
    <3>4. compute_qsize(nBytes, k) = nBytes + size[p]
      BY <1>2, <1>3, <3>1, <3>2, <3>3 DEF compute_qsize, SatAdd
    <3>5. Told(s.registers, s.trace, nBytes + size[p])
      BY <1>2, <2>2, <3>2, <3>3, <3>4, QsizeTold
    <3>6. nBytes <= QTHRESH
      <4>1. ~ (nBytes > QTHRESH)
        BY <2>2, <3>1, Zenon
      <4> QED
        BY <1>2, <1>3, <4>1
    <3>7. nBytes + size[p] <= QTHRESH + LargestPacket
      BY <1>2, <1>3, <3>6
    <3> QED
      BY <3>1, <3>2, <3>5, <3>7
  <2> QED
    BY <2>1, <2>3, <2>4
<1>5. ASSUME DequeuePacket
      PROVE  Told(registers', p4Vars', nBytes') /\ nBytes' <= QTHRESH + LargestPacket
  <2> DEFINE p == Head(queue)
  <2>1. /\ p \in Packets /\ nBytes' = nBytes - size[p]
        /\ EventFollows(DeqEvents, "deq", p, NoRun)
    BY <1>5, DepartureRuns
  <2> HIDE DEF p
  <2>2. nBytes' \in Nat
    BY <1>5, P4Assumption, QueuedFollows DEF Queued, P4Assumption
  <2>3. PICK k, s :
          /\ s \in Pipeline(registers, k) /\ IsMetadata(k) /\ k.trigger = "deq" /\ k.pkt_len_bytes = size[p]
          /\ registers' = s.registers /\ p4Vars' = s.trace
    BY <2>1 DEF EventFollows, SetOutputs, EventsConnected, NoRun
  <2>4. compute_qsize(nBytes, k) = nBytes - size[p]
    BY <1>2, <1>3, <2>1, <2>2, <2>3 DEF compute_qsize, SatSub
  <2>5. Told(s.registers, s.trace, nBytes - size[p])
    BY <1>2, <2>1, <2>2, <2>3, <2>4, QsizeTold
  <2>6. nBytes' <= QTHRESH + LargestPacket
    BY <1>2, <1>3, <2>1, <2>2
  <2> QED
    BY <2>1, <2>3, <2>5, <2>6
<1>6. ASSUME RunTimerEvent
      PROVE  Told(registers', p4Vars', nBytes') /\ nBytes' <= QTHRESH + LargestPacket
  <2>1. PICK m, r :
          /\ r \in Pipeline(registers, m) /\ IsMetadata(m) /\ m.trigger = "timer"
          /\ registers' = r.registers /\ p4Vars' = r.trace
    BY <1>6, TimerRuns DEF SetOutputs
  <2>2. compute_qsize(nBytes, m) = nBytes
    BY <2>1 DEF compute_qsize
  <2>3. Told(r.registers, r.trace, nBytes)
    BY <1>2, <2>1, <2>2, QsizeTold
  <2>4. nBytes' = nBytes
    BY <1>6 DEF RunTimerEvent, bytes
  <2> QED
    BY <1>2, <2>1, <2>3, <2>4
<1>7. ASSUME UNCHANGED <<registers, p4Vars, nBytes>>
      PROVE  Told(registers', p4Vars', nBytes') /\ nBytes' <= QTHRESH + LargestPacket
  BY <1>2, <1>7
<1>8. Told(registers', p4Vars', nBytes') /\ nBytes' <= QTHRESH + LargestPacket
  BY <1>4, <1>5, <1>6, <1>7 DEF Next, DequeueNothing, RunBlocked, Wake, Tick, bytes
<1> QED
  BY <1>8 DEF Told

\* With track-qsize.p4 loaded, its register and the traced variable are the size of the
\* queue after every event, and the queue never holds more than the threshold and a packet.
THEOREM QsizeTracksQueue ==
  ASSUME ProgramsLoaded, EventsConnected, MaxSize < DepthMod
  PROVE  ProgramSpec => []QsizeIsQueueSize
<1>1. ProgramInit => QsizeIsQueueSize
  <2>1. QTHRESH + LargestPacket \in Nat
    BY QsizeAssumption, SizeFacts DEF QsizeAssumption
  <2>2. ASSUME Init, Loaded("track-qsize")
        PROVE  registers = InitQsize
    BY <2>2 DEF Init, Loaded, ProgramsLoaded, ProgramRegisters, InitAny, InitQsize, InitTokens,
                InitMicroburst, InitPie, InitRed, InitRedEwma
  <2>3. ASSUME Init, Loaded("track-qsize")
        PROVE  registers.qsize = nBytes /\ p4Vars[1] = nBytes /\ nBytes <= QTHRESH + LargestPacket
    <3>1. registers = InitQsize /\ nBytes = 0 /\ p4Vars[1] = 0
      BY <2>2, <2>3 DEF Init
    <3> QED
      BY <2>1, <3>1 DEF InitQsize
  <2> QED
    BY <2>3 DEF ProgramInit, QsizeIsQueueSize
<1>2. P4Inv(Programs) /\ QsizeIsQueueSize /\ [ProgramNext]_programVars => QsizeIsQueueSize'
  <2>1. CASE P4Inv(Programs) /\ QsizeIsQueueSize /\ Next
    BY <2>1, QsizeFollows
  <2>2. CASE QsizeIsQueueSize /\ UNCHANGED vars
    BY <2>2 DEF vars, bytes, QsizeIsQueueSize, Loaded
  <2> QED
    BY <2>1, <2>2 DEF ProgramNext, OpenWindow, programVars
<1> QED
  BY <1>1, <1>2, ProgramsInvariant, PTL DEF ProgramSpec

-----------------------------------------------------------------------------
(***************************************************************************)
(* token-bucket.p4: what has been admitted and the tokens that are left    *)
(* never exceed what was filled in, from the start and from the start of   *)
(* a measurement, when the bucket held MAX_TOKENS at most.                 *)
(***************************************************************************)
TokensCovered(tokens) ==
  /\ tokens <= MAX_TOKENS
  /\ enqueued - window.bytes + tokens <= MAX_TOKENS + FILL_RATE * (TimerEvents - window.events)
  /\ enqueued + tokens <= FILL_RATE * TimerEvents

WindowInv ==
  /\ window \in [bytes : Nat, events : Int]
  /\ registers \in TokenRegisters => TokensCovered(registers.tokens)

LEMMA TokensLeft ==
  ASSUME ProgramsLoaded, NEW reg \in TokenRegisters, NEW m, IsMetadata(m),
         NEW r \in Pipeline(reg, m)
  PROVE  /\ r.registers \in TokenRegisters /\ r.trace \in Traces
         /\ r.registers.tokens = token_bucket(reg.tokens, m)[1]
         /\ r.drop = ~ token_bucket(reg.tokens, m)[2]
<1>1. r \in TokenBucketIngress(reg, m)
  <2>1. reg.program = "token-bucket"
    BY DEF TokenRegisters
  <2> QED
    BY <2>1 DEF ProgramsLoaded, ProgramPipeline
<1> QED
  BY <1>1, TokenRun DEF IsOutcome

\* The events of the packets that are dropped, enqueued or dequeued take no tokens.
LEMMA EventsAreFree ==
  ASSUME ProgramsLoaded, NEW enabled, NEW t \in {"drop", "enq", "deq"}, NEW p, NEW r,
         r.registers \in TokenRegisters, EventFollows(enabled, t, p, r)
  PROVE  registers' \in TokenRegisters /\ registers'.tokens = r.registers.tokens
<1>1. CASE enabled
  <2>1. PICK m, s : /\ IsMetadata(m) /\ m.trigger = t /\ s \in Pipeline(r.registers, m)
                    /\ registers' = s.registers
    BY <1>1 DEF EventFollows, SetOutputs
  <2>2. token_bucket(r.registers.tokens, m)[1] = r.registers.tokens
    <3>1. r.registers.tokens \in Nat
      BY DEF TokenRegisters
    <3> QED
      BY <2>1, <3>1 DEF token_bucket, Request, Granted
  <2> QED
    BY <2>1, <2>2, TokensLeft
<1>2. CASE ~ enabled
  BY <1>2 DEF EventFollows, SetOutputs
<1> QED
  BY <1>1, <1>2

\* An arrival pays for the bytes that are enqueued.
LEMMA ArrivalPays ==
  ASSUME ProgramsLoaded, P4Inv(Programs), registers \in TokenRegisters,
         NEW p \in Packets, Send(p)
  PROVE  /\ registers' \in TokenRegisters /\ enqueued' \in Nat
         /\ registers'.tokens <= registers.tokens
         /\ enqueued' + registers'.tokens <= enqueued + registers.tokens
<1> USE ProgramsSafe
<1>1. /\ enqueued \in Nat /\ size[p] \in Nat /\ registers.tokens \in Nat
  BY SizeFacts DEF P4Inv, Queued, TokenRegisters
<1>2. PICK m, r : /\ r \in Pipeline(registers, m) /\ IsArrival(m, p)
                  /\ IsDropped(p, r) \/ IsEnqueued(p, r)
  BY ArrivalRuns
<1>3. /\ r.registers \in TokenRegisters
      /\ r.registers.tokens = token_bucket(registers.tokens, m)[1]
      /\ r.drop = ~ token_bucket(registers.tokens, m)[2]
  BY <1>2, TokensLeft DEF IsArrival
<1>4. m.trigger = "ingress" /\ Request(m) = size[p]
  BY <1>2 DEF IsArrival, Request
<1>5. CASE registers.tokens > size[p]
  <2>1. r.registers.tokens = registers.tokens - size[p]
    BY <1>3, <1>4, <1>5 DEF token_bucket, Granted
  <2>2. registers' \in TokenRegisters /\ registers'.tokens = registers.tokens - size[p]
    BY <1>2, <1>3, <2>1, EventsAreFree DEF IsDropped, IsEnqueued
  <2>3. enqueued' = enqueued \/ enqueued' = enqueued + size[p]
    BY <1>2 DEF IsDropped, IsEnqueued
  <2> QED
    BY <1>1, <2>2, <2>3
<1>6. CASE ~ (registers.tokens > size[p])
  <2>1. token_bucket(registers.tokens, m) = <<registers.tokens, FALSE>>
    BY <1>4, <1>6 DEF token_bucket, Granted
  <2>2. r.registers.tokens = registers.tokens /\ r.drop
    <3>1. /\ token_bucket(registers.tokens, m)[1] = registers.tokens
          /\ token_bucket(registers.tokens, m)[2] = FALSE
      BY <2>1
    <3> QED
      BY <1>3, <3>1, Zenon
  <2>3. IsDropped(p, r)
    BY <1>2, <2>2, Zenon DEF IsEnqueued
  <2>4. registers' \in TokenRegisters /\ registers'.tokens = registers.tokens
    BY <1>3, <2>2, <2>3, EventsAreFree DEF IsDropped
  <2> QED
    BY <1>1, <2>3, <2>4 DEF IsDropped
<1> QED
  BY <1>5, <1>6

LEMMA DeparturePays ==
  ASSUME ProgramsLoaded, P4Inv(Programs), registers \in TokenRegisters, DequeuePacket
  PROVE  /\ registers' \in TokenRegisters /\ enqueued' = enqueued
         /\ registers'.tokens = registers.tokens
<1>1. EventFollows(DeqEvents, "deq", Head(queue), NoRun) /\ NoRun.registers = registers
  BY ProgramsSafe, DepartureRuns DEF NoRun
<1> QED
  BY <1>1, EventsAreFree DEF DequeuePacket

\* A timer event fills in FILL_RATE at most.
LEMMA TimerFills ==
  ASSUME ProgramsLoaded, P4Inv(Programs), registers \in TokenRegisters, TimeReference > 0,
         RunTimerEvent
  PROVE  /\ registers' \in TokenRegisters /\ enqueued' = enqueued
         /\ registers'.tokens <= MAX_TOKENS
         /\ registers'.tokens <= registers.tokens + FILL_RATE
         /\ TimerEvents' = TimerEvents + 1
<1>1. PICK m, r : /\ IsMetadata(m) /\ m.trigger = "timer"
                  /\ r \in Pipeline(registers, m) /\ registers' = r.registers
  BY ProgramsSafe, TimerRuns DEF SetOutputs
<1>2. /\ registers' \in TokenRegisters
      /\ registers'.tokens = token_bucket(registers.tokens, m)[1]
  BY <1>1, TokensLeft
<1>3. registers'.tokens = Filled(registers.tokens)
  BY <1>1, <1>2 DEF token_bucket
<1>4. /\ registers'.tokens <= MAX_TOKENS
      /\ registers'.tokens <= registers.tokens + FILL_RATE
  BY <1>3, TokenAssumption DEF Filled, TokenAssumption, TokenRegisters
<1>5. TimerEvents' = TimerEvents + 1
  <2>1. /\ TimeReference \in Nat \ {0} /\ timerEvent = now /\ timerEvent \in Nat
        /\ timerEvent' = timerEvent + TimeReference /\ timerEvent % TimeReference = 0
    BY P4Assumption DEF P4Assumption, RunTimerEvent, Reschedule, P4Inv, Timer, TimerOnTime
  <2>2. (timerEvent + TimeReference) \div TimeReference = timerEvent \div TimeReference + 1
    BY <2>1, NextMultiple
  <2>3. timerEvent \div TimeReference \in Nat
    BY <2>1, QuotientProperties
  <2> QED
    BY <2>1, <2>2, <2>3 DEF TimerEvents
<1> QED
  BY <1>2, <1>4, <1>5 DEF RunTimerEvent, bytes

LEMMA WindowFollows ==
  ASSUME ProgramsLoaded, TimeReference > 0, P4Inv(Programs), WindowInv, ProgramNext
  PROVE  WindowInv'
<1>1. /\ enqueued \in Nat /\ window \in [bytes : Nat, events : Int]
      /\ TimerEvents \in Int /\ FILL_RATE \in Nat /\ MAX_TOKENS \in Nat
  <2>1. timerEvent \div TimeReference \in Nat
    <3>1. timerEvent \in Nat /\ TimeReference \in Nat \ {0}
      BY P4Assumption DEF P4Assumption, P4Inv, Timer
    <3> QED
      BY <3>1, QuotientProperties
  <2> QED
    BY <2>1, TokenAssumption DEF P4Inv, Queued, TokenAssumption, TimerEvents, WindowInv
<1>2. CASE OpenWindow
  <2>1. /\ window' = [bytes |-> enqueued, events |-> TimerEvents]
        /\ registers' = registers /\ enqueued' = enqueued /\ TimerEvents' = TimerEvents
    BY <1>2 DEF OpenWindow, vars, bytes, TimerEvents
  <2>2. window' \in [bytes : Nat, events : Int]
    BY <1>1, <2>1
  <2>3. registers \in TokenRegisters => TokensCovered(registers.tokens)'
    <3> SUFFICES ASSUME registers \in TokenRegisters
                 PROVE  TokensCovered(registers.tokens)'
      OBVIOUS
    <3>1. TokensCovered(registers.tokens) /\ registers.tokens \in Nat
      BY DEF WindowInv, TokenRegisters
    <3>2. window'.bytes = enqueued /\ window'.events = TimerEvents
      BY <2>1
    <3>3. FILL_RATE * (TimerEvents - TimerEvents) = 0
      BY <1>1
    <3> QED
      BY <1>1, <2>1, <3>1, <3>2, <3>3 DEF TokensCovered
  <2> QED
    BY <2>1, <2>2, <2>3 DEF WindowInv
<1>3. CASE Next /\ UNCHANGED window
  <2>1. SUFFICES ASSUME registers' \in TokenRegisters
                 PROVE  TokensCovered(registers.tokens)'
    BY <1>1, <1>3 DEF WindowInv
  <2>2. registers \in TokenRegisters
    <3>1. registers'.program = "token-bucket"
      BY <2>1 DEF TokenRegisters
    <3>2. registers \in Programs /\ registers'.program = registers.program
      BY <1>3, ProgramStays DEF P4Inv, Queued
    <3> QED
      BY <3>1, <3>2, WhichProgram
  <2>3. TokensCovered(registers.tokens) /\ registers.tokens \in Nat /\ registers'.tokens \in Nat
    BY <2>1, <2>2 DEF WindowInv, TokenRegisters
  <2> DEFINE filled == FILL_RATE * TimerEvents
             since == FILL_RATE * (TimerEvents - window.events)
             w == window.bytes
  <2>4. filled \in Int /\ since \in Int /\ w \in Nat
    BY <1>1
  <2>5. /\ registers.tokens <= MAX_TOKENS /\ enqueued - w + registers.tokens <= MAX_TOKENS + since
        /\ enqueued + registers.tokens <= filled
    BY <2>3 DEF TokensCovered
  <2>6. ASSUME enqueued' \in Nat, registers'.tokens <= registers.tokens,
               enqueued' + registers'.tokens <= enqueued + registers.tokens,
               TimerEvents' = TimerEvents
        PROVE  TokensCovered(registers.tokens)'
    <3>1. filled' = filled /\ since' = since /\ w' = w
      BY <1>3, <2>6
    <3> HIDE DEF filled, since, w
    <3>2. /\ registers'.tokens <= MAX_TOKENS
          /\ enqueued' - w + registers'.tokens <= MAX_TOKENS + since
          /\ enqueued' + registers'.tokens <= filled
      BY <1>1, <2>3, <2>4, <2>5, <2>6
    <3> QED
      BY <3>1, <3>2 DEF TokensCovered, filled, since, w
  <2>7. ASSUME NEW p \in Packets, Send(p)
        PROVE  TokensCovered(registers.tokens)'
    <3>1. TimerEvents' = TimerEvents
      BY <2>7 DEF Send, TimerEvents
    <3> QED
      BY <2>2, <2>6, <2>7, <3>1, ArrivalPays
  <2>8. CASE DequeuePacket
    <3>1. TimerEvents' = TimerEvents
      BY <2>8 DEF DequeuePacket, TimerEvents
    <3>2. enqueued' = enqueued /\ registers'.tokens = registers.tokens
      BY <2>2, <2>8, DeparturePays
    <3> QED
      BY <1>1, <2>3, <2>6, <3>1, <3>2
  <2>9. CASE RunTimerEvent
    <3>1. /\ enqueued' = enqueued /\ registers'.tokens <= MAX_TOKENS
          /\ registers'.tokens <= registers.tokens + FILL_RATE
          /\ TimerEvents' = TimerEvents + 1
      BY <2>2, <2>9, TimerFills
    <3>2. w' = w /\ window' = window
      BY <1>3
    <3>3. filled' = filled + FILL_RATE
      <4>1. FILL_RATE * (TimerEvents + 1) = FILL_RATE * TimerEvents + FILL_RATE
        BY <1>1
      <4> QED
        BY <3>1, <4>1
    <3>4. since' = since + FILL_RATE
      <4> DEFINE e == window.events
                 t == TimerEvents
      <4>1. e \in Int /\ t \in Int
        BY <1>1
      <4>2. since = FILL_RATE * (t - e) /\ since' = FILL_RATE * ((t + 1) - e)
        BY <3>1, <3>2
      <4> HIDE DEF e, t, since
      <4>3. FILL_RATE * ((t + 1) - e) = FILL_RATE * (t - e) + FILL_RATE
        BY <1>1, <4>1
      <4> QED
        BY <4>2, <4>3
    <3> HIDE DEF filled, since, w
    <3>5. /\ enqueued' - w + registers'.tokens <= MAX_TOKENS + (since + FILL_RATE)
          /\ enqueued' + registers'.tokens <= filled + FILL_RATE
      BY <1>1, <2>3, <2>4, <2>5, <3>1
    <3> QED
      BY <3>1, <3>2, <3>3, <3>4, <3>5 DEF TokensCovered, filled, since, w
  <2>10. ASSUME UNCHANGED <<registers, enqueued, timerEvent>>
         PROVE  TokensCovered(registers.tokens)'
    BY <1>1, <2>3, <2>6, <2>10 DEF TimerEvents
  <2> QED
    BY <1>3, <2>7, <2>8, <2>9, <2>10 DEF Next, DequeueNothing, RunBlocked, Wake, Tick, bytes
<1> QED
  BY <1>2, <1>3 DEF ProgramNext

\* With token-bucket.p4 loaded and timer events enabled, what is admitted in any window of
\* time conforms to the rate and the size of the bucket.
THEOREM TokenBucketConforms ==
  ASSUME ProgramsLoaded, TimeReference > 0
  PROVE  ProgramSpec => []WindowConforms
<1>1. ProgramInit => WindowInv
  <2> SUFFICES ASSUME ProgramInit PROVE WindowInv
    OBVIOUS
  <2>1. window \in [bytes : Nat, events : Int] /\ window.bytes = 0 /\ window.events = 0
    BY DEF ProgramInit
  <2>2. registers \in TokenRegisters => registers.tokens = 0
    BY DEF ProgramInit, Init, ProgramsLoaded, ProgramRegisters, TokenRegisters, InitAny, InitQsize,
           InitTokens, InitMicroburst, InitPie, InitRed, InitRedEwma
  <2>3. TimerEvents = 0
    <3>1. timerEvent = TimeReference /\ TimeReference \in Nat \ {0}
      BY P4Assumption DEF ProgramInit, Init, FirstTimerEvent, P4Assumption
    <3>2. (0 + TimeReference) \div TimeReference = 0 \div TimeReference + 1
      BY <3>1, NextMultiple
    <3>3. 0 \div TimeReference = 0 /\ 0 + TimeReference = TimeReference
      BY <3>1
    <3> QED
      BY <3>1, <3>2, <3>3 DEF TimerEvents
  <2>4. enqueued = 0
    BY DEF ProgramInit, Init
  <2>5. FILL_RATE * (0 - 0) = 0 /\ FILL_RATE * 0 = 0 /\ MAX_TOKENS \in Nat
    BY TokenAssumption DEF TokenAssumption
  <2> QED
    BY <2>1, <2>2, <2>3, <2>4, <2>5 DEF WindowInv, TokensCovered
<1>2. P4Inv(Programs) /\ WindowInv /\ [ProgramNext]_programVars => WindowInv'
  <2>1. CASE P4Inv(Programs) /\ WindowInv /\ ProgramNext
    BY <2>1, WindowFollows
  <2>2. CASE WindowInv /\ UNCHANGED programVars
    BY <2>2 DEF programVars, vars, bytes, WindowInv, TokensCovered, TimerEvents
  <2> QED
    BY <2>1, <2>2
<1>3. P4Inv(Programs) /\ WindowInv => WindowConforms
  <2> SUFFICES ASSUME P4Inv(Programs), WindowInv, Loaded("token-bucket")
               PROVE  WindowConforms
    BY DEF WindowConforms
  <2>1. registers \in TokenRegisters
    BY WhichProgram DEF Loaded, P4Inv, Queued
  <2>2. registers.tokens \in Nat /\ enqueued \in Nat /\ window.bytes \in Nat
    BY <2>1 DEF TokenRegisters, P4Inv, Queued, WindowInv
  <2> DEFINE since == FILL_RATE * (TimerEvents - window.events)
  <2>3. since \in Int /\ MAX_TOKENS \in Nat
    <3>1. timerEvent \in Nat /\ TimeReference \in Nat \ {0}
      BY P4Assumption DEF P4Assumption, P4Inv, Timer
    <3>2. TimerEvents \in Int
      BY <3>1, QuotientProperties DEF TimerEvents
    <3> QED
      BY <3>2, TokenAssumption DEF TokenAssumption, WindowInv
  <2>4. /\ enqueued - window.bytes + registers.tokens <= MAX_TOKENS + since
        /\ enqueued + registers.tokens <= FILL_RATE * TimerEvents
    BY <2>1 DEF WindowInv, TokensCovered
  <2> HIDE DEF since
  <2>5. enqueued - window.bytes <= MAX_TOKENS + since
    BY <2>2, <2>3, <2>4
  <2> QED
    BY <2>4, <2>5 DEF WindowConforms, since
<1> QED
  BY <1>1, <1>2, <1>3, ProgramsInvariant, PTL DEF ProgramSpec

-----------------------------------------------------------------------------
(***************************************************************************)
(* microburst.p4: its counters are sums over the packets of a flow that    *)
(* are in the queue, and its number of culprits is a cardinality.          *)
(***************************************************************************)
OfFlow(S, f) == {p \in S : FlowID(FlowOf[p]) = f}
FlowBytes(S, f) == SumOver(SizeOf, OfFlow(S, f))
CulpritsOf(S) == {f \in FlowIDs : FlowBytes(S, f) > FairShare}

\* What microburst.p4 keeps and traces when the packets S are in the queue.
CountsExact(reg, trace, S) ==
  /\ reg \in MicroburstRegisters /\ trace \in Traces
  /\ \A f \in FlowIDs : reg.flow_count[f] = FlowBytes(S, f)
  /\ reg.num_culprits = Cardinality(CulpritsOf(S))
  /\ trace[1] = reg.num_culprits

LEMMA FlowBytesNat ==
  ASSUME NEW S \in SUBSET Packets
  PROVE  \A f : FlowBytes(S, f) \in Nat
<1> SUFFICES ASSUME NEW f PROVE FlowBytes(S, f) \in Nat
  OBVIOUS
<1>1. IsFiniteSet(OfFlow(S, f)) /\ OfFlow(S, f) \subseteq Packets
  BY P4Assumption, FS_Subset DEF P4Assumption, OfFlow
<1>2. \A x \in OfFlow(S, f) : SizeOf[x] \in Nat
  BY <1>1, SizeFacts
<1> QED
  BY <1>1, <1>2, SumOverNat DEF FlowBytes

\* Another packet counts for its own flow,
LEMMA FlowBytesAdd ==
  ASSUME NEW S \in SUBSET Packets, NEW p \in Packets \ S
  PROVE  /\ FlowBytes(S \cup {p}, FlowID(FlowOf[p]))
              = FlowBytes(S, FlowID(FlowOf[p])) + SizeOf[p]
         /\ \A f : f # FlowID(FlowOf[p]) => FlowBytes(S \cup {p}, f) = FlowBytes(S, f)
<1> DEFINE g == FlowID(FlowOf[p])
<1>1. IsFiniteSet(OfFlow(S, g)) /\ OfFlow(S, g) \subseteq Packets /\ p \notin OfFlow(S, g)
  BY P4Assumption, FS_Subset DEF P4Assumption, OfFlow
<1>2. OfFlow(S \cup {p}, g) = OfFlow(S, g) \cup {p}
  BY DEF OfFlow
<1>3. \A f : f # g => OfFlow(S \cup {p}, f) = OfFlow(S, f)
  BY DEF OfFlow
<1>4. \A y \in OfFlow(S, g) \cup {p} : SizeOf[y] \in Int
  BY <1>1, SizeFacts
<1> HIDE DEF g
<1>5. SumOver(SizeOf, OfFlow(S, g) \cup {p}) = SumOver(SizeOf, OfFlow(S, g)) + SizeOf[p]
  BY <1>1, <1>4, SumOverAdd
<1>6. FlowBytes(S \cup {p}, g) = FlowBytes(S, g) + SizeOf[p]
  BY <1>2, <1>5 DEF FlowBytes
<1>7. \A f : f # g => FlowBytes(S \cup {p}, f) = FlowBytes(S, f)
  BY <1>3 DEF FlowBytes
<1> QED
  BY <1>6, <1>7 DEF g

\* and a flow has no more bytes than the queue.
LEMMA FlowBytesBounded ==
  ASSUME NEW S \in SUBSET Packets, NEW f
  PROVE  FlowBytes(S, f) <= SumOver(SizeOf, S)
<1>1. IsFiniteSet(S) /\ OfFlow(S, f) \in SUBSET S
  BY P4Assumption, FS_Subset DEF P4Assumption, OfFlow
<1>2. \A x \in S : SizeOf[x] \in Nat
  BY SizeFacts
<1> QED
  BY <1>1, <1>2, SumOverSubset DEF FlowBytes

\* When only flow g has other bytes than before, it may become or cease to be a culprit.
LEMMA CulpritsChange ==
  ASSUME NEW S \in SUBSET Packets, NEW T \in SUBSET Packets, NEW g \in FlowIDs,
         \A f : f # g => FlowBytes(T, f) = FlowBytes(S, f)
  PROVE  /\ Cardinality(CulpritsOf(S)) \in Nat /\ Cardinality(CulpritsOf(S)) < CountMod
         /\ FlowBytes(S, g) <= FairShare /\ FlowBytes(T, g) > FairShare
              => Cardinality(CulpritsOf(T)) = Cardinality(CulpritsOf(S)) + 1
         /\ FlowBytes(S, g) > FairShare /\ FlowBytes(T, g) <= FairShare
              => /\ Cardinality(CulpritsOf(T)) = Cardinality(CulpritsOf(S)) - 1
                 /\ Cardinality(CulpritsOf(S)) >= 1
         /\ (FlowBytes(S, g) > FairShare <=> FlowBytes(T, g) > FairShare)
              => Cardinality(CulpritsOf(T)) = Cardinality(CulpritsOf(S))
<1>1. /\ FlowMask \in Nat \ {0} /\ CountMod \in Nat /\ FlowMask < CountMod
      /\ FairShare \in Nat
  BY MicroburstAssumption DEF MicroburstAssumption
<1>2. FlowBytes(S, g) \in Nat /\ FlowBytes(T, g) \in Nat
  BY FlowBytesNat
<1>3. /\ IsFiniteSet(FlowIDs) /\ Cardinality(FlowIDs) = FlowMask
  <2>1. IsFiniteSet(0 .. (FlowMask - 1))
    BY <1>1, FS_Interval
  <2>2. Cardinality(0 .. (FlowMask - 1)) = (FlowMask - 1) - 0 + 1
    BY <1>1, FS_Interval
  <2> QED
    BY <1>1, <2>1, <2>2 DEF FlowIDs
<1>4. /\ IsFiniteSet(CulpritsOf(S)) /\ IsFiniteSet(CulpritsOf(T))
      /\ Cardinality(CulpritsOf(S)) \in Nat /\ Cardinality(CulpritsOf(T)) \in Nat
      /\ Cardinality(CulpritsOf(S)) <= FlowMask
  <2>1. CulpritsOf(S) \in SUBSET FlowIDs /\ CulpritsOf(T) \in SUBSET FlowIDs
    BY DEF CulpritsOf
  <2> QED
    BY <1>3, <2>1, FS_Subset, FS_CardinalityType
<1>5. Cardinality(CulpritsOf(S)) < CountMod
  BY <1>1, <1>4
<1>6. CASE FlowBytes(S, g) <= FairShare /\ FlowBytes(T, g) > FairShare
  <2>1. g \notin CulpritsOf(S) /\ CulpritsOf(T) = CulpritsOf(S) \cup {g}
    BY <1>1, <1>2, <1>6 DEF CulpritsOf
  <2>2. Cardinality(CulpritsOf(T)) = Cardinality(CulpritsOf(S)) + 1
    BY <1>4, <2>1, FS_AddElement
  <2> QED
    BY <1>1, <1>2, <1>4, <1>5, <1>6, <2>2
<1>7. CASE FlowBytes(S, g) > FairShare /\ FlowBytes(T, g) <= FairShare
  <2>1. g \in CulpritsOf(S) /\ CulpritsOf(T) = CulpritsOf(S) \ {g}
    BY <1>1, <1>2, <1>7 DEF CulpritsOf
  <2>2. Cardinality(CulpritsOf(T)) = Cardinality(CulpritsOf(S)) - 1
    BY <1>4, <2>1, FS_RemoveElement
  <2> QED
    BY <1>1, <1>2, <1>4, <1>5, <1>7, <2>2
<1>8. CASE FlowBytes(S, g) > FairShare <=> FlowBytes(T, g) > FairShare
  <2>1. CulpritsOf(T) = CulpritsOf(S)
    BY <1>8 DEF CulpritsOf
  <2> QED
    BY <1>1, <1>2, <1>4, <1>5, <1>8, <2>1
<1> QED
  BY <1>1, <1>2, <1>6, <1>7, <1>8

LEMMA FlowsCounted ==
  ASSUME ProgramsLoaded, NEW reg \in MicroburstRegisters, NEW m, IsMetadata(m),
         NEW r \in Pipeline(reg, m), NEW count,
         Counted(reg.flow_count[FlowID(m.flow_hash)], m) = count
  PROVE  /\ r.registers \in MicroburstRegisters /\ r.trace \in Traces
         /\ r.registers.flow_count[FlowID(m.flow_hash)] = count
         /\ \A f \in FlowIDs : f # FlowID(m.flow_hash) =>
              r.registers.flow_count[f] = reg.flow_count[f]
         /\ r.registers.num_culprits = Culprits(reg.num_culprits, count, m)
         /\ r.trace[1] = r.registers.num_culprits
<1> DEFINE g == FlowID(m.flow_hash)
<1>1. r \in MicroburstIngress(reg, m)
  <2>1. reg.program = "microburst"
    BY DEF MicroburstRegisters
  <2> QED
    BY <2>1 DEF ProgramsLoaded, ProgramPipeline
<1>2. /\ IsOutcome(reg, m, r) /\ r.registers \in MicroburstRegisters
      /\ r.registers.flow_count = [reg.flow_count EXCEPT ![g] = count]
      /\ r.registers.num_culprits = Culprits(reg.num_culprits, count, m)
      /\ r.trace[1] = Culprits(reg.num_culprits, count, m)
  BY <1>1, MicroburstRun
<1>3. g \in FlowIDs /\ DOMAIN reg.flow_count = FlowIDs
  BY FlowIDInRange DEF IsMetadata, MicroburstRegisters
<1> HIDE DEF g
<1>4. /\ [reg.flow_count EXCEPT ![g] = count][g] = count
      /\ \A f \in FlowIDs : f # g => [reg.flow_count EXCEPT ![g] = count][f] = reg.flow_count[f]
  BY <1>3
<1> QED
  BY <1>2, <1>4 DEF IsOutcome, g

\* An event that is no enqueue or dequeue event changes no count.
LEMMA CountsStay ==
  ASSUME ProgramsLoaded, NEW S, NEW reg, NEW trace, CountsExact(reg, trace, S),
         NEW m, IsMetadata(m), m.trigger \notin {"enq", "deq"}, NEW r \in Pipeline(reg, m)
  PROVE  CountsExact(r.registers, r.trace, S)
<1> DEFINE g == FlowID(m.flow_hash)
<1>1. reg \in MicroburstRegisters
  BY DEF CountsExact
<1>2. Counted(reg.flow_count[g], m) = reg.flow_count[g]
  BY DEF Counted
<1>3. Culprits(reg.num_culprits, reg.flow_count[g], m) = reg.num_culprits
  BY DEF Culprits, BecomesCulprit, CeasesCulprit
<1>4. /\ r.registers \in MicroburstRegisters /\ r.trace \in Traces
      /\ r.registers.flow_count[g] = reg.flow_count[g]
      /\ \A f \in FlowIDs : f # g => r.registers.flow_count[f] = reg.flow_count[f]
      /\ r.registers.num_culprits = reg.num_culprits
      /\ r.trace[1] = r.registers.num_culprits
  BY <1>1, <1>2, <1>3, FlowsCounted
<1> HIDE DEF g
<1>5. \A f \in FlowIDs : r.registers.flow_count[f] = reg.flow_count[f]
  BY <1>4
<1> QED
  BY <1>4, <1>5 DEF CountsExact

LEMMA CountsOfEnqueue ==
  ASSUME ProgramsLoaded, MaxSize < CountMod,
         NEW S \in SUBSET Packets, NEW p \in Packets \ S, SumOver(SizeOf, S \cup {p}) <= MaxSize,
         NEW reg, NEW trace, CountsExact(reg, trace, S),
         NEW m, IsMetadata(m), m.trigger = "enq", m.pkt_len_bytes = SizeOf[p],
         m.flow_hash = FlowOf[p], NEW r \in Pipeline(reg, m)
  PROVE  CountsExact(r.registers, r.trace, S \cup {p})
<1> DEFINE g == FlowID(m.flow_hash)
           T == S \cup {p}
           before == FlowBytes(S, g)
           after == FlowBytes(T, g)
<1>1. /\ CountMod \in Nat \ {0} /\ FairShare \in Nat /\ MaxSize \in Nat /\ SizeOf[p] \in Nat
      /\ g \in FlowIDs /\ g = FlowID(FlowOf[p])
  BY P4Assumption, MicroburstAssumption, SizeFacts, FlowIDInRange
     DEF P4Assumption, MicroburstAssumption, IsMetadata
<1>2. reg \in MicroburstRegisters /\ reg.flow_count[g] = before
  BY <1>1 DEF CountsExact
<1>3. T \in SUBSET Packets /\ S \subseteq T
  OBVIOUS
<1>4. /\ before \in Nat /\ after \in Nat /\ after = before + SizeOf[p]
      /\ \A f : f # g => FlowBytes(T, f) = FlowBytes(S, f)
  <2>1. FlowBytes(S, g) \in Nat /\ FlowBytes(T, g) \in Nat
    BY <1>3, FlowBytesNat
  <2>2. /\ FlowBytes(S \cup {p}, g) = FlowBytes(S, g) + SizeOf[p]
        /\ \A f : f # g => FlowBytes(S \cup {p}, f) = FlowBytes(S, f)
    BY <1>1, FlowBytesAdd
  <2> QED
    BY <2>1, <2>2
<1>5. after < CountMod /\ before < CountMod
  <2>1. after <= SumOver(SizeOf, T)
    BY <1>3, FlowBytesBounded
  <2>2. SumOver(SizeOf, T) \in Nat
    <3>1. IsFiniteSet(T) /\ \A x \in T : SizeOf[x] \in Nat
      BY <1>3, P4Assumption, SizeFacts, FS_Subset DEF P4Assumption
    <3> QED
      BY <3>1, SumOverNat
  <2> HIDE DEF before, after
  <2> QED
    BY <1>1, <1>4, <2>1, <2>2
<1> DEFINE culprits == Cardinality(CulpritsOf(S))
<1>6. /\ culprits \in Nat /\ culprits < CountMod
      /\ before <= FairShare /\ after > FairShare => Cardinality(CulpritsOf(T)) = culprits + 1
      /\ (before > FairShare <=> after > FairShare) => Cardinality(CulpritsOf(T)) = culprits
  BY <1>1, <1>3, <1>4, CulpritsChange
<1>7. Cardinality(CulpritsOf(T)) < CountMod
  <2>1. \A f : f # g => FlowBytes(S, f) = FlowBytes(T, f)
    BY <1>4
  <2> QED
    BY <1>1, <1>3, <2>1, CulpritsChange
<1>8. reg.num_culprits = culprits
  BY DEF CountsExact
<1> HIDE DEF before, after, culprits, g
<1>9. Counted(before, m) = after
  BY <1>1, <1>4, <1>5 DEF Counted, SatPlus
<1>10. Culprits(culprits, after, m) = Cardinality(CulpritsOf(T))
  <2>1. (after - m.pkt_len_bytes) % CountMod = before
    <3>1. after - m.pkt_len_bytes = before
      BY <1>1, <1>4
    <3> QED
      BY <1>1, <1>4, <1>5, <3>1, SmallRemainder
  <2>2. CASE before <= FairShare /\ after > FairShare
    <3>1. BecomesCulprit(after, m)
      BY <2>1, <2>2 DEF BecomesCulprit
    <3>2. SatPlus(culprits, 1) = culprits + 1
      BY <1>1, <1>6, <1>7, <2>2 DEF SatPlus
    <3> QED
      BY <1>6, <2>2, <3>1, <3>2 DEF Culprits
  <2>3. CASE ~ (before <= FairShare /\ after > FairShare)
    <3>1. ~ BecomesCulprit(after, m)
      BY <2>1, <2>3 DEF BecomesCulprit
    <3>2. ~ CeasesCulprit(after, m)
      BY DEF CeasesCulprit
    <3>3. before > FairShare <=> after > FairShare
      BY <1>1, <1>4, <2>3
    <3> QED
      BY <1>6, <3>1, <3>2, <3>3 DEF Culprits
  <2> QED
    BY <2>2, <2>3
<1>11. /\ r.registers \in MicroburstRegisters /\ r.trace \in Traces
       /\ r.registers.flow_count[g] = after
       /\ \A f \in FlowIDs : f # g => r.registers.flow_count[f] = reg.flow_count[f]
       /\ r.registers.num_culprits = Cardinality(CulpritsOf(T))
       /\ r.trace[1] = r.registers.num_culprits
  BY <1>2, <1>8, <1>9, <1>10, FlowsCounted DEF g
<1>12. \A f \in FlowIDs : r.registers.flow_count[f] = FlowBytes(T, f)
  BY <1>4, <1>11 DEF CountsExact, after
<1> QED
  BY <1>11, <1>12 DEF CountsExact

LEMMA CountsOfDequeue ==
  ASSUME ProgramsLoaded, MaxSize < CountMod,
         NEW S \in SUBSET Packets, NEW p \in S, SumOver(SizeOf, S) <= MaxSize,
         NEW reg, NEW trace, CountsExact(reg, trace, S),
         NEW m, IsMetadata(m), m.trigger = "deq", m.pkt_len_bytes = SizeOf[p],
         m.flow_hash = FlowOf[p], NEW r \in Pipeline(reg, m)
  PROVE  CountsExact(r.registers, r.trace, S \ {p})
<1> DEFINE g == FlowID(m.flow_hash)
           T == S \ {p}
           before == FlowBytes(S, g)
           after == FlowBytes(T, g)
<1>1. /\ CountMod \in Nat \ {0} /\ FairShare \in Nat /\ MaxSize \in Nat /\ SizeOf[p] \in Nat
      /\ g \in FlowIDs /\ g = FlowID(FlowOf[p])
  BY P4Assumption, MicroburstAssumption, SizeFacts, FlowIDInRange
     DEF P4Assumption, MicroburstAssumption, IsMetadata
<1>2. reg \in MicroburstRegisters /\ reg.flow_count[g] = before
  BY <1>1 DEF CountsExact
<1>3. T \in SUBSET Packets /\ p \in Packets \ T /\ T \cup {p} = S
  OBVIOUS
<1>4. /\ before \in Nat /\ after \in Nat /\ before = after + SizeOf[p]
      /\ \A f : f # g => FlowBytes(T, f) = FlowBytes(S, f)
  <2> DEFINE h == FlowID(FlowOf[p])
  <2>1. /\ FlowBytes(T \cup {p}, h) = FlowBytes(T, h) + SizeOf[p]
        /\ \A f : f # h => FlowBytes(T \cup {p}, f) = FlowBytes(T, f)
    BY <1>3, FlowBytesAdd
  <2>2. FlowBytes(S, g) \in Nat /\ FlowBytes(T, g) \in Nat
    BY <1>3, FlowBytesNat
  <2>3. \A f : FlowBytes(T \cup {p}, f) = FlowBytes(S, f)
    BY <1>3
  <2>4. h = g
    BY <1>1
  <2> HIDE DEF h, g, T
  <2> QED
    BY <2>1, <2>2, <2>3, <2>4
<1>5. before < CountMod
  <2>1. before <= SumOver(SizeOf, S)
    BY FlowBytesBounded
  <2>2. SumOver(SizeOf, S) \in Nat
    <3>1. IsFiniteSet(S) /\ \A x \in S : SizeOf[x] \in Nat
      BY P4Assumption, SizeFacts, FS_Subset DEF P4Assumption
    <3> QED
      BY <3>1, SumOverNat
  <2> HIDE DEF before, after
  <2> QED
    BY <1>1, <1>4, <2>1, <2>2
<1> DEFINE culprits == Cardinality(CulpritsOf(S))
<1>6. /\ culprits \in Nat /\ culprits < CountMod
      /\ before > FairShare /\ after <= FairShare
           => Cardinality(CulpritsOf(T)) = culprits - 1 /\ culprits >= 1
      /\ (before > FairShare <=> after > FairShare) => Cardinality(CulpritsOf(T)) = culprits
  BY <1>1, <1>3, <1>4, CulpritsChange
<1>7. reg.num_culprits = culprits
  BY DEF CountsExact
<1> HIDE DEF before, after, culprits, g
<1>8. Counted(before, m) = after
  BY <1>1, <1>4, <1>5 DEF Counted, SatMinus
<1>9. Culprits(culprits, after, m) = Cardinality(CulpritsOf(T))
  <2>1. (after + m.pkt_len_bytes) % CountMod = before
    <3>1. after + m.pkt_len_bytes = before
      BY <1>1, <1>4
    <3> QED
      BY <1>1, <1>4, <1>5, <3>1, SmallRemainder
  <2>2. ~ BecomesCulprit(after, m)
    BY DEF BecomesCulprit
  <2>3. CASE before > FairShare /\ after <= FairShare
    <3>1. CeasesCulprit(after, m)
      BY <2>1, <2>3 DEF CeasesCulprit
    <3>2. SatMinus(culprits, 1) = culprits - 1
      BY <1>6, <2>3 DEF SatMinus
    <3> QED
      BY <1>6, <2>2, <2>3, <3>1, <3>2 DEF Culprits
  <2>4. CASE ~ (before > FairShare /\ after <= FairShare)
    <3>1. ~ CeasesCulprit(after, m)
      BY <2>1, <2>4 DEF CeasesCulprit
    <3>2. before > FairShare <=> after > FairShare
      BY <1>1, <1>4, <2>4
    <3> QED
      BY <1>6, <2>2, <3>1, <3>2 DEF Culprits
  <2> QED
    BY <2>3, <2>4
<1>10. /\ r.registers \in MicroburstRegisters /\ r.trace \in Traces
       /\ r.registers.flow_count[g] = after
       /\ \A f \in FlowIDs : f # g => r.registers.flow_count[f] = reg.flow_count[f]
       /\ r.registers.num_culprits = Cardinality(CulpritsOf(T))
       /\ r.trace[1] = r.registers.num_culprits
  BY <1>2, <1>7, <1>8, <1>9, FlowsCounted DEF g
<1>11. \A f \in FlowIDs : r.registers.flow_count[f] = FlowBytes(T, f)
  BY <1>4, <1>10 DEF CountsExact, after
<1> QED
  BY <1>10, <1>11 DEF CountsExact

LEMMA CountsFollow ==
  ASSUME ProgramsLoaded, EventsConnected, MaxSize < CountMod, P4Inv(Programs),
         CountsExact(registers, p4Vars, ToSet(queue)), Next
  PROVE  CountsExact(registers, p4Vars, ToSet(queue))'
<1> USE ProgramsSafe
<1> DEFINE S == ToSet(queue)
<1>1. /\ queue \in Seq(Packets) /\ S \in SUBSET Packets /\ Distinct(queue) /\ S \subseteq arrived
      /\ size = SizeOf /\ nBytes = SumOver(SizeOf, S) /\ nBytes <= MaxSize
  BY P4Assumption, SMTT(30) DEF P4Inv, Queued, TotalSize, P4Assumption
<1> HIDE DEF S
<1>2. CountsExact(registers, p4Vars, S)
  BY DEF S
<1>3. SUFFICES CountsExact(registers', p4Vars', ToSet(queue'))
  BY DEF CountsExact
<1>4. ASSUME NEW p \in Packets, Send(p)
      PROVE  CountsExact(registers', p4Vars', ToSet(queue'))
  <2>1. PICK m, r : /\ r \in Pipeline(registers, m) /\ IsArrival(m, p) /\ p \notin arrived
                    /\ IsDropped(p, r) \/ IsEnqueued(p, r)
    BY <1>4, ArrivalRuns
  <2>2. CountsExact(r.registers, r.trace, S)
    BY <1>2, <2>1, CountsStay DEF IsArrival
  <2>3. CASE IsDropped(p, r)
    <3>1. queue' = queue /\ EventFollows(DropEvents, "drop", p, r)
      BY <2>3 DEF IsDropped
    <3>2. CASE DropEvents
      <4>1. PICK k, s :
              /\ s \in Pipeline(r.registers, k) /\ IsMetadata(k) /\ k.trigger = "drop"
              /\ registers' = s.registers /\ p4Vars' = s.trace
        BY <3>1, <3>2 DEF EventFollows, SetOutputs
      <4>2. CountsExact(s.registers, s.trace, S)
        BY <2>2, <4>1, CountsStay
      <4> QED
        BY <3>1, <4>1, <4>2 DEF S
    <3>3. CASE ~ DropEvents
      <4>1. registers' = r.registers /\ p4Vars' = r.trace
        BY <3>1, <3>3 DEF EventFollows, SetOutputs
      <4> QED
        BY <2>2, <3>1, <4>1 DEF S
    <3> QED
      BY <3>2, <3>3
  <2>4. CASE IsEnqueued(p, r)
    <3>1. /\ nBytes + size[p] <= MaxSize /\ queue' = Append(queue, p)
          /\ EventFollows(EnqEvents, "enq", p, r)
      BY <2>4 DEF IsEnqueued
    <3>2. PICK k, s :
            /\ s \in Pipeline(r.registers, k) /\ IsMetadata(k) /\ k.trigger = "enq"
            /\ k.pkt_len_bytes = size[p] /\ k.flow_hash = FlowOf[p]
            /\ registers' = s.registers /\ p4Vars' = s.trace
      BY <3>1 DEF EventFollows, SetOutputs, EventsConnected
    <3>3. ToSet(queue') = S \cup {p}
      BY <1>1, <3>1, AppendedQueue DEF S
    <3>4. p \in Packets \ S
      BY <1>1, <2>1
    <3>5. SumOver(SizeOf, S \cup {p}) <= MaxSize
      <4>1. SumOver(size, ToSet(queue) \cup {p}) = nBytes + size[p]
        BY <3>4, QueueSums DEF S, P4Inv
      <4> QED
        BY <1>1, <3>1, <4>1 DEF S
    <3>6. CountsExact(s.registers, s.trace, S \cup {p})
      BY <1>1, <2>2, <3>2, <3>4, <3>5, CountsOfEnqueue
    <3> QED
      BY <3>2, <3>3, <3>6
  <2> QED
    BY <2>1, <2>3, <2>4
<1>5. ASSUME DequeuePacket
      PROVE  CountsExact(registers', p4Vars', ToSet(queue'))
  <2> DEFINE p == Head(queue)
  <2>1. /\ queue # <<>> /\ queue' = Tail(queue)
        /\ EventFollows(DeqEvents, "deq", p, NoRun)
    BY <1>5, DepartureRuns
  <2>2. p \in S /\ ToSet(queue') = S \ {p}
    BY <1>1, <2>1, DequeuedQueue DEF S
  <2> HIDE DEF p
  <2>3. PICK k, s :
          /\ s \in Pipeline(registers, k) /\ IsMetadata(k) /\ k.trigger = "deq"
          /\ k.pkt_len_bytes = size[p] /\ k.flow_hash = FlowOf[p]
          /\ registers' = s.registers /\ p4Vars' = s.trace
    BY <2>1 DEF EventFollows, SetOutputs, EventsConnected, NoRun
  <2>4. CountsExact(s.registers, s.trace, S \ {p})
    BY <1>1, <1>2, <2>2, <2>3, CountsOfDequeue
  <2> QED
    BY <2>2, <2>3, <2>4
<1>6. ASSUME RunTimerEvent
      PROVE  CountsExact(registers', p4Vars', ToSet(queue'))
  <2>1. PICK m, r :
          /\ r \in Pipeline(registers, m) /\ IsMetadata(m) /\ m.trigger = "timer"
          /\ registers' = r.registers /\ p4Vars' = r.trace
    BY <1>6, TimerRuns DEF SetOutputs
  <2>2. CountsExact(r.registers, r.trace, S)
    BY <1>2, <2>1, CountsStay
  <2>3. queue' = queue
    BY <1>6 DEF RunTimerEvent
  <2> QED
    BY <2>1, <2>2, <2>3 DEF S
<1>7. ASSUME UNCHANGED <<registers, p4Vars, queue>>
      PROVE  CountsExact(registers', p4Vars', ToSet(queue'))
  BY <1>2, <1>7 DEF S
<1> QED
  BY <1>4, <1>5, <1>6, <1>7 DEF Next, DequeueNothing, RunBlocked, Wake, Tick

\* Of an empty queue.
LEMMA CountsInitially ==
  ASSUME ProgramsLoaded, Init, registers \in MicroburstRegisters
  PROVE  CountsExact(registers, p4Vars, ToSet(queue))
<1>1. registers = InitMicroburst
  BY DEF Init, ProgramsLoaded, ProgramRegisters, MicroburstRegisters, InitAny, InitQsize,
         InitTokens, InitMicroburst, InitPie, InitRed, InitRedEwma
<1>2. queue = <<>> /\ p4Vars = <<0, 0, 0, 0>> /\ FairShare \in Nat
  BY MicroburstAssumption DEF Init, MicroburstAssumption
<1>3. ToSet(queue) = {}
  BY <1>2 DEF ToSet
<1>4. \A f : FlowBytes({}, f) = 0
  <2>1. \A f : OfFlow({}, f) = {}
    BY DEF OfFlow
  <2> QED
    BY <2>1, SumOverEmpty DEF FlowBytes
<1>5. CulpritsOf({}) = {}
  BY <1>2, <1>4 DEF CulpritsOf
<1>6. Cardinality(CulpritsOf({})) = 0
  BY <1>5, FS_EmptySet
<1>7. /\ \A f \in FlowIDs : registers.flow_count[f] = 0
      /\ registers.num_culprits = 0
  BY <1>1 DEF InitMicroburst
<1>8. p4Vars \in Traces /\ p4Vars[1] = 0
  BY <1>2 DEF Traces
<1> QED
  BY <1>3, <1>4, <1>6, <1>7, <1>8 DEF CountsExact

\* With microburst.p4 loaded, each of its counters is what the flows that share it have in
\* the queue, and num_culprits, as traced, the number of counters over the share, after
\* every event: no saturation and no modulus ever puts them off.
THEOREM MicroburstCountsFlows ==
  ASSUME ProgramsLoaded, EventsConnected, MaxSize < CountMod
  PROVE  ProgramSpec => []FlowCountsExact
<1> DEFINE Counts == registers \in MicroburstRegisters =>
                       CountsExact(registers, p4Vars, ToSet(queue))
<1>1. ProgramInit => Counts
  BY CountsInitially DEF ProgramInit
<1>2. P4Inv(Programs) /\ Counts /\ [ProgramNext]_programVars => Counts'
  <2>1. CASE P4Inv(Programs) /\ Counts /\ Next
    <3> SUFFICES ASSUME registers' \in MicroburstRegisters
                 PROVE  CountsExact(registers, p4Vars, ToSet(queue))'
      BY DEF MicroburstRegisters
    <3>1. registers \in MicroburstRegisters
      <4>1. registers'.program = "microburst"
        BY DEF MicroburstRegisters
      <4>2. registers \in Programs /\ registers'.program = registers.program
        BY <2>1, ProgramStays DEF P4Inv, Queued
      <4> QED
        BY <4>1, <4>2, WhichProgram
    <3> QED
      BY <2>1, <3>1, CountsFollow
  <2>2. CASE Counts /\ UNCHANGED vars
    BY <2>2 DEF vars, CountsExact
  <2> QED
    BY <2>1, <2>2 DEF ProgramNext, OpenWindow, programVars
<1>3. P4Inv(Programs) /\ Counts => FlowCountsExact
  <2> SUFFICES ASSUME P4Inv(Programs), Counts, Loaded("microburst")
               PROVE  FlowCountsExact
    BY DEF FlowCountsExact
  <2>1. CountsExact(registers, p4Vars, ToSet(queue)) /\ size = SizeOf
    BY WhichProgram DEF Loaded, P4Inv, Queued
  <2>2. \A f : TotalSize(QueuedOf(f)) = FlowBytes(ToSet(queue), f)
    BY <2>1 DEF TotalSize, QueuedOf, FlowBytes, OfFlow
  <2>3. {f \in FlowIDs : TotalSize(QueuedOf(f)) > FairShare} = CulpritsOf(ToSet(queue))
    BY <2>2 DEF CulpritsOf
  <2> QED
    BY <2>1, <2>2, <2>3 DEF FlowCountsExact, CountsExact
<1> QED
  BY <1>1, <1>2, <1>3, ProgramsInvariant, PTL DEF ProgramSpec

-----------------------------------------------------------------------------
(***************************************************************************)
(* red/basic and red/ewma: what the average does on an arrival, and what   *)
(* it decides.  The first entry of the decay table keeps the average for   *)
(* an idle time of 0, which is what the events of packets are given.       *)
(***************************************************************************)
EventsKeepAverage == DecayFactor(0) = 0

LEMMA RedDrawsFollow ==
  ASSUME NEW qsize \in Nat, NEW d \in RedDraws(qsize)
  PROVE  (qsize < RED.minTh => d = FALSE) /\ (qsize > RED.maxTh => d = TRUE)
<1>1. RED.minTh \in Nat /\ RED.maxTh \in Nat /\ RED.minTh < RED.maxTh
  BY RedTablesAssumption DEF RedTablesAssumption
<1> DEFINE p == DropProbability(qsize)
<1>2. qsize < RED.minTh => p = 0
  BY <1>1 DEF DropProbability
<1>3. qsize > RED.maxTh => p = 256
  BY <1>1 DEF DropProbability
<1>4. d \in BOOLEAN /\ (d => p > 0) /\ (~ d => p < 256)
  BY DEF RedDraws
<1> HIDE DEF p
<1>5. (p = 0 => ~ (p > 0)) /\ (p = 256 => ~ (p < 256))
  OBVIOUS
<1>6. qsize < RED.minTh => d = FALSE
  BY <1>2, <1>4, <1>5, Zenon
<1>7. qsize > RED.maxTh => d = TRUE
  BY <1>3, <1>4, <1>5, Zenon
<1> QED
  BY <1>6, <1>7

LEMMA LeastAndGreatest ==
  ASSUME NEW a \in Nat, NEW b \in Nat
  PROVE  /\ a <= b => Min({a, b}) = a /\ Max({a, b}) = b
         /\ b <= a => Min({a, b}) = b /\ Max({a, b}) = a
<1>1. \E x \in {a, b} : \A y \in {a, b} : x <= y
  OBVIOUS
<1>2. \E x \in {a, b} : \A y \in {a, b} : x >= y
  OBVIOUS
<1>3. Min({a, b}) \in {a, b} /\ \A y \in {a, b} : Min({a, b}) <= y
  BY <1>1 DEF Min
<1>4. Max({a, b}) \in {a, b} /\ \A y \in {a, b} : Max({a, b}) >= y
  BY <1>2 DEF Max
<1> QED
  BY <1>3, <1>4

LEMMA NewAverageBetween ==
  ASSUME NEW avg \in Nat, NEW depth \in Nat, NEW t
  PROVE  NewAverage(avg, depth, t) \in Min({depth, avg}) .. Max({depth, avg})
<1>1. CASE depth # 0
  <2>1. NewAverage(avg, depth, t) = EwmaStep(avg, depth)
    BY <1>1 DEF NewAverage
  <2>2. CASE depth > avg
    <3>1. EwmaStep(avg, depth) \in avg .. depth
      BY <2>2, EwmaStepBetween
    <3>2. Min({depth, avg}) = avg /\ Max({depth, avg}) = depth
      BY <2>2, LeastAndGreatest
    <3> QED
      BY <2>1, <3>1, <3>2
  <2>3. CASE depth <= avg
    <3>1. EwmaStep(avg, depth) \in depth .. avg
      BY <2>3, EwmaStepBetween
    <3>2. Min({depth, avg}) = depth /\ Max({depth, avg}) = avg
      BY <2>3, LeastAndGreatest
    <3> QED
      BY <2>1, <3>1, <3>2
  <2> QED
    BY <2>2, <2>3
<1>2. CASE depth = 0
  <2> DEFINE q == avg \div 2^DecayFactor(t)
  <2>1. q \in 0 .. avg
    BY DecayFactorNat, DividedNat
  <2>2. NewAverage(avg, depth, t) = q
    BY <1>2 DEF NewAverage
  <2> HIDE DEF q
  <2> QED
    BY <1>2, <2>1, <2>2, LeastAndGreatest
<1> QED
  BY <1>1, <1>2

\* A RED program leaves, and draws for, the average after the run; its events change nothing.
LEMMA RedRun ==
  ASSUME ProgramsLoaded, NEW reg \in Programs, NEW m, IsMetadata(m), NEW r \in Pipeline(reg, m),
         m.trigger \in {"ingress", "timer"}
  PROVE  /\ reg.program = "red" => r.registers = reg /\ r.drop \in RedDraws(m.avg_qdepth)
         /\ reg.program = "red-ewma" =>
              /\ r.registers \in EwmaRegisters /\ reg \in EwmaRegisters
              /\ r.registers.avg = NewAverage(reg.avg, m.qdepth, m.timestamp - m.idle_time)
              /\ r.drop \in RedDraws(r.registers.avg)
<1>0. ~ Own(m)
  BY DEF Own
<1>1. CASE reg.program = "red"
  <2>1. r \in RedIngress(reg, m)
    BY <1>1 DEF ProgramsLoaded, ProgramPipeline
  <2> QED
    BY <1>0, <1>1, <2>1 DEF RedIngress, RedOutcomes
<1>2. CASE reg.program = "red-ewma"
  <2>1. r \in RedEwmaIngress(reg, m) /\ reg \in EwmaRegisters
    BY <1>2, WhichProgram DEF ProgramsLoaded, ProgramPipeline
  <2>2. SampledAverage(reg, m) = NewAverage(reg.avg, m.qdepth, m.timestamp - m.idle_time)
    BY <1>0 DEF SampledAverage
  <2>3. /\ r.registers \in EwmaRegisters /\ r.registers.avg = SampledAverage(reg, m)
        /\ r.drop \in RedDraws(SampledAverage(reg, m))
    BY <2>1, EwmaRun
  <2> QED
    BY <1>2, <2>1, <2>2, <2>3
<1> QED
  BY <1>1, <1>2

LEMMA RedEvents ==
  ASSUME ProgramsLoaded, EventsKeepAverage, NEW enabled, NEW t \in {"drop", "enq", "deq"}, NEW p,
         NEW r, r.registers \in Programs, EventFollows(enabled, t, p, r)
  PROVE  /\ r.registers.program = "red" => registers' = r.registers
         /\ r.registers.program = "red-ewma" =>
              registers'.program = "red-ewma" /\ registers'.avg = r.registers.avg
<1>1. CASE enabled
  <2>1. PICK m, s : /\ IsMetadata(m) /\ m.trigger = t /\ s \in ProgramPipeline(r.registers, m)
                    /\ registers' = s.registers
    BY <1>1 DEF EventFollows, SetOutputs, ProgramsLoaded
  <2>2. CASE r.registers.program = "red"
    <3>1. s \in RedIngress(r.registers, m)
      BY <2>1, <2>2 DEF ProgramPipeline
    <3> QED
      BY <2>1, <2>2, <3>1 DEF RedIngress, RedOutcomes
  <2>3. CASE r.registers.program = "red-ewma"
    <3>1. s \in RedEwmaIngress(r.registers, m) /\ r.registers \in EwmaRegisters
      BY <2>1, <2>3, WhichProgram DEF ProgramPipeline
    <3>2. s.registers \in EwmaRegisters /\ s.registers.avg = SampledAverage(r.registers, m)
      BY <2>1, <3>1, EwmaRun
    <3>3. r.registers.avg \in Nat
      BY <3>1 DEF EwmaRegisters
    <3>4. SampledAverage(r.registers, m) = r.registers.avg \div 2^0
      BY <2>1 DEF SampledAverage, Own, NewAverage, EventsKeepAverage
    <3>5. r.registers.avg \div 2^0 = r.registers.avg
      BY <3>3
    <3> QED
      BY <2>1, <2>3, <3>2, <3>4, <3>5 DEF EwmaRegisters
  <2> QED
    BY <2>2, <2>3
<1>2. CASE ~ enabled
  BY <1>2 DEF EventFollows, SetOutputs
<1> QED
  BY <1>1, <1>2

\* What RedFollowsAverage says of a step.
RedStep ==
  (Loaded("red") \/ Loaded("red-ewma")) /\ arrived' # arrived =>
    /\ Loaded("red-ewma") =>
         LET depth == MapSize(nBytes, 1)
         IN  registers'.avg \in Min({depth, registers.avg}) .. Max({depth, registers.avg})
    /\ RedAverage' < RED.minTh =>
         droppedBytes' = droppedBytes \/ received' - received + nBytes > MaxSize
    /\ RedAverage' > RED.maxTh => enqueued' = enqueued

LEMMA RedArrival ==
  ASSUME ProgramsLoaded, EventsKeepAverage, P4Inv(Programs), NEW p \in Packets, Send(p)
  PROVE  RedStep
<1> USE ProgramsSafe
<1>1. /\ received \in Nat /\ size[p] \in Nat /\ nBytes \in Nat /\ MaxSize \in Nat
      /\ registers \in Programs /\ MapSize(nBytes, 1) \in Nat
  <2>1. nBytes \in Nat /\ MaxSize \in Nat
    BY P4Assumption DEF P4Inv, Queued, P4Assumption
  <2>2. received \in Nat /\ size[p] \in Nat /\ registers \in Programs
    BY SizeFacts DEF P4Inv, Queued
  <2>3. MapSize(nBytes, 1) \in Nat
    BY <2>1, MapSizeNat
  <2> QED
    BY <2>1, <2>2, <2>3
<1>2. PICK m, r : /\ r \in Pipeline(registers, m) /\ IsArrival(m, p)
                  /\ r.registers \in Programs
                  /\ received' = received + size[p]
                  /\ IsDropped(p, r) \/ IsEnqueued(p, r)
  BY ArrivalRuns
<1>3. \E t \in {"drop", "enq", "deq"}, e \in {DropEvents, EnqEvents} : EventFollows(e, t, p, r)
  BY <1>2 DEF IsDropped, IsEnqueued
<1>4. received' - received + nBytes = nBytes + size[p]
  BY <1>1, <1>2
\* Whatever average the program drew for decides as RedFollowsAverage says.
<1>5. ASSUME NEW avg \in Nat, r.drop \in RedDraws(avg), RedAverage' = avg
      PROVE  /\ RedAverage' < RED.minTh =>
                  droppedBytes' = droppedBytes \/ received' - received + nBytes > MaxSize
             /\ RedAverage' > RED.maxTh => enqueued' = enqueued
  <2>1. (avg < RED.minTh => r.drop = FALSE) /\ (avg > RED.maxTh => r.drop = TRUE)
    BY <1>5, RedDrawsFollow
  <2>2. avg < RED.minTh => droppedBytes' = droppedBytes \/ nBytes + size[p] > MaxSize
    BY <1>2, <2>1, Zenon DEF IsDropped, IsEnqueued
  <2>3. avg > RED.maxTh => enqueued' = enqueued
    BY <1>2, <2>1, Zenon DEF IsDropped, IsEnqueued
  <2> QED
    BY <1>4, <1>5, <2>2, <2>3
<1>6. CASE Loaded("red")
  <2>1. r.registers = registers /\ r.drop \in RedDraws(m.avg_qdepth)
    BY <1>1, <1>2, <1>6, RedRun DEF Loaded, IsArrival
  <2>2. registers' = registers
    BY <1>3, <1>6, <2>1, <1>1, RedEvents DEF Loaded
  <2>3. RedAverage' = m.avg_qdepth /\ m.avg_qdepth \in Nat
    BY <1>2, <1>6, <2>2 DEF RedAverage, Loaded, IsArrival, IsMetadata
  <2>4. ~ Loaded("red-ewma")
    BY <1>6 DEF Loaded
  <2> QED
    BY <1>5, <2>1, <2>3, <2>4 DEF RedStep
<1>7. CASE Loaded("red-ewma")
  <2>1. /\ r.registers \in EwmaRegisters /\ registers \in EwmaRegisters
        /\ r.registers.avg = NewAverage(registers.avg, m.qdepth, m.timestamp - m.idle_time)
        /\ r.drop \in RedDraws(r.registers.avg)
    BY <1>1, <1>2, <1>7, RedRun DEF Loaded, IsArrival
  <2>2. registers'.program = "red-ewma" /\ registers'.avg = r.registers.avg
    BY <1>2, <1>3, <2>1, RedEvents DEF EwmaRegisters
  <2>3. RedAverage' = r.registers.avg
    BY <2>2 DEF RedAverage, Loaded
  <2>4. r.registers.avg \in Nat /\ registers.avg \in Nat /\ m.qdepth = MapSize(nBytes, 1)
    BY <1>2, <2>1 DEF EwmaRegisters, IsArrival
  <2>5. r.registers.avg \in Min({m.qdepth, registers.avg}) .. Max({m.qdepth, registers.avg})
    BY <1>1, <2>1, <2>4, NewAverageBetween
  <2> QED
    BY <1>5, <2>1, <2>2, <2>3, <2>4, <2>5 DEF RedStep
<1> QED
  BY <1>6, <1>7 DEF RedStep

\* With one of the RED programs loaded, the average moves towards the size of the queue and
\* never past it, and it decides what is dropped, as RedFollowsAverage says.
THEOREM RedObeysAverage ==
  ASSUME ProgramsLoaded, EventsKeepAverage
  PROVE  ProgramSpec => RedFollowsAverage
<1>1. P4Inv(Programs) /\ [ProgramNext]_programVars => [RedStep]_vars
  <2> SUFFICES ASSUME P4Inv(Programs), [ProgramNext]_programVars
               PROVE  RedStep \/ UNCHANGED vars
    OBVIOUS
  <2>1. CASE \E p \in Packets : Send(p)
    BY <2>1, RedArrival
  <2>2. CASE arrived' = arrived
    BY <2>2 DEF RedStep
  <2> QED
    BY <2>1, <2>2 DEF ProgramNext, OpenWindow, programVars, vars, Next, DequeuePacket,
                      DequeueNothing, RunBlocked, Wake, RunTimerEvent, Tick
<1>2. ProgramSpec => [][RedStep]_vars
  BY <1>1, ProgramsInvariant, PTL DEF ProgramSpec
<1> QED
  BY <1>2 DEF RedFollowsAverage, RedStep

-----------------------------------------------------------------------------
(***************************************************************************)
(* pie.p4 moves its probability with the latency as long as its words do   *)
(* not overflow before the end of the simulation.  Reach bounds what the   *)
(* two terms of the controller ask for, and Most what an update adds to    *)
(* the probability.                                                        *)
(***************************************************************************)
Reach == PIE.alpha * (MaxTime + PIE.target) + PIE.beta * MaxTime
Most == 2 * Reach + PIE.step

PieFits ==
  /\ PIE.target \in 1 .. PIE.late
  /\ PIE.period > 0
  /\ 4 * Reach < Word
  /\ Most * (MaxTime + PIE.period) < Word * PIE.period

LEMMA ReachNat == Reach \in Nat /\ Most \in Nat /\ MaxTime \in Nat
<1>1. /\ MaxTime \in Nat /\ PIE.alpha \in Nat /\ PIE.target \in Nat /\ PIE.beta \in Nat
      /\ PIE.step \in Nat
  BY PieConstantsTyped, P4Assumption DEF PieConstants, P4Assumption
<1>2. PIE.alpha * (MaxTime + PIE.target) \in Nat /\ PIE.beta * MaxTime \in Nat
  BY <1>1, ProductNat
<1>3. Reach \in Nat
  BY <1>2 DEF Reach
<1> QED
  BY <1>1, <1>3 DEF Most

LEMMA SignedSmall ==
  ASSUME NEW x \in Int, 2 * x < Word, - Word <= 2 * x
  PROVE  Signed(x) = x
<1>1. Word \in Nat \ {0} /\ Word % 2 = 0
  BY PieAssumption DEF PieAssumption
<1> DEFINE half == Word \div 2
           w == Word
<1>2. half \in Int /\ w = 2 * half /\ w \in Nat \ {0}
  BY <1>1
<1> HIDE DEF half, w
<1>3. CASE x >= 0
  <2>1. x < w
    BY <1>2, <1>3 DEF w
  <2>2. x % w = x
    BY <1>2, <1>3, <2>1, SmallRemainder
  <2> QED
    BY <1>2, <1>3, <2>2 DEF Signed, Unsigned, half, w
<1>4. CASE x < 0
  <2>1. x + w >= 0 /\ x + w < w
    BY <1>2, <1>4 DEF w
  <2>2. x % w = x + w
    BY <1>2, <1>4, <2>1
  <2>3. ~ (x + w < half)
    BY <1>2 DEF w
  <2> QED
    BY <1>2, <2>2, <2>3 DEF Signed, Unsigned, half, w
<1> QED
  BY <1>3, <1>4

LEMMA ProductBetween ==
  ASSUME NEW k \in Nat, NEW x \in Int, NEW n \in Nat, - n <= x, x <= n
  PROVE  /\ k * x \in Int /\ k * n \in Nat /\ - (k * n) <= k * x /\ k * x <= k * n
         /\ x <= 0 => k * x <= 0
         /\ x >= 0 => k * x >= 0
<1>1. k * x \in Int /\ k * n \in Nat
  BY ProductNat
<1>2. CASE x >= 0
  <2>1. x \in Nat
    BY <1>2
  <2>2. k * x \in Nat /\ k * x <= k * n
    BY <2>1, ProductNat, ProductGrows
  <2>3. x <= 0 => k * x = 0
    BY <1>2
  <2> QED
    BY <1>1, <2>2, <2>3
<1>3. CASE x < 0
  <2>1. - x \in Nat /\ - x <= n
    BY <1>3
  <2>2. k * (- x) \in Nat /\ k * (- x) <= k * n
    BY <2>1, ProductNat, ProductGrows
  <2>3. k * (- x) = - (k * x)
    OBVIOUS
  <2> QED
    BY <1>1, <1>3, <2>2, <2>3
<1> QED
  BY <1>2, <1>3

\* Shifting to the right moves a number towards 0, or -1, and keeps its sign.
LEMMA DividedBetween ==
  ASSUME NEW n \in Int, NEW k \in Nat, NEW b \in Nat, - b <= n, n <= b
  PROVE  /\ n \div 2^k \in Int /\ - b <= n \div 2^k /\ n \div 2^k <= b
         /\ n <= 0 => n \div 2^k <= 0
         /\ n >= 0 => n \div 2^k >= 0
<1> DEFINE d == 2^k
           q == n \div d
<1>1. d \in Nat \ {0}
  BY PowerOfTwo
<1> HIDE DEF d
<1>2. q \in Int /\ d * q <= n /\ n < d * q + d
  BY <1>1, QuotientProperties
<1> HIDE DEF q
<1>3. CASE q >= 0
  <2>1. q \in Nat
    BY <1>2, <1>3
  <2>2. q <= d * q /\ d * q \in Nat
    BY <1>1, <2>1, ProductNat, ProductGrows
  <2> QED
    BY <1>2, <2>1, <2>2 DEF q, d
<1>4. CASE q < 0
  <2>1. - q - 1 \in Nat
    BY <1>2, <1>4
  <2> DEFINE l == - q - 1
  <2>2. d * q + d = - (d * l)
    BY <1>1, <1>2
  <2> HIDE DEF l
  <2>3. l \in Nat
    BY <2>1 DEF l
  <2>4. d * l \in Nat /\ l <= d * l
    BY <1>1, <2>3, ProductNat, ProductGrows
  <2>5. n < 0 /\ l < b
    BY <1>2, <2>2, <2>3, <2>4
  <2>6. - b <= q
    BY <1>2, <2>3, <2>5 DEF l
  <2> QED
    BY <1>2, <1>4, <2>5, <2>6 DEF q, d
<1> QED
  BY <1>2, <1>3, <1>4

\* The controller, without an overflow: what it asks for has the sign of the distance and of
\* the trend where they agree, and is bounded.
LEMMA ControllerBetween ==
  ASSUME PieFits, NEW qdelay \in 0 .. MaxTime, NEW old \in 0 .. MaxTime
  PROVE  LET pi == Signed(Signed(PIE.alpha * (qdelay - PIE.target))
                          + Signed(PIE.beta * (qdelay - old)))
         IN  /\ pi \in Int /\ - Reach <= pi /\ pi <= Reach
             /\ qdelay <= PIE.target /\ qdelay <= old => pi <= 0
             /\ qdelay >= PIE.target /\ qdelay >= old => pi >= 0
<1> DEFINE x == qdelay - PIE.target
           y == qdelay - old
           a == PIE.alpha * x
           b == PIE.beta * y
           A == PIE.alpha * (MaxTime + PIE.target)
           B == PIE.beta * MaxTime
<1>1. /\ MaxTime \in Nat /\ PIE.alpha \in Nat /\ PIE.target \in Nat /\ PIE.beta \in Nat
      /\ MaxTime + PIE.target \in Nat
  BY PieConstantsTyped, ReachNat DEF PieConstants
<1>2. /\ x \in Int /\ - (MaxTime + PIE.target) <= x /\ x <= MaxTime + PIE.target
      /\ y \in Int /\ - MaxTime <= y /\ y <= MaxTime
      /\ (qdelay <= PIE.target => x <= 0) /\ (qdelay >= PIE.target => x >= 0)
      /\ (qdelay <= old => y <= 0) /\ (qdelay >= old => y >= 0)
  BY <1>1
<1> HIDE DEF x, y
<1>3. /\ a \in Int /\ A \in Nat /\ - A <= a /\ a <= A
      /\ (x <= 0 => a <= 0) /\ (x >= 0 => a >= 0)
  BY <1>1, <1>2, ProductBetween
<1>4. /\ b \in Int /\ B \in Nat /\ - B <= b /\ b <= B
      /\ (y <= 0 => b <= 0) /\ (y >= 0 => b >= 0)
  BY <1>1, <1>2, ProductBetween
<1>5. Reach = A + B /\ 4 * Reach < Word /\ Word \in Nat
  BY PieAssumption DEF Reach, PieFits, PieAssumption
<1> HIDE DEF a, b, A, B
<1>6. /\ 2 * a < Word /\ - Word <= 2 * a /\ 2 * b < Word /\ - Word <= 2 * b
      /\ a + b \in Int /\ 2 * (a + b) < Word /\ - Word <= 2 * (a + b)
  BY <1>3, <1>4, <1>5
<1>7. Signed(a) = a /\ Signed(b) = b /\ Signed(a + b) = a + b
  BY <1>3, <1>4, <1>6, SignedSmall
<1>8. /\ a + b \in Int /\ - Reach <= a + b /\ a + b <= Reach
      /\ qdelay <= PIE.target /\ qdelay <= old => a + b <= 0
      /\ qdelay >= PIE.target /\ qdelay >= old => a + b >= 0
  BY <1>2, <1>3, <1>4, <1>5
<1>9. Signed(Signed(PIE.alpha * (qdelay - PIE.target)) + Signed(PIE.beta * (qdelay - old)))
        = a + b
  BY <1>7 DEF a, b, x, y
<1> QED
  BY <1>8, <1>9

LEMMA GradedBetween ==
  ASSUME PieFits, NEW pi \in Int, NEW prob \in Nat, - Reach <= pi, pi <= Reach
  PROVE  /\ Graded(pi, prob) \in Int /\ Graded(pi, prob) <= 2 * Reach
         /\ pi <= 0 => Graded(pi, prob) <= 0
         /\ pi >= 0 => Graded(pi, prob) >= 0
<1> DEFINE d == pi \div 2^PIE.deltaShift
<1>1. /\ PIE.deltaShift \in Nat /\ PIE.lightShift \in Nat /\ PIE.mediumShift \in Nat
      /\ PIE.heavyShift \in Nat /\ Reach \in Nat
  BY PieConstantsTyped, ReachNat DEF PieConstants
<1>2. /\ d \in Int /\ - Reach <= d /\ d <= Reach
      /\ (pi <= 0 => d <= 0) /\ (pi >= 0 => d >= 0)
  BY <1>1, DividedBetween
<1> HIDE DEF d
<1>3. \A k \in Nat : /\ d \div 2^k \in Int /\ d \div 2^k <= Reach
                     /\ (d <= 0 => d \div 2^k <= 0) /\ (d >= 0 => d \div 2^k >= 0)
  BY <1>1, <1>2, DividedBetween
<1>4. Signed(2 * d) = 2 * d
  <2>1. 2 * d \in Int /\ 2 * (2 * d) < Word /\ - Word <= 2 * (2 * d)
    BY <1>1, <1>2, PieAssumption DEF PieFits, PieAssumption
  <2> QED
    BY <2>1, SignedSmall
<1> DEFINE g == Graded(pi, prob)
<1>5. \/ \E k \in Nat : g = d \div 2^k
      \/ g = 2 * d
  BY <1>1, <1>4 DEF Graded, d
<1> HIDE DEF g
<1>6. /\ g \in Int /\ g <= 2 * Reach
      /\ (d <= 0 => g <= 0) /\ (d >= 0 => g >= 0)
  <2>1. CASE g = 2 * d
    BY <1>1, <1>2, <2>1
  <2>2. CASE \E k \in Nat : g = d \div 2^k
    <3>1. PICK k \in Nat : g = d \div 2^k
      BY <2>2
    <3>2. g \in Int /\ g <= Reach /\ (d <= 0 => g <= 0) /\ (d >= 0 => g >= 0)
      BY <1>3, <3>1
    <3> QED
      BY <1>1, <3>2
  <2> QED
    BY <1>5, <2>1, <2>2
<1> QED
  BY <1>2, <1>6 DEF g

LEMMA DeltaBetween ==
  ASSUME PieFits, NEW prob \in Nat, NEW qdelay \in 0 .. MaxTime, NEW old \in 0 .. MaxTime
  PROVE  LET delta == Delta(prob, qdelay, old)
         IN  /\ delta \in Int /\ delta <= Most
             /\ qdelay <= PIE.target /\ qdelay <= old => delta <= 0
             /\ qdelay >= PIE.target /\ qdelay >= old => delta >= 0
             /\ prob >= PIE.heavy => delta <= 2 * PIE.step
<1> DEFINE pi == Signed(Signed(PIE.alpha * (qdelay - PIE.target))
                        + Signed(PIE.beta * (qdelay - old)))
           graded == Graded(pi, prob)
           limited == IF graded > PIE.step /\ prob >= PIE.heavy THEN PIE.step ELSE graded
           delta == Delta(prob, qdelay, old)
           falls == qdelay <= PIE.target /\ qdelay <= old
           rises == qdelay >= PIE.target /\ qdelay >= old
<1>1. delta = IF qdelay > PIE.late THEN limited + PIE.step ELSE limited
  BY DEF Delta
<1>2. /\ pi \in Int /\ - Reach <= pi /\ pi <= Reach
      /\ (falls => pi <= 0) /\ (rises => pi >= 0)
  BY ControllerBetween
<1> HIDE DEF pi, delta
<1>3. /\ graded \in Int /\ graded <= 2 * Reach
      /\ (pi <= 0 => graded <= 0) /\ (pi >= 0 => graded >= 0)
  BY <1>2, GradedBetween
<1> HIDE DEF graded
<1>4. /\ PIE.step \in Nat /\ PIE.heavy \in Nat /\ PIE.late \in Nat /\ PIE.target \in Nat
      /\ PIE.target <= PIE.late /\ Reach \in Nat /\ Most = 2 * Reach + PIE.step
      /\ MaxTime \in Nat
  BY PieConstantsTyped, ReachNat DEF PieConstants, PieFits, Most
<1>5. /\ limited \in Int /\ limited <= 2 * Reach
      /\ (falls => limited <= 0) /\ (rises => limited >= 0)
      /\ (prob >= PIE.heavy => limited <= PIE.step)
  BY <1>2, <1>3, <1>4
<1> HIDE DEF limited
<1>6. falls => ~ (qdelay > PIE.late)
  BY <1>4
<1>7. /\ delta \in Int /\ delta <= Most
      /\ (falls => delta <= 0) /\ (rises => delta >= 0)
      /\ (prob >= PIE.heavy => delta <= 2 * PIE.step)
  <2> HIDE DEF falls, rises
  <2>1. CASE qdelay > PIE.late
    <3>1. delta = limited + PIE.step /\ ~ falls
      BY <1>1, <1>6, <2>1
    <3> QED
      BY <1>4, <1>5, <3>1
  <2>2. CASE ~ (qdelay > PIE.late)
    <3>1. delta = limited
      BY <1>1, <2>2
    <3> QED
      BY <1>4, <1>5, <3>1
  <2> QED
    BY <2>1, <2>2
<1> QED
  BY <1>7 DEF delta

LEMMA ProbabilityFollows ==
  ASSUME PieFits, NEW prob \in Nat, NEW qdelay \in 0 .. MaxTime, NEW old \in 0 .. MaxTime,
         prob + Most < Word
  PROVE  LET p == NewProb(prob, qdelay, old)
         IN  /\ p \in Nat /\ p <= prob + Most
             /\ qdelay <= PIE.target /\ qdelay <= old => p <= prob
             /\ qdelay >= PIE.target /\ qdelay >= old => p >= prob
             /\ prob >= PIE.heavy => p <= prob + 2 * PIE.step
<1> DEFINE delta == Delta(prob, qdelay, old)
           moved == Unsigned(prob + delta)
           decayed == IF qdelay = 0 /\ old = 0
                      THEN moved - moved \div 2^PIE.decayShift ELSE moved
           p == NewProb(prob, qdelay, old)
           falls == qdelay <= PIE.target /\ qdelay <= old
           rises == qdelay >= PIE.target /\ qdelay >= old
<1>1. /\ delta \in Int /\ delta <= Most
      /\ (falls => delta <= 0) /\ (rises => delta >= 0)
      /\ (prob >= PIE.heavy => delta <= 2 * PIE.step)
  BY DeltaBetween
<1>2. p = CASE delta > 0 /\ decayed < prob -> PIE.maxProb
            [] delta <= 0 /\ decayed > prob -> 0
            [] OTHER -> decayed
  BY DEF NewProb
<1>3. /\ Word \in Nat \ {0} /\ Most \in Nat /\ PIE.target \in Nat /\ PIE.target >= 1
      /\ PIE.decayShift \in Nat /\ PIE.step \in Nat
  BY PieConstantsTyped, ReachNat, PieAssumption DEF PieConstants, PieFits, PieAssumption
<1>4. p \in Nat
  <2>1. qdelay \in Nat /\ old \in Nat
    BY ReachNat
  <2> QED
    BY <2>1, NewProbNat
<1> HIDE DEF delta, p
<1>5. moved \in Nat
  BY <1>1, SignedInt
<1>6. delta >= 0 => moved = prob + delta
  <2> SUFFICES ASSUME delta >= 0 PROVE moved = prob + delta
    OBVIOUS
  <2>1. prob + delta \in Nat /\ prob + delta < Word
    BY <1>1, <1>3
  <2> QED
    BY <1>3, <2>1, SmallRemainder DEF Unsigned
<1> HIDE DEF moved
<1>7. ~ (qdelay = 0 /\ old = 0) => decayed = moved
  OBVIOUS
<1>8. decayed \in Nat
  <2>1. moved \div 2^PIE.decayShift \in Nat /\ moved \div 2^PIE.decayShift <= moved
    BY <1>3, <1>5, DividedNat
  <2> DEFINE q == moved \div 2^PIE.decayShift
  <2> HIDE DEF q
  <2>2. moved - q \in Nat
    BY <1>5, <2>1 DEF q
  <2> QED
    BY <1>5, <2>2 DEF q
<1> HIDE DEF decayed
<1>9. qdelay = 0 /\ old = 0 => falls
  BY <1>3
<1>10. rises => ~ (qdelay = 0 /\ old = 0)
  BY <1>3
<1> HIDE DEF falls, rises
<1>11. CASE delta <= 0
  <2>1. p <= prob
    <3>1. ~ (delta > 0)
      BY <1>1, <1>11
    <3>2. CASE decayed > prob
      BY <1>2, <1>11, <3>1, <3>2
    <3>3. CASE ~ (decayed > prob)
      <4>1. p = decayed
        BY <1>2, <3>1, <3>3
      <4> QED
        BY <1>8, <3>3, <4>1
    <3> QED
      BY <3>2, <3>3
  <2>2. rises => p = prob
    <3> SUFFICES ASSUME rises PROVE p = prob
      OBVIOUS
    <3>1. delta = 0
      BY <1>1, <1>11
    <3>2. decayed = prob
      BY <1>6, <1>7, <1>10, <3>1
    <3> QED
      BY <1>2, <3>1, <3>2
  <2>3. p <= prob + Most /\ p <= prob + 2 * PIE.step
    BY <1>3, <1>4, <2>1
  <2> QED
    BY <1>4, <2>1, <2>2, <2>3 DEF falls, rises, p
<1>12. CASE delta > 0
  <2>1. ~ falls /\ decayed = prob + delta
    BY <1>1, <1>6, <1>7, <1>9, <1>12
  <2>2. p = prob + delta
    BY <1>1, <1>2, <1>12, <2>1
  <2>3. /\ p <= prob + Most /\ p >= prob
        /\ (prob >= PIE.heavy => p <= prob + 2 * PIE.step)
    BY <1>1, <1>3, <1>12, <2>2
  <2> QED
    BY <1>4, <2>1, <2>3 DEF falls, rises, p
<1> QED
  BY <1>1, <1>11, <1>12

\* What is true of the registers: the time of the next update counts the updates, each of
\* which adds at most Most to the probability.
PieBounded(reg) ==
  /\ reg.qdelay <= MaxTime
  /\ reg.prob * PIE.period <= Most * reg.time_next

\* What PieFollowsLatency says of an update.
PieMoves(reg, new) ==
  /\ new.qdelay <= PIE.target /\ new.qdelay <= reg.qdelay => new.prob <= reg.prob
  /\ new.qdelay >= PIE.target /\ new.qdelay >= reg.qdelay => new.prob >= reg.prob
  /\ reg.prob >= PIE.heavy => new.prob <= reg.prob + 2 * PIE.step
  /\ new.time_next = reg.time_next + PIE.period

LEMMA UpdateMoves ==
  ASSUME PieFits, NEW reg \in PieRegisters, PieBounded(reg), NEW qdelay \in 0 .. MaxTime,
         NEW time \in 0 .. MaxTime
  PROVE  LET new == Updated(reg, qdelay, time)
         IN  /\ new \in PieRegisters /\ PieBounded(new)
             /\ new = reg \/ (reg.time_next <= time /\ new.time_next > 0 /\ PieMoves(reg, new))
<1> DEFINE new == Updated(reg, qdelay, time)
           prob == reg.prob
           next == reg.time_next
           p == NewProb(prob, qdelay, reg.qdelay)
<1>0. CASE ~ (time >= next)
  BY <1>0 DEF Updated
<1>1. CASE time >= next
  <2>1. new = [reg EXCEPT !.prob = p, !.qdelay = qdelay, !.time_next = next + PIE.period]
    BY <1>1 DEF Updated
  <2>2. /\ prob \in Nat /\ next \in Nat /\ reg.qdelay \in 0 .. MaxTime
        /\ MaxTime \in Nat /\ Most \in Nat /\ Word \in Nat
        /\ PIE.period \in Nat \ {0} /\ time \in Nat /\ qdelay \in Nat
    BY ReachNat, PieConstantsTyped, PieAssumption
    DEF PieRegisters, PieBounded, PieConstants, PieFits, PieAssumption
  <2>3. prob + Most < Word /\ (prob + Most) * PIE.period <= Most * (next + PIE.period)
    <3> DEFINE l == PIE.period
    <3>1. /\ prob * l <= Most * next /\ Most * (MaxTime + l) < Word * l
          /\ l \in Nat \ {0}
      BY <2>2 DEF PieBounded, PieFits
    <3> HIDE DEF prob, next, l
    <3>2. /\ prob * l \in Nat /\ Most * next \in Nat /\ Most * l \in Nat /\ Word * l \in Nat
          /\ Most * MaxTime \in Nat
      BY <2>2, <3>1, ProductNat
    <3>3. /\ (prob + Most) * l = prob * l + Most * l
          /\ Most * (next + l) = Most * next + Most * l
          /\ Most * (MaxTime + l) = Most * MaxTime + Most * l
      BY <2>2, <3>1
    <3>4. Most * next <= Most * MaxTime
      <4>1. next <= MaxTime
        BY <1>1, <2>2 DEF next
      <4> QED
        BY <2>2, <4>1, ProductGrows
    <3>5. (prob + Most) * l < Word * l
      BY <3>1, <3>2, <3>3, <3>4
    <3>6. ~ (Word <= prob + Most)
      <4>1. Word <= prob + Most => l * Word <= l * (prob + Most)
        BY <2>2, <3>1, ProductGrows
      <4>2. l * Word = Word * l /\ l * (prob + Most) = (prob + Most) * l
        BY <2>2, <3>1
      <4> QED
        BY <2>2, <3>1, <3>2, <3>3, <3>5, <4>1, <4>2
    <3>7. (prob + Most) * l <= Most * (next + l)
      BY <3>1, <3>2, <3>3
    <3> QED
      BY <2>2, <3>6, <3>7 DEF l
  <2>4. /\ p \in Nat /\ p <= prob + Most
        /\ qdelay <= PIE.target /\ qdelay <= reg.qdelay => p <= prob
        /\ qdelay >= PIE.target /\ qdelay >= reg.qdelay => p >= prob
        /\ prob >= PIE.heavy => p <= prob + 2 * PIE.step
    <3> HIDE DEF prob
    <3> QED
      BY <2>2, <2>3, ProbabilityFollows
  <2> HIDE DEF p, new
  <2>5. /\ next + PIE.period \in Nat
        /\ p * PIE.period <= Most * (next + PIE.period)
    <3> DEFINE l == PIE.period
    <3>1. l \in Nat /\ prob + Most \in Nat
      BY <2>2
    <3>2. l * p <= l * (prob + Most)
      BY <2>4, <3>1, ProductGrows
    <3>3. (prob + Most) * l <= Most * (next + l)
      BY <2>3
    <3> HIDE DEF l, prob, next
    <3>4. l * p = p * l /\ l * (prob + Most) = (prob + Most) * l
      BY <2>4, <3>1
    <3>5. p * l \in Nat /\ (prob + Most) * l \in Nat /\ Most * (next + l) \in Nat
          /\ next + l \in Nat
      BY <2>2, <2>4, <3>1, ProductNat
    <3>6. p * l <= Most * (next + l)
      BY <3>2, <3>3, <3>4, <3>5
    <3> QED
      BY <3>5, <3>6 DEF l
  <2>6. /\ new.prob = p /\ new.qdelay = qdelay /\ new.time_next = next + PIE.period
        /\ new \in PieRegisters
    <3> DEFINE n == next + PIE.period
    <3>1. n \in Nat
      BY <2>5
    <3>2. new = [reg EXCEPT !.prob = p, !.qdelay = qdelay, !.time_next = n]
      BY <2>1
    <3> HIDE DEF n
    <3> QED
      BY <2>2, <2>4, <3>1, <3>2 DEF PieRegisters, n
  <2>7. PieBounded(new)
    BY <2>5, <2>6 DEF PieBounded
  <2>8. PieMoves(reg, new)
    BY <2>4, <2>6 DEF PieMoves
  <2>9. new.time_next > 0
    BY <2>2, <2>6
  <2> QED
    BY <1>1, <2>6, <2>7, <2>8, <2>9 DEF new
<1> QED
  <2>1. reg.time_next \in Nat
    BY DEF PieRegisters
  <2> QED
    BY <1>0, <1>1, <2>1

\* A run updates the registers or leaves them; the run of an event updates them only if they
\* never were.
LEMMA PieRun ==
  ASSUME PieFits, NEW reg \in PieRegisters, PieBounded(reg), NEW m, IsMetadata(m),
         NEW r \in PieIngress(reg, m)
  PROVE  /\ r.registers \in PieRegisters /\ PieBounded(r.registers)
         /\ \/ r.registers = reg
            \/ /\ m.trigger \in {"drop", "enq", "deq"} => reg.time_next = 0
               /\ r.registers.time_next > 0
               /\ PieMoves(reg, r.registers)
<1> DEFINE own == m.trigger \in {"drop", "enq", "deq"}
           qdelay == IF own THEN 0 ELSE m.qlatency
           time == IF own THEN 0 ELSE m.timestamp
           new == Updated(reg, qdelay, time)
<1>1. r.registers \in {reg, new}
  <2> DEFINE qdepth == IF own THEN 0 ELSE m.qdepth
             exposed == (qdelay >= PIE.target \div 2 \/ new.prob >= PIE.certain)
                          /\ qdepth > PIE.minDepth
             trace == [m.trace EXCEPT ![4] = new.prob % PIE.maxProb]
  <2>1. \/ r = [registers |-> reg, trace |-> m.trace, drop |-> TRUE, len |-> m.pkt_len_bytes]
        \/ \E d \in IF exposed THEN Draws(new.prob) ELSE {FALSE} :
             r = [registers |-> new, trace |-> trace, drop |-> d, len |-> m.pkt_len_bytes]
    BY DEF PieIngress
  <2> HIDE DEF exposed, trace, new
  <2>2. ASSUME r = [registers |-> reg, trace |-> m.trace, drop |-> TRUE,
                    len |-> m.pkt_len_bytes]
        PROVE  r.registers = reg
    BY <2>2
  <2>3. ASSUME NEW d, r = [registers |-> new, trace |-> trace, drop |-> d,
                           len |-> m.pkt_len_bytes]
        PROVE  r.registers = new
    BY <2>3
  <2> QED
    BY <2>1, <2>2, <2>3, Zenon
<1>2. qdelay \in 0 .. MaxTime /\ time \in 0 .. MaxTime /\ reg.time_next \in Nat
  BY ReachNat DEF IsMetadata, PieRegisters
<1>3. own => time = 0
  OBVIOUS
<1> HIDE DEF qdelay, time
<1>4. /\ new \in PieRegisters /\ PieBounded(new)
      /\ new = reg \/ (reg.time_next <= time /\ new.time_next > 0 /\ PieMoves(reg, new))
  BY <1>2, UpdateMoves
<1> HIDE DEF new
<1>5. own /\ reg.time_next <= time => reg.time_next = 0
  BY <1>2, <1>3
<1> QED
  BY <1>1, <1>4, <1>5

\* The run of an event after a run, if pie.p4 is loaded.
LEMMA PieEvents ==
  ASSUME ProgramsLoaded, PieFits, NEW enabled, NEW t \in {"drop", "enq", "deq"}, NEW p, NEW r,
         r.registers \in PieRegisters, PieBounded(r.registers), EventFollows(enabled, t, p, r)
  PROVE  /\ registers' \in PieRegisters /\ PieBounded(registers')
         /\ \/ registers' = r.registers
            \/ r.registers.time_next = 0 /\ PieMoves(r.registers, registers')
<1>1. CASE enabled
  <2>1. PICK m, s : /\ IsMetadata(m) /\ m.trigger = t /\ s \in ProgramPipeline(r.registers, m)
                    /\ registers' = s.registers
    BY <1>1 DEF EventFollows, SetOutputs, ProgramsLoaded
  <2>2. s \in PieIngress(r.registers, m)
    <3>1. r.registers.program = "pie"
      BY DEF PieRegisters
    <3> QED
      BY <2>1, <3>1 DEF ProgramPipeline
  <2> QED
    BY <2>1, <2>2, PieRun
<1>2. CASE ~ enabled
  BY <1>2 DEF EventFollows, SetOutputs
<1> QED
  BY <1>1, <1>2

LEMMA PieFollows ==
  ASSUME ProgramsLoaded, PieFits, P4Inv(Programs), Next, registers \in PieRegisters,
         PieBounded(registers)
  PROVE  /\ registers' \in PieRegisters /\ PieBounded(registers')
         /\ registers' = registers \/ PieMoves(registers, registers')
<1> USE ProgramsSafe
<1>0. registers.program = "pie" /\ \A m : Pipeline(registers, m) = PieIngress(registers, m)
  BY DEF PieRegisters, ProgramsLoaded, ProgramPipeline
<1> DEFINE Goal == /\ registers' \in PieRegisters /\ PieBounded(registers')
                   /\ registers' = registers \/ PieMoves(registers, registers')
<1>1. ASSUME NEW p \in Packets, Send(p)
      PROVE  Goal
  <2>1. PICK m, r : /\ IsMetadata(m) /\ r \in PieIngress(registers, m)
                    /\ IsDropped(p, r) \/ IsEnqueued(p, r)
    BY <1>0, <1>1, ArrivalRuns DEF IsArrival
  <2>2. /\ r.registers \in PieRegisters /\ PieBounded(r.registers)
        /\ \/ r.registers = registers
           \/ r.registers.time_next > 0 /\ PieMoves(registers, r.registers)
    BY <2>1, PieRun
  <2>3. \E t \in {"drop", "enq", "deq"}, e \in {DropEvents, EnqEvents} : EventFollows(e, t, p, r)
    BY <2>1 DEF IsDropped, IsEnqueued
  <2>4. /\ registers' \in PieRegisters /\ PieBounded(registers')
        /\ \/ registers' = r.registers
           \/ r.registers.time_next = 0 /\ PieMoves(r.registers, registers')
    BY <2>2, <2>3, PieEvents
  <2>5. r.registers.time_next > 0 => ~ (r.registers.time_next = 0)
    OBVIOUS
  <2> QED
    BY <2>2, <2>4, <2>5
<1>2. ASSUME DequeuePacket
      PROVE  Goal
  <2>1. EventFollows(DeqEvents, "deq", Head(queue), NoRun) /\ NoRun.registers = registers
    BY <1>2, DepartureRuns DEF NoRun
  <2> QED
    BY <2>1, PieEvents
<1>3. ASSUME RunTimerEvent
      PROVE  Goal
  <2>1. PICK m, r : /\ IsMetadata(m) /\ r \in PieIngress(registers, m)
                    /\ registers' = r.registers
    BY <1>0, <1>3, TimerRuns DEF SetOutputs
  <2> QED
    BY <2>1, PieRun
<1> QED
  BY <1>1, <1>2, <1>3 DEF Next, DequeueNothing, RunBlocked, Wake, Tick

PieStep ==
  Loaded("pie") /\ registers' # registers => PieMoves(registers, registers')

\* With pie.p4 loaded, whose words do not overflow, every update moves the probability with
\* the latency, and the time of the next update by one period, as PieFollowsLatency says
\* (pie.p4, on each event of P4QueueDisc).
THEOREM PieMovesWithLatency ==
  ASSUME ProgramsLoaded, PieFits
  PROVE  ProgramSpec => PieFollowsLatency
<1> DEFINE PieInv == Loaded("pie") => registers \in PieRegisters /\ PieBounded(registers)
<1>1. ProgramInit => PieInv
  <2>1. InitPie \in PieRegisters /\ PieBounded(InitPie)
    BY ReachNat, PieConstantsTyped DEF InitPie, PieRegisters, PieBounded, PieConstants
  <2>2. \A reg \in ProgramRegisters : reg.program = "pie" => reg = InitPie
    BY DEF ProgramRegisters, InitAny, InitQsize, InitTokens, InitMicroburst, InitRed,
           InitRedEwma
  <2> QED
    BY <2>1, <2>2 DEF ProgramInit, Init, Loaded, ProgramsLoaded
<1>2. P4Inv(Programs) /\ PieInv /\ Next => PieInv' /\ PieStep
  <2> SUFFICES ASSUME P4Inv(Programs), PieInv, Next
               PROVE  PieInv' /\ PieStep
    OBVIOUS
  <2>1. registers'.program = registers.program
    BY ProgramStays
  <2>2. CASE Loaded("pie")
    <3>1. /\ registers' \in PieRegisters /\ PieBounded(registers')
          /\ registers' = registers \/ PieMoves(registers, registers')
      BY <2>2, PieFollows
    <3> QED
      BY <3>1 DEF PieStep, PieBounded
  <2>3. CASE ~ Loaded("pie")
    BY <2>1, <2>3 DEF Loaded, PieStep
  <2> QED
    BY <2>2, <2>3
<1>3. P4Inv(Programs) /\ PieInv /\ [ProgramNext]_programVars => PieInv' /\ [PieStep]_vars
  <2>1. PieInv /\ UNCHANGED vars => PieInv'
    BY DEF vars, Loaded, PieBounded
  <2> QED
    BY <1>2, <2>1 DEF ProgramNext, OpenWindow, programVars
<1>4. ProgramSpec => [][PieStep]_vars
  BY <1>1, <1>3, ProgramsInvariant, PTL DEF ProgramSpec
<1> QED
  BY <1>4 DEF PieFollowsLatency, PieStep, PieMoves
=============================================================================

------------------------- MODULE RedQueueDiscProofs -------------------------
(***************************************************************************)
(* Theorems about RedQueueDisc, for any thresholds, limits, sizes and      *)
(* probabilities and for any configuration: the types and the ranges of    *)
(* the queue and its average, that early drops keep their distance and     *)
(* come in time, and that the AIMD rule keeps its range.                   *)
(***************************************************************************)
EXTENDS RedQueueDisc, DataProofs

\* The types on which the probability of a drop depends.  That the queue is the drop-tail
\* queue that TypeOK says it is does not matter here.
Typed ==
  /\ phase \in {"config", "ready"} /\ attr \in Attributes
  /\ th \in Pairs
  /\ coeffs \in [minTh : Nat, maxTh : Nat \ {0}, maxP : 0 .. One]
  /\ coeffs.minTh <= coeffs.maxTh
  /\ queue \in Seq(PacketSizes) /\ nBytes \in Int
  /\ qAvg \in Int /\ curMaxP \in Nat
  /\ count \in Nat /\ countBytes \in Nat
  /\ old \in {0, 1} /\ idle \in {0, 1} /\ idleFor \in 0 .. MaxIdle
  /\ since \in Counters

\* What has been counted since the last early drop or arrival below the threshold.
Base == IF event \in {"below", "unforced"} THEN None ELSE since

\* While m_old is set, m_count and m_countBytes count no more than that.
CountsAtMost == old = 1 => count <= Base.packets /\ countBytes <= Base.bytes

\* Nothing has arrived before the initialization.
QuietConfig == phase = "config" => event = "none"

\* The inductive invariant of the early drops.
SpacingInv == Typed /\ QuietConfig /\ CountsAtMost /\ EarlyDropsSpaced

\* At most one of the two rules adapts m_curMaxP.
OneRule == attr.feng => ~ attr.adaptMaxP /\ ~ attr.ared

\* The inductive invariant of the AIMD rule.
RangeInv == Typed /\ OneRule /\ MaxPWithinAStep

-----------------------------------------------------------------------------
\* Rounding down keeps the order.
LEMMA DivMonotonic ==
  ASSUME NEW a \in Int, NEW b \in Int, NEW m \in Nat \ {0}, a <= b
  PROVE  a \div m <= b \div m
BY SMT

\* The part f / d of a, rounded down.
LEMMA PartOf ==
  ASSUME NEW a \in Nat, NEW b \in Nat, NEW f \in Nat, NEW d \in Nat \ {0}, f <= d
  PROVE  /\ (a * f) \div d \in Nat /\ (a * f) \div d <= a
         /\ b <= a => (b * f) \div d <= (a * f) \div d
<1>1. a * f \in Nat /\ b * f \in Nat
  BY ProductNat
<1>2. (a * f) \div d \in Nat
  BY <1>1, QuotientProperties
<1>3. (a * f) \div d <= a
  <2>1. a * f <= a * d
    BY ProductGrows
  <2>2. a * d = d * a /\ d * a \in Nat /\ d * (a + 1) = d * a + d
    OBVIOUS
  <2>3. a * f < d * (a + 1)
    BY <1>1, <2>1, <2>2
  <2> QED
    BY <1>1, <2>3, QuotientBound
<1>4. ASSUME b <= a
      PROVE  (b * f) \div d <= (a * f) \div d
  <2>1. f * b <= f * a /\ f * b = b * f /\ f * a = a * f
    BY <1>4, ProductGrows
  <2> QED
    BY <1>1, <2>1, DivMonotonic
<1> QED
  BY <1>2, <1>3, <1>4

\* A larger count reaches what a smaller one reaches.
LEMMA ReachedByMore ==
  ASSUME NEW a \in Nat, NEW b \in Nat, NEW p \in Int, NEW one \in Nat \ {0},
         a <= b, a * p >= one
  PROVE  b * p >= one
BY SMT

\* Whoever has counted no less counts as no fewer packets.
LEMMA CountedMonotonic ==
  ASSUME NEW m \in Counters, NEW n \in Counters, m.packets <= n.packets, m.bytes <= n.bytes
  PROVE  Counted(m) \in Nat /\ Counted(n) \in Nat /\ Counted(m) <= Counted(n)
<1>1. MeanPktSize \in Nat \ {0}
  BY RedAssumption
<1>2. m.bytes \div MeanPktSize <= n.bytes \div MeanPktSize
  BY <1>1, DivMonotonic DEF Counters
<1>3. m.bytes \div MeanPktSize \in Nat /\ n.bytes \div MeanPktSize \in Nat
  BY <1>1 DEF Counters
<1> QED
  BY <1>2, <1>3 DEF Counted, Counters

\* The probability is a number whatever the average and m_curMaxP.
LEMMA PNewIsNumber ==
  ASSUME Typed, NEW avg \in Int, NEW maxP \in Int
  PROVE  CalculatePNew(avg, maxP) \in Int
<1>1. One \in Nat \ {0} /\ AvgOne \in Nat \ {0}
  BY RedAssumption
<1>2. coeffs.minTh \in Nat /\ coeffs.maxTh \in Nat \ {0} /\ coeffs.maxP \in Int
  BY <1>1 DEF Typed
<1>3. Linear(avg) \in Int
  <2> DEFINE diff == IF coeffs.maxTh = coeffs.minTh THEN 1 ELSE coeffs.maxTh - coeffs.minTh
  <2>1. diff \in Nat \ {0}
    BY <1>2 DEF Typed
  <2>2. diff * AvgOne \in Nat \ {0}
    BY <1>1, <2>1
  <2>3. (avg - coeffs.minTh * AvgOne) * One \in Int
    BY <1>1, <1>2
  <2> QED
    BY <2>2, <2>3 DEF Linear
<1>4. Gentle(avg) \in Int
  <2>1. coeffs.maxTh * AvgOne \in Nat \ {0} /\ (One - coeffs.maxP) * avg \in Int
    BY <1>1, <1>2
  <2> QED
    BY <1>1, <1>2, <2>1 DEF Gentle
<1>5. (3 * Linear(avg) * Linear(avg)) \div (2 * One) \in Int
  <2>1. 3 * Linear(avg) * Linear(avg) \in Int /\ 2 * One \in Nat \ {0}
    BY <1>1, <1>3
  <2> QED
    BY <2>1
<1>6. \A x \in Int : Least((x * maxP) \div One, One) \in Int
  BY <1>1 DEF Least
<1>7. Least(Gentle(avg), One) \in Int
  BY <1>1, <1>4 DEF Least
<1> QED
  BY <1>1, <1>3, <1>5, <1>6, <1>7 DEF CalculatePNew

\* In wait mode DropEarly may drop only when the count has reached 1 / p.
LEMMA DropsWhenReached ==
  ASSUME attr.wait = TRUE, NEW p \in Int, NEW n \in Counters, NEW size \in PacketSizes,
         MayDrop(ModifyP(p, n, size))
  PROVE  Counted(n) * p >= One
<1>1. One \in Nat \ {0} /\ MeanPktSize \in Nat \ {0} /\ size \in Nat \ {0}
  BY RedAssumption
<1>2. Counted(n) * p \in Int
  BY CountedMonotonic DEF Counters
<1> SUFFICES ASSUME Counted(n) * p < One PROVE FALSE
  BY <1>1, <1>2
<1>3. Spread(p, Counted(n)) = 0
  BY <1>1, <1>2 DEF Spread
<1>4. ModifyP(p, n, size) = 0
  <2>1. (0 * size) \div MeanPktSize = 0
    BY <1>1
  <2> QED
    BY <1>1, <1>3, <2>1 DEF ModifyP, Least
<1> QED
  BY <1>4 DEF MayDrop

-----------------------------------------------------------------------------
\* The probability depends on nothing else.
LEMMA PNewUnchanged ==
  ASSUME UNCHANGED params
  PROVE  CalculatePNew(qAvg, curMaxP)' = CalculatePNew(qAvg', curMaxP')
BY DEF CalculatePNew, Linear, Gentle, params

LEMMA InitTyped == Init => Typed
<1> SUFFICES ASSUME Init PROVE Typed
  OBVIOUS
<1>1. attr \in Attributes /\ th \in Pairs /\ idleFor \in 0 .. MaxIdle
  BY RedAssumption DEF Init
<1>2. coeffs \in [minTh : Nat, maxTh : Nat \ {0}, maxP : 0 .. One] /\ coeffs.minTh <= coeffs.maxTh
  BY RedAssumption DEF Init
<1>3. queue \in Seq(PacketSizes) /\ since \in Counters
  BY DEF Init, None, Counters
<1> QED
  BY <1>1, <1>2, <1>3 DEF Init, Typed

LEMMA SetThTyped ==
  ASSUME Typed, NEW t \in Thresholds, SetTh(t)
  PROVE  Typed'
<1>1. th' \in Pairs
  BY RedAssumption DEF SetTh
<1> QED
  BY <1>1 DEF Typed, SetTh, state

LEMMA InitializeParamsTyped ==
  ASSUME Typed, InitializeParams
  PROVE  Typed'
<1>1. th' \in Pairs
  BY RedAssumption DEF InitializeParams, Typed
<1>2. th'[1] \in Nat /\ th'[2] \in Nat \ {0} /\ th'[1] <= th'[2]
  <2>1. th'[1] \in Nat /\ th'[2] \in Nat /\ th'[1] <= th'[2] /\ th' = <<th'[1], th'[2]>>
    BY <1>1 DEF Pairs
  <2>2. th' = AutoThresholds \/ th' # <<0, 0>>
    BY DEF InitializeParams
  <2>3. AutoThresholds[2] > 0
    BY RedAssumption
  <2>4. th'[2] # 0
    <3>1. th'[2] = 0 => th' = <<0, 0>>
      BY <2>1
    <3> QED
      BY <2>2, <2>3, <3>1
  <2> QED
    BY <2>1, <2>4
<1>3. /\ coeffs' \in [minTh : Nat, maxTh : Nat \ {0}, maxP : 0 .. One]
      /\ coeffs'.minTh <= coeffs'.maxTh
  BY <1>2, RedAssumption DEF InitializeParams
<1>4. attr' \in Attributes
  BY DEF InitializeParams, Typed, Attributes
<1>5. curMaxP' \in Nat
  BY RedAssumption DEF InitializeParams
<1> QED
  BY <1>1, <1>3, <1>4, <1>5 DEF Typed, InitializeParams, history

LEMMA TickTyped ==
  ASSUME Typed, Tick
  PROVE  Typed'
<1>1. MaxIdle \in Nat /\ idleFor \in 0 .. MaxIdle
  BY RedAssumption DEF Typed
<1>2. idleFor' = idleFor \/ (idleFor < MaxIdle /\ idleFor' = idleFor + 1)
  BY DEF Tick
<1>3. idleFor' \in 0 .. MaxIdle
  BY <1>1, <1>2
<1> QED
  BY <1>3 DEF Typed, Tick, params, history

LEMMA DoDequeueTyped ==
  ASSUME Typed, DoDequeue
  PROVE  Typed'
<1>1. queue' \in Seq(PacketSizes) /\ nBytes' \in Int /\ idle' \in {0, 1}
  <2>1. CASE queue = <<>>
    BY <2>1 DEF DoDequeue, Typed
  <2>2. CASE queue # <<>>
    <3>1. Head(queue) \in PacketSizes /\ Tail(queue) \in Seq(PacketSizes)
      BY <2>2 DEF Typed
    <3>2. \A size \in PacketSizes : size \in Int
      BY RedAssumption
    <3>3. Head(queue) \in Int /\ nBytes \in Int
      BY <3>1, <3>2 DEF Typed
    <3>4. queue' = Tail(queue) /\ nBytes' = nBytes - Head(queue) /\ idle' = 0
      BY <2>2 DEF DoDequeue
    <3> QED
      BY <3>1, <3>3, <3>4
  <2> QED
    BY <2>1, <2>2
<1>2. idleFor' \in 0 .. MaxIdle
  BY RedAssumption DEF DoDequeue
<1> QED
  BY <1>1, <1>2 DEF Typed, DoDequeue, params, history

\* Either rule and no rule leave numbers.
LEMMA EstimatorTyped ==
  ASSUME Typed, NEW m \in 1 .. Ptc * MaxIdle + 1, Estimator(CurrentSize, m)
  PROVE  qAvg' \in Int /\ curMaxP' \in Nat
<1>1. CurrentSize \in Int
  BY DEF CurrentSize, Typed
<1>2. qAvg' \in Int
  <2> DEFINE kept == Power(One - QW, m)
             whole == Power(One, m)
  <2>1. kept \in Nat /\ whole \in Nat \ {0}
    <3>1. One - QW \in Nat /\ One \in Nat \ {0} /\ m \in Nat
      BY RedAssumption
    <3> QED
      BY <3>1, PowerNat, PowerPositive
  <2>2. QW * CurrentSize * AvgOne \in Int /\ One \in Nat \ {0}
    BY <1>1, RedAssumption
  <2>4. qAvg' = (qAvg * kept) \div whole + (QW * CurrentSize * AvgOne) \div One
    BY DEF Estimator, Average
  <2> HIDE DEF kept, whole
  <2>3. qAvg * kept \in Int
    BY <2>1 DEF Typed
  <2>5. (qAvg * kept) \div whole \in Int
    BY <2>1, <2>3
  <2>6. (QW * CurrentSize * AvgOne) \div One \in Int
    BY <2>2
  <2> QED
    BY <2>4, <2>5, <2>6
<1>3. curMaxP' \in Nat
  <2>1. CASE UpdateMaxP(qAvg')
    <3>1. curMaxP \in Nat /\ Alpha \in Nat /\ (curMaxP * Beta) \div One \in Nat
      BY RedAssumption, PartOf DEF Typed
    <3>2. \/ curMaxP' = (curMaxP * Beta) \div One
          \/ curMaxP' = curMaxP + Alpha
          \/ curMaxP' = curMaxP + curMaxP \div 4
          \/ curMaxP' = curMaxP
      BY <2>1 DEF UpdateMaxP
    <3> QED
      BY <3>1, <3>2
  <2>2. CASE UpdateMaxPFeng(qAvg')
    <3>1. curMaxP' \in 1 .. MaxMaxP
      BY <2>2 DEF UpdateMaxPFeng
    <3> QED
      BY <3>1, RedAssumption
  <2>3. CASE UNCHANGED curMaxP
    BY <2>3 DEF Typed
  <2> QED
    BY <2>1, <2>2, <2>3 DEF Estimator
<1> QED
  BY <1>2, <1>3

\* The number of samples that DoEnqueue hands to Estimator.
LEMMA SamplesInRange ==
  ASSUME Typed
  PROVE  (IF idle = 1 THEN Ptc * idleFor ELSE 0) + 1 \in 1 .. Ptc * MaxIdle + 1
<1>1. Ptc \in Nat /\ MaxIdle \in Nat /\ idleFor \in 0 .. MaxIdle
  BY RedAssumption DEF Typed
<1>2. Ptc * idleFor \in Nat /\ Ptc * MaxIdle \in Nat /\ Ptc * idleFor <= Ptc * MaxIdle
  BY <1>1, SMT
<1> QED
  BY <1>1, <1>2

LEMMA InsertTyped ==
  ASSUME Typed, NEW size \in PacketSizes, Insert(size)
  PROVE  queue' \in Seq(PacketSizes) /\ nBytes' \in Int
<1>1. size \in Int /\ queue \in Seq(PacketSizes) /\ nBytes \in Int
  BY RedAssumption DEF Typed
<1>2. \/ UNCHANGED <<queue, nBytes>>
      \/ queue' = Append(queue, size) /\ nBytes' = nBytes + size
  BY DEF Insert
<1> QED
  BY <1>1, <1>2

\* The alternatives of DoEnqueue.
Outcome(size, ect) ==
  \/ Below(size)
  \/ Forced(size, ect)
  \/ Crossing(size)
  \/ Unforced(size, ect)
  \/ Spared(size)

\* The size of an arriving packet is positive.
LEMMA SizesArePositive == Sizes \subseteq PacketSizes /\ Sizes \subseteq Nat \ {0}
BY RedAssumption DEF Sizes

LEMMA ArrivalCounted ==
  ASSUME Typed, NEW size \in PacketSizes
  PROVE  /\ Arrived(size) \in Counters /\ Plus(None, size) \in Counters /\ None \in Counters
         /\ Base \in Counters /\ Plus(Base, size) \in Counters
<1>1. size \in Nat
  BY RedAssumption
<1> QED
  BY <1>1 DEF Arrived, Plus, None, Base, Counters, Typed

\* What an arrival does to the counters, the history and the queue, by its outcome.
LEMMA OutcomeTyped ==
  ASSUME Typed, NEW size \in Sizes, NEW ect \in BOOLEAN, Outcome(size, ect)
  PROVE  /\ queue' \in Seq(PacketSizes) /\ nBytes' \in Int
         /\ count' \in Nat /\ countBytes' \in Nat /\ old' \in {0, 1}
         /\ since' = Plus(Base, size) /\ since' \in Counters
<1>1. size \in PacketSizes /\ size \in Nat \ {0}
  BY SizesArePositive
<1>2. since' = Plus(Base, size)
  BY DEF Outcome, Below, Forced, Crossing, Unforced, Spared, Reckon, Base
<1>3. since' \in Counters
  BY <1>1, <1>2, ArrivalCounted
<1>4. Insert(size) \/ UNCHANGED <<queue, nBytes>>
  BY DEF Outcome, Below, Forced, Crossing, Unforced, Spared
<1>5. queue' \in Seq(PacketSizes) /\ nBytes' \in Int
  BY <1>1, <1>4, InsertTyped DEF Typed
<1>6. old' \in {0, 1}
  BY DEF Outcome, Below, Forced, Crossing, Unforced, Spared, Typed
<1>7. \/ UNCHANGED <<count, countBytes>>
      \/ \E n \in {Arrived(size), Plus(None, size), None} : Recount(n)
  BY DEF Outcome, Below, Forced, Crossing, Unforced, Spared
<1>8. count' \in Nat /\ countBytes' \in Nat
  <2>1. CASE UNCHANGED <<count, countBytes>>
    BY <2>1 DEF Typed
  <2>2. CASE \E n \in {Arrived(size), Plus(None, size), None} : Recount(n)
    <3>1. \E n \in Counters : Recount(n)
      BY <1>1, <2>2, ArrivalCounted
    <3> QED
      BY <3>1 DEF Recount, Counters
  <2> QED
    BY <1>7, <2>1, <2>2
<1> QED
  BY <1>2, <1>3, <1>5, <1>6, <1>8

LEMMA DoEnqueueTyped ==
  ASSUME Typed, NEW size \in Sizes, NEW ect \in BOOLEAN, DoEnqueue(size, ect)
  PROVE  Typed' /\ Outcome(size, ect) /\ UNCHANGED params /\ phase = "ready"
<1>1. Outcome(size, ect) /\ UNCHANGED params /\ idle' = 0 /\ idleFor' = 0 /\ phase = "ready"
  BY DEF DoEnqueue, Outcome
<1>2. qAvg' \in Int /\ curMaxP' \in Nat
  <2>1. Estimator(CurrentSize, (IF idle = 1 THEN Ptc * idleFor ELSE 0) + 1)
    BY DEF DoEnqueue
  <2> QED
    BY <2>1, SamplesInRange, EstimatorTyped
<1>3. idleFor' \in 0 .. MaxIdle
  BY <1>1, RedAssumption
<1>4. /\ queue' \in Seq(PacketSizes) /\ nBytes' \in Int /\ since' \in Counters
      /\ count' \in Nat /\ countBytes' \in Nat /\ old' \in {0, 1}
  BY <1>1, OutcomeTyped
<1> QED
  BY <1>1, <1>2, <1>3, <1>4 DEF Typed, params

-----------------------------------------------------------------------------
\* The counters and what has arrived since the last early drop move together.
LEMMA OutcomeCountsAtMost ==
  ASSUME Typed, CountsAtMost, NEW size \in Sizes, NEW ect \in BOOLEAN, Outcome(size, ect)
  PROVE  CountsAtMost'
<1>1. size \in PacketSizes /\ size \in Nat
  BY SizesArePositive
<1>2. since' = Plus(Base, size) /\ Base \in Counters
  BY <1>1, OutcomeTyped, ArrivalCounted
<1>3. CASE Below(size)
  BY <1>3 DEF Below, CountsAtMost
<1>4. CASE Crossing(size)
  <2>1. count' = 1 /\ countBytes' = size /\ event' = "crossing"
    BY <1>1, <1>4 DEF Crossing, Recount, Plus, None, Reckon
  <2> QED
    BY <1>1, <1>2, <2>1 DEF CountsAtMost, Base, Plus, Counters
<1>5. CASE Unforced(size, ect)
  <2>1. count' = 0 /\ countBytes' = 0 /\ event' = "unforced"
    BY <1>5 DEF Unforced, Recount, None, Reckon
  <2> QED
    BY <2>1 DEF CountsAtMost, Base, None
<1>6. CASE Spared(size)
  <2>1. /\ count' = count + 1 /\ countBytes' = countBytes + size
        /\ old = 1 /\ event' = "spared"
    BY <1>6 DEF Spared, Recount, Arrived, Plus, Reckon
  <2> QED
    BY <1>1, <1>2, <2>1, SMTT(30) DEF CountsAtMost, Base, Plus, Counters, Typed
<1>7. CASE Forced(size, ect)
  <2>1. old' = old /\ event' = "forced"
    BY <1>7 DEF Forced, Reckon
  <2>2. CASE Recount(None)
    <3>1. count' = 0 /\ countBytes' = 0
      BY <2>2 DEF Recount, None
    <3> QED
      BY <1>1, <1>2, <2>1, <3>1 DEF CountsAtMost, Base, Plus, Counters
  <2>3. CASE Recount(Arrived(size))
    <3>1. count' = count + 1 /\ countBytes' = countBytes + size
      BY <2>3 DEF Recount, Arrived, Plus
    <3> QED
      BY <1>1, <1>2, <2>1, <3>1, SMTT(30) DEF CountsAtMost, Base, Plus, Counters, Typed
  <2> QED
    BY <1>7, <2>2, <2>3 DEF Forced
<1> QED
  BY <1>3, <1>4, <1>5, <1>6, <1>7 DEF Outcome

\* An early drop finds that as many have arrived as were counted.
LEMMA OutcomeSpaced ==
  ASSUME Typed, Typed', CountsAtMost, UNCHANGED params,
         NEW size \in Sizes, NEW ect \in BOOLEAN, Outcome(size, ect)
  PROVE  EarlyDropsSpaced'
<1>1. size \in PacketSizes /\ size \in Nat
  BY SizesArePositive
<1>2. CASE event' = "unforced" /\ attr.wait = TRUE
  <2> DEFINE p == CalculatePNew(qAvg', curMaxP')
  <2>1. old = 1 /\ MayDrop(ModifyP(p, Arrived(size), size))
    BY <1>2 DEF Outcome, Below, Forced, Crossing, Unforced, Spared, Reckon
  <2>2. p \in Int
    BY PNewIsNumber DEF Typed
  <2>3. Arrived(size) \in Counters /\ since' = Plus(Base, size) /\ since' \in Counters
    BY <1>1, ArrivalCounted, OutcomeTyped
  <2> HIDE DEF p
  <2>4. Counted(Arrived(size)) * p >= One
    BY <1>1, <1>2, <2>1, <2>2, <2>3, DropsWhenReached
  <2>5. Arrived(size).packets <= since'.packets /\ Arrived(size).bytes <= since'.bytes
    <3>1. Base \in Counters /\ count <= Base.packets /\ countBytes <= Base.bytes
      BY <1>1, <2>1, ArrivalCounted DEF CountsAtMost
    <3>2. /\ Arrived(size).packets = count + 1 /\ Arrived(size).bytes = countBytes + size
          /\ since'.packets = Base.packets + 1 /\ since'.bytes = Base.bytes + size
      BY <2>3 DEF Arrived, Plus
    <3>3. /\ count \in Nat /\ countBytes \in Nat
          /\ Base.packets \in Nat /\ Base.bytes \in Nat
      BY <3>1 DEF Counters, Typed
    <3>4. count + 1 <= Base.packets + 1 /\ countBytes + size <= Base.bytes + size
      BY <1>1, <3>1, <3>3
    <3> QED
      BY <3>2, <3>4
  <2>6. /\ Counted(Arrived(size)) \in Nat /\ Counted(since') \in Nat
        /\ Counted(Arrived(size)) <= Counted(since')
    BY <2>3, <2>5, CountedMonotonic
  <2>7. Counted(since') * p >= One
    BY <2>2, <2>4, <2>6, ReachedByMore, RedAssumption
  <2>8. Counted(since)' = Counted(since')
    BY DEF Counted, params
  <2> QED
    BY <2>7, <2>8, PNewUnchanged DEF EarlyDropsSpaced, p
<1>3. CASE ~ (event' = "unforced" /\ attr.wait = TRUE)
  BY <1>3 DEF EarlyDropsSpaced, params, Typed, Attributes
<1> QED
  BY <1>2, <1>3

\* A step that leaves the averages, the counters and the history alone.
LEMMA QuietSteps ==
  ASSUME SpacingInv, UNCHANGED <<params, qAvg, curMaxP, count, countBytes, old, event, since>>
  PROVE  (QuietConfig /\ CountsAtMost /\ EarlyDropsSpaced)'
<1>1. QuietConfig' /\ CountsAtMost'
  BY DEF SpacingInv, QuietConfig, CountsAtMost, Base, params
<1>2. CalculatePNew(qAvg, curMaxP)' = CalculatePNew(qAvg, curMaxP)
  BY PNewUnchanged
<1>3. Counted(since)' = Counted(since)
  BY DEF Counted, params
<1> QED
  BY <1>1, <1>2, <1>3 DEF SpacingInv, EarlyDropsSpaced, params

-----------------------------------------------------------------------------
LEMMA SpacingInitial == Init => SpacingInv
<1> SUFFICES ASSUME Init PROVE SpacingInv
  OBVIOUS
<1>1. Typed
  BY InitTyped
<1>2. QuietConfig /\ CountsAtMost /\ EarlyDropsSpaced
  BY DEF Init, QuietConfig, CountsAtMost, EarlyDropsSpaced
<1> QED
  BY <1>1, <1>2 DEF SpacingInv

LEMMA SpacingKept == SpacingInv /\ [Next]_vars => SpacingInv'
<1> SUFFICES ASSUME SpacingInv, [Next]_vars PROVE SpacingInv'
  OBVIOUS
<1>t. Typed /\ QuietConfig /\ CountsAtMost
  BY DEF SpacingInv
<1>1. ASSUME NEW t \in Thresholds, SetTh(t) PROVE SpacingInv'
  <2>1. Typed'
    BY <1>t, <1>1, SetThTyped
  <2>2. event' = "none" /\ UNCHANGED <<count, countBytes, old, since>>
    BY <1>1 DEF SetTh, state
  <2>3. Base \in Counters /\ since \in Counters /\ (Base = None \/ Base = since)
    BY <1>t DEF Base, None, Counters, Typed
  <2>4. CountsAtMost'
    BY <1>t, <2>2, <2>3 DEF CountsAtMost, Base, None, Counters, Typed
  <2>5. QuietConfig' /\ EarlyDropsSpaced'
    BY <2>2 DEF QuietConfig, EarlyDropsSpaced
  <2> QED
    BY <2>1, <2>4, <2>5 DEF SpacingInv
<1>2. ASSUME InitializeParams PROVE SpacingInv'
  <2>1. Typed'
    BY <1>t, <1>2, InitializeParamsTyped
  <2>2. event = "none" /\ UNCHANGED <<count, countBytes, old, event, since>> /\ phase' = "ready"
    BY <1>t, <1>2 DEF InitializeParams, history, QuietConfig
  <2>3. (QuietConfig /\ CountsAtMost /\ EarlyDropsSpaced)'
    BY <1>t, <2>2 DEF QuietConfig, CountsAtMost, Base, EarlyDropsSpaced
  <2> QED
    BY <2>1, <2>3 DEF SpacingInv
<1>3. ASSUME Tick PROVE SpacingInv'
  <2>1. UNCHANGED <<params, qAvg, curMaxP, count, countBytes, old, event, since>>
    BY <1>3 DEF Tick, history
  <2> QED
    BY <1>t, <1>3, <2>1, TickTyped, QuietSteps DEF SpacingInv
<1>4. ASSUME NEW size \in Sizes, NEW ect \in BOOLEAN, DoEnqueue(size, ect) PROVE SpacingInv'
  <2>1. Typed' /\ Outcome(size, ect) /\ UNCHANGED params /\ phase = "ready"
    BY <1>t, <1>4, DoEnqueueTyped
  <2>2. CountsAtMost'
    BY <1>t, <2>1, OutcomeCountsAtMost
  <2>3. EarlyDropsSpaced'
    BY <1>t, <2>1, OutcomeSpaced
  <2>4. QuietConfig'
    BY <2>1 DEF QuietConfig, params
  <2> QED
    BY <2>1, <2>2, <2>3, <2>4 DEF SpacingInv
<1>5. ASSUME DoDequeue PROVE SpacingInv'
  <2>1. UNCHANGED <<params, qAvg, curMaxP, count, countBytes, old, event, since>>
    BY <1>5 DEF DoDequeue, history
  <2> QED
    BY <1>t, <1>5, <2>1, DoDequeueTyped, QuietSteps DEF SpacingInv
<1>6. ASSUME UNCHANGED vars PROVE SpacingInv'
  <2>1. UNCHANGED <<params, qAvg, curMaxP, count, countBytes, old, event, since>>
    BY <1>6 DEF vars, state, history
  <2>2. Typed'
    BY <1>t, <1>6 DEF vars, params, state, history, Typed
  <2> QED
    BY <2>1, <2>2, QuietSteps DEF SpacingInv
<1> QED
  BY <1>1, <1>2, <1>3, <1>4, <1>5, <1>6 DEF Next

\* In wait mode DropEarly drops or marks a packet no sooner than 1 / p packets after the last
\* early drop or arrival below the threshold, whatever comes between (DoEnqueue, ModifyP).
THEOREM EarlyDropsAreSpaced == Spec => []EarlyDropsSpaced
<1>1. SpacingInv => EarlyDropsSpaced
  BY DEF SpacingInv
<1> QED
  BY <1>1, SpacingInitial, SpacingKept, PTL DEF Spec

-----------------------------------------------------------------------------
\* A step of the AIMD rule, or of none, stays in the range.
LEMMA AdaptationInRange ==
  ASSUME RangeInv, NEW m \in 1 .. Ptc * MaxIdle + 1, Estimator(CurrentSize, m),
         attr.adaptMaxP = TRUE, phase = "ready"
  PROVE  (Bottom * Beta) \div One <= curMaxP' /\ curMaxP' < Top + Alpha
<1>1. /\ Bottom \in Nat /\ Top \in Nat /\ Alpha \in Nat /\ Beta \in Nat
      /\ One \in Nat \ {0} /\ Beta <= One /\ curMaxP \in Nat
  BY RedAssumption DEF RangeInv, Typed
<1>2. (Bottom * Beta) \div One <= curMaxP /\ curMaxP < Top + Alpha
  BY DEF RangeInv, MaxPWithinAStep
<1>3. \/ UNCHANGED curMaxP
      \/ UpdateMaxP(qAvg')
  BY DEF Estimator, RangeInv, OneRule
<1> DEFINE lower == (Bottom * Beta) \div One
           decreased == (curMaxP * Beta) \div One
<1>4. /\ lower \in Nat /\ decreased \in Nat /\ decreased <= curMaxP
      /\ curMaxP > Bottom => lower <= decreased
  BY <1>1, PartOf
<1>5. CASE UpdateMaxP(qAvg')
  <2>1. \/ UNCHANGED curMaxP
        \/ curMaxP > Bottom /\ curMaxP' = decreased
        \/ curMaxP < Top /\ curMaxP' = curMaxP + Alpha
        \/ curMaxP < Top /\ curMaxP \div 4 <= Alpha /\ curMaxP' = curMaxP + curMaxP \div 4
    <3>1. curMaxP \div 4 \in Nat
      BY <1>1
    <3> HIDE DEF lower
    <3> QED
      BY <1>1, <1>5, <3>1 DEF UpdateMaxP
  <2> HIDE DEF lower, decreased
  <2>2. lower <= curMaxP
    BY <1>2 DEF lower
  <2>3. lower <= curMaxP' /\ curMaxP' < Top + Alpha
    BY <1>1, <1>2, <1>4, <2>1, <2>2
  <2> QED
    BY <2>3 DEF lower
<1> QED
  BY <1>2, <1>3, <1>5

\* A packet that arrives leaves the range alone but for the adaptation.
LEMMA DoEnqueueInRange ==
  ASSUME RangeInv, NEW size \in Sizes, NEW ect \in BOOLEAN, DoEnqueue(size, ect)
  PROVE  RangeInv'
<1>1. Typed' /\ UNCHANGED params /\ phase = "ready"
  BY DoEnqueueTyped DEF RangeInv
<1>2. Estimator(CurrentSize, (IF idle = 1 THEN Ptc * idleFor ELSE 0) + 1)
  BY DEF DoEnqueue
<1>3. attr.adaptMaxP = TRUE => (Bottom * Beta) \div One <= curMaxP' /\ curMaxP' < Top + Alpha
  BY <1>1, <1>2, SamplesInRange, AdaptationInRange DEF RangeInv
<1>4. attr.adaptMaxP \in BOOLEAN
  BY DEF RangeInv, Typed, Attributes
<1> QED
  BY <1>1, <1>3, <1>4 DEF RangeInv, OneRule, MaxPWithinAStep, params

\* Where only one rule adapts m_curMaxP, the AIMD rule of UpdateMaxP leaves the range from
\* m_bottom to m_top by less than a step, if InitializeParams starts there.
THEOREM AdaptationStaysInRange ==
  ASSUME \A a \in Configs : a.feng => ~ a.adaptMaxP /\ ~ a.ared,
         (Bottom * Beta) \div One <= InitialMaxP, InitialMaxP < Top + Alpha
  PROVE  Spec => []MaxPWithinAStep
<1>1. Init => RangeInv
  BY InitTyped DEF Init, RangeInv, OneRule, MaxPWithinAStep
<1>2. RangeInv /\ [Next]_vars => RangeInv'
  <2> SUFFICES ASSUME RangeInv, [Next]_vars PROVE RangeInv'
    OBVIOUS
  <2>t. Typed
    BY DEF RangeInv
  <2>1. ASSUME NEW t \in Thresholds, SetTh(t) PROVE RangeInv'
    BY <2>t, <2>1, SetThTyped DEF SetTh, state, RangeInv, OneRule, MaxPWithinAStep
  <2>2. ASSUME InitializeParams PROVE RangeInv'
    <3>1. Typed'
      BY <2>t, <2>2, InitializeParamsTyped
    <3>2. curMaxP' = InitialMaxP /\ attr' = [attr EXCEPT !.adaptMaxP = @ \/ attr.ared]
      BY <2>2 DEF InitializeParams
    <3>3. attr'.feng = attr.feng /\ attr'.ared = attr.ared
          /\ attr'.adaptMaxP = (attr.adaptMaxP \/ attr.ared)
      BY <2>t, <3>2 DEF Typed, Attributes
    <3>4. OneRule'
      BY <3>3 DEF RangeInv, OneRule
    <3> QED
      BY <3>1, <3>2, <3>4 DEF RangeInv, MaxPWithinAStep
  <2>3. ASSUME Tick PROVE RangeInv'
    BY <2>t, <2>3, TickTyped DEF Tick, params, RangeInv, OneRule, MaxPWithinAStep
  <2>4. ASSUME NEW size \in Sizes, NEW ect \in BOOLEAN, DoEnqueue(size, ect) PROVE RangeInv'
    BY <2>4, DoEnqueueInRange
  <2>5. ASSUME DoDequeue PROVE RangeInv'
    BY <2>t, <2>5, DoDequeueTyped DEF DoDequeue, params, RangeInv, OneRule, MaxPWithinAStep
  <2>6. ASSUME UNCHANGED vars PROVE RangeInv'
    <3>1. Typed'
      BY <2>t, <2>6 DEF vars, params, state, history, Typed
    <3> QED
      BY <2>6, <3>1 DEF vars, params, state, RangeInv, OneRule, MaxPWithinAStep
  <2> QED
    BY <2>1, <2>2, <2>3, <2>4, <2>5, <2>6 DEF Next
<1>3. RangeInv => MaxPWithinAStep
  BY DEF RangeInv
<1> QED
  BY <1>1, <1>2, <1>3, PTL DEF Spec

-----------------------------------------------------------------------------
\* The drop-tail queue counts its bytes and keeps its limit, and is empty while the disc is
\* idle or not yet in use.
QueueFits ==
  /\ nBytes = Sum(queue) /\ CurrentSize <= MaxSize
  /\ idle = 1 \/ phase = "config" => queue = <<>>

AverageFits == qAvg \in 0 .. MaxSize * AvgOne

\* What DropEarly has let through in a row is no more than what has been counted.
SparedCounted ==
  /\ spared \in [n : Counters, leastP : Int] /\ spared.leastP <= One
  /\ spared.n.packets <= count /\ spared.n.bytes <= countBytes

Labels ==
  /\ fengStatus \in {"Above", "Between", "Below"} /\ sinceSet \in Nat
  /\ event \in {"none", "below", "crossing", "unforced", "spared", "forced"}

\* The inductive invariant of the types and of the early drops that come in time.
TimeInv ==
  Typed /\ QuietConfig /\ QueueFits /\ AverageFits /\ SparedCounted /\ Labels /\ EarlyDropsInTime

\* The bytes in the queue.
LEMMA QueueBytes ==
  ASSUME NEW s \in Seq(PacketSizes)
  PROVE  /\ Sum(s) \in Nat /\ Sum(<<>>) = 0
         /\ \A size \in PacketSizes : Sum(Append(s, size)) = Sum(s) + size
         /\ s # <<>> => Sum(Tail(s)) = Sum(s) - Head(s) /\ Head(s) \in Nat
<1>0. PacketSizes \subseteq Nat /\ Seq(PacketSizes) \subseteq Seq(Nat) /\ Seq(Nat) \subseteq Seq(Int)
  <2>1. PacketSizes \subseteq Nat
    BY RedAssumption
  <2>2. Nat \subseteq Int
    OBVIOUS
  <2> QED
    BY <2>1, <2>2, SeqMonotonic
<1>1. /\ PacketSizes \subseteq Nat /\ s \in Seq(Nat) /\ s \in Seq(Int)
      /\ Len(s) \in Nat /\ DOMAIN s = 1 .. Len(s)
  BY <1>0
<1>2. Sum(s) \in Nat
  <2>1. IsFiniteSet(DOMAIN s)
    BY <1>1, FS_Interval
  <2>2. \A i \in DOMAIN s : s[i] \in Nat
    BY <1>1
  <2> QED
    BY <2>1, <2>2, SumOverNat DEF Sum
<1>3. Sum(<<>>) = 0
  BY SumOverEmpty DEF Sum
<1>4. ASSUME NEW size \in PacketSizes PROVE Sum(Append(s, size)) = Sum(s) + size
  BY <1>1, SumOfAppended DEF Sum
<1>5. ASSUME s # <<>> PROVE Sum(Tail(s)) = Sum(s) - Head(s) /\ Head(s) \in Nat
  <2>1. Sum(s) = Head(s) + Sum(Tail(s))
    BY <1>1, <1>5, SumOfTail DEF Sum
  <2>2. Head(s) \in Nat /\ Tail(s) \in Seq(PacketSizes)
    BY <1>1, <1>5
  <2>3. Sum(Tail(s)) \in Nat
    <3> DEFINE t == Tail(s)
    <3>1. t \in Seq(Nat)
      BY <1>0, <2>2
    <3> HIDE DEF t
    <3>2. IsFiniteSet(DOMAIN t) /\ \A i \in DOMAIN t : t[i] \in Nat
      BY <3>1, FS_Interval
    <3> QED
      BY <3>2, SumOverNat DEF Sum, t
  <2> QED
    BY <2>1, <2>2, <2>3
<1> QED
  BY <1>2, <1>3, <1>4, <1>5

LEMMA CurrentSizeNat ==
  ASSUME Typed, QueueFits
  PROVE  CurrentSize \in 0 .. MaxSize /\ MaxSize \in Nat
<1>1. nBytes \in Nat /\ Len(queue) \in Nat
  BY QueueBytes DEF Typed, QueueFits
<1> QED
  BY <1>1, RedAssumption DEF CurrentSize, QueueFits

\* The limit is tested before a packet is added.
LEMMA InsertFits ==
  ASSUME Typed, QueueFits, NEW size \in PacketSizes, attr' = attr,
         Insert(size) \/ UNCHANGED <<queue, nBytes>>
  PROVE  nBytes' = Sum(queue') /\ (CurrentSize <= MaxSize)'
<1>1. size \in Nat /\ queue \in Seq(PacketSizes) /\ MaxSize \in Nat
  BY RedAssumption DEF Typed
<1>2. CASE UNCHANGED <<queue, nBytes>>
  BY <1>2 DEF QueueFits, CurrentSize
<1>3. CASE Insert(size) /\ ~ UNCHANGED <<queue, nBytes>>
  <2>1. /\ queue' = Append(queue, size) /\ nBytes' = nBytes + size
        /\ ~ (CurrentSize + (IF attr.mode = "packets" THEN 1 ELSE size) > MaxSize)
    BY <1>3 DEF Insert
  <2>2. nBytes \in Nat /\ Sum(Append(queue, size)) = nBytes + size
    BY <1>1, QueueBytes DEF QueueFits
  <2>3. Len(queue') = Len(queue) + 1 /\ Len(queue) \in Nat
    BY <1>1, <2>1
  <2>4. (CurrentSize <= MaxSize)'
    BY <1>1, <2>1, <2>2, <2>3 DEF CurrentSize
  <2> QED
    BY <2>1, <2>2, <2>4
<1> QED
  BY <1>2, <1>3

\* The average is a mean of sizes that the queue may have.
LEMMA AverageStays ==
  ASSUME Typed, AverageFits, NEW n \in 0 .. MaxSize, NEW m \in Nat \ {0}
  PROVE  Average(n, m) \in 0 .. MaxSize * AvgOne
<1> DEFINE rest == One - QW
           a == Power(rest, m - 1)
           b == Power(One, m - 1)
           most == MaxSize * AvgOne
<1>1. /\ One \in Nat \ {0} /\ rest \in Nat /\ rest <= One /\ rest + QW = One /\ QW \in Nat
      /\ MaxSize \in Nat /\ AvgOne \in Nat /\ most \in Nat /\ n \in Nat /\ n <= MaxSize
      /\ qAvg \in Nat /\ qAvg <= most
  BY RedAssumption DEF AverageFits
<1>2. a \in Nat /\ b \in Nat \ {0} /\ a <= b
  BY <1>1, PowerNat, PowerPositive, PowerGrows
<1>3. Power(rest, m) = rest * a /\ Power(One, m) = One * b
  <2>1. m - 1 \in Nat /\ (m - 1) + 1 = m
    OBVIOUS
  <2> QED
    BY <1>1, <2>1, PowerNext
<1> DEFINE x == (qAvg * (rest * a)) \div (One * b)
           y == (QW * n * AvgOne) \div One
<1>4. Average(n, m) = x + y
  BY <1>3 DEF Average
<1> HIDE DEF a, b
<1>5. x \in Nat /\ One * x <= most * rest
  <2>1. qAvg * (rest * a) \in Nat /\ One * b \in Nat \ {0}
    BY <1>1, <1>2
  <2>2. x \in Nat /\ (One * b) * x <= qAvg * (rest * a)
    BY <2>1, QuotientProperties
  <2> HIDE DEF x, rest, most
  <2>3. qAvg * (rest * a) <= most * (rest * b)
    <3>1. rest * a <= rest * b /\ rest * a \in Nat /\ rest * b \in Nat
      BY <1>1, <1>2, ProductGrows
    <3>2. qAvg * (rest * a) <= qAvg * (rest * b)
      BY <1>1, <3>1, ProductGrows
    <3>3. (rest * b) * qAvg <= (rest * b) * most
      BY <1>1, <3>1, ProductGrows
    <3>4. (rest * b) * qAvg = qAvg * (rest * b) /\ (rest * b) * most = most * (rest * b)
      BY <1>1, <3>1
    <3>5. qAvg * (rest * b) \in Nat /\ most * (rest * b) \in Nat
      BY <1>1, <3>1, ProductNat
    <3> QED
      BY <2>1, <3>2, <3>3, <3>4, <3>5
  <2>4. (One * b) * x = b * (One * x) /\ most * (rest * b) = b * (most * rest)
    BY <1>1, <1>2, <2>2
  <2>5. One * x \in Nat /\ most * rest \in Nat
    BY <1>1, <2>2, ProductNat
  <2>6. b * (One * x) <= b * (most * rest)
    <3>1. b * (One * x) \in Nat /\ b * (most * rest) \in Nat
      BY <1>2, <2>5, ProductNat
    <3> QED
      BY <2>1, <2>2, <2>3, <2>4, <3>1
  <2> QED
    BY <1>2, <2>2, <2>5, <2>6, FactorCancels
<1>6. y \in Nat /\ One * y <= QW * most
  <2>1. QW * n * AvgOne \in Nat
    BY <1>1, ProductNat
  <2>2. y \in Nat /\ One * y <= QW * n * AvgOne
    BY <1>1, <2>1, QuotientProperties
  <2> HIDE DEF y
  <2>3. n * AvgOne <= most /\ n * AvgOne \in Nat
    <3>1. AvgOne * n <= AvgOne * MaxSize
      BY <1>1, ProductGrows
    <3> QED
      BY <1>1, <3>1
  <2> HIDE DEF most
  <2>4. QW * (n * AvgOne) <= QW * most /\ QW * (n * AvgOne) = QW * n * AvgOne
    BY <1>1, <2>3, ProductGrows
  <2>5. One * y \in Nat /\ QW * most \in Nat
    BY <1>1, <2>2, ProductNat
  <2> QED
    BY <2>1, <2>2, <2>4, <2>5
<1> HIDE DEF x, y, rest, most
<1>7. One * (x + y) <= One * most
  <2>1. One * (x + y) = One * x + One * y
    BY <1>1, <1>5, <1>6
  <2>2. most * rest + QW * most = One * most
    <3>1. most * rest + QW * most = (rest + QW) * most
      BY <1>1
    <3> QED
      BY <1>1, <3>1
  <2>3. One * x \in Nat /\ One * y \in Nat /\ most * rest \in Nat /\ QW * most \in Nat
    BY <1>1, <1>5, <1>6, ProductNat
  <2> QED
    BY <1>5, <1>6, <2>1, <2>2, <2>3
<1>8. x + y \in Nat /\ x + y <= most
  BY <1>1, <1>5, <1>6, <1>7, FactorCancels
<1> QED
  BY <1>1, <1>4, <1>8 DEF most

\* The same for what DoEnqueue makes of it, and the range of Feng's state.
LEMMA EstimatorFits ==
  ASSUME Typed, QueueFits, AverageFits, Labels,
         NEW m \in 1 .. Ptc * MaxIdle + 1, Estimator(CurrentSize, m), UNCHANGED params
  PROVE  AverageFits' /\ fengStatus' \in {"Above", "Between", "Below"} /\ sinceSet' \in Nat
<1>1. qAvg' = Average(CurrentSize, m)
  BY DEF Estimator
<1>2. AverageFits'
  <2>1. m \in Nat \ {0}
    BY RedAssumption
  <2> QED
    BY <1>1, <2>1, CurrentSizeNat, AverageStays DEF AverageFits
<1>3. fengStatus' \in {"Above", "Between", "Below"}
  <2>1. \A avg \in Int : FengRegion(avg) \in {"Above", "Between", "Below", ""}
    BY DEF FengRegion
  <2>2. qAvg' \in Int
    BY EstimatorTyped
  <2>3. \/ fengStatus' = fengStatus
        \/ fengStatus' = FengRegion(qAvg') /\ FengRegion(qAvg') # ""
    BY DEF Estimator, UpdateMaxP, UpdateMaxPFeng
  <2> QED
    BY <2>1, <2>2, <2>3 DEF Labels
<1>4. sinceSet' \in Nat
  <2>1. sinceSet' = 0 \/ sinceSet' = sinceSet
    BY DEF Estimator, UpdateMaxP, UpdateMaxPFeng
  <2> QED
    BY <2>1 DEF Labels
<1> QED
  BY <1>2, <1>3, <1>4

\* DropEarly never computes a probability above 1,
LEMMA PNewAtMostOne ==
  ASSUME Typed, NEW avg \in Int, NEW maxP \in Int
  PROVE  CalculatePNew(avg, maxP) <= One
<1>1. One \in Nat
  BY RedAssumption
<1>2. \A x \in Int : Least(x, One) <= One
  BY <1>1 DEF Least
<1>3. CalculatePNew(avg, maxP) \in Int
  BY PNewIsNumber
<1>4. \A x : CalculatePNew(avg, maxP) = Least(x, One) => CalculatePNew(avg, maxP) <= One
  BY <1>1, <1>3 DEF Least
<1>5. \/ \E x : CalculatePNew(avg, maxP) = Least(x, One)
      \/ CalculatePNew(avg, maxP) = One
  BY DEF CalculatePNew
<1> QED
  BY <1>1, <1>4, <1>5

\* and lets a packet through only while the count is below what forces a drop.
LEMMA SparedBelow ==
  ASSUME Typed, NEW p \in Int, p <= One, NEW n \in Counters, NEW size \in PacketSizes,
         ~ MustDrop(ModifyP(p, n, size))
  PROVE  (IF attr.mode = "packets" THEN n.packets + 1 ELSE Counted(n)) * p
           < (IF attr.wait THEN 2 ELSE 1) * One
<1> DEFINE c == Counted(n)
           first == IF attr.wait THEN 1 ELSE 0
           spread == Spread(p, c)
<1>1. One \in Nat \ {0} /\ c \in Nat /\ first \in {0, 1} /\ MeanPktSize \in Nat \ {0}
      /\ size \in Nat
  BY CountedMonotonic, RedAssumption DEF Counters
<1>2. (IF attr.wait THEN 2 ELSE 1) = first + 1
  BY <1>1
<1>3. spread = IF c * p < first * One THEN 0
               ELSE IF c * p >= (first + 1) * One THEN One
               ELSE (p * One) \div ((first + 1) * One - c * p)
  <2>1. c * p \in Int /\ first * One \in Int /\ (first + 1) * One \in Int
    BY <1>1
  <2> QED
    BY <1>1, <2>1 DEF Spread
<1> HIDE DEF spread, first, c
<1>4. ~ MustDrop(spread) \/ (attr.mode = "bytes" /\ spread < One)
  BY <1>1 DEF ModifyP, MustDrop, spread, c
<1>5. c * p \in Int /\ first * One \in Int /\ (first + 1) * One \in Int
      /\ (first + 1) * One = first * One + One
  BY <1>1
<1>6. c * p < (first + 1) * One
  <2> SUFFICES ASSUME ~ (c * p < (first + 1) * One) PROVE FALSE
    OBVIOUS
  <2>1. spread = One
    BY <1>1, <1>3, <1>5
  <2> QED
    BY <1>1, <1>4, <2>1 DEF MustDrop
<1>7. CASE attr.mode = "packets"
  <2>1. spread < One /\ c = n.packets
    <3>1. spread \in Int
      <4>1. c * p < first * One \/ (first + 1) * One - c * p \in Nat \ {0}
        BY <1>5, <1>6
      <4>2. p * One \in Int
        BY <1>1
      <4> QED
        BY <1>1, <1>3, <1>5, <1>6, <4>1, <4>2
    <3> QED
      BY <1>1, <1>4, <1>7, <3>1 DEF MustDrop, Counted, c
  <2>2. (c + 1) * p = c * p + p
    BY <1>1
  <2>3. ASSUME c * p < first * One PROVE (c + 1) * p < (first + 1) * One
    BY <1>1, <1>5, <2>2, <2>3
  <2>4. ASSUME ~ (c * p < first * One) PROVE (c + 1) * p < (first + 1) * One
    <3> DEFINE d == (first + 1) * One - c * p
    <3>1. d \in Nat \ {0} /\ p * One \in Int /\ spread = (p * One) \div d
      BY <1>1, <1>3, <1>5, <1>6, <2>4
    <3> HIDE DEF d
    <3>2. p * One < d * One
      <4>1. p * One < d * spread + d /\ spread \in Int
        BY <3>1, QuotientProperties
      <4>2. d * (spread + 1) <= d * One
        BY <1>1, <2>1, <3>1, <4>1
      <4>3. d * (spread + 1) = d * spread + d
        BY <3>1, <4>1
      <4>4. d * spread \in Int /\ d * One \in Int
        BY <1>1, <3>1, <4>1
      <4> QED
        BY <3>1, <4>1, <4>2, <4>3, <4>4
    <3>3. p < d
      <4> SUFFICES ASSUME d <= p PROVE FALSE
        BY <3>1
      <4>1. d \in Nat /\ p \in Nat
        BY <3>1
      <4>2. One * d <= One * p
        BY <1>1, <4>1, ProductGrows
      <4>3. One * d = d * One /\ One * p = p * One /\ d * One \in Int
        BY <1>1, <3>1
      <4> QED
        BY <3>1, <3>2, <4>2, <4>3
    <3> QED
      BY <1>5, <2>2, <3>3 DEF d
  <2>5. (c + 1) * p < (first + 1) * One
    BY <2>3, <2>4
  <2>6. (n.packets + 1) * p < (first + 1) * One
    BY <2>1, <2>5
  <2>7. (IF attr.mode = "packets" THEN n.packets + 1 ELSE Counted(n)) = n.packets + 1
    BY <1>7
  <2> QED
    BY <1>2, <2>6, <2>7
<1>8. CASE attr.mode # "packets"
  <2>1. (IF attr.mode = "packets" THEN n.packets + 1 ELSE Counted(n)) = c
    BY <1>8 DEF c
  <2> QED
    BY <1>2, <1>6, <2>1
<1> QED
  BY <1>7, <1>8

-----------------------------------------------------------------------------
\* What every outcome of DoEnqueue leaves.
LEMMA OutcomeFits ==
  ASSUME Typed, Typed', SparedCounted, UNCHANGED params,
         NEW size \in Sizes, NEW ect \in BOOLEAN, Outcome(size, ect)
  PROVE  /\ SparedCounted'
         /\ event' \in {"none", "below", "crossing", "unforced", "spared", "forced"}
<1>1. size \in PacketSizes /\ size \in Nat /\ One \in Nat \ {0}
  BY SizesArePositive, RedAssumption
<1>2. event' \in {"none", "below", "crossing", "unforced", "spared", "forced"}
  BY DEF Outcome, Below, Forced, Crossing, Unforced, Spared, Reckon
<1>3. CASE spared' = NoneSpared
  <2>1. /\ spared'.n.packets = 0 /\ spared'.n.bytes = 0 /\ spared'.leastP = One
        /\ spared' \in [n : Counters, leastP : Int]
    BY <1>1, <1>3 DEF NoneSpared, None, Counters
  <2> QED
    BY <1>1, <1>2, <2>1 DEF SparedCounted, Typed
<1>4. CASE Spared(size)
  <2> DEFINE p == CalculatePNew(qAvg', curMaxP')
  <2>1. /\ spared' = [n |-> Plus(spared.n, size), leastP |-> Least(spared.leastP, p)]
        /\ count' = count + 1 /\ countBytes' = countBytes + size
    BY <1>4 DEF Spared, Recount, Arrived, Plus
  <2>2. p \in Int
    BY PNewIsNumber DEF Typed
  <2> HIDE DEF p
  <2>3. /\ spared.n \in Counters /\ spared.leastP \in Int /\ spared.leastP <= One
        /\ spared.n.packets <= count /\ spared.n.bytes <= countBytes
        /\ count \in Nat /\ countBytes \in Nat
    BY DEF SparedCounted, Typed
  <2>4. /\ spared.n.packets \in Nat /\ spared.n.bytes \in Nat
        /\ Plus(spared.n, size).packets = spared.n.packets + 1
        /\ Plus(spared.n, size).bytes = spared.n.bytes + size
        /\ Plus(spared.n, size) \in Counters
    BY <1>1, <2>3 DEF Plus, Counters
  <2>5. Least(spared.leastP, p) \in Int /\ Least(spared.leastP, p) <= One
    BY <1>1, <2>2, <2>3 DEF Least
  <2>6. /\ spared' \in [n : Counters, leastP : Int]
        /\ spared'.n = Plus(spared.n, size) /\ spared'.leastP = Least(spared.leastP, p)
    BY <2>1, <2>4, <2>5
  <2>7. spared.n.packets + 1 <= count + 1 /\ spared.n.bytes + size <= countBytes + size
    BY <1>1, <2>3, <2>4
  <2> QED
    BY <1>2, <2>1, <2>4, <2>5, <2>6, <2>7 DEF SparedCounted
<1> QED
  BY <1>3, <1>4 DEF Outcome, Below, Forced, Crossing, Unforced

\* A packet that DropEarly lets through is one of not too many.
LEMMA OutcomeInTime ==
  ASSUME Typed, Typed', SparedCounted, SparedCounted', UNCHANGED params,
         NEW size \in Sizes, NEW ect \in BOOLEAN, Outcome(size, ect)
  PROVE  EarlyDropsInTime'
<1> DEFINE p == CalculatePNew(qAvg', curMaxP')
           most == (IF attr.wait THEN 2 ELSE 1) * One
           n == IF attr.mode = "packets" THEN spared'.n.packets + 1 ELSE Counted(spared'.n)
           c == IF attr.mode = "packets" THEN Arrived(size).packets + 1
                ELSE Counted(Arrived(size))
<1> SUFFICES ASSUME event' = "spared" PROVE n * spared'.leastP < most
  BY DEF EarlyDropsInTime, Counted, params
<1>1. size \in PacketSizes /\ size \in Nat /\ One \in Nat \ {0}
  BY SizesArePositive, RedAssumption
<1>2. Spared(size)
  BY DEF Outcome, Below, Forced, Crossing, Unforced, Reckon
<1>3. p \in Int /\ p <= One
  BY PNewIsNumber, PNewAtMostOne DEF Typed
<1>4. /\ spared'.n = Plus(spared.n, size) /\ spared'.leastP = Least(spared.leastP, p)
      /\ ~ MustDrop(ModifyP(p, Arrived(size), size))
  BY <1>2 DEF Spared
<1>5. Arrived(size) \in Counters
  BY <1>1, ArrivalCounted
<1> HIDE DEF p
<1>6. c * p < most
  BY <1>1, <1>3, <1>4, <1>5, SparedBelow
<1>7. n \in Nat /\ c \in Nat /\ n <= c
  <2>1. /\ spared.n.packets <= count /\ spared.n.bytes <= countBytes /\ spared.n \in Counters
        /\ spared'.n \in Counters /\ count \in Nat /\ countBytes \in Nat
    BY DEF SparedCounted, Typed
  <2>2. spared.n.packets \in Nat /\ spared.n.bytes \in Nat
    BY <2>1 DEF Counters
  <2>3. /\ spared'.n.packets = spared.n.packets + 1 /\ spared'.n.bytes = spared.n.bytes + size
        /\ Arrived(size).packets = count + 1 /\ Arrived(size).bytes = countBytes + size
    BY <1>4 DEF Plus, Arrived
  <2>4. spared'.n.packets <= Arrived(size).packets /\ spared'.n.bytes <= Arrived(size).bytes
    BY <1>1, <2>1, <2>2, <2>3
  <2>5. /\ Counted(spared'.n) \in Nat /\ Counted(Arrived(size)) \in Nat
        /\ Counted(spared'.n) <= Counted(Arrived(size))
    BY <1>5, <2>1, <2>4, CountedMonotonic
  <2>6. /\ spared'.n.packets + 1 \in Nat /\ Arrived(size).packets + 1 \in Nat
        /\ spared'.n.packets + 1 <= Arrived(size).packets + 1
    BY <1>1, <2>1, <2>2, <2>3
  <2> QED
    BY <2>5, <2>6
<1>8. spared'.leastP \in Int /\ spared'.leastP <= p
  <2>1. spared.leastP \in Int
    BY DEF SparedCounted
  <2> QED
    BY <1>3, <1>4, <2>1 DEF Least
<1>9. most \in Nat \ {0}
  BY <1>1
<1> DEFINE least == spared'.leastP
<1> HIDE DEF n, c, most, least
<1>10. n * least < most
  <2>0. least \in Int /\ least <= p
    BY <1>8 DEF least
  <2>1. CASE least <= 0
    <3>1. n * least <= 0 /\ n * least \in Int
      BY <1>7, <2>0, <2>1
    <3> QED
      BY <1>9, <3>1
  <2>2. CASE ~ (least <= 0)
    <3>1. least \in Nat /\ p \in Nat
      BY <1>3, <2>0, <2>2
    <3>2. n * least <= n * p /\ p * n <= p * c
      BY <1>7, <2>0, <3>1, ProductGrows
    <3>3. p * n = n * p /\ p * c = c * p
      BY <1>7, <3>1
    <3>4. n * least \in Nat /\ n * p \in Nat /\ c * p \in Nat
      BY <1>7, <3>1, ProductNat
    <3> QED
      BY <1>6, <1>9, <3>2, <3>3, <3>4
  <2> QED
    BY <2>1, <2>2
<1> QED
  BY <1>10 DEF least

-----------------------------------------------------------------------------
LEMMA TimeInitial == Init => TimeInv
<1> SUFFICES ASSUME Init PROVE TimeInv
  OBVIOUS
<1>1. Typed /\ MaxSize \in Nat /\ AvgOne \in Nat /\ One \in Nat
  BY InitTyped, RedAssumption
<1>2. QueueFits
  <2>1. Sum(<<>>) = 0
    BY SumOverEmpty DEF Sum
  <2> QED
    BY <1>1, <2>1 DEF Init, QueueFits, CurrentSize
<1>3. AverageFits
  BY <1>1 DEF Init, AverageFits
<1>4. SparedCounted
  <2>1. /\ spared.n.packets = 0 /\ spared.n.bytes = 0 /\ spared.leastP = One
        /\ spared \in [n : Counters, leastP : Int]
    BY <1>1 DEF Init, NoneSpared, None, Counters
  <2> QED
    BY <1>1, <2>1 DEF SparedCounted, Init
<1>5. Labels /\ QuietConfig /\ EarlyDropsInTime
  BY DEF Init, Labels, QuietConfig, EarlyDropsInTime
<1> QED
  BY <1>1, <1>2, <1>3, <1>4, <1>5 DEF TimeInv

LEMMA TimeKept == TimeInv /\ [Next]_vars => TimeInv'
<1> SUFFICES ASSUME TimeInv, [Next]_vars PROVE TimeInv'
  OBVIOUS
<1>t. Typed /\ QuietConfig /\ QueueFits /\ AverageFits /\ SparedCounted /\ Labels
      /\ EarlyDropsInTime
  BY DEF TimeInv
<1>1. ASSUME NEW t \in Thresholds, SetTh(t) PROVE TimeInv'
  <2>1. Typed'
    BY <1>t, <1>1, SetThTyped
  <2>2. /\ event' = "none" /\ spared' = NoneSpared
        /\ UNCHANGED <<phase, attr, queue, nBytes, qAvg, count, countBytes, idle, fengStatus,
                       sinceSet>>
    BY <1>1 DEF SetTh, state
  <2>3. QueueFits' /\ AverageFits' /\ Labels' /\ QuietConfig' /\ EarlyDropsInTime'
    BY <1>t, <2>2
       DEF QueueFits, CurrentSize, AverageFits, Labels, QuietConfig, EarlyDropsInTime
  <2>4. /\ spared'.n.packets = 0 /\ spared'.n.bytes = 0 /\ spared'.leastP = One
        /\ spared' \in [n : Counters, leastP : Int] /\ One \in Nat
    BY <2>2, RedAssumption DEF NoneSpared, None, Counters
  <2>5. SparedCounted'
    BY <2>1, <2>4 DEF SparedCounted, Typed
  <2> QED
    BY <2>1, <2>3, <2>5 DEF TimeInv
<1>2. ASSUME InitializeParams PROVE TimeInv'
  <2>1. Typed'
    BY <1>t, <1>2, InitializeParamsTyped
  <2>2. /\ phase = "config" /\ phase' = "ready" /\ event = "none"
        /\ UNCHANGED <<queue, nBytes, qAvg, count, countBytes, fengStatus, sinceSet, event, spared>>
    BY <1>t, <1>2 DEF InitializeParams, history, QuietConfig
  <2>3. attr'.mode = attr.mode
    BY <1>t, <1>2 DEF InitializeParams, Typed, Attributes
  <2>4. AverageFits' /\ Labels' /\ QuietConfig' /\ EarlyDropsInTime' /\ SparedCounted'
    BY <1>t, <2>2 DEF AverageFits, Labels, QuietConfig, EarlyDropsInTime, SparedCounted
  <2>5. QueueFits'
    BY <1>t, <2>2, <2>3 DEF QueueFits, CurrentSize
  <2> QED
    BY <2>1, <2>4, <2>5 DEF TimeInv
<1>3. ASSUME Tick PROVE TimeInv'
  <2>1. Typed'
    BY <1>t, <1>3, TickTyped
  <2>2. UNCHANGED <<params, queue, nBytes, qAvg, count, countBytes, idle, fengStatus, history>>
    BY <1>3 DEF Tick
  <2>3. AverageFits' /\ QuietConfig' /\ SparedCounted' /\ QueueFits' /\ EarlyDropsInTime'
    BY <1>t, <2>2
       DEF params, history, AverageFits, QuietConfig, EarlyDropsInTime, SparedCounted,
           QueueFits, CurrentSize, Counted
  <2>4. sinceSet' = sinceSet \/ sinceSet' = sinceSet + 1
    BY <1>3 DEF Tick
  <2>5. Labels'
    BY <1>t, <2>2, <2>4 DEF Labels, history
  <2> QED
    BY <2>1, <2>3, <2>5 DEF TimeInv
<1>4. ASSUME NEW size \in Sizes, NEW ect \in BOOLEAN, DoEnqueue(size, ect) PROVE TimeInv'
  <2>1. Typed' /\ Outcome(size, ect) /\ UNCHANGED params /\ phase = "ready"
    BY <1>t, <1>4, DoEnqueueTyped
  <2>2. /\ Estimator(CurrentSize, (IF idle = 1 THEN Ptc * idleFor ELSE 0) + 1)
        /\ idle' = 0
    BY <1>4 DEF DoEnqueue
  <2>3. AverageFits' /\ fengStatus' \in {"Above", "Between", "Below"} /\ sinceSet' \in Nat
    BY <1>t, <2>1, <2>2, SamplesInRange, EstimatorFits
  <2>4. size \in PacketSizes
    BY SizesArePositive
  <2>5. QueueFits'
    <3>1. Insert(size) \/ UNCHANGED <<queue, nBytes>>
      BY <2>1 DEF Outcome, Below, Forced, Crossing, Unforced, Spared
    <3>2. nBytes' = Sum(queue') /\ (CurrentSize <= MaxSize)'
      BY <1>t, <2>1, <2>4, <3>1, InsertFits DEF params
    <3>3. Sum(queue') = Sum(queue)'
      BY DEF Sum
    <3> QED
      BY <2>1, <2>2, <3>2, <3>3 DEF QueueFits, params
  <2>6. SparedCounted' /\ Labels'
    BY <1>t, <2>1, <2>3, OutcomeFits DEF Labels
  <2>7. EarlyDropsInTime'
    BY <1>t, <2>1, <2>6, OutcomeInTime
  <2>8. QuietConfig'
    BY <2>1 DEF QuietConfig, params
  <2> QED
    BY <2>1, <2>3, <2>5, <2>6, <2>7, <2>8 DEF TimeInv
<1>5. ASSUME DoDequeue PROVE TimeInv'
  <2>1. Typed'
    BY <1>t, <1>5, DoDequeueTyped
  <2>2. /\ UNCHANGED <<params, qAvg, count, countBytes, fengStatus, sinceSet, history>>
        /\ phase = "ready"
    BY <1>5 DEF DoDequeue
  <2>3. AverageFits' /\ QuietConfig' /\ SparedCounted' /\ Labels' /\ EarlyDropsInTime'
    BY <1>t, <2>2
       DEF params, history, AverageFits, QuietConfig, EarlyDropsInTime, SparedCounted, Labels,
           Counted
  <2>4. QueueFits'
    <3>1. CASE queue = <<>>
      BY <1>t, <1>5, <2>2, <3>1 DEF DoDequeue, params, QueueFits, CurrentSize
    <3>2. CASE queue # <<>>
      <4>1. /\ queue' = Tail(queue) /\ nBytes' = nBytes - Head(queue) /\ idle' = 0
            /\ attr' = attr /\ phase' = "ready"
        BY <1>5, <2>2, <3>2 DEF DoDequeue, params
      <4>2. Sum(Tail(queue)) = nBytes - Head(queue) /\ Head(queue) \in Nat /\ nBytes \in Nat
        BY <1>t, <3>2, QueueBytes DEF QueueFits, Typed
      <4>3. Len(queue') <= Len(queue) /\ Len(queue) \in Nat /\ Len(queue') \in Nat
            /\ MaxSize \in Nat
        <5>1. queue \in Seq(PacketSizes)
          BY <1>t DEF Typed
        <5>2. Len(Tail(queue)) = Len(queue) - 1 /\ Len(queue) \in Nat \ {0}
          BY <3>2, <5>1
        <5>3. MaxSize \in Nat
          BY RedAssumption
        <5>4. queue' = Tail(queue)
          BY <4>1
        <5> QED
          BY <5>2, <5>3, <5>4
      <4>4. (CurrentSize <= MaxSize)'
        BY <1>t, <4>1, <4>2, <4>3 DEF CurrentSize, QueueFits
      <4>5. (nBytes = Sum(queue))'
        BY <4>1, <4>2
      <4> QED
        BY <4>1, <4>4, <4>5 DEF QueueFits
    <3> QED
      BY <3>1, <3>2
  <2> QED
    BY <2>1, <2>3, <2>4 DEF TimeInv
<1>6. ASSUME UNCHANGED vars PROVE TimeInv'
  <2>1. Typed' /\ QuietConfig' /\ Labels' /\ AverageFits'
    BY <1>t, <1>6 DEF vars, params, state, history, Typed, QuietConfig, Labels, AverageFits
  <2>2. QueueFits' /\ SparedCounted' /\ EarlyDropsInTime'
    BY <1>t, <1>6 DEF vars, params, state, history, QueueFits, CurrentSize, SparedCounted,
                      EarlyDropsInTime, Counted
  <2> QED
    BY <2>1, <2>2 DEF TimeInv
<1> QED
  BY <1>1, <1>2, <1>3, <1>4, <1>5, <1>6 DEF Next

\* Every variable has its type whatever the thresholds, the sizes and the probabilities: the
\* queue keeps its limit, and the average computed after an idle time is one of sizes that
\* the queue may have (DoEnqueue, Estimator, DoDequeue).
THEOREM RedTypeCorrect == Spec => []TypeOK
<1>1. TimeInv => TypeOK
  <2> SUFFICES ASSUME TimeInv PROVE TypeOK
    OBVIOUS
  <2>1. Typed /\ QueueFits /\ AverageFits /\ SparedCounted /\ Labels
    BY DEF TimeInv
  <2>2. idleFor \in Nat
    BY <2>1, RedAssumption DEF Typed
  <2> QED
    BY <2>1, <2>2 DEF TypeOK, Typed, QueueFits, AverageFits, SparedCounted, Labels
<1> QED
  BY <1>1, TimeInitial, TimeKept, PTL DEF Spec

\* DropEarly lets no more than 2 / p packets through in a row in wait mode, and 1 / p
\* otherwise, while it sees probabilities of p or more (DropEarly, ModifyP).
THEOREM EarlyDropsComeInTime == Spec => []EarlyDropsInTime
<1>1. TimeInv => EarlyDropsInTime
  BY DEF TimeInv
<1> QED
  BY <1>1, TimeInitial, TimeKept, PTL DEF Spec
=============================================================================

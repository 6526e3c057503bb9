---------------------------- MODULE RedQueueDisc ----------------------------
(***************************************************************************)
(* The random early detection queue disc                                   *)
(* (traffic-control/model/red-queue-disc.cc) over its drop-tail queue: the *)
(* average queue size, the early and the forced drops, and the adaptation  *)
(* of the largest drop probability.                                        *)
(*                                                                         *)
(* The doubles are fixed-point numbers that are rounded down: averages in  *)
(* units of 1/AvgOne, probabilities in units of 1/One.  Of the random      *)
(* number u only 0 < u < 1 is known: whether u <= p is left open unless p  *)
(* decides it.  InitializeParams sets m_cautious to 0 and nothing else     *)
(* writes it, so that its other values are left out.                       *)
(***************************************************************************)
EXTENDS Sums, Sequences, SequencesExt

CONSTANTS
  Configs,        \* the attributes tried, members of Attributes
  Thresholds,     \* the pairs m_minTh, m_maxTh tried
  AutoThresholds, \* the pair computed from the target delay
  MaxSize,        \* the limit of the internal queue, in the unit of the mode
  PacketSizes,
  MeanPktSize,
  AvgOne, One,
  QW,             \* m_qW after InitializeParams, in units of 1/One
  Ptc,            \* m_ptc, in packets per tick of the clock
  InitialMaxP,    \* 1 / m_lInterm
  Top, Bottom, Alpha,
  Beta,           \* m_beta, in units of 1/One
  FengA, FengB,   \* m_a and m_b, whole as their defaults are
  Interval,       \* m_interval, in ticks
  MaxIdle,        \* bound: longer idle times have the same effect
  MaxCount,       \* bound on m_count and on the packets since the last early drop
  MaxMaxP         \* bound on m_curMaxP, which Feng's rule leaves unbounded

\* SetTh asserts that m_minTh is not above m_maxTh.
Pairs == {t \in Nat \X Nat : t[1] <= t[2]}

\* The attributes that select the algorithm.
Attributes ==
  [mode : {"packets", "bytes"}, wait : BOOLEAN, gentle : BOOLEAN, nonlinear : BOOLEAN,
   ared : BOOLEAN, adaptMaxP : BOOLEAN, feng : BOOLEAN, useEcn : BOOLEAN,
   useHardDrop : BOOLEAN, ns1Compat : BOOLEAN]

ASSUME RedAssumption ==
  /\ Configs \subseteq Attributes
  /\ Thresholds \cup {AutoThresholds} \subseteq Pairs /\ AutoThresholds[2] > 0
  /\ PacketSizes \subseteq Nat \ {0} /\ MeanPktSize \in PacketSizes
  /\ {MaxSize, MeanPktSize, AvgOne, One, Ptc, InitialMaxP, FengA, FengB}
       \subseteq Nat \ {0}
  /\ {QW, Top, Bottom, Alpha, Beta, Interval, MaxIdle, MaxCount, MaxMaxP} \subseteq Nat
  /\ QW <= One /\ InitialMaxP <= One /\ Beta <= One

VARIABLES
  phase,          \* "config" until InitializeParams, then "ready"
  attr,           \* the attributes
  th,             \* <<m_minTh, m_maxTh>>
  coeffs,         \* what m_vA, m_vB, m_vC and m_vD were computed from
  queue,          \* the sizes of the packets in the internal queue
  nBytes,         \* m_nBytes of the internal queue
  qAvg, count, countBytes, old, idle, curMaxP, fengStatus,
  idleFor,        \* the time since m_idleTime, while idle
  sinceSet        \* the time since m_lastSet

\* History: how the last arrival was treated; the packets and bytes that have arrived since
\* the last early drop or the last arrival below the threshold; and of the arrivals that
\* DropEarly has let through in a row, the number, the bytes and the least probability.
VARIABLES event, since, spared

params == <<phase, attr, th, coeffs>>
state == <<queue, nBytes, qAvg, count, countBytes, old, idle, curMaxP, fengStatus, idleFor, sinceSet>>
history == <<event, since, spared>>
vars == <<params, state, history>>

-----------------------------------------------------------------------------
Sum(sizes) == SumOver(sizes, DOMAIN sizes)

\* GetCurrentSize of the internal queue.
CurrentSize == IF attr.mode = "packets" THEN Len(queue) ELSE nBytes

None == [packets |-> 0, bytes |-> 0]
Plus(n, size) == [packets |-> n.packets + 1, bytes |-> n.bytes + size]
NoneSpared == [n |-> None, leastP |-> One]

Init ==
  /\ phase = "config"
  /\ attr \in Configs
  /\ th \in Thresholds
  /\ coeffs = [minTh |-> 0, maxTh |-> 1, maxP |-> 0]
  /\ queue = <<>> /\ nBytes = 0
  /\ qAvg = 0 /\ count = 0 /\ countBytes = 0 /\ old = 0 /\ idle = 0 /\ curMaxP = 0
  /\ fengStatus = "Above" /\ idleFor = 0 /\ sinceSet = 0
  /\ event = "none" /\ since = None /\ spared = NoneSpared

\* SetTh, before or after the initialization.
SetTh(t) ==
  /\ th' = t
  /\ event' = "none" /\ spared' = NoneSpared
  /\ UNCHANGED <<phase, attr, coeffs, state, since>>

\* InitializeParams.  ARED adapts m_curMaxP, and chooses the thresholds, as RED does if both
\* are 0.
InitializeParams ==
  /\ phase = "config"
  /\ phase' = "ready"
  /\ attr' = [attr EXCEPT !.adaptMaxP = @ \/ attr.ared]
  /\ th' = IF attr.ared \/ th = <<0, 0>> THEN AutoThresholds ELSE th
  /\ coeffs' = [minTh |-> th'[1], maxTh |-> th'[2], maxP |-> InitialMaxP]
  /\ curMaxP' = InitialMaxP
  /\ idle' = 1
  /\ UNCHANGED <<queue, nBytes, qAvg, count, countBytes, old, fengStatus, idleFor, sinceSet, history>>

\* Simulator::Now advances; only the times that the code measures are kept.
Tick ==
  /\ phase = "ready"
  /\ idleFor' = IF idle = 1 /\ idleFor < MaxIdle THEN idleFor + 1 ELSE idleFor
  /\ sinceSet' = IF attr.adaptMaxP /\ sinceSet <= Interval THEN sinceSet + 1 ELSE sinceSet
  /\ UNCHANGED <<params, queue, nBytes, qAvg, count, countBytes, old, idle, curMaxP, fengStatus,
                 history>>

-----------------------------------------------------------------------------
\* Mutant: the bounds of m_curMaxP are not looked at.
AdaptsUnbounded(avg) ==
  LET part == (4 * (th[2] - th[1]) * AvgOne) \div 10
      decreased == avg < th[1] * AvgOne + part
      increased == ~ decreased /\ avg > th[2] * AvgOne - part
      step == IF Alpha > curMaxP \div 4 THEN curMaxP \div 4 ELSE Alpha
  IN  /\ curMaxP' = IF decreased THEN (curMaxP * Beta) \div One
                    ELSE IF increased THEN curMaxP + step ELSE curMaxP
      /\ sinceSet' = IF decreased \/ increased THEN 0 ELSE sinceSet
      /\ UNCHANGED fengStatus

\* The AIMD rule keeps the average near (m_minTh + m_maxTh) / 2.
UpdateMaxP(avg) ==
  LET part == (4 * (th[2] - th[1]) * AvgOne) \div 10
      decreased == avg < th[1] * AvgOne + part /\ curMaxP > Bottom
      increased == ~ decreased /\ avg > th[2] * AvgOne - part /\ curMaxP < Top
      step == IF Alpha > curMaxP \div 4 THEN curMaxP \div 4 ELSE Alpha
  IN  /\ curMaxP' = IF decreased THEN (curMaxP * Beta) \div One
                    ELSE IF increased THEN curMaxP + step ELSE curMaxP
      /\ sinceSet' = IF decreased \/ increased THEN 0 ELSE sinceSet
      /\ UNCHANGED fengStatus

\* Where the average is to be seen by Feng's rule, "" on a threshold.
FengRegion(avg) ==
  CASE th[1] * AvgOne < avg /\ avg < th[2] * AvgOne -> "Between"
    [] avg < th[1] * AvgOne -> "Below"
    [] avg > th[2] * AvgOne -> "Above"
    [] OTHER -> ""

\* Feng's rule changes m_curMaxP whenever the average leaves the range.
UpdateMaxPFeng(avg) ==
  LET region == FengRegion(avg)
      left == region # fengStatus
  IN  /\ fengStatus' = IF region = "" THEN fengStatus ELSE region
      /\ curMaxP' = CASE region = "Below" /\ left -> curMaxP \div FengA
                      [] region = "Above" /\ left -> curMaxP * FengB
                      [] OTHER -> curMaxP
      /\ curMaxP' \in 1 .. MaxMaxP
      /\ UNCHANGED sinceSet

\* The average after m samples, all but the last of them of an empty queue.
Average(nQueued, m) ==
  (qAvg * Power(One - QW, m)) \div Power(One, m) + (QW * nQueued * AvgOne) \div One

\* The new average, and the adaptation of m_curMaxP to it.
Estimator(nQueued, m) ==
  /\ qAvg' = Average(nQueued, m)
  /\ IF attr.adaptMaxP /\ sinceSet > Interval THEN UpdateMaxP(qAvg')
     ELSE IF attr.feng THEN UpdateMaxPFeng(qAvg')
     ELSE UNCHANGED <<curMaxP, fengStatus, sinceSet>>

-----------------------------------------------------------------------------
\* m_vA * avg + m_vB
Linear(avg) ==
  LET diff == IF coeffs.maxTh = coeffs.minTh THEN 1 ELSE coeffs.maxTh - coeffs.minTh
  IN  ((avg - coeffs.minTh * AvgOne) * One) \div (diff * AvgOne)

\* m_vC * avg + m_vD, computed from m_curMaxP as InitializeParams has set it
Gentle(avg) ==
  ((One - coeffs.maxP) * avg) \div (coeffs.maxTh * AvgOne) + 2 * coeffs.maxP - One

Least(a, b) == IF a <= b THEN a ELSE b

\* The probability of a drop before the packets since the last one are counted in.
CalculatePNew(avg, maxP) ==
  LET x == Linear(avg)
      curved == IF attr.nonlinear THEN (3 * x * x) \div (2 * One) ELSE x
  IN  CASE avg >= th[2] * AvgOne /\ attr.gentle -> Least(Gentle(avg), One)
        [] avg >= th[2] * AvgOne /\ ~ attr.gentle -> One
        [] OTHER -> Least((curved * maxP) \div One, One)

\* The number of packets that ModifyP counts n as, the bytes in packets of the mean size.
Counted(n) == IF attr.mode = "packets" THEN n.packets ELSE n.bytes \div MeanPktSize

\* The probability that spreads the drops evenly, p for the c-th packet since the last.
Spread(p, c) ==
  LET first == IF attr.wait THEN 1 ELSE 0   \* none before c * p reaches it
  IN  CASE c * p < first * One -> 0
        [] c * p >= (first + 1) * One -> One
        [] OTHER -> (p * One) \div ((first + 1) * One - c * p)

ModifyP(p, n, size) ==
  LET spread == Spread(p, Counted(n))
  IN  IF attr.mode = "bytes" /\ spread < One
      THEN Least((spread * size) \div MeanPktSize, One)
      ELSE spread

\* What DropEarly may answer, the comparison of a random number with probability p.
MayDrop(p) == p > 0
MustDrop(p) == p >= One

-----------------------------------------------------------------------------
\* Mutant: the queue is full when it is larger than its limit.
InsertsOneMore(size) ==
  IF CurrentSize > MaxSize
  THEN UNCHANGED <<queue, nBytes>>
  ELSE queue' = Append(queue, size) /\ nBytes' = nBytes + size

\* Enqueue of the internal queue, which drops the packet when it is full.
Insert(size) ==
  LET added == IF attr.mode = "packets" THEN 1 ELSE size
  IN  IF CurrentSize + added > MaxSize
      THEN UNCHANGED <<queue, nBytes>>
      ELSE queue' = Append(queue, size) /\ nBytes' = nBytes + size

\* Mark: the packet is marked instead of dropped if it is ECN-capable.
Mark(ect) == ect

\* The packets counted when a packet of this size has arrived.
Arrived(size) == Plus([packets |-> count, bytes |-> countBytes], size)

Recount(n) == n.packets <= MaxCount /\ count' = n.packets /\ countBytes' = n.bytes

\* The arrivals are counted from the last early drop or arrival below the threshold.
Reckon(size, outcome) ==
  /\ event' = outcome
  /\ since' = Plus(IF event \in {"below", "unforced"} THEN None ELSE since, size)
  /\ since'.packets <= MaxCount

\* The average is below the threshold, or at most one packet is queued.  What is counted
\* here is not read: at the bound it stays as it is.
Below(size) ==
  /\ old' = 0
  /\ IF count < MaxCount THEN Recount(Arrived(size)) ELSE UNCHANGED <<count, countBytes>>
  /\ Insert(size)
  /\ Reckon(size, "below") /\ spared' = NoneSpared

\* The first packet since the average has crossed the threshold is never dropped.
Crossing(size) ==
  /\ old = 0
  /\ old' = 1
  /\ Recount(Plus(None, size))
  /\ Insert(size)
  /\ Reckon(size, "crossing") /\ spared' = NoneSpared

\* Mutant: the packets are counted on after an early drop.
CountsOn(size, ect) ==
  LET p == ModifyP(CalculatePNew(qAvg', curMaxP'), Arrived(size), size)
  IN  /\ old = 1
      /\ MayDrop(p)
      /\ Recount(Arrived(size))
      /\ IF attr.useEcn /\ Mark(ect) THEN Insert(size) ELSE UNCHANGED <<queue, nBytes>>
      /\ UNCHANGED old
      /\ Reckon(size, "unforced") /\ spared' = NoneSpared

\* DropEarly drops, or marks, the packet.
Unforced(size, ect) ==
  LET p == ModifyP(CalculatePNew(qAvg', curMaxP'), Arrived(size), size)
  IN  /\ old = 1
      /\ MayDrop(p)
      /\ Recount(None)
      /\ IF attr.useEcn /\ Mark(ect) THEN Insert(size) ELSE UNCHANGED <<queue, nBytes>>
      /\ UNCHANGED old
      /\ Reckon(size, "unforced") /\ spared' = NoneSpared

\* Mutant: the packets are counted since the last random number, as red-queue-disc.h says.
CountsSinceNumber(size) ==
  LET prob1 == CalculatePNew(qAvg', curMaxP')
      p == ModifyP(prob1, Arrived(size), size)
  IN  /\ old = 1
      /\ ~ MustDrop(p)
      /\ Recount(None)
      /\ Insert(size)
      /\ UNCHANGED old
      /\ Reckon(size, "spared")
      /\ spared' = [n |-> Plus(spared.n, size), leastP |-> Least(spared.leastP, prob1)]

\* DropEarly lets the packet through.
Spared(size) ==
  LET prob1 == CalculatePNew(qAvg', curMaxP')
      p == ModifyP(prob1, Arrived(size), size)
  IN  /\ old = 1
      /\ ~ MustDrop(p)
      /\ Recount(Arrived(size))
      /\ Insert(size)
      /\ UNCHANGED old
      /\ Reckon(size, "spared")
      /\ spared' = [n |-> Plus(spared.n, size), leastP |-> Least(spared.leastP, prob1)]

\* The average is far above the thresholds.
Forced(size, ect) ==
  LET marked == ~ attr.useHardDrop /\ attr.useEcn /\ Mark(ect)
  IN  /\ IF marked THEN Insert(size) ELSE UNCHANGED <<queue, nBytes>>
      /\ Recount(IF ~ marked /\ attr.ns1Compat THEN None ELSE Arrived(size))
      /\ UNCHANGED old
      /\ Reckon(size, "forced") /\ spared' = NoneSpared

\* DoEnqueue of a packet, ECN-capable or not.
DoEnqueue(size, ect) ==
  LET nQueued == CurrentSize
      above == qAvg' >= th[1] * AvgOne /\ nQueued > 1
      far == qAvg' >= (IF attr.gentle THEN 2 ELSE 1) * th[2] * AvgOne
  IN  /\ phase = "ready"
      /\ idle' = 0 /\ idleFor' = 0
      /\ Estimator(nQueued, (IF idle = 1 THEN Ptc * idleFor ELSE 0) + 1)
      /\ \/ ~ above /\ Below(size)
         \/ above /\ far /\ Forced(size, ect)
         \/ above /\ ~ far /\ Crossing(size)
         \/ above /\ ~ far /\ Unforced(size, ect)
         \/ above /\ ~ far /\ Spared(size)
      /\ UNCHANGED params

\* DoDequeue: the disc is idle from the first call on that finds the queue empty.
DoDequeue ==
  /\ phase = "ready"
  /\ IF queue = <<>>
     THEN idle' = 1 /\ UNCHANGED <<queue, nBytes>>
     ELSE idle' = 0 /\ queue' = Tail(queue) /\ nBytes' = nBytes - Head(queue)
  /\ idleFor' = 0
  /\ UNCHANGED <<params, qAvg, count, countBytes, old, curMaxP, fengStatus, sinceSet, history>>

\* The sizes of packets matter in byte mode only.
Sizes == IF attr.mode = "packets" THEN {MeanPktSize} ELSE PacketSizes

Next ==
  \/ \E t \in Thresholds : SetTh(t)
  \/ InitializeParams
  \/ Tick
  \/ \E size \in Sizes, ect \in BOOLEAN : DoEnqueue(size, ect)
  \/ DoDequeue

Spec == Init /\ [][Next]_vars

-----------------------------------------------------------------------------
Counters == [packets : Nat, bytes : Nat]

\* Every variable has its type; the queue fits its limit, the average is one of sizes that
\* the queue may have, and the disc is idle only while the queue is empty.  The probability
\* is below zero where SetTh has moved the thresholds below those of InitializeParams.
TypeOK ==
  /\ phase \in {"config", "ready"} /\ attr \in Attributes
  /\ th \in Pairs
  /\ coeffs \in [minTh : Nat, maxTh : Nat \ {0}, maxP : 0 .. One]
  /\ queue \in Seq(PacketSizes) /\ nBytes = Sum(queue) /\ CurrentSize <= MaxSize
  /\ qAvg \in 0 .. MaxSize * AvgOne
  /\ {count, countBytes, curMaxP, idleFor, sinceSet} \subseteq Nat
  /\ old \in {0, 1} /\ idle \in {0, 1} /\ (idle = 1 => queue = <<>>)
  /\ fengStatus \in {"Above", "Between", "Below"}
  /\ event \in {"none", "below", "crossing", "unforced", "spared", "forced"}
  /\ since \in Counters
  /\ spared \in [n : Counters, leastP : Int] /\ spared.leastP <= One

\* In wait mode, an early drop or mark comes no sooner than 1 / p packets after the last one
\* and after the last arrival that found the average below the threshold, where p is the
\* probability of DropEarly: however the average, m_curMaxP, forced drops and idle periods
\* come between, m_count and m_countBytes never count too much.
EarlyDropsSpaced ==
  event = "unforced" /\ attr.wait =>
    Counted(since) * CalculatePNew(qAvg, curMaxP) >= One

\* Nor does it come too late: while DropEarly sees probabilities of p or more, it lets no
\* more than 2 / p packets in a row through in wait mode, and 1 / p otherwise.
EarlyDropsInTime ==
  LET n == IF attr.mode = "packets" THEN spared.n.packets + 1 ELSE Counted(spared.n)
  IN  event = "spared" => n * spared.leastP < (IF attr.wait THEN 2 ELSE 1) * One

\* The AIMD rule leaves its range by less than one step, at either end and from whichever
\* side it comes.
MaxPWithinAStep ==
  phase = "ready" /\ attr.adaptMaxP =>
    (Bottom * Beta) \div One <= curMaxP /\ curMaxP < Top + Alpha

\* "p ranges from m_curMaxP to 1 as the average queue size ranges from m_maxTh to twice
\* m_maxTh" (CalculatePNew).
GentleFromMaxP ==
  phase = "ready" /\ attr.gentle /\ qAvg >= th[2] * AvgOne =>
    CalculatePNew(qAvg, curMaxP) >= curMaxP
=============================================================================

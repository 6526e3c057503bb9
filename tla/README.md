# TLA+ models of the ns3-bmv2 traffic control

ns3-bmv2 extends the traffic-control module of the ns-3 simulator with queueing
disciplines that a P4 program (run by the bmv2 behavioural model) controls, and with
priority queues for programmable scheduling (PIFO).  This directory models the code
under `src/` in TLA+, checks it with TLC on small instances and proves its central
properties with TLAPS.

## The system

All of it runs in the single thread of the simulator: there are no data races, and a
"step" is a call that runs to its end.  What makes it hard is re-entrancy (a device
may call back into the traffic control from within `Send`), the order in which the
device stops and wakes its queues, a cached packet (`m_requeued`) with two different
meanings, and counters that callbacks keep.

| Component | State | Operations | Correct when |
| --- | --- | --- | --- |
| `QueueDisc` (`traffic-control/model/queue-disc.*`) | `m_nPackets`, `m_nBytes`, `m_stats`, `m_requeued`, `m_peeked`, `m_running`, `m_quota`, internal queues, classes | `Enqueue`, `Dequeue`, `Peek`, `Run`, `Mark`, `SetMaxSize`, ... | no packet is lost or reordered, statistics exact, no lost wake-up |
| `TrafficControlLayer` (`traffic-control-layer.*`) | root disc, wake list and device queues per device, handlers | `SetupDevice`, `SetRootQueueDiscOnDevice`, `DeleteRoot...`, `DoInitialize`, `Send`, `Receive` | a packet goes to the disc the wake-ups of its queue run |
| `Queue`, `PrioQueue` (`network/utils/*queue.h`) | packets, counters | `DoEnqueue`, `DoDequeue`, `DoRemove`, `Flush`, `DoPeek` | counters match the contents, least priority value first |
| `PifoQueueDisc` | one `PrioQueue` | `DoEnqueue`, `DoDequeue`, `DoPeek`, `CheckConfig` | lowest rank leaves first, a negative one after all others |
| `PfifoFastQueueDisc` (`pifo-tree-queue-disc.*`, not built) | three internal queues (bands) | `DoEnqueue`, `DoDequeue`, `DoPeek`, `CheckConfig` | lowest band leaves first, the limit of the disc decides, every layer counts alike |
| `P4QueueDisc` | child queue disc, averages, timers, counters, the pipeline | `DoEnqueue`, `DoDequeue`, the four event triggers, `Estimator` | the pipeline sees every event once, with the queue state of that moment |
| `RedQueueDisc` | `m_qAvg`, `m_count`, `m_old`, `m_idle`, `m_curMaxP`, ... | `SetTh`, `InitializeParams`, `DoEnqueue`, `DoDequeue`, `DropEarly`, `Estimator`, `UpdateMaxP` | early drops neither too close nor too far apart, the probability in its range |
| `SimpleP4Pipe` (`p4-pipeline/model`) | metadata, packet register 0, registers and counters of the program | `process_pipeline`, the primitives | a run's verdict is its own, the program knows the length of the packet |
| P4 programs (`traffic-control/examples/p4-src`) | their registers | one ingress invocation per event | the register follows the queue |

## Components in detail

**`QueueDisc`.** `Enqueue` counts a packet as received and hands it to `DoEnqueue` of
the subclass, whose internal queues and children report through trace callbacks
(`PacketEnqueued`, `PacketDequeued`, the two drop functors).  `Dequeue` returns the packet
in `m_requeued` before anything else; `Peek` fills `m_requeued` (with `m_peeked`
suspending the accounting), and so does `Requeue`, which the transmission path calls.
`Run` is `RunBegin`, a loop of `Restart` = `DequeuePacket` + `Transmit` until the quota is
used up or `Restart` returns false, and `RunEnd`; `m_running` cuts off nested runs.

**`TrafficControlLayer`.** For each device: the root queue disc, the list of queue discs
that `Send` uses, one for each transmission queue, and the select-queue callback.  The
device queues hold the wake callbacks.  The list and the callbacks are filled by
`DoInitialize` only; a deletion clears the list and keeps the callbacks.

**`PrioQueue`.** `std::priority_queue` over a `std::deque`, ordered by `ItemComp`, with the
counters of `QueueBase` beside it.

**`PifoQueueDisc`.** The test of the limit, the rank computed by a packet filter, the
conversion of the rank to a priority, and one `PrioQueue`.

**`P4QueueDisc`.** Each arrival runs the P4 program with the queue state as metadata, and
the program may drop, mark or change the packet.  The child's traces run it again for
drop, enqueue and dequeue events, and a timer for timer events.  It keeps the average
queue size (an EWMA with samples for the packets that an idle period missed), the
latency and the dequeue rate.

**`SimpleP4Pipe`.** `process_pipeline` turns an ns-3 packet into a bmv2 packet, resets and
fills the metadata, lets parser, tables and deparser run, and reads drop, mark and the
trace variables back.  The primitives of `primitives.cc` are what P4 actions are made of.

**P4 programs.** One ingress control each, run once for each event; the registers are the
only state.

**`RedQueueDisc`.** Every arrival moves the average, and the adaptation of the largest
probability if there is one; below `m_minTh` the packet is enqueued, far above `m_maxTh` it
is dropped or marked, and in between `DropEarly` decides, with a probability that grows
with the packets counted since the last early drop.

What is hard here, in the order in which a test would miss it: the two meanings of
`m_requeued`; nested runs and wake-ups in every place where the device may call back;
packets that a stopped queue holds while others are sent, while the timer runs or while
the root is deleted; three layers of discs and queues that count the same packets; the
unsigned counters and conversions; a P4 register that must be moved by every event once; a
counter that RED resets in four places.  `PROJECT.json` lists each hazard at its line, with the
properties that cover it.  There is no persistence and there are no threads: crash
recovery and data races do not arise.

## Modules

| Module | Models |
| --- | --- |
| `PacketRelay` | what a queue disc promises its callers, abstractly |
| `QueueDisc` | `queue-disc.cc`: `Enqueue`, `Dequeue`, `Peek`, `Run` and everything they call, against a device that stops and wakes its queues |
| `QueueDiscProofs` | the theorems about it |
| `TrafficControlLayer` | `traffic-control-layer.cc`: the configuration of a device and `Send` |
| `TrafficControlLayerProofs` | the theorems about it |
| `Pifo` | a push-in first-out queue, abstractly |
| `PrioQueue` | `prio-queue.h`, on the heap algorithms of libstdc++ |
| `PifoQueueDisc` | `pifo-queue-disc.cc`, extends `PrioQueue` |
| `PifoQueueDiscProofs` | the theorems about both |
| `Queue` | `queue.h`: an internal queue and the traces it fires, as operators |
| `DiscStats` | `queue-disc.cc`: the accounting of a disc as the sink of the traces of its queues and of its child, as operators |
| `QueueDiscTree` | a root (a `P4QueueDisc` or a plain one) over a `PfifoFastQueueDisc` (`pifo-tree-queue-disc.cc`) over three `Queue`s |
| `QueueDiscTreeProofs` | the theorems about it |
| `RedQueueDisc` | `red-queue-disc.cc`, in fixed point |
| `RedQueueDiscProofs` | the theorems about it |
| `P4Pipe` | `p4-pipeline.cc` and `primitives.cc`: a run of the pipeline, primitive by primitive |
| `P4PipeProofs` | the theorems about it |
| `P4QueueDisc` | `p4-queue-disc.cc`, with the P4 pipeline as the operator parameter `Pipeline` |
| `TrackQsize`, `TokenBucket`, `Microburst`, `Pie`, `Red` | the P4 programs (`Red`: both red programs and the drop table of `gen_commands.py`), as operators from registers and metadata to outcomes |
| `P4Programs` | `P4QueueDisc` composed with these programs, one of which is loaded |
| `P4QueueDiscProofs` | the theorems about `P4QueueDisc` with any program, and with each of these |
| `Sums` | sums over finite sets, iteration and powers, written without recursive operators |
| `DataProofs` | the lemmas about them, about quotients, and about sequences used as queues |
| `MCQueueDisc`, `MCTrafficControlLayer`, `MCPrioQueue`, `MCPifoQueueDisc`, `MCQueueDiscTree`, `MCRedQueueDisc`, `MCP4Pipe`, `MCP4Programs` | instances for TLC |

Operators that a comment calls *Mutant* are not part of the models.  Each is a plausible
mistake in one definition, which `PROJECT.json` pairs with the property that it breaks.

No module declares a recursive operator: sifting in the heap (`PrioQueue`) and the powers of
the averages are folds or iterations over finite sets, and sums are sums over sets, so that
everything can be proved about.

### QueueDisc

`internal` stands for all the packets in internal queues and children; the subclass is
free to extract any of them and to drop any of them first, but returns none only when
nothing is left, as every discipline of the repository does (`Extraction`).  A call is one
step, except `Run`: `Send` enqueues and begins a run, `RestartBlocked`, `RestartRequeued`
and `RestartDequeue` are the three outcomes of `DequeuePacket`, and `SendReturns` is what
`Transmit` and `Run` do after `NetDevice::Send`.  While the device has the packet
(`pc = "sending"`) it may stop or wake any queue, send another packet, or have the disc
peeked or dequeued: all re-entrant calls interleave there.  Between two steps of a run
(`pc = "restart"`) nothing is called back, and nothing else is enabled.  The counters are
natural numbers; only the quota, which `Run` decrements before it tests, is taken modulo
`UintMod`.

### TrafficControlLayer

One device, because the entries of `m_netDevices` do not interact.  A queue disc is
reduced to its backlog in FIFO order, with a packet in `m_requeued` as its head.  A run is
again a sequence of steps (`RunPass`, `RunEnd`), but nothing interrupts it: module
`QueueDisc` is about that.  An index past the end of `m_queueDiscsToWake` is undefined in
C++; `Send` is not enabled there, and `SendHasDisc` says in which states this happens: after
a root was installed or replaced once the layer was initialized, which the history variable
`installedLate` records.

### PrioQueue and PifoQueueDisc

`items` is the array of the heap; `SiftUp` and `SiftDown` are `std::__push_heap` and
`std::__adjust_heap`, because `ItemComp` is `>=`, for which the standard promises
nothing.  `PifoQueueDisc` scales `int32_t` and `uint32_t` down to three bits (`Modulus`);
ranks have a sign, and `SetPriority` converts them to priorities, which have none.

### Queue, DiscStats and QueueDiscTree

A queue and a disc are records; an operation maps a record to the record it leaves and the
sequence of traces it fires, and `Sinks` feeds these to the layer above, as the callbacks
that `AddInternalQueue`, `AddQueueDiscClass` and the constructor connect do.  One step of
`QueueDiscTree` is one call from outside: `Enqueue`, `Dequeue`, `Peek` and `Requeue` of the
root, `SetMaxSize` of the root or of the child before or after the initialization, and
`Remove` or `Flush` of an internal queue by whoever holds it, which every layer above
learns from the traces only.  Drops are kept by reason, as in `Stats`.  Two history variables
tell of the limit of the child since its initialization: whether it was raised, and the
highest value it had (`highest`).

### RedQueueDisc

Averages and probabilities are fixed-point numbers rounded down; whether a random number is
below a probability strictly between 0 and 1 is left open.  Thresholds that are both 0, or
adaptive RED, let `InitializeParams` compute them (`AutoThresholds`).  `attr` holds the attributes
that select the algorithm, `coeffs` what `m_vA` to `m_vD` were computed from, `idleFor` and
`sinceSet` the times since `m_idleTime` and `m_lastSet`.  `Estimator` is one action with the
arrival that calls it, and the arrival is one of `Below`, `Forced`, `Crossing`, `Unforced`
and `Spared`.  Three history variables (`event`, `since`, `spared`) count the arrivals since
the last early drop, and those let through since, independently of `m_count`.
`m_cautious` has no value but 0, and its other branches cannot be reached.

### P4Pipe

A packet is its set of valid headers and the size of the rest; a program is any sequence of
primitives.  The arithmetic wraps at the width of the field.  What bmv2 does beside (parser,
deparser, tables, the exit flag) is modelled as this code uses it.

### P4QueueDisc and P4Programs

The root of a device with one transmission queue, with a FIFO child.  Simulated time is
discrete, and `Tick` is not enabled while an event of this instant is due or a run is in
progress.  A `double` is a multiple of `1 / Scale`.  The fields `drop_*`, `enq_*` and
`deq_*` of the metadata are one record with a `trigger`, because a run has one trigger.
Marking, `l3_proto` and the P4 parser are left out: nothing here depends on them.
`registers` holds the name of the loaded program and its registers; `ProgramPipeline` is
what the pipeline of that program does, and each initial state has loaded one of them.

## Runs

| Run | Shows |
| --- | --- |
| `queue_disc_safety` | whoever peeks or dequeues, between runs or from within `NetDevice::Send`: no packet lost, duplicated or reordered; the statistics exact; no wake-up lost, unless the quota was used up; `QueueDisc` implements `PacketRelay` |
| `queue_disc_root` | a root that only `Run` dequeues from: every sent packet got its header once, and every packet leaves |
| `layer` | roots of both wake modes, installed and deleted at any time: `Send` finds a queue disc for each transmission queue, or for none after a late installation; it agrees with the wake callbacks; no backlog without a wake-up; no reordering within a transmission queue that has a child; every queued packet is sent, deletion of the root included |
| `prio_queue` | the heap stays a heap, the queue is a PIFO, its counters and its limit are right |
| `pifo_ranks` | lowest rank first, with negative ranks after all others; exactly the enqueued packets are ranked; order kept through `m_requeued` |
| `queue_tree` | the root, its child and three queues count every packet and every drop by reason alike, while the root peeks and queues are emptied; the limit of the child and not the capacity of its queues decides, except for the third queue and after the limit was raised; whoever leaves is of the most urgent band that is not empty, and all packets are of one band below a P4 program |
| `red` | whatever happens between (forced drops, idle periods, adaptation, new thresholds), early drops come neither sooner nor later than the probability asks for, and the adapted probability leaves its range by less than a step, for thresholds that are given or computed |
| `p4_pipe` | packet register 0 is the length of the packet unless a primitive passes it over; the verdict on a packet is that of its own run |
| `p4_programs` | whatever the program drops: byte counts, average, idle period, dequeue rate and timer; `track-qsize.p4`: the register is the size of the queue in every state, which stays near the threshold; `token-bucket.p4`: what is admitted conforms to rate and size in every window of time; `microburst.p4`: the counters of the flows and the number of culprits follow the queue; `pie.p4`: the probability moves with the latency, by one period for each call; both `red.p4`: the average moves towards the size of the queue and decides the drops |

Runs that expect a violation are the findings:

| Run | The code | against |
| --- | --- | --- |
| `peek_header` | `DequeuePacket` sends a peeked packet without `AddHeader` | `queue-item.h:218` |
| `p4_idle` | `Transmit` ends the run before `DoDequeue` can see the empty queue, so that it is not idle | `p4-queue-disc.cc:265`, `p4-queue-disc.h:146` |
| `red_gentle` | `m_vC` and `m_vD` are computed once, and `UpdateMaxP` moves `m_curMaxP` away from them: above `m_maxTh` the probability of adaptive RED starts below `m_curMaxP` | `red-queue-disc.cc:728` |

Smaller observations, which no run is spent on.  About the queue discs:

- `GetNPackets` leaves out a packet in `m_requeued` that was not peeked, although
  `queue-disc.h:305` speaks of the packets "stored by the queue disc".
- `GetStats` (`queue-disc.cc:438`) subtracts a peeked packet that `nDequeued` does not count
  yet; this is why `LayersAgree` claims the number of sent packets only while none is peeked.
- A program that changes the size of a packet breaks the assertion on the bytes at
  `queue-disc.cc:924`, because the packet is received with one size and enqueued with another.
- A quota of 0, which the attribute accepts, is no bound: `Run` decrements before it tests.
  `QuotaRespected` assumes a positive quota.
- With a quota that a run uses up, `Run` leaves the rest and schedules nothing (the `\todo` at
  `queue-disc.cc:1001`): the one exception of `NoStrandedBacklog`.
- A root installed after the initialization finds the list of queue discs empty, and the first
  packet ends the program in the assertion of `Send` (`traffic-control-layer.cc:372`):
  `SetRootQueueDiscOnDevice` accepts a root at any time.  `SendHasDisc` says that the list is
  empty in these states and complete in all others.
- `SetMaxSize` passes the size on and returns true even if the child refuses it, as a
  `PfifoFastQueueDisc` refuses the bytes of a `P4QueueDisc`.
- `PfifoFastQueueDisc::CheckConfig` looks at two of the three queues (`:184`), so that the third
  may be smaller than the limit of the disc; and nothing looks again when the limit is raised.
  `InternalQueuesSuffice` says that these are the only two ways to drop an admitted packet.
- `DoPeek` overrides look at the internal queue only, although `Dequeue` returns a requeued
  packet first (`queue-disc.h:393`: "the next packet the queue discipline will extract").
- A negative rank becomes a priority above all others (`pifo-queue-disc.cc:89`), that is, it
  leaves last; only -1 means that the filter found no match.  `LowestRankFirst` says so
  (`NotAfter`).
- `P4QueueDisc` marks through the item and not through `QueueDisc::Mark` (`:317`), so that no
  statistics show a marked packet; and the packet that leaves the pipeline has no tags.

About RED: `m_count` is documented as counted since the last random number
(`red-queue-disc.h:303`) and counts since the last early drop; `SetTh` after the
initialization leaves `m_vA` to `m_vD` as they were; Feng's rule has no bound on
`m_curMaxP`, and `CheckConfig` only logs when both adaptations are on; `Top` and `Bottom` are
documented as bounds of `m_curMaxP` (`red-queue-disc.cc:158`), but `UpdateMaxP` compares before
it moves, and passes them by less than a step (`MaxPWithinAStep`); a marked packet may still be
dropped by the full internal queue.

About the pipeline: `drop` writes `egress_spec`, which nothing reads, and the requests to
clone, resubmit or recirculate are ignored; `add_header_fast`, `copy_header` and `truncate`
do not tell register 0; a packet that outgrows `MAX_PKT_SIZE` ends the program; the
primitives pass over an index outside its register, counter or meter array only where `NDEBUG` is
not defined (`primitives.cc:287` to `:367`).  No build file here defines it, and the model has
these checks; with it, such an access is undefined.

About the P4 programs:

- `token-bucket.p4:80` compares strictly, so that the bucket of "two 500B packets" (line 15)
  admits one of 500 bytes when it is full, not two.
- `pie.p4`: the probability may exceed `cMaxProb`, which line 42 equates with 1 (only a
  wrapped sum is corrected, lines 162 to 171), and a probability of exactly 1 is traced as 0
  (line 178); the comment on the target says 10 ms where the constant is 20 ms (line 41).
- the `gen_commands.py` of both RED programs scale the slope to 0 .. 1 and not to 0 .. 256:
  between the thresholds the probability is 0, and then it jumps to certainty.
- `red/ewma/red.p4` takes a queue whose size is mapped to 0 for empty, and decays its average
  by the time since `idle_time`, which is that of an earlier idle period when the disc does
  not call itself idle (`p4_idle`).

### Bounds

Four packets let one be in `m_requeued`, one with the device and two in the queue, which is
every combination of places that the code distinguishes; two transmission queues let one
be stopped while the other is not; a quota of two ends runs with and without a backlog.
`UintMod` is 16, above the quota.  Five packets of one or two bytes
and a limit of six make heaps of up to four packets, in which the hole moves through two
levels in both directions, and make the limit refuse some; three priorities make ties.  `PifoQueueDisc` has a limit of three and four
packets, so that one is refused, and ranks from -3 to 1, so that negative ones are compared with
each other and with others.  Arrivals of 1 and 3 bytes and a limit of 5 bytes make the
child drop, two of three flows share a counter of `microburst.p4`, and a flow may exceed its
share of 3 bytes and come back to exactly that; a threshold of 2 bytes makes a dequeue-rate cycle end, and restart, within
the queue.  `MaxTime` (4) allows two timer periods, an idle period of several units and a
latency; it stops time and not the system, and `Packets` bounds the arrivals.  The constants
of `pie.p4` and `red.p4` (`SmallPie`, `SmallRed`) and the width of their words (`Word`) are
scaled down to such queues and times, with every threshold within reach.  This is why
deadlock is not checked where all packets may have left.  The observer of
the token bucket (`window`) starts to measure in any state.

Three packets, of the first and the last band, and limits of up to two let the child, each
queue and the program drop, alone and in turn, with capacities above and below the limit;
sizes of 0 and in the wrong unit are refused.  RED has a queue of five, thresholds of 0 and 3 or computed
ones (1 and 2) that may change at any time, a factor of decrease (`Beta`) of 58/64, close to the
default of 0.9, whole factors in Feng's rule as their defaults are, seven configurations (each differs from the default in one branch of
the algorithm) and a probability of a half at most, so that two to four arrivals lie between
early drops; `MaxCount` (6) is above what `EarlyDropsInTime` allows and stops the counters,
not the behaviour before.  The pipeline has two headers of different sizes, fields of two
bits, which all operations wrap, and three primitives for a packet: enough to write, overwrite
and read, or to add, remove and add again.

### Fairness

`QueueDisc`: a run is a loop of the simulator's only thread and goes on, `NetDevice::Send`
returns (weak fairness of the three outcomes of `Restart` and of `SendReturns`), and a device that stopped a
queue wakes it once it has transmitted, however often it stops it (strong fairness of
`Wake`, because a re-entrant call may disable it in between).  `queue_disc_root` has a quota
that is never used up: with a smaller one the code schedules no further run (a `\todo` in
`Run`) and the rest waits for the next packet, as `NoStrandedBacklog` says.
`TrafficControlLayer` needs weak fairness only, since nothing but `Wake` wakes a queue.

## Proofs

`QueueDiscProofs` proves, for every set of packets and transmission queues and every quota:

- `AccountingInvariant`, the inductive invariant: `PacketTypes`, `OnePlace`, `RelayOrder`,
  `PeekedIsHeld` and `CountersExact` together.  None of them is inductive alone:
  `m_nPackets` stays a natural number because it counts the packets in `internal`, and these
  stay countable because no packet arrives or is extracted twice; a peeked packet is held,
  so that `PacketDequeued` can be owed for one packet at most.
- from it `TypeCorrect`, `NoPacketLost`, `OrderKept` and `StatisticsExact`;
- `HeldPacketIsBlocked`, `BacklogHasWakeup` and `QuotaRespected` (positive quota), each
  with the strengthening of the states within a run;
- `HeaderBeforeSend`, under the assumption that nobody calls `Peek`;
- `QueueDiscImplementsRelay`: every step is a step of `PacketRelay` or a stutter.

`TrafficControlLayerProofs` proves `LayerInvariant` for any number of transmission queues
and any queue discs.  Its parts: before the initialization nothing is queued
(`EmptyBefore`), the list agrees with the callbacks (`WokenIsServed`), every queued packet
belongs to a transmission queue whose wake-up runs its queue disc (`BacklogServed`), and
every queue disc that is not being run waits for a stopped queue (`OthersWait`).
`BacklogIsWoken`, `WokenDiscIsServed` and `LayerTypeCorrect` follow, and `SendFindsDisc`: for every
order in which roots are installed, replaced and deleted, before and after the initialization,
the list that `Send` uses is complete, or empty if the root is one that came late.

`TrafficControlLayerProofs` also proves `OrderPerQueue`, if a root that wakes its children has
one for each transmission queue (`ChildPerQueue`; `traffic-control-layer.cc:117` asserts that
the numbers agree).  `OrderInv` adds to `LayerInvariant` that only one root is in the wake list,
that each backlog keeps the order of arrival within a transmission queue, and that what was
sent precedes what is queued for the same one.

`PifoQueueDiscProofs` proves, for any packets, priorities and limits:

- `PrioTypeCorrect`, `HeapStaysOrdered`: the inductive invariant `PrioInv` says that the array is
  a heap of distinct packets, offered before, which the counters count and the limit allows.
  Pushing and popping are analysed hole by hole: a heap with a hole is a heap but for one edge,
  and each step of the iteration moves that edge up or down a level.
- `PrioQueueIsPifo`, the refinement of `Pifo`: the root of a heap is its least element, so that
  extracting it is a `Leave` of the abstract queue; every other step maps to a step or a stutter;
- `FilterKeepsUp`, `ExtractedInOrder` and `InternalQueueIsPifo` for the queue disc on top;
  `DiscInv` adds that each queued packet has the priority that its rank converts to;
- `LowestRankLeaves`, for ranks of both signs: the conversion to a priority keeps the order of
  ranks of the same sign and puts the negative ones last, which is the order of `NotAfter`.

`QueueDiscTreeProofs` proves `TreeTypeCorrect`, `LayersAlwaysAgree`, `CheckedQueuesSuffice` and
`ServesUrgentFirst` from one inductive invariant for any packets, priorities and limits:

- `Typed`: the records of discs and queues have their types;
- `Accounts`: both discs count what the three queues hold, a peeked packet apart, what entered is
  what left, was dropped or waits, and every layer has the drops, by reason, of the layer below;
- `Contents`: every packet is accepted once, waits in its own band and leaves once;
- `BandsInOrder`: a band holds its packets in the order in which they were accepted;
- `Room`: no queue exceeds its capacity, every limit since the initialization was at most
  `highest`, and the first two queues have room for it unless the limit was raised.

No part is inductive alone: that a removal finds the packet it accounts for needs `Contents`,
that the limit and not the capacity decides needs `Accounts` and `Room`.  `ServesUrgentFirst` is an
action property: whoever is extracted is the first packet of the first band that is not empty,
so that every other packet waits in a less urgent band (`Contents`) or behind it (`BandsInOrder`),
whenever it arrived.

`P4QueueDiscProofs` proves, for every program that keeps its registers in some set, leaves four
trace variables and the length of the packet (`ProgramSafe`): `P4TypeCorrect`, `P4BytesExact` and
`P4IdleIsEmpty`, from `P4Inv`.  Its parts are the queue and its bytes (`Queued`: sizes never change
and no packet is queued twice, without which the sum of the bytes is not kept), the times, the
average (a weighted mean of numbers in the range), the dequeue rate and the timer.  All the
programs here are such programs, so that `ProgramsTypeCorrect`, `ProgramsBytesExact` and
`ProgramsIdleIsEmpty` hold with any of them (`ProgramsLoaded`).  About each program:

- `QsizeTracksQueue` and `MicroburstCountsFlows`, if enqueue and dequeue events are connected
  (`EventsConnected`: a disc that does not connect them leaves the registers behind) and the
  words can count the queue (`MaxSize < DepthMod`, `MaxSize < CountMod`);
- `TokenBucketConforms`, if the disc has a timer (`TimeReference > 0`).  The bound on the window
  is not inductive: `WindowInv` adds that the tokens that are left pay for the rest of it;
- `PieMovesWithLatency`: the theorem `PieFollowsLatency`, if the words of the program hold what
  the controller computes until the end of the simulation (`PieFits`).  Its invariant,
  `PieBounded`, bounds the probability by the number of updates, which `time_next` counts: the
  program itself never bounds it.  Each call updates at most once and by one period, because the events of a
  packet see time 0 and an update moves `time_next` above that.  With the constants of
  `pie.p4` the condition holds for seven minutes of simulated time; it is sufficient, not exact;
- `RedObeysAverage`, if the decay table keeps the average for an idle time of 0
  (`EventsKeepAverage`), as the one that `red/ewma/gen_commands.py` writes by default does.

`P4PipeProofs` proves `PipeTypeCorrect`, `RegisterTellsLength` and `VerdictOfOwnRun` for any
headers and fields and any sequence of primitives.  `PipeInv` adds that a packet has its full
limit unless a truncation was passed over by the register (`Untruncated`), and the ranges: the
rest of a packet is at most `MAX_PKT_SIZE`, so that the length never reaches the modulus of the
register and the subtraction of a removed header never wraps.  This rests on
`LengthAssumption`: `MAX_PKT_SIZE` and all headers together fit in the register.

`RedQueueDiscProofs` proves, for all parameters, every set of attributes and thresholds that
may change at any time:

- `EarlyDropsAreSpaced`.  The inductive invariant `SpacingInv` says that `m_count` and
  `m_countBytes` are at most the numbers of arrivals that the history counts independently
  (`CountsAtMost`), and that nothing was counted before the initialization (`QuietConfig`);
  the early drop itself then follows from `ModifyP`, which answers 0 as long as the count
  times the probability stays below 1, and from the fact that `DropEarly` and the property see
  the same average.
- `AdaptationStaysInRange`: `MaxPWithinAStep`, assuming that Feng's rule is not on as well (the
  configuration that `CheckConfig` logs) and that the initial value is in the range.
- `RedTypeCorrect` and `EarlyDropsComeInTime`.  `TimeInv` adds to the types that `m_count` and
  `m_countBytes` are at least what `DropEarly` has let through in a row (`SparedCounted`): the
  other direction of `CountsAtMost`.  The least probability that is recorded beside them may be
  negative, because `SetTh` leaves `m_vA` to `m_vD` as they were: the proof had to allow for it,
  and the property holds all the same.

`DataProofs` proves what a sum, an iteration and a power are.  The induction theorems of the
library take an operator, which the provers cannot instantiate; `NumberInduction` and
`SubsetInduction` take a set of numbers or of subsets instead, which they can, and from these
follow that a sum over a finite set exists, is unique and changes by the elements that are added
or removed.

The assumptions are the `ASSUME`s of the modules, which TLC evaluates in the runs; the
hypotheses above are those of the single theorems, and the instances of the runs satisfy them.
With this, every invariant, action property and refinement that a passing run checks is also
a theorem.  Only model-checked are the liveness properties `EveryPacketLeaves` and `BacklogLeaves`
(TLAPS does not reason about `ENABLED`, in terms of which fairness is defined).  The findings are
runs of TLC, which shows a counterexample.

## Not modelled

- `Receive` and the protocol handlers of `TrafficControlLayer`: a loop over a list that only
  grows, without a state that the rest of the layer depends on;
- the start of bmv2's switch and of its command-line interface (processes and sockets);
- `afd.p4`: every run samples at random into a shadow buffer of packets and of counters, which
  multiplies the states of `P4QueueDisc` beyond enumeration (a trial with a single slot passed
  7.9 million states); the decay table that `red/ewma/gen_commands.py` computes from
  logarithms is a constant of `Red`;
- `QueueItem` and `QueueDiscItem`, whose fields are fields of the models; getters, the printing
  of statistics, attributes that no branch depends on; the configuration errors that
  `CheckConfig` of `P4QueueDisc` and RED report (configured discs are the initial states);
- bmv2 itself, `NetDevice`, `FifoQueueDisc` and the simulator, which are modelled from how this
  code uses them; `m_idle`, the rate and the events of a `P4QueueDisc` on a device with several
  transmission queues, or over a child that declines to dequeue;
- examples, helpers, plotting, build files.

## Plan

Done, in this order: `QueueDisc` with its abstract specification and proofs; `P4QueueDisc`
and three programs; `PrioQueue` and `PifoQueueDisc`; `TrafficControlLayer` with its proofs;
the size policies and the accounting over layers (`Queue`, `DiscStats`, `QueueDiscTree`);
`RedQueueDisc` with its proofs; `P4Pipe`; `pie.p4` and the RED programs; the proofs about
`PrioQueue`, `PifoQueueDisc`, `P4Pipe`, `P4QueueDisc` and its programs, and `QueueDiscTree`.

To do:

1. Proofs: the exact word length that `pie.p4` needs; bounds of the average and of the counters
   of RED as theorems of their own.
2. `afd.p4` on an abstraction of its shadow buffer.
3. `Receive`: that a packet reaches every matching handler once and in the order of
   registration.
4. A `P4QueueDisc` on a device with several transmission queues.

One run is one question about a component with its full instance.

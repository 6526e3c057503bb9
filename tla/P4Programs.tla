----------------------------- MODULE P4Programs -----------------------------
(***************************************************************************)
(* The queue disc of P4QueueDisc with the programs of the examples, one of *)
(* which is loaded when the disc is created (SimpleP4Pipe's json file),    *)
(* and with a program that drops as it likes.  An observer starts to       *)
(* measure what the token bucket admits at any time.                       *)
(***************************************************************************)
EXTENDS P4QueueDisc, TrackQsize, TokenBucket, Microburst, Pie, Red

VARIABLE window   \* the observer's measurement: the bytes and timer events until its start

programVars == <<vars, window>>

InitAny == [program |-> "any"]

\* A program that may drop any packet.
AnyIngress(reg, m) ==
  {[registers |-> reg, trace |-> m.trace, drop |-> d, len |-> m.pkt_len_bytes] : d \in BOOLEAN}

ProgramRegisters ==
  {InitAny, InitQsize, InitTokens, InitMicroburst, InitPie, InitRed, InitRedEwma}

\* A run of the loaded program: the Pipeline of P4QueueDisc.
ProgramPipeline(reg, m) ==
  CASE reg.program = "any" -> AnyIngress(reg, m)
    [] reg.program = "track-qsize" -> TrackQsizeIngress(reg, m)
    [] reg.program = "token-bucket" -> TokenBucketIngress(reg, m)
    [] reg.program = "microburst" -> MicroburstIngress(reg, m)
    [] reg.program = "pie" -> PieIngress(reg, m)
    [] reg.program = "red" -> RedIngress(reg, m)
    [] reg.program = "red-ewma" -> RedEwmaIngress(reg, m)

Loaded(program) == registers.program = program

\* The timer events that have been executed.
TimerEvents == timerEvent \div TimeReference - 1

ProgramInit == Init /\ window = [bytes |-> 0, events |-> 0]

OpenWindow ==
  /\ Loaded("token-bucket")
  /\ window' = [bytes |-> enqueued, events |-> TimerEvents]
  /\ UNCHANGED vars

ProgramNext == (Next /\ UNCHANGED window) \/ OpenWindow

ProgramSpec == ProgramInit /\ [][ProgramNext]_programVars

-----------------------------------------------------------------------------
\* The register of track-qsize.p4 follows the queue: it is the number of bytes in the
\* queue, and so is the traced variable, although the program only sees events, one run at
\* a time.  The queue is therefore bounded by the threshold and one packet, whatever the
\* limit of the child queue disc.
QsizeIsQueueSize ==
  Loaded("track-qsize") =>
    registers.qsize = nBytes /\ p4Vars[1] = nBytes /\ nBytes <= QTHRESH + LargestPacket

\* In every window of time, however the timer, arrivals and the other events that run the
\* program interleave, token-bucket.p4 admits at most its size and the rate of the window;
\* and from the start, when the bucket is empty, at most what the timer has filled in.
WindowConforms ==
  Loaded("token-bucket") =>
    /\ enqueued - window.bytes <= MAX_TOKENS + FILL_RATE * (TimerEvents - window.events)
    /\ enqueued + registers.tokens <= FILL_RATE * TimerEvents

QueuedOf(f) == {p \in ToSet(queue) : FlowID(FlowOf[p]) = f}

\* The counters of microburst.p4 follow the queue: each is the number of bytes that the
\* flows which share it have in the queue; and num_culprits, only ever incremented and
\* decremented when a flow crosses its share, is the number of counters above it, which
\* m_p4Var1 traces.
FlowCountsExact ==
  Loaded("microburst") =>
    /\ \A f \in FlowIDs : registers.flow_count[f] = TotalSize(QueuedOf(f))
    /\ registers.num_culprits =
         Cardinality({f \in FlowIDs : TotalSize(QueuedOf(f)) > FairShare})
    /\ p4Vars[1] = registers.num_culprits

\* Whenever pie.p4 updates its probability, this moves with the latency, in spite of the
\* unsigned numbers: not up when the latency is at most the target and has not grown, not
\* down when it is at least the target and has not fallen; and once at heavy or more, by
\* at most the two steps that the controller and the non-linear dropping may take.  A call
\* makes up for one period, although it runs the program for the arrival and again for what
\* became of it, and however many periods have passed in silence.
PieFollowsLatency ==
  [][Loaded("pie") /\ registers' # registers =>
       /\ registers'.qdelay <= PIE.target /\ registers'.qdelay <= registers.qdelay
            => registers'.prob <= registers.prob
       /\ registers'.qdelay >= PIE.target /\ registers'.qdelay >= registers.qdelay
            => registers'.prob >= registers.prob
       /\ registers.prob >= PIE.heavy => registers'.prob <= registers.prob + 2 * PIE.step
       /\ registers'.time_next = registers.time_next + PIE.period]_vars

\* The average that the RED programs look up: that of the queue disc, or their own.
RedAverage == IF Loaded("red") THEN MapSize(qAvg, Scale) ELSE registers.avg

\* An arrival moves the average that red/ewma keeps towards the size of the queue, or of an
\* empty queue towards 0, and never past it, in spite of the unsigned differences and of
\* the events that run the program in between; and what both programs drop, of the packets
\* that the queue has room for, their average decides: nothing below the lower threshold,
\* everything above the upper.
RedFollowsAverage ==
  [][(Loaded("red") \/ Loaded("red-ewma")) /\ arrived' # arrived =>
       /\ Loaded("red-ewma") =>
            LET depth == MapSize(nBytes, 1)
            IN  registers'.avg \in Min({depth, registers.avg}) .. Max({depth, registers.avg})
       /\ RedAverage' < RED.minTh =>
            droppedBytes' = droppedBytes \/ received' - received + nBytes > MaxSize
       /\ RedAverage' > RED.maxTh => enqueued' = enqueued]_vars
=============================================================================
